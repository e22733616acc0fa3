----------------------------- MODULE MCFeeQuote -----------------------------
(***************************************************************************)
(* FeeQuote for TLC: clients that call with any volume, while tiers of one *)
(* rate come and go; or the ledger, for an account without volume, while   *)
(* the rate of its tier changes.                                           *)
(***************************************************************************)
EXTENDS FeeQuote

Bounded ==
    IF client = "others"
    THEN \A m \in DOMAIN table : table[m] = 10
    ELSE /\ DOMAIN table \subseteq {0} /\ changes <= 1
         /\ changes = 0 => table = [m \in {0} |-> 10]
         /\ \A c \in Caller : pc[c] # "idle" => volume[c] = 0
=============================================================================
