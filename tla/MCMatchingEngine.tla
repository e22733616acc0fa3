-------------------------- MODULE MCMatchingEngine --------------------------
(***************************************************************************)
(* MatchingEngine for TLC: a bid that two asks of another account at two   *)
(* prices can fill, more than completely.                                  *)
(***************************************************************************)
EXTENDS MatchingEngine, TLC

CONSTANTS ann, bea, ask, bid, ask2

MCAccount == {ann, bea, NoAccount}
MCOrder == {ask, ask2, bid}

Limit(account, side, price, quantity) ==
    [account |-> account, side |-> side, type |-> "limit", price |-> price,
     quantity |-> quantity, tif |-> "GTC"]

MCInfo ==
    ask :> Limit(ann, "sell", 1, 1) @@ ask2 :> Limit(ann, "sell", 2, 2)
    @@ bid :> Limit(bea, "buy", 2, 2)

Budget(cancel, rebalance, publish, crash, snapshots) ==
    [cancel |-> cancel, rebalance |-> rebalance, publish |-> publish,
     crash |-> crash, snapshot |-> snapshots]

\* Cancellations and redeliveries, or one fault of each kind.
SafetyBudgets == {Budget(2, 2, 0, 0, 0), Budget(1, 0, 1, 1, 1)}
=============================================================================
