------------------------------ MODULE FeeQuote ------------------------------
(***************************************************************************)
(* How the ledger prices a settlement (calculateFee): the maker's and the  *)
(* taker's fee are quoted one after the other by CalculateFees of the fee  *)
(* service, with three attempts each; without an answer the rate of an     *)
(* earlier quote is used, or no fee is taken.                              *)
(*                                                                         *)
(* The fee service is FeeTiers, and the attempts are its callers: one that *)
(* timed out may go on there.  A rate stands for the fee at that rate.     *)
(* Times are in milliseconds.                                              *)
(***************************************************************************)
EXTENDS FeeTiers

CONSTANT Clients   \* who calls the fee service: "ledger", "others", as alternatives

VARIABLES
    client,
    stage,     \* "idle", or whose fee is being quoted: "maker", "taker"
    attempt,
    slot,      \* the call of this attempt, or NoSlot
    spent,     \* time since feeCtx was made
    feeCache   \* feeRateCache of one account: role |-> rate, or NoRate

quote == <<stage, attempt, slot, spent>>
ledger == <<client, quote, feeCache>>
quoteVars == <<vars, ledger>>

Role == {"maker", "taker"}
NoSlot == <<>>
NoRate == 0

FeeTimeout == 3000
AttemptTimeout == 750
MaxAttempts == 3

BackoffDuration(n) == IF n <= 1 THEN 100 ELSE 100 * n

QuoteInit ==
    /\ Init
    /\ client \in Clients
    /\ stage = "idle" /\ attempt = 1 /\ slot = NoSlot /\ spent = 0
    /\ feeCache = [r \in Role |-> NoRate]

\* ApplySettlement, before its transaction.
QuoteFees ==
    /\ client = "ledger" /\ stage = "idle"
    /\ stage' = "maker"
    /\ UNCHANGED <<vars, client, attempt, slot, spent, feeCache>>

Quoted == stage' = "idle" /\ attempt' = 1 /\ spent' = 0

NextFee(d) ==
    IF stage = "maker"
    THEN stage' = "taker" /\ attempt' = 1 /\ spent' = spent + d
    ELSE Quoted

Attempt(c) ==
    /\ stage # "idle" /\ slot = NoSlot /\ spent < FeeTimeout
    /\ pc[c] = "idle" /\ c = CHOOSE d \in Caller : pc[d] = "idle"
    /\ Begin(c)
    /\ slot' = <<c>>
    /\ UNCHANGED <<client, stage, attempt, spent, feeCache>>

Left == IF spent < FeeTimeout THEN FeeTimeout - spent ELSE 0

AttemptTimeIgnoringFeeCtx == AttemptTimeout

\* context.WithTimeout(ctx, 750ms): not longer than feeCtx.
AttemptTime == IF Left < AttemptTimeout THEN Left ELSE AttemptTimeout

\* At once, or just in time.
Answered(c) ==
    /\ slot = <<c>> /\ pc[c] = "done"
    /\ Return(c) /\ slot' = NoSlot
    /\ feeCache' = [feeCache EXCEPT ![stage] = tier[c].rate]
    /\ \E d \in {0, AttemptTime} : NextFee(d)
    /\ UNCHANGED client

\* An error that is not retriable fails the settlement.
Refused(c) ==
    /\ slot = <<c>> /\ pc[c] = "error"
    /\ Return(c) /\ slot' = NoSlot
    /\ Quoted
    /\ UNCHANGED <<client, feeCache>>

\* The service is unavailable, the attempt times out, or feeCtx has expired.
\* After the last attempt the fee is the cached rate, or zero.
Missed ==
    /\ stage # "idle"
    /\ LET d == IF slot = NoSlot THEN 0 ELSE AttemptTime
       IN  IF attempt < MaxAttempts
           THEN /\ attempt' = attempt + 1 /\ spent' = spent + d + BackoffDuration(attempt)
                /\ UNCHANGED stage
           ELSE NextFee(d)
    /\ slot' = NoSlot
    /\ UNCHANGED <<vars, client, feeCache>>

KeepRate(r) == FALSE /\ UNCHANGED quoteVars

\* feeRateCache.get forgets an entry that was not renewed for its time to live.
ExpireRate(r) ==
    /\ feeCache[r] # NoRate
    /\ feeCache' = [feeCache EXCEPT ![r] = NoRate]
    /\ UNCHANGED <<vars, client, quote>>

CalculateFee(c) == Attempt(c) \/ Answered(c) \/ Refused(c)

FeeService ==
    /\ \/ StartAutoRefresh \/ ChangeTable
       \/ \E c \in Caller :
            \/ client = "others" /\ Begin(c)
            \/ ResolveTier(c)
            \/ slot # <<c>> /\ Return(c)
    /\ UNCHANGED ledger

QuoteNext ==
    \/ QuoteFees \/ Missed \/ FeeService
    \/ \E c \in Caller : CalculateFee(c)
    \/ \E r \in Role : ExpireRate(r)

RateChanges(r) == ExpireRate(r) \/ \E c \in Caller : stage = r /\ Answered(c)

\* Calls go on, tickers tick, and entries expire unless they are renewed.
QuoteFairness ==
    /\ \A c \in Caller :
        /\ WF_quoteVars(ResolveTier(c) /\ UNCHANGED ledger)
        /\ WF_quoteVars(Answered(c) \/ Refused(c))
    /\ WF_quoteVars(StartAutoRefresh /\ UNCHANGED ledger)
    /\ \A r \in Role : WF_quoteVars(RateChanges(r))

QuoteSpec == QuoteInit /\ [][QuoteNext]_quoteVars /\ QuoteFairness

-----------------------------------------------------------------------------
\* Quoting both fees, with all retries and timeouts, is over 300 ms after the
\* three seconds of feeCtx at the latest: an expired feeCtx leaves the attempts
\* that are left only their backoff.
QuotingIsBounded ==
    spent + (IF slot = NoSlot THEN 0 ELSE AttemptTime)
        <= FeeTimeout + BackoffDuration(1) + BackoffDuration(2)

\* Old rates die out: when the table is left alone, the rates the ledger falls
\* back to become rates of the table, though the ledger and the fee service
\* both cache, and calls read before the change end after it.
OldRatesDieOut ==
    <>[](\A r \in Role : feeCache[r] # NoRate =>
            \E m \in DOMAIN table : table[m] = feeCache[r])
=============================================================================
