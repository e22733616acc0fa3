----------------------------- MODULE RiskCheck ------------------------------
(***************************************************************************)
(* The risk service: concurrent PreTradeCheck calls share the market cache *)
(* and the circuit breaker around the ledger's balance check; a goroutine  *)
(* refreshes the cache, from a query whose result it installs later.       *)
(*                                                                         *)
(* The breaker's openedUntil is kept as the time that is left, so that the *)
(* clock needs no bound: Closed is the zero time, 0 a cooldown that is     *)
(* over and that no call has noticed.                                      *)
(***************************************************************************)
EXTENDS Integers, FiniteSets

CONSTANTS
    Caller,      \* concurrent calls
    Market,      \* symbols
    Threshold,   \* failures that open the breaker (3 in NewRiskService)
    Cooldown     \* ticks the breaker stays open (30 s)

ASSUME RiskAssumption ==
    /\ IsFiniteSet(Caller) /\ IsFiniteSet(Market)
    /\ Threshold \in Nat \ {0} /\ Cooldown \in Nat \ {0}

Closed == -1

None == "none"

VARIABLES
    status,              \* the markets table; "unknown": no such row
    cached,              \* MarketCache.markets, all active when they were read
    queried,             \* rows of a ListActiveMarkets not yet installed
    failures, opened,    \* circuitBreaker
    up,                  \* is the ledger reachable?
    pc, symbol, denied   \* per call: step, its market, are there denial reasons?

breaker == <<failures, opened>>
cache == <<cached, queried>>
calls == <<pc, symbol, denied>>
vars == <<status, cache, breaker, up, calls>>

Statuses == {"active", "inactive", "unknown"}

Active == {m \in Market : status[m] = "active"}

\* main loads the cache before it serves.
Init ==
    /\ status \in [Market -> Statuses]
    /\ cached = Active /\ queried = {None}
    /\ failures = 0 /\ opened = Closed /\ up = TRUE
    /\ pc = [c \in Caller |-> "idle"]
    /\ symbol \in [Caller -> Market]
    /\ denied = [c \in Caller |-> FALSE]

Goto(c, step) == pc' = [pc EXCEPT ![c] = step]

\* PreTradeCheck begins with valid input (invalid input returns at once).
Begin(c) ==
    /\ pc[c] = "idle" /\ Goto(c, "account")
    /\ \E m \in Market : symbol' = [symbol EXCEPT ![c] = m]
    /\ denied' = [denied EXCEPT ![c] = FALSE]
    /\ UNCHANGED <<status, cache, breaker, up>>

\* An inactive account or a low KYC level is a reason to deny, a failing or
\* empty lookup ends the call.
GetAccountInfo(c) ==
    /\ pc[c] = "account"
    /\ \/ Goto(c, "market") /\ \E d \in BOOLEAN : denied' = [denied EXCEPT ![c] = d]
       \/ Goto(c, "error") /\ UNCHANGED denied
    /\ UNCHANGED <<status, cache, breaker, up, symbol>>

GetMarket(c) ==
    /\ pc[c] = "market"
    /\ \/ /\ symbol[c] \in cached /\ Goto(c, "price") /\ UNCHANGED denied
       \/ /\ symbol[c] \notin cached /\ Goto(c, "price")
          /\ denied' = [denied EXCEPT ![c] = @ \/ symbol[c] \notin Active]
       \/ /\ symbol[c] \notin cached /\ Goto(c, "error") /\ UNCHANGED denied
    /\ UNCHANGED <<status, cache, breaker, up, symbol>>

\* marketBuyReferencePrice may have no price; the other orders need none.
ReferencePrice(c) ==
    /\ pc[c] = "price"
    /\ \/ denied[c] /\ Goto(c, "denied") /\ UNCHANGED denied
       \/ ~ denied[c] /\ Goto(c, "breaker") /\ UNCHANGED denied
       \/ ~ denied[c] /\ Goto(c, "denied") /\ denied' = [denied EXCEPT ![c] = TRUE]
    /\ UNCHANGED <<status, cache, breaker, up, symbol>>

AllowNeverAgain(c) ==
    /\ pc[c] = "breaker"
    /\ IF opened = Closed THEN Goto(c, "call") ELSE Goto(c, "unavailable")
    /\ UNCHANGED <<status, cache, breaker, up, symbol, denied>>

\* After the cooldown the next call resets the breaker.
Allow(c) ==
    /\ pc[c] = "breaker"
    /\ \/ opened = Closed /\ Goto(c, "call") /\ UNCHANGED breaker
       \/ opened = 0 /\ Goto(c, "call") /\ opened' = Closed /\ failures' = 0
       \/ opened > 0 /\ Goto(c, "unavailable") /\ UNCHANGED breaker
    /\ UNCHANGED <<status, cache, up, symbol, denied>>

\* The answer of the ledger; a call may fail while the ledger is up, too.
CheckBalance(c) ==
    /\ pc[c] = "call"
    /\ \/ up /\ Goto(c, "answered")
       \/ Goto(c, "failed")
    /\ UNCHANGED <<status, cache, breaker, up, symbol, denied>>

RecordSuccess(c) ==
    /\ pc[c] = "answered"
    /\ failures' = 0 /\ opened' = Closed
    /\ \/ Goto(c, "allowed") /\ UNCHANGED denied
       \/ Goto(c, "denied") /\ denied' = [denied EXCEPT ![c] = TRUE]
    /\ UNCHANGED <<status, cache, up, symbol>>

RecordFailure(c) ==
    /\ pc[c] = "failed" /\ Goto(c, "error")
    /\ failures' = failures + 1
    /\ opened' = IF failures' >= Threshold THEN Cooldown ELSE opened
    /\ UNCHANGED <<status, cache, up, symbol, denied>>

Return(c) ==
    /\ pc[c] \in {"allowed", "denied", "unavailable", "error"} /\ Goto(c, "idle")
    /\ UNCHANGED <<status, cache, breaker, up, symbol, denied>>

PreTradeCheck(c) ==
    \/ GetAccountInfo(c) \/ GetMarket(c) \/ ReferencePrice(c)
    \/ Allow(c) \/ CheckBalance(c) \/ RecordSuccess(c) \/ RecordFailure(c) \/ Return(c)

\* MarketCache.Load: the query, and the installation under the lock.
ListActiveMarkets ==
    /\ queried = {None} /\ queried' = Active
    /\ UNCHANGED <<status, cached, breaker, up, calls>>

LoadAdds ==
    /\ queried # {None}
    /\ cached' = cached \cup queried /\ queried' = {None}
    /\ UNCHANGED <<status, breaker, up, calls>>

Load ==
    /\ queried # {None}
    /\ cached' = queried /\ queried' = {None}
    /\ UNCHANGED <<status, breaker, up, calls>>

Refresh == ListActiveMarkets \/ Load

Tick ==
    /\ opened > 0 /\ opened' = opened - 1
    /\ UNCHANGED <<status, cache, failures, up, calls>>

SetStatus(m) ==
    /\ \E s \in Statuses \ {status[m]} : status' = [status EXCEPT ![m] = s]
    /\ UNCHANGED <<cache, breaker, up, calls>>

LedgerToggles ==
    /\ up' = ~ up
    /\ UNCHANGED <<status, cache, breaker, calls>>

Next ==
    \/ \E c \in Caller : Begin(c) \/ PreTradeCheck(c)
    \/ Refresh \/ Tick \/ LedgerToggles
    \/ \E m \in Market : SetStatus(m)

\* Calls that have begun go on, the cache is refreshed, and time passes.
Fairness ==
    /\ \A c \in Caller : WF_vars(PreTradeCheck(c))
    /\ WF_vars(Refresh) /\ WF_vars(Tick)

Spec == Init /\ [][Next]_vars /\ Fairness

-----------------------------------------------------------------------------
\* The breaker never stays open, whatever the ledger does: as long as calls
\* reach it, one of them finds the cooldown over, and late failures of calls in
\* flight do not extend it for ever.
BreakerRecovers ==
    (\E c \in Caller : []<>(pc[c] = "breaker")) => []<>(opened = Closed)

\* A market that stays inactive is in the end denied by every check, though the
\* cache does not look at the status and installs old query results.
ClosedMarketIsDenied ==
    \A m \in Market :
        <>[](m \notin Active) =>
            <>[](\A c \in Caller : pc[c] = "allowed" => symbol[c] # m)
=============================================================================
