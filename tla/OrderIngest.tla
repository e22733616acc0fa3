----------------------------- MODULE OrderIngest -----------------------------
(***************************************************************************)
(* The order-ingest service (services/order-ingest): concurrent POST and   *)
(* DELETE /orders requests and the consumer of trades.executed, over the   *)
(* orders table, the ledger's reservations and the topics orders.accepted  *)
(* and orders.cancelled.  Every call to the database, the ledger or Kafka  *)
(* is a step of its own and may fail.                                      *)
(*                                                                         *)
(* A POST request draws a new order id, so the request names the order.    *)
(***************************************************************************)
EXTENDS Integers, Sequences, FiniteSets

CONSTANTS
    Request,     \* POST /orders requests of one account, and their order ids
    Client,      \* the client order id (or Idempotency-Key) of each
    Quantity,    \* and its quantity
    Delete,      \* DELETE /orders requests
    Targets,     \* the orders they may be for: alternatives, one order for each
    Excess,      \* trades beyond the quantity: a restarted engine may match again
    MaxFaults    \* bound: failing calls and crashes

ASSUME IngestAssumption ==
    /\ Quantity \in [Request -> Nat \ {0}]
    /\ Targets \subseteq [Delete -> Request]
    /\ Excess \in Nat /\ MaxFaults \in Nat

VARIABLES
    pc, answer,        \* each POST: the next call, and what the client was told
    dpc, target,       \* each DELETE: the next call, and its order
    status, filled,    \* the orders table ("none": no row)
    reservation,       \* the ledger: "none", "active" or "released"
    accepted,          \* orders on orders.accepted
    cancelled,         \* orders on orders.cancelled
    tape,              \* trades.executed: sequence of [maker, taker, quantity]
    read, release,     \* trade consumer: messages done, orders left to release
    processed,         \* processed_events: positions on the tape
    faults

requests == <<pc, answer>>
deletes == <<dpc, target>>
orders == <<status, filled>>
topics == <<accepted, cancelled>>
consumer == <<read, release, processed>>
vars == <<requests, deletes, orders, reservation, topics, tape, consumer, faults>>

Init ==
    /\ pc = [r \in Request |-> "lookup"] /\ answer = [r \in Request |-> "none"]
    /\ dpc = [d \in Delete |-> "cancel"] /\ target \in Targets
    /\ status = [r \in Request |-> "none"] /\ filled = [r \in Request |-> 0]
    /\ reservation = [r \in Request |-> "none"]
    /\ accepted = {} /\ cancelled = {}
    /\ tape = <<>> /\ read = 0 /\ release = {} /\ processed = {}
    /\ faults = 0

Fault == faults < MaxFaults /\ faults' = faults + 1

\* The row CreateOrder conflicts with, or GetOrderByClientID finds.
SameKey(r) == {q \in Request : status[q] # "none" /\ Client[q] = Client[r]}

ResponseStatus(st) == IF st \in {"pending", "open"} THEN "accepted" ELSE st

Goto(r, step) == pc' = [pc EXCEPT ![r] = step] /\ UNCHANGED answer

Reply(r, what) ==
    /\ pc' = [pc EXCEPT ![r] = "done"]
    /\ answer' = [answer EXCEPT ![r] = what]

-----------------------------------------------------------------------------
(***************************************************************************)
(* SubmitOrder.                                                            *)
(***************************************************************************)
Lookup(r) ==
    /\ pc[r] = "lookup"
    /\ IF SameKey(r) = {} THEN Goto(r, "risk")
       ELSE \E q \in SameKey(r) : Reply(r, ResponseStatus(status[q]))
    /\ UNCHANGED <<deletes, orders, reservation, topics, tape, consumer, faults>>

PreTradeCheck(r) ==
    /\ pc[r] = "risk"
    /\ \/ (Goto(r, "reserve") \/ Goto(r, "reject")) /\ UNCHANGED faults
       \/ Reply(r, "error") /\ Fault
    /\ UNCHANGED <<deletes, orders, reservation, topics, tape, consumer>>

\* checkLedgerBalance: reserved; refused by the ledger; no reference price for
\* a market order; or an error, after which the ledger may have reserved.
Reserve(r) ==
    /\ pc[r] = "reserve"
    /\ LET Reserved == [reservation EXCEPT ![r] = "active"]
       IN  \/ Goto(r, "create") /\ reservation' = Reserved /\ UNCHANGED faults
           \/ Goto(r, "reject") /\ UNCHANGED <<reservation, faults>>
           \/ Reply(r, "error") /\ UNCHANGED <<reservation, faults>>
           \/ Reply(r, "error") /\ reservation' \in {reservation, Reserved} /\ Fault
    /\ UNCHANGED <<deletes, orders, topics, tape, consumer>>

\* INSERT ... ON CONFLICT (client_order_id, account_id) DO NOTHING
Inserted(r, st) ==
    IF SameKey(r) = {} THEN [status EXCEPT ![r] = st] ELSE status

\* The risk service or the ledger refused: a rejected row, or the row there is.
CreateRejected(r) ==
    /\ pc[r] = "reject"
    /\ \/ Reply(r, "rejected") /\ status' = Inserted(r, "rejected") /\ UNCHANGED faults
       \/ Reply(r, "error") /\ status' \in {status, Inserted(r, "rejected")} /\ Fault
    /\ UNCHANGED <<deletes, filled, reservation, topics, tape, consumer>>

CreateTwice(r) ==
    /\ pc[r] = "create"
    /\ status' = [status EXCEPT ![r] = "pending"]
    /\ Goto(r, "publish")
    /\ UNCHANGED <<deletes, filled, reservation, topics, tape, consumer, faults>>

CreateKeepsReservation(r) ==
    /\ pc[r] = "create"
    /\ status' = Inserted(r, "pending")
    /\ IF SameKey(r) = {} THEN Goto(r, "publish")
       ELSE \E q \in SameKey(r) : Reply(r, ResponseStatus(status[q]))
    /\ UNCHANGED <<deletes, filled, reservation, topics, tape, consumer, faults>>

\* Created, found, or an error, after which the row may be there.
Create(r) ==
    /\ pc[r] = "create"
    /\ \/ /\ SameKey(r) = {}
          /\ status' = Inserted(r, "pending")
          /\ Goto(r, "publish") /\ UNCHANGED faults
       \/ /\ \E q \in SameKey(r) :
                answer' = [answer EXCEPT ![r] = ResponseStatus(status[q])]
          /\ pc' = [pc EXCEPT ![r] = "release"] /\ UNCHANGED <<status, faults>>
       \/ /\ status' \in {status, Inserted(r, "pending")}
          /\ answer' = [answer EXCEPT ![r] = "error"]
          /\ pc' = [pc EXCEPT ![r] = "release"] /\ Fault
    /\ UNCHANGED <<deletes, filled, reservation, topics, tape, consumer>>

\* ReleaseBalance: NotFound and a second release are no errors.  After an
\* error the ledger may have released.
Released(o) ==
    [reservation EXCEPT ![o] = IF @ = "active" THEN "released" ELSE @]

\* The order was not created: its reservation is released before the answer.
ReleaseUnused(r) ==
    /\ pc[r] = "release"
    /\ \/ reservation' = Released(r) /\ Reply(r, answer[r]) /\ UNCHANGED faults
       \/ reservation' \in {reservation, Released(r)} /\ Reply(r, "error") /\ Fault
    /\ UNCHANGED <<deletes, orders, topics, tape, consumer>>

\* A failing publish is only logged.
PublishAccepted(r) ==
    /\ pc[r] = "publish"
    /\ Reply(r, "accepted")
    /\ \/ accepted' = accepted \cup {r} /\ UNCHANGED faults
       \/ UNCHANGED accepted /\ Fault
    /\ UNCHANGED <<deletes, orders, reservation, cancelled, tape, consumer>>

-----------------------------------------------------------------------------
(***************************************************************************)
(* CancelOrder.  An order that is cancelled already is released, published *)
(* and answered again.                                                     *)
(***************************************************************************)
DGoto(d, step) == dpc' = [dpc EXCEPT ![d] = step]

Cancellable(o) == status[o] \in {"pending", "open"}

ReleaseThenCancel(d) ==
    /\ dpc[d] = "cancel" /\ Cancellable(target[d])
    /\ reservation' = Released(target[d])
    /\ DGoto(d, "release")
    /\ UNCHANGED <<requests, target, orders, topics, tape, consumer, faults>>

Cancel(d) ==
    /\ dpc[d] = "cancel"
    /\ LET o == target[d]
           Cancelled == [status EXCEPT ![o] = "cancelled"]
       IN  \/ Cancellable(o) /\ status' = Cancelled /\ DGoto(d, "release") /\ UNCHANGED faults
           \/ Cancellable(o) /\ status' \in {status, Cancelled} /\ DGoto(d, "done") /\ Fault
           \/ status[o] = "cancelled"
              /\ DGoto(d, "release") /\ UNCHANGED <<status, faults>>
           \/ status[o] \in {"filled", "rejected"}
              /\ DGoto(d, "done") /\ UNCHANGED <<status, faults>>
    /\ UNCHANGED <<requests, target, filled, reservation, topics, tape, consumer>>

ReleaseCancelled(d) ==
    /\ dpc[d] = "release"
    /\ \/ reservation' = Released(target[d]) /\ DGoto(d, "publish") /\ UNCHANGED faults
       \/ reservation' \in {reservation, Released(target[d])} /\ DGoto(d, "done") /\ Fault
    /\ UNCHANGED <<requests, target, orders, topics, tape, consumer>>

PublishCancelled(d) ==
    /\ dpc[d] = "publish"
    /\ DGoto(d, "done")
    /\ \/ cancelled' = cancelled \cup {target[d]} /\ UNCHANGED faults
       \/ UNCHANGED cancelled /\ Fault
    /\ UNCHANGED <<requests, target, orders, reservation, accepted, tape, consumer>>

-----------------------------------------------------------------------------
(***************************************************************************)
(* The matching engine executes trades of accepted orders; it may not have *)
(* read a cancellation yet.                                                *)
(***************************************************************************)
Parties(t) == {t.maker, t.taker}

TradesOf(o, positions) == {i \in positions : o \in Parties(tape[i])}

Execute(m, k) ==
    /\ m # k
    /\ \A o \in {m, k} : o \in accepted
                         /\ Cardinality(TradesOf(o, DOMAIN tape)) < Quantity[o] + Excess
    /\ tape' = Append(tape, [maker |-> m, taker |-> k, quantity |-> 1])
    /\ UNCHANGED <<requests, deletes, orders, reservation, topics, consumer, faults>>

-----------------------------------------------------------------------------
(***************************************************************************)
(* TradeConsumer.HandleMessage: ApplyTradeExecution is one transaction,    *)
(* then ReleaseBalance for every order that is filled now.  An error ends  *)
(* the attempt; the message is read again or, once a later one is marked,  *)
(* never (KafkaConsumer).                                                  *)
(***************************************************************************)
UpdatableAny(o) == status[o] # "none"

Updatable(o) == status[o] \in {"pending", "open", "filled"}

NewFilled(o, t) ==
    IF filled[o] + t.quantity > Quantity[o] THEN Quantity[o] ELSE filled[o] + t.quantity

NeverProcessed(i) == FALSE

AlreadyProcessed(i) == i \in processed

Applicable(i) == ~ AlreadyProcessed(i) /\ \A o \in Parties(tape[i]) : Updatable(o)

\* The transaction's updates.
Applied(i) ==
    LET t == tape[i]
    IN  /\ filled' = [o \in Request |->
                        IF o \in Parties(t) THEN NewFilled(o, t) ELSE filled[o]]
        /\ status' = [o \in Request |->
                        IF o \notin Parties(t) THEN status[o]
                        ELSE IF NewFilled(o, t) = Quantity[o] THEN "filled" ELSE "open"]
        /\ processed' = processed \cup {i}

NewlyFilledFromOpen(i) ==
    {o \in Parties(tape[i]) : NewFilled(o, tape[i]) = Quantity[o] /\ status[o] = "open"}

\* FilledOrderIDs
NewlyFilled(i) ==
    {o \in Parties(tape[i]) : NewFilled(o, tape[i]) = Quantity[o] /\ status[o] # "filled"}

ApplyTradeExecution ==
    /\ read < Len(tape) /\ release = {}
    /\ Applicable(read + 1) /\ Applied(read + 1)
    /\ release' = NewlyFilled(read + 1)
    /\ read' = IF release' = {} THEN read + 1 ELSE read
    /\ UNCHANGED <<requests, deletes, reservation, topics, tape, faults>>

SkipTrade ==
    /\ read < Len(tape) /\ release = {}
    /\ ~ Applicable(read + 1)
    /\ read' = read + 1
    /\ UNCHANGED <<requests, deletes, orders, reservation, topics, tape, release,
                   processed, faults>>

\* The database fails, perhaps after the commit.
TradeFails ==
    /\ read < Len(tape) /\ release = {}
    /\ \/ UNCHANGED <<orders, processed>>
       \/ Applicable(read + 1) /\ Applied(read + 1)
    /\ read' \in {read, read + 1}
    /\ Fault
    /\ UNCHANGED <<requests, deletes, reservation, topics, tape, release>>

\* A rebalance or a restart before the offset is committed.
RedeliverTrade ==
    /\ release = {} /\ read > 0
    /\ Fault
    /\ read' = read - 1
    /\ UNCHANGED <<requests, deletes, orders, reservation, topics, tape, release, processed>>

ReleaseFilled(o) ==
    /\ o \in release
    /\ \/ /\ reservation' = Released(o) /\ UNCHANGED faults
          /\ release' = release \ {o}
          /\ read' = IF release' = {} THEN read + 1 ELSE read
       \/ /\ reservation' \in {reservation, Released(o)} /\ Fault
          /\ release' = {}
          /\ read' \in {read, read + 1}
    /\ UNCHANGED <<requests, deletes, orders, topics, tape, processed>>

-----------------------------------------------------------------------------
\* The process ends: requests in flight are never answered, and the trade
\* consumer forgets what it had to release.
Crash ==
    /\ Fault
    /\ pc' = [r \in Request |-> IF pc[r] = "lookup" THEN "lookup" ELSE "done"]
    /\ dpc' = [d \in Delete |-> IF dpc[d] = "cancel" THEN "cancel" ELSE "done"]
    /\ release' = {}
    /\ UNCHANGED <<answer, target, orders, reservation, topics, tape, read, processed>>

Submit(r) ==
    \/ Lookup(r) \/ PreTradeCheck(r) \/ Reserve(r) \/ CreateRejected(r)
    \/ Create(r) \/ ReleaseUnused(r) \/ PublishAccepted(r)

CancelOrder(d) == Cancel(d) \/ ReleaseCancelled(d) \/ PublishCancelled(d)

HandleTrade ==
    ApplyTradeExecution \/ SkipTrade \/ \E o \in release : ReleaseFilled(o)

Next ==
    \/ \E r \in Request : Submit(r)
    \/ \E d \in Delete : CancelOrder(d)
    \/ \E m, k \in Request : Execute(m, k)
    \/ HandleTrade \/ TradeFails \/ RedeliverTrade \/ Crash

\* Every request has a goroutine, and the consumer runs while there are trades.
Spec ==
    /\ Init /\ [][Next]_vars
    /\ \A r \in Request : WF_vars(Submit(r))
    /\ \A d \in Delete : WF_vars(CancelOrder(d))
    /\ WF_vars(HandleTrade)

-----------------------------------------------------------------------------
\* Types; a row's filled quantity is within its quantity.
TypeOK ==
    /\ status \in [Request -> {"none", "pending", "open", "filled", "cancelled", "rejected"}]
    /\ filled \in [Request -> Nat] /\ \A r \in Request : filled[r] <= Quantity[r]
    /\ reservation \in [Request -> {"none", "active", "released"}]
    /\ accepted \subseteq Request /\ cancelled \subseteq Request
    /\ target \in [Delete -> Request]
    /\ release \subseteq Request
    /\ faults \in 0 .. MaxFaults

\* Requests with one client order id, however they interleave and fail, put at
\* most one order in front of the matching engine.
OneOrderPerKey ==
    \A r, q \in accepted : Client[r] = Client[q] => r = q

\* An order the matching engine may execute and that is open in the table has
\* its funds reserved: nobody releases before the row is cancelled or filled.
OpenIsFunded ==
    \A o \in accepted : status[o] \in {"pending", "open"} => reservation[o] = "active"

\* However often a trade is delivered, it is applied to both orders once, and
\* trades beyond an order's quantity add nothing.
AppliedOnce ==
    \A o \in Request :
        LET n == Cardinality(TradesOf(o, processed))
        IN  filled[o] = IF n > Quantity[o] THEN Quantity[o] ELSE n

\* A filled, cancelled or rejected order stays so, and a fill is never undone.
TerminalStays ==
    [][\A o \in Request :
        /\ status[o] \in {"filled", "cancelled", "rejected"} => status'[o] = status[o]
        /\ filled'[o] >= filled[o]]_vars

\* Without faults no reservation is left behind: when its request has been
\* answered, only an open order or one about to be released holds funds.
NoLeak ==
    faults = 0 => \A r \in Request :
        pc[r] = "done" /\ reservation[r] = "active" =>
            \/ status[r] \in {"pending", "open"}
            \/ r \in release
            \/ \E d \in Delete : target[d] = r /\ dpc[d] = "release"

\* The funds of a filled or cancelled order are released, unless a fault comes
\* before that.
FundsFreed ==
    \A r \in Request :
        status[r] \in {"filled", "cancelled"} ~> reservation[r] = "released" \/ faults > 0
=============================================================================
