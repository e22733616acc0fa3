-------------------------- MODULE OrderIngestProofs --------------------------
(***************************************************************************)
(* Proofs about OrderIngest for any set of requests and any number of      *)
(* faults.                                                                 *)
(*                                                                         *)
(* That a published open order is funded is not inductive: its reservation *)
(* is released by whoever finds it cancelled or filled, so the invariant   *)
(* relates what a request, a cancellation and the trade consumer are about *)
(* to do with the row they have seen before.                               *)
(***************************************************************************)
EXTENDS OrderIngest, FiniteSetTheorems, TLAPS

Steps == {"lookup", "risk", "reserve", "reject", "create", "release", "publish", "done"}

Statuses == {"none", "pending", "open", "filled", "cancelled", "rejected"}

Trade == [maker : Request, taker : Request, quantity : {1}]

\* The types the steps below use, the request counters included.
Types ==
    /\ pc \in [Request -> Steps]
    /\ dpc \in [Delete -> {"cancel", "release", "publish", "done"}]
    /\ target \in [Delete -> Request]
    /\ status \in [Request -> Statuses]
    /\ filled \in [Request -> Nat] /\ \A r \in Request : filled[r] <= Quantity[r]
    /\ reservation \in [Request -> {"none", "active", "released"}]
    /\ accepted \subseteq Request /\ cancelled \subseteq Request
    /\ tape \in Seq(Trade)
    /\ read \in Nat /\ release \subseteq Request
    /\ faults \in 0 .. MaxFaults

\* The unique index of the orders table.
UniqueKeys ==
    \A r, q \in Request :
        status[r] # "none" /\ status[q] # "none" /\ Client[r] = Client[q] => r = q

\* A request has no row before CreateOrder.
NoRowYet ==
    \A r \in Request :
        pc[r] \in {"lookup", "risk", "reserve", "reject", "create"} => status[r] = "none"

\* Only a finished request's order is on the topic, and it has a row.
PublishedLast ==
    \A r \in accepted : pc[r] = "done" /\ status[r] # "none"

\* From the reservation to the release a created order is funded while open.
Funded(r) ==
    /\ pc[r] = "create" => reservation[r] = "active"
    /\ pc[r] = "publish" => status[r] # "none"
    /\ pc[r] = "publish" \/ r \in accepted =>
          (status[r] \in {"pending", "open"} => reservation[r] = "active")

FundedOrders == \A r \in Request : Funded(r)

\* Who is about to release has seen the order cancelled or filled.
ReleasersSaw ==
    /\ \A d \in Delete : dpc[d] = "release" => status[target[d]] = "cancelled"
    /\ \A r \in release : status[r] = "filled"

FilledIsFull == \A r \in Request : status[r] = "filled" => filled[r] = Quantity[r]

\* The engine trades published orders only.
TapeOfPublished == \A i \in 1 .. Len(tape) : Parties(tape[i]) \subseteq accepted

IngestInv ==
    /\ Types /\ UniqueKeys /\ NoRowYet /\ PublishedLast /\ FundedOrders
    /\ ReleasersSaw /\ FilledIsFull /\ TapeOfPublished

\* The initial state satisfies the invariant.
LEMMA InitInv == Init => IngestInv
BY IngestAssumption
DEF Init, IngestInv, Types, UniqueKeys, NoRowYet, PublishedLast, FundedOrders, Funded,
    ReleasersSaw, FilledIsFull, TapeOfPublished, Steps, Statuses, Trade

\* A step that touches neither the requests nor the rows keeps the invariant.
LEMMA RowsUnchanged ==
    ASSUME IngestInv, UNCHANGED <<requests, deletes, orders, reservation, topics>>,
           tape' \in Seq(Trade), TapeOfPublished', read' \in Nat,
           release' \subseteq release, faults' \in 0 .. MaxFaults
    PROVE  IngestInv'
<1>1. UNCHANGED <<pc, dpc, target, status, filled, reservation, accepted, cancelled>>
  BY DEF requests, deletes, orders, topics
<1>2. Types'
  BY <1>1 DEF IngestInv, Types
<1>3. UniqueKeys' /\ NoRowYet' /\ PublishedLast'
  BY <1>1 DEF IngestInv, UniqueKeys, NoRowYet, PublishedLast
<1>4. FundedOrders' /\ ReleasersSaw' /\ FilledIsFull'
  BY <1>1 DEF IngestInv, FundedOrders, Funded, ReleasersSaw, FilledIsFull
<1> QED  BY <1>2, <1>3, <1>4 DEF IngestInv

\* Lookup keeps the invariant.
LEMMA LookupInv ==
    ASSUME IngestInv, NEW r \in Request, Lookup(r)
    PROVE  IngestInv'
<1> USE DEF Lookup, Goto, Reply, requests, deletes, orders, topics, consumer, IngestInv
<1>1. Types'
  BY IngestAssumption DEF Types, Steps, Statuses
<1>2. UniqueKeys'
  BY DEF Types, Statuses, UniqueKeys
<1>3. NoRowYet'
  BY DEF Types, NoRowYet
<1>4. PublishedLast'
  BY DEF Types, PublishedLast
<1>5. FundedOrders'
  BY DEF Types, FundedOrders, Funded, PublishedLast, NoRowYet, ReleasersSaw
<1>6. ReleasersSaw'
  BY DEF Types, ReleasersSaw
<1>7. FilledIsFull'
  BY DEF Types, FilledIsFull
<1>8. TapeOfPublished'
  BY DEF TapeOfPublished
<1> QED  BY <1>1, <1>2, <1>3, <1>4, <1>5, <1>6, <1>7, <1>8

\* PreTradeCheck keeps the invariant.
LEMMA PreTradeCheckInv ==
    ASSUME IngestInv, NEW r \in Request, PreTradeCheck(r)
    PROVE  IngestInv'
<1> USE DEF PreTradeCheck, Goto, Reply, Fault, requests, deletes, orders, topics, consumer, IngestInv
<1>1. Types'
  <2>1. faults' \in 0 .. MaxFaults
    BY IngestAssumption DEF Types
  <2>2. pc' \in [Request -> Steps]
    <3>1. \E x \in {"reserve", "reject", "done"} : pc' = [pc EXCEPT ![r] = x]
      OBVIOUS
    <3>2. pc \in [Request -> Steps]
      BY DEF Types
    <3> QED  BY ONLY <3>1, <3>2 DEF Steps
  <2> QED  BY <2>1, <2>2 DEF Types
<1>2. UniqueKeys'
  BY DEF Types, Statuses, UniqueKeys
<1>3. NoRowYet'
  BY DEF Types, NoRowYet
<1>4. PublishedLast'
  BY DEF Types, PublishedLast
<1>5. FundedOrders'
  BY DEF Types, FundedOrders, Funded, PublishedLast, NoRowYet, ReleasersSaw
<1>6. ReleasersSaw'
  BY DEF Types, ReleasersSaw
<1>7. FilledIsFull'
  BY DEF Types, FilledIsFull
<1>8. TapeOfPublished'
  BY DEF TapeOfPublished
<1> QED  BY <1>1, <1>2, <1>3, <1>4, <1>5, <1>6, <1>7, <1>8

\* Reserve keeps the invariant.
LEMMA ReserveInv ==
    ASSUME IngestInv, NEW r \in Request, Reserve(r)
    PROVE  IngestInv'
<1> USE DEF Reserve, Goto, Reply, Fault, requests, deletes, orders, topics, consumer, IngestInv
<1>1. Types'
  <2>1. faults' \in 0 .. MaxFaults
    BY IngestAssumption DEF Types
  <2>2. pc' \in [Request -> Steps]
    <3>1. \E x \in {"create", "reject", "done"} : pc' = [pc EXCEPT ![r] = x]
      OBVIOUS
    <3> QED  BY <3>1 DEF Types, Steps
  <2>3. reservation' \in [Request -> {"none", "active", "released"}]
    BY DEF Types
  <2> QED  BY <2>1, <2>2, <2>3 DEF Types
<1>2. UniqueKeys'
  BY DEF Types, Statuses, UniqueKeys
<1>3. NoRowYet'
  BY DEF Types, NoRowYet
<1>4. PublishedLast'
  BY DEF Types, PublishedLast
<1>5. FundedOrders'
  BY DEF Types, FundedOrders, Funded, PublishedLast, NoRowYet, ReleasersSaw
<1>6. ReleasersSaw'
  BY DEF Types, ReleasersSaw
<1>7. FilledIsFull'
  BY DEF Types, FilledIsFull
<1>8. TapeOfPublished'
  BY DEF TapeOfPublished
<1> QED  BY <1>1, <1>2, <1>3, <1>4, <1>5, <1>6, <1>7, <1>8

\* CreateRejected keeps the invariant.
LEMMA CreateRejectedInv ==
    ASSUME IngestInv, NEW r \in Request, CreateRejected(r)
    PROVE  IngestInv'
<1> USE DEF CreateRejected, Inserted, SameKey, Reply, Fault, requests, deletes, orders, topics, consumer, IngestInv
<1>1. Types'
  <2>1. faults' \in 0 .. MaxFaults
    BY IngestAssumption DEF Types
  <2>2. pc' \in [Request -> Steps]
    BY DEF Types, Steps
  <2>3. status' \in [Request -> Statuses]
    BY DEF Types, Statuses
  <2> QED  BY <2>1, <2>2, <2>3 DEF Types
<1>2. UniqueKeys'
  <2>1. CASE status' = status
    BY <2>1 DEF UniqueKeys
  <2>2. CASE SameKey(r) = {} /\ status' = [status EXCEPT ![r] = "rejected"]
    BY <2>2 DEF Types, UniqueKeys
  <2> QED  BY <2>1, <2>2
<1>3. NoRowYet'
  BY DEF Types, NoRowYet
<1>4. PublishedLast'
  BY DEF Types, PublishedLast
<1>5. FundedOrders'
  BY DEF Types, FundedOrders, Funded, PublishedLast, NoRowYet, ReleasersSaw
<1>6. ReleasersSaw'
  BY DEF Types, ReleasersSaw
<1>7. FilledIsFull'
  BY DEF Types, FilledIsFull
<1>8. TapeOfPublished'
  BY DEF TapeOfPublished
<1> QED  BY <1>1, <1>2, <1>3, <1>4, <1>5, <1>6, <1>7, <1>8

\* Create keeps the invariant.
LEMMA CreateInv ==
    ASSUME IngestInv, NEW r \in Request, Create(r)
    PROVE  IngestInv'
<1> USE DEF Create, Inserted, SameKey, Goto, Fault, requests, deletes, orders, topics, consumer, IngestInv
<1>1. Types'
  <2>1. faults' \in 0 .. MaxFaults
    BY IngestAssumption DEF Types
  <2>2. pc' \in [Request -> Steps]
    <3>1. \E x \in {"publish", "release"} : pc' = [pc EXCEPT ![r] = x]
      OBVIOUS
    <3>2. pc \in [Request -> Steps]
      BY DEF Types
    <3> QED  BY ONLY <3>1, <3>2 DEF Steps
  <2>3. status' \in [Request -> Statuses]
    BY DEF Types, Statuses
  <2> QED  BY <2>1, <2>2, <2>3 DEF Types
<1>2. UniqueKeys'
  BY DEF Types, Statuses, UniqueKeys
<1>3. NoRowYet'
  BY DEF Types, NoRowYet
<1>4. PublishedLast'
  BY DEF Types, PublishedLast
<1>5. FundedOrders'
  BY DEF Types, FundedOrders, Funded, PublishedLast, NoRowYet, ReleasersSaw
<1>6. ReleasersSaw'
  BY DEF Types, ReleasersSaw
<1>7. FilledIsFull'
  BY DEF Types, FilledIsFull
<1>8. TapeOfPublished'
  BY DEF TapeOfPublished
<1> QED  BY <1>1, <1>2, <1>3, <1>4, <1>5, <1>6, <1>7, <1>8

\* ReleaseUnused keeps the invariant.
LEMMA ReleaseUnusedInv ==
    ASSUME IngestInv, NEW r \in Request, ReleaseUnused(r)
    PROVE  IngestInv'
<1> USE DEF ReleaseUnused, Released, Reply, Fault, requests, deletes, orders, topics, consumer, IngestInv
<1>1. Types'
  <2>1. faults' \in 0 .. MaxFaults
    BY IngestAssumption DEF Types
  <2>2. pc' \in [Request -> Steps]
    BY DEF Types, Steps
  <2>3. reservation' \in [Request -> {"none", "active", "released"}]
    BY DEF Types
  <2> QED  BY <2>1, <2>2, <2>3 DEF Types
<1>2. UniqueKeys'
  BY DEF Types, Statuses, UniqueKeys
<1>3. NoRowYet'
  BY DEF Types, NoRowYet
<1>4. PublishedLast'
  BY DEF Types, PublishedLast
<1>5. FundedOrders'
  BY DEF Types, FundedOrders, Funded, PublishedLast, NoRowYet, ReleasersSaw
<1>6. ReleasersSaw'
  BY DEF Types, ReleasersSaw
<1>7. FilledIsFull'
  BY DEF Types, FilledIsFull
<1>8. TapeOfPublished'
  BY DEF TapeOfPublished
<1> QED  BY <1>1, <1>2, <1>3, <1>4, <1>5, <1>6, <1>7, <1>8

\* PublishAccepted keeps the invariant.
LEMMA PublishAcceptedInv ==
    ASSUME IngestInv, NEW r \in Request, PublishAccepted(r)
    PROVE  IngestInv'
BY IngestAssumption
DEF PublishAccepted, Reply, Fault, requests, deletes, orders, topics, consumer,
    IngestInv, Types, UniqueKeys, NoRowYet, PublishedLast, FundedOrders, Funded,
    ReleasersSaw, FilledIsFull, TapeOfPublished, Steps, Statuses

\* Cancel keeps the invariant.
LEMMA CancelInv ==
    ASSUME IngestInv, NEW d \in Delete, Cancel(d)
    PROVE  IngestInv'
<1> USE DEF Cancel, Cancellable, DGoto, Fault, requests, deletes, orders, topics, consumer, IngestInv
<1>1. Types'
  <2>1. faults' \in 0 .. MaxFaults
    BY IngestAssumption DEF Types
  <2>2. dpc' \in [Delete -> {"cancel", "release", "publish", "done"}]
    <3>1. \E x \in {"release", "done"} : dpc' = [dpc EXCEPT ![d] = x]
      OBVIOUS
    <3>2. dpc \in [Delete -> {"cancel", "release", "publish", "done"}]
      BY DEF Types
    <3> QED  BY ONLY <3>1, <3>2
  <2>3. status' \in [Request -> Statuses]
    <3>1. \/ status' = status
          \/ status' = [status EXCEPT ![target[d]] = "cancelled"]
      OBVIOUS
    <3> HIDE DEF Cancel
    <3> QED  BY <3>1 DEF Types, Statuses
  <2> QED  BY <2>1, <2>2, <2>3 DEF Types
<1>2. UniqueKeys'
  BY DEF Types, Statuses, UniqueKeys
<1>3. NoRowYet'
  <2>1. \/ status' = status
        \/ /\ status' = [status EXCEPT ![target[d]] = "cancelled"]
           /\ status[target[d]] # "none"
    OBVIOUS
  <2> QED  BY <2>1 DEF Types, NoRowYet
<1>4. PublishedLast'
  BY DEF Types, PublishedLast
<1>5. FundedOrders'
  BY DEF Types, FundedOrders, Funded, PublishedLast, NoRowYet, ReleasersSaw
<1>6. ReleasersSaw'
  BY DEF Types, ReleasersSaw
<1>7. FilledIsFull'
  BY DEF Types, FilledIsFull
<1>8. TapeOfPublished'
  BY DEF TapeOfPublished
<1> QED  BY <1>1, <1>2, <1>3, <1>4, <1>5, <1>6, <1>7, <1>8

\* ReleaseCancelled keeps the invariant.
LEMMA ReleaseCancelledInv ==
    ASSUME IngestInv, NEW d \in Delete, ReleaseCancelled(d)
    PROVE  IngestInv'
<1> USE DEF ReleaseCancelled, Released, DGoto, Fault, requests, deletes, orders, topics, consumer, IngestInv
<1>1. Types'
  <2>1. faults' \in 0 .. MaxFaults
    BY IngestAssumption DEF Types
  <2>2. dpc' \in [Delete -> {"cancel", "release", "publish", "done"}]
    BY DEF Types, Steps
  <2>3. reservation' \in [Request -> {"none", "active", "released"}]
    <3>1. reservation' \in {reservation, Released(target[d])}
      OBVIOUS
    <3>2. reservation \in [Request -> {"none", "active", "released"}]
      BY DEF Types
    <3> QED  BY ONLY <3>1, <3>2 DEF Released
  <2> QED  BY <2>1, <2>2, <2>3 DEF Types
<1>2. UniqueKeys'
  BY DEF Types, Statuses, UniqueKeys
<1>3. NoRowYet'
  BY DEF Types, NoRowYet
<1>4. PublishedLast'
  BY DEF Types, PublishedLast
<1>5. FundedOrders'
  BY DEF Types, FundedOrders, Funded, PublishedLast, NoRowYet, ReleasersSaw
<1>6. ReleasersSaw'
  BY DEF Types, ReleasersSaw
<1>7. FilledIsFull'
  BY DEF Types, FilledIsFull
<1>8. TapeOfPublished'
  BY DEF TapeOfPublished
<1> QED  BY <1>1, <1>2, <1>3, <1>4, <1>5, <1>6, <1>7, <1>8

\* PublishCancelled keeps the invariant.
LEMMA PublishCancelledInv ==
    ASSUME IngestInv, NEW d \in Delete, PublishCancelled(d)
    PROVE  IngestInv'
<1>1. /\ UNCHANGED <<pc, target, status, filled, reservation, accepted, tape, read, release>>
      /\ dpc' = [dpc EXCEPT ![d] = "done"]
  BY DEF PublishCancelled, DGoto, requests, orders, consumer
<1>2. cancelled' \subseteq Request /\ faults' \in 0 .. MaxFaults
  BY IngestAssumption DEF PublishCancelled, Fault, IngestInv, Types
<1>3. /\ dpc' \in [Delete -> {"cancel", "release", "publish", "done"}]
      /\ \A x \in Delete : dpc'[x] = "release" => dpc[x] = "release"
  BY <1>1 DEF IngestInv, Types
<1>4. Types'
  BY <1>1, <1>2, <1>3 DEF IngestInv, Types
<1>5. UniqueKeys' /\ NoRowYet' /\ PublishedLast'
  BY <1>1 DEF IngestInv, UniqueKeys, NoRowYet, PublishedLast
<1>6. FundedOrders' /\ FilledIsFull' /\ TapeOfPublished'
  BY <1>1 DEF IngestInv, FundedOrders, Funded, FilledIsFull, TapeOfPublished
<1>7. ReleasersSaw'
  BY <1>1, <1>3 DEF IngestInv, ReleasersSaw
<1> QED  BY <1>4, <1>5, <1>6, <1>7 DEF IngestInv

\* Execute keeps the invariant.
LEMMA ExecuteInv ==
    ASSUME IngestInv, NEW m \in Request, NEW k \in Request, Execute(m, k)
    PROVE  IngestInv'
<1> DEFINE t == [maker |-> m, taker |-> k, quantity |-> 1]
<1>1. /\ tape' = Append(tape, t) /\ Parties(t) \subseteq accepted
      /\ UNCHANGED <<requests, deletes, orders, reservation, topics, consumer, faults>>
  BY DEF Execute, Parties
<1>2. tape' \in Seq(Trade)
  BY <1>1 DEF IngestInv, Types, Trade
<1>3. TapeOfPublished'
  <2>1. tape \in Seq(Trade) /\ accepted' = accepted /\ t \in Trade
    BY <1>1 DEF IngestInv, Types, Trade, topics
  <2> HIDE DEF t
  <2>2. /\ Len(tape') = Len(tape) + 1 /\ Len(tape) \in Nat /\ tape'[Len(tape) + 1] = t
        /\ \A i \in 1 .. Len(tape) : tape'[i] = tape[i]
    <3>1. tape' = Append(tape, t)
      BY <1>1
    <3> QED  BY ONLY <2>1, <3>1
  <2>3. \A i \in 1 .. Len(tape') : i = Len(tape) + 1 \/ i \in 1 .. Len(tape)
    BY ONLY <2>2
  <2>4. \A i \in 1 .. Len(tape) : Parties(tape[i]) \subseteq accepted
    BY DEF IngestInv, TapeOfPublished
  <2> QED  BY ONLY <1>1, <2>1, <2>2, <2>3, <2>4 DEF TapeOfPublished
<1> HIDE DEF t
<1>4. read' \in Nat /\ release' = release /\ faults' \in 0 .. MaxFaults
  BY <1>1 DEF IngestInv, Types, consumer
<1> QED  BY <1>1, <1>2, <1>3, <1>4, RowsUnchanged DEF requests, deletes, orders, topics, consumer

\* SkipTrade keeps the invariant.
LEMMA SkipTradeInv == IngestInv /\ SkipTrade => IngestInv'
<1> SUFFICES ASSUME IngestInv, SkipTrade  PROVE IngestInv'
  OBVIOUS
<1>1. /\ UNCHANGED <<requests, deletes, orders, reservation, topics>>
      /\ tape' = tape /\ accepted' = accepted
      /\ read' \in Nat /\ release' = release /\ faults' \in 0 .. MaxFaults
  BY DEF SkipTrade, topics, consumer, IngestInv, Types
<1>2. tape' \in Seq(Trade) /\ TapeOfPublished'
  BY <1>1 DEF IngestInv, Types, TapeOfPublished
<1> QED  BY <1>1, <1>2, RowsUnchanged

\* RedeliverTrade keeps the invariant.
LEMMA RedeliverTradeInv == IngestInv /\ RedeliverTrade => IngestInv'
<1> SUFFICES ASSUME IngestInv, RedeliverTrade  PROVE IngestInv'
  OBVIOUS
<1>1. /\ UNCHANGED <<requests, deletes, orders, reservation, topics>>
      /\ tape' = tape /\ accepted' = accepted /\ release' = release
  BY DEF RedeliverTrade, topics
<1>2. read' \in Nat /\ faults' \in 0 .. MaxFaults
  BY IngestAssumption DEF RedeliverTrade, Fault, IngestInv, Types
<1>3. tape' \in Seq(Trade) /\ TapeOfPublished'
  BY <1>1 DEF IngestInv, Types, TapeOfPublished
<1> QED  BY <1>1, <1>2, <1>3, RowsUnchanged

\* Crash keeps the invariant.
LEMMA CrashInv == IngestInv /\ Crash => IngestInv'
<1> SUFFICES ASSUME IngestInv, Crash  PROVE IngestInv'
  OBVIOUS
<1>1. /\ UNCHANGED <<target, status, filled, reservation, accepted, cancelled, tape, read>>
      /\ release' = {} /\ faults' \in 0 .. MaxFaults
  BY IngestAssumption DEF Crash, Fault, orders, topics, IngestInv, Types
<1>2. /\ pc' \in [Request -> Steps]
      /\ \A r \in Request : (pc'[r] = pc[r] /\ pc[r] = "lookup") \/ pc'[r] = "done"
      /\ \A r \in Request : pc[r] = "done" => pc'[r] = "done"
  BY DEF Crash, IngestInv, Types, Steps
<1>3. /\ dpc' \in [Delete -> {"cancel", "release", "publish", "done"}]
      /\ \A d \in Delete : dpc'[d] # "release"
  BY DEF Crash, IngestInv, Types
<1>4. Types'
  BY <1>1, <1>2, <1>3 DEF IngestInv, Types
<1>5. UniqueKeys' /\ NoRowYet' /\ PublishedLast'
  BY <1>1, <1>2 DEF IngestInv, Types, UniqueKeys, NoRowYet, PublishedLast
<1>6. FundedOrders'
  BY <1>1, <1>2 DEF IngestInv, FundedOrders, Funded
<1>7. ReleasersSaw' /\ FilledIsFull' /\ TapeOfPublished'
  BY <1>1, <1>3 DEF IngestInv, ReleasersSaw, FilledIsFull, TapeOfPublished
<1> QED  BY <1>4, <1>5, <1>6, <1>7 DEF IngestInv

\* ReleaseFilled keeps the invariant.
LEMMA ReleaseFilledInv ==
    ASSUME IngestInv, NEW o \in release, ReleaseFilled(o)
    PROVE  IngestInv'
<1>1. /\ reservation' \in {reservation, Released(o)}
      /\ release' \subseteq release
      /\ read' \in {read, read + 1}
      /\ faults' = faults \/ Fault
      /\ UNCHANGED <<pc, answer, dpc, target, status, filled, accepted, cancelled, tape>>
  BY DEF ReleaseFilled, requests, deletes, orders, topics
<1>2. o \in Request /\ status[o] = "filled"
  BY DEF IngestInv, Types, ReleasersSaw
<1>3. /\ reservation' \in [Request -> {"none", "active", "released"}]
      /\ \A r \in Request \ {o} : reservation'[r] = reservation[r]
  BY <1>1, <1>2 DEF Released, IngestInv, Types
<1>4. read' \in Nat /\ faults' \in 0 .. MaxFaults
  <2>1. read \in Nat /\ faults \in 0 .. MaxFaults
    BY DEF IngestInv, Types
  <2>2. read' \in Nat
    BY <1>1, <2>1
  <2>3. faults' \in 0 .. MaxFaults
    BY <1>1, <2>1, IngestAssumption DEF Fault
  <2> QED  BY <2>2, <2>3
<1>5. Types'
  BY <1>1, <1>3, <1>4 DEF IngestInv, Types
<1>6. FundedOrders'
  <2> SUFFICES ASSUME NEW r \in Request
               PROVE  Funded(r)'
    BY DEF FundedOrders
  <2>1. Funded(r)
    BY DEF IngestInv, FundedOrders
  <2>2. CASE r = o
    BY <1>1, <1>2, <2>2 DEF Funded, IngestInv, NoRowYet
  <2>3. CASE r # o
    BY <1>1, <1>3, <2>1, <2>3 DEF Funded
  <2> QED  BY <2>2, <2>3
<1>7. UniqueKeys' /\ NoRowYet' /\ PublishedLast' /\ FilledIsFull' /\ ReleasersSaw'
  BY <1>1 DEF IngestInv, UniqueKeys, NoRowYet, PublishedLast, FilledIsFull, ReleasersSaw
<1>8. TapeOfPublished'
  BY <1>1 DEF IngestInv, TapeOfPublished, Parties
<1> QED  BY <1>5, <1>6, <1>7, <1>8 DEF IngestInv

\* What the transaction of ApplyTradeExecution does to the two rows.
LEMMA AppliedRows ==
    ASSUME IngestInv, read < Len(tape), Applicable(read + 1), Applied(read + 1)
    PROVE  /\ \A o \in Parties(tape[read + 1]) :
                o \in accepted /\ status[o] \in {"pending", "open", "filled"}
           /\ filled' \in [Request -> Nat] /\ status' \in [Request -> Statuses]
           /\ \A o \in Request : filled'[o] <= Quantity[o] /\ filled'[o] >= filled[o]
           /\ \A o \in Request :
                \/ status'[o] = status[o]
                \/ status[o] \in {"pending", "open"} /\ status'[o] \in {"open", "filled"}
           /\ FilledIsFull'
           /\ \A o \in NewlyFilled(read + 1) : o \in Request /\ status'[o] = "filled"
<1> DEFINE t == tape[read + 1]
<1>1. t \in Trade /\ Parties(t) \subseteq accepted
  BY DEF IngestInv, Types, TapeOfPublished
<1>2. \A o \in Parties(t) : o \in Request /\ status[o] \in {"pending", "open", "filled"}
  BY <1>1 DEF Applicable, Updatable, IngestInv, Types
<1>3. \A o \in Request : NewFilled(o, t) \in Nat /\ NewFilled(o, t) <= Quantity[o]
                         /\ NewFilled(o, t) >= filled[o]
  <2>1. t.quantity = 1
    BY <1>1 DEF Trade
  <2>2. \A o \in Request : filled[o] \in Nat /\ Quantity[o] \in Nat /\ filled[o] <= Quantity[o]
    BY IngestAssumption DEF IngestInv, Types
  <2> HIDE DEF t
  <2> QED  BY <2>1, <2>2 DEF NewFilled
<1>4. \A o \in Request : filled[o] = Quantity[o] => NewFilled(o, t) = Quantity[o]
  BY <1>3, IngestAssumption DEF IngestInv, Types
<1>5. /\ filled' = [o \in Request |-> IF o \in Parties(t) THEN NewFilled(o, t) ELSE filled[o]]
      /\ status' = [o \in Request |->
                        IF o \notin Parties(t) THEN status[o]
                        ELSE IF NewFilled(o, t) = Quantity[o] THEN "filled" ELSE "open"]
  BY DEF Applied
<1> HIDE DEF t
<1>6. filled' \in [Request -> Nat] /\ status' \in [Request -> Statuses]
  BY <1>3, <1>5 DEF IngestInv, Types, Statuses
<1>7. \A o \in Request : filled'[o] <= Quantity[o] /\ filled'[o] >= filled[o]
  BY <1>3, <1>5 DEF IngestInv, Types
<1>8. FilledIsFull'
  BY <1>5 DEF IngestInv, FilledIsFull
<1>9. \A o \in Request :
          \/ status'[o] = status[o]
          \/ status[o] \in {"pending", "open"} /\ status'[o] \in {"open", "filled"}
  BY <1>2, <1>4, <1>5 DEF IngestInv, FilledIsFull
<1>10. \A o \in NewlyFilled(read + 1) : o \in Request /\ status'[o] = "filled"
  BY <1>2, <1>5 DEF NewlyFilled, t
<1> QED  BY <1>1, <1>2, <1>6, <1>7, <1>8, <1>9, <1>10 DEF t

\* A committed trade keeps the invariant, whatever becomes of its releases.
LEMMA AppliedInv ==
    ASSUME IngestInv, read < Len(tape), Applicable(read + 1), Applied(read + 1),
           release' \subseteq NewlyFilled(read + 1), read' \in {read, read + 1},
           faults' \in 0 .. MaxFaults,
           UNCHANGED <<requests, deletes, reservation, topics, tape>>
    PROVE  IngestInv'
<1>1. /\ UNCHANGED <<pc, dpc, target, reservation, accepted, cancelled, tape>>
      /\ filled' \in [Request -> Nat] /\ status' \in [Request -> Statuses]
      /\ \A o \in Request : filled'[o] <= Quantity[o]
      /\ FilledIsFull'
      /\ release' \subseteq Request /\ \A o \in release' : status'[o] = "filled"
  BY AppliedRows DEF requests, deletes, topics
<1>2. \A o \in Request :
          \/ status'[o] = status[o]
          \/ status[o] \in {"pending", "open"} /\ status'[o] \in {"open", "filled"}
  BY AppliedRows
<1>3. Types'
  BY <1>1 DEF IngestInv, Types
<1>4. \A o \in Request : status'[o] = "none" <=> status[o] = "none"
  BY <1>2
<1>5. UniqueKeys'
  BY <1>4 DEF IngestInv, UniqueKeys
<1>6. NoRowYet'
  BY <1>1, <1>4 DEF IngestInv, NoRowYet
<1>7. PublishedLast'
  BY <1>1, <1>4 DEF IngestInv, Types, PublishedLast
<1>8. FundedOrders'
  <2> SUFFICES ASSUME NEW o \in Request  PROVE Funded(o)'
    BY DEF FundedOrders
  <2>1. Funded(o)
    BY DEF IngestInv, FundedOrders
  <2> QED  BY <1>1, <1>2, <1>4, <2>1 DEF Funded
<1>9. ReleasersSaw'
  <2>1. \A d \in Delete : target[d] \in Request
    BY DEF IngestInv, Types
  <2>2. \A o \in Request : status[o] = "cancelled" => status'[o] = "cancelled"
    BY <1>2
  <2> QED  BY <1>1, <2>1, <2>2 DEF IngestInv, ReleasersSaw
<1>10. TapeOfPublished'
  BY <1>1 DEF IngestInv, TapeOfPublished
<1> QED  BY <1>1, <1>3, <1>5, <1>6, <1>7, <1>8, <1>9, <1>10 DEF IngestInv

\* ApplyTradeExecution keeps the invariant.
LEMMA ApplyTradeExecutionInv == IngestInv /\ ApplyTradeExecution => IngestInv'
<1> SUFFICES ASSUME IngestInv, ApplyTradeExecution  PROVE IngestInv'
  OBVIOUS
<1>1. faults' \in 0 .. MaxFaults /\ read' \in {read, read + 1}
  BY DEF ApplyTradeExecution, IngestInv, Types
<1> QED  BY <1>1, AppliedInv DEF ApplyTradeExecution

\* TradeFails keeps the invariant.
LEMMA TradeFailsInv == IngestInv /\ TradeFails => IngestInv'
<1> SUFFICES ASSUME IngestInv, TradeFails  PROVE IngestInv'
  OBVIOUS
<1>1. faults' \in 0 .. MaxFaults
  BY IngestAssumption DEF TradeFails, Fault, IngestInv, Types
<1>2. CASE UNCHANGED <<orders, processed>>
  <2>1. /\ UNCHANGED <<requests, deletes, orders, reservation, topics>>
        /\ tape' = tape /\ accepted' = accepted /\ read' \in Nat /\ release' \subseteq release
    BY <1>2 DEF TradeFails, topics, IngestInv, Types
  <2>2. tape' \in Seq(Trade) /\ TapeOfPublished'
    BY <2>1 DEF IngestInv, Types, TapeOfPublished
  <2> QED  BY <1>1, <2>1, <2>2, RowsUnchanged
<1>3. CASE Applicable(read + 1) /\ Applied(read + 1)
  BY <1>1, <1>3, AppliedInv DEF TradeFails
<1> QED  BY <1>2, <1>3 DEF TradeFails

\* A stuttering step keeps the invariant.
LEMMA StutterInv == IngestInv /\ UNCHANGED vars => IngestInv'
<1> SUFFICES ASSUME IngestInv, UNCHANGED vars  PROVE IngestInv'
  OBVIOUS
<1>1. /\ UNCHANGED <<requests, deletes, orders, reservation, topics>>
      /\ tape' = tape /\ accepted' = accepted /\ read' = read /\ release' = release
      /\ faults' = faults
  BY DEF vars, topics, consumer
<1>2. /\ tape' \in Seq(Trade) /\ TapeOfPublished' /\ read' \in Nat
      /\ faults' \in 0 .. MaxFaults
  BY <1>1 DEF IngestInv, Types, TapeOfPublished
<1> QED  BY <1>1, <1>2, RowsUnchanged

\* Every step of the service keeps the invariant.
LEMMA NextInv == IngestInv /\ [Next]_vars => IngestInv'
<1> SUFFICES ASSUME IngestInv, [Next]_vars  PROVE IngestInv'
  OBVIOUS
<1>1. ASSUME NEW r \in Request, Submit(r)  PROVE IngestInv'
  BY <1>1, LookupInv, PreTradeCheckInv, ReserveInv, CreateRejectedInv, CreateInv,
     ReleaseUnusedInv, PublishAcceptedInv DEF Submit
<1>2. ASSUME NEW d \in Delete, CancelOrder(d)  PROVE IngestInv'
  BY <1>2, CancelInv, ReleaseCancelledInv, PublishCancelledInv DEF CancelOrder
<1>3. ASSUME NEW m \in Request, NEW k \in Request, Execute(m, k)  PROVE IngestInv'
  BY <1>3, ExecuteInv
<1>4. CASE HandleTrade
  BY <1>4, ApplyTradeExecutionInv, SkipTradeInv, ReleaseFilledInv DEF HandleTrade
<1> QED  BY <1>1, <1>2, <1>3, <1>4, TradeFailsInv, RedeliverTradeInv, CrashInv, StutterInv DEF Next

\* The inductive invariant holds in every behaviour of the service.
THEOREM IngestInvariant == Spec => []IngestInv
BY InitInv, NextInv, PTL DEF Spec

-----------------------------------------------------------------------------
\* For any number of requests, retries and faults: one client order id puts at
\* most one order on orders.accepted (the unique index is the arbiter).
THEOREM OneOrderPerClientId == Spec => []OneOrderPerKey
<1>1. IngestInv => OneOrderPerKey
  BY DEF IngestInv, Types, UniqueKeys, PublishedLast, OneOrderPerKey
<1> QED  BY <1>1, IngestInvariant, PTL

\* An open order on orders.accepted has its funds reserved, whatever
\* cancellations, conflicting retries and fills are in progress.
THEOREM OpenOrdersFunded == Spec => []OpenIsFunded
<1>1. IngestInv => OpenIsFunded
  BY DEF IngestInv, Types, FundedOrders, Funded, OpenIsFunded
<1> QED  BY <1>1, IngestInvariant, PTL

\* Rows are well typed and filled at most up to their quantity.
THEOREM IngestTypeCorrect == Spec => []TypeOK
<1>1. IngestInv => TypeOK
  BY DEF IngestInv, Types, Statuses, TypeOK
<1> QED  BY <1>1, IngestInvariant, PTL

\* A filled, cancelled or rejected row never changes status and no fill is
\* undone: cancellations and trades that race find the other's result.
THEOREM TerminalOrdersStay == Spec => TerminalStays
<1> DEFINE Keeps == \A o \in Request :
        /\ status[o] \in {"filled", "cancelled", "rejected"} => status'[o] = status[o]
        /\ filled'[o] >= filled[o]
<1>1. IngestInv /\ [Next]_vars => Keeps
  <2> SUFFICES ASSUME IngestInv, [Next]_vars  PROVE Keeps
    OBVIOUS
  <2>1. CASE UNCHANGED orders
    BY <2>1 DEF orders, IngestInv, Types
  <2>2. ASSUME NEW r \in Request, Submit(r)  PROVE Keeps
    <3>1. CASE CreateRejected(r) \/ Create(r)
      <4>1. filled' = filled /\ status[r] = "none"
        BY <3>1 DEF CreateRejected, Create, IngestInv, NoRowYet
      <4>2. \A o \in Request : o # r => status'[o] = status[o]
        BY <3>1 DEF CreateRejected, Create, Inserted, IngestInv, Types
      <4>3. \A o \in Request : filled[o] \in Nat
        BY DEF IngestInv, Types
      <4> QED  BY ONLY <4>1, <4>2, <4>3
    <3>2. CASE Lookup(r) \/ PreTradeCheck(r) \/ Reserve(r) \/ ReleaseUnused(r) \/ PublishAccepted(r)
      BY <3>2, <2>1 DEF Lookup, PreTradeCheck, Reserve, ReleaseUnused, PublishAccepted
    <3> QED  BY <2>2, <3>1, <3>2 DEF Submit
  <2>3. ASSUME NEW d \in Delete, CancelOrder(d)  PROVE Keeps
    <3>1. CASE Cancel(d)
      <4>1. filled' = filled /\ \A o \in Request : filled[o] \in Nat
        BY <3>1 DEF Cancel, IngestInv, Types
      <4>2. \/ status' = status
            \/ /\ status[target[d]] \in {"pending", "open"}
               /\ status' = [status EXCEPT ![target[d]] = "cancelled"]
        BY <3>1 DEF Cancel, Cancellable
      <4>3. status \in [Request -> Statuses]
        BY DEF IngestInv, Types
      <4> QED  BY ONLY <4>1, <4>2, <4>3
    <3>2. CASE ReleaseCancelled(d) \/ PublishCancelled(d)
      BY <3>2, <2>1 DEF ReleaseCancelled, PublishCancelled
    <3> QED  BY <2>3, <3>1, <3>2 DEF CancelOrder
  <2>4. CASE ApplyTradeExecution \/ TradeFails
    <3>1. CASE UNCHANGED <<orders, processed>>
      BY <3>1, <2>1
    <3>2. CASE read < Len(tape) /\ Applicable(read + 1) /\ Applied(read + 1)
      BY <3>2, AppliedRows
    <3> QED  BY <2>4, <3>1, <3>2 DEF ApplyTradeExecution, TradeFails
  <2>5. CASE SkipTrade \/ (\E o \in release : ReleaseFilled(o)) \/ RedeliverTrade \/ Crash
    BY <2>5, <2>1 DEF SkipTrade, ReleaseFilled, RedeliverTrade, Crash
  <2>6. ASSUME NEW m \in Request, NEW k \in Request, Execute(m, k)  PROVE Keeps
    BY <2>6, <2>1 DEF Execute
  <2>7. CASE UNCHANGED vars
    BY <2>7, <2>1 DEF vars
  <2> QED  BY <2>2, <2>3, <2>4, <2>5, <2>6, <2>7 DEF Next, HandleTrade
<1>2. IngestInv /\ [Next]_vars => [Keeps]_vars
  BY <1>1
<1> QED  BY <1>2, IngestInvariant, PTL DEF Spec, TerminalStays

-----------------------------------------------------------------------------
\* The trades applied to an order are trades on the tape, so that they can be
\* counted.
OnceInv ==
    /\ IngestInv
    /\ processed \subseteq 1 .. Len(tape)
    /\ AppliedOnce

\* The trades of an order can be counted.
LEMMA TradesFinite ==
    ASSUME IngestInv, processed \subseteq 1 .. Len(tape), NEW o
    PROVE  /\ IsFiniteSet(TradesOf(o, processed))
           /\ Cardinality(TradesOf(o, processed)) \in Nat
<1>1. Len(tape) \in Nat
  BY DEF IngestInv, Types
<1>2. IsFiniteSet(1 .. Len(tape))
  BY <1>1, FS_Interval
<1>3. TradesOf(o, processed) \subseteq 1 .. Len(tape)
  BY DEF TradesOf
<1>4. IsFiniteSet(TradesOf(o, processed))
  BY <1>2, <1>3, FS_Subset
<1> QED  BY <1>4, FS_CardinalityType

\* A step that applies no trade.
LEMMA NothingApplied ==
    ASSUME OnceInv, UNCHANGED <<filled, processed>>,
           \A i \in 1 .. Len(tape) : i \in 1 .. Len(tape') /\ tape'[i] = tape[i]
    PROVE  processed' \subseteq 1 .. Len(tape') /\ AppliedOnce'
<1>1. processed' \subseteq 1 .. Len(tape')
  BY DEF OnceInv
<1>2. \A o \in Request : TradesOf(o, processed)' = TradesOf(o, processed)
  BY DEF OnceInv, TradesOf
<1> QED  BY <1>1, <1>2 DEF OnceInv, AppliedOnce

\* The transaction that applies a trade, which is not processed yet.
LEMMA OneMoreApplied ==
    ASSUME OnceInv, read < Len(tape), Applicable(read + 1), Applied(read + 1), tape' = tape
    PROVE  processed' \subseteq 1 .. Len(tape') /\ AppliedOnce'
<1> DEFINE i == read + 1
<1>1. i \in 1 .. Len(tape) /\ i \notin processed /\ tape[i] \in Trade
  BY DEF OnceInv, IngestInv, Types, Applicable, AlreadyProcessed
<1>2. processed' = processed \cup {i}
  BY DEF Applied
<1>3. filled' = [o \in Request |->
                    IF o \in Parties(tape[i]) THEN NewFilled(o, tape[i]) ELSE filled[o]]
  BY DEF Applied
<1>4. tape[i].quantity = 1
  BY <1>1 DEF Trade
<1> HIDE DEF i
<1>5. processed' \subseteq 1 .. Len(tape')
  BY <1>1, <1>2 DEF OnceInv
<1>6. ASSUME NEW o \in Request
      PROVE  LET n == Cardinality(TradesOf(o, processed)')
             IN  filled'[o] = IF n > Quantity[o] THEN Quantity[o] ELSE n
  <2> DEFINE n == Cardinality(TradesOf(o, processed))
  <2>1. /\ IsFiniteSet(TradesOf(o, processed)) /\ n \in Nat
        /\ filled[o] = IF n > Quantity[o] THEN Quantity[o] ELSE n
    BY TradesFinite DEF OnceInv, AppliedOnce
  <2>2. Quantity[o] \in Nat
    BY IngestAssumption
  <2>3. CASE o \in Parties(tape[i])
    <3>1. TradesOf(o, processed)' = TradesOf(o, processed) \cup {i}
      BY <1>2, <2>3 DEF TradesOf
    <3>2. i \notin TradesOf(o, processed)
      BY <1>1 DEF TradesOf
    <3>3. Cardinality(TradesOf(o, processed)') = n + 1
      BY <2>1, <3>1, <3>2, FS_AddElement
    <3>4. filled'[o] = IF filled[o] + 1 > Quantity[o] THEN Quantity[o] ELSE filled[o] + 1
      BY <1>3, <1>4, <2>3 DEF NewFilled
    <3>5. n \in Nat /\ filled[o] = IF n > Quantity[o] THEN Quantity[o] ELSE n
      BY <2>1
    <3> HIDE DEF n
    <3>6. filled'[o] = IF n + 1 > Quantity[o] THEN Quantity[o] ELSE n + 1
      BY ONLY <2>2, <3>4, <3>5
    <3> QED  BY ONLY <3>3, <3>6
  <2>4. CASE o \notin Parties(tape[i])
    <3>1. TradesOf(o, processed)' = TradesOf(o, processed)
      BY <1>2, <2>4 DEF TradesOf
    <3>2. filled'[o] = filled[o]
      BY <1>3, <2>4
    <3> QED  BY <2>1, <3>1, <3>2
  <2> QED  BY <2>3, <2>4
<1> QED  BY <1>5, <1>6 DEF AppliedOnce

\* Every step keeps what was applied counted.
LEMMA NextOnceInv == OnceInv /\ [Next]_vars => OnceInv'
<1> SUFFICES ASSUME OnceInv, [Next]_vars
             PROVE  processed' \subseteq 1 .. Len(tape') /\ AppliedOnce'
  BY NextInv DEF OnceInv
<1>1. CASE UNCHANGED <<filled, processed, tape>>
  BY <1>1, NothingApplied
<1>2. ASSUME NEW r \in Request, Submit(r)  PROVE UNCHANGED <<filled, processed, tape>>
  BY <1>2 DEF Submit, Lookup, PreTradeCheck, Reserve, CreateRejected, Create, ReleaseUnused,
              PublishAccepted, orders, consumer
<1>3. ASSUME NEW d \in Delete, CancelOrder(d)  PROVE UNCHANGED <<filled, processed, tape>>
  BY <1>3 DEF CancelOrder, Cancel, ReleaseCancelled, PublishCancelled, orders, consumer
<1>4. ASSUME NEW m \in Request, NEW k \in Request, Execute(m, k)
      PROVE  processed' \subseteq 1 .. Len(tape') /\ AppliedOnce'
  <2> DEFINE t == [maker |-> m, taker |-> k, quantity |-> 1]
  <2>1. tape \in Seq(Trade) /\ t \in Trade /\ tape' = Append(tape, t)
    BY <1>4 DEF Execute, OnceInv, IngestInv, Types, Trade
  <2>2. UNCHANGED <<filled, processed>>
    BY <1>4 DEF Execute, orders, consumer
  <2> HIDE DEF t
  <2>3. \A i \in 1 .. Len(tape) : i \in 1 .. Len(tape') /\ tape'[i] = tape[i]
    <3>1. Len(tape) \in Nat /\ Len(tape') = Len(tape) + 1
      BY ONLY <2>1
    <3>2. \A i \in 1 .. Len(tape) : tape'[i] = tape[i]
      BY ONLY <2>1
    <3>3. \A n \in Nat : \A i \in 1 .. n : i \in 1 .. n + 1
      OBVIOUS
    <3>4. \A i \in 1 .. Len(tape) : i \in 1 .. Len(tape')
      BY ONLY <3>1, <3>3
    <3> QED  BY ONLY <3>2, <3>4
  <2> QED  BY <2>2, <2>3, NothingApplied
<1>5. CASE ApplyTradeExecution \/ TradeFails
  <2>1. tape' = tape
    BY <1>5 DEF ApplyTradeExecution, TradeFails
  <2>2. CASE UNCHANGED <<orders, processed>>
    BY <1>1, <2>1, <2>2 DEF orders
  <2>3. CASE read < Len(tape) /\ Applicable(read + 1) /\ Applied(read + 1)
    BY <2>1, <2>3, OneMoreApplied
  <2> QED  BY <1>5, <2>2, <2>3 DEF ApplyTradeExecution, TradeFails
<1>6. CASE SkipTrade \/ (\E o \in release : ReleaseFilled(o)) \/ RedeliverTrade \/ Crash
  BY <1>1, <1>6 DEF SkipTrade, ReleaseFilled, RedeliverTrade, Crash, orders
<1>7. CASE UNCHANGED vars
  BY <1>1, <1>7 DEF vars, orders, consumer
<1> QED  BY <1>1, <1>2, <1>3, <1>4, <1>5, <1>6, <1>7 DEF Next, HandleTrade

\* However often a trade is delivered and wherever ApplyTradeExecution fails, an
\* order is filled by each of its trades once, up to its quantity.
THEOREM TradesAppliedOnce == Spec => []AppliedOnce
<1>1. Init => OnceInv
  <2> SUFFICES ASSUME Init  PROVE OnceInv
    OBVIOUS
  <2>1. processed = {} /\ \A o \in Request : filled[o] = 0 /\ TradesOf(o, processed) = {}
    BY DEF Init, TradesOf
  <2>2. \A o \in Request : Quantity[o] \in Nat
    BY IngestAssumption
  <2>3. \A o \in Request : Cardinality(TradesOf(o, processed)) = 0
    BY <2>1, FS_EmptySet
  <2>4. AppliedOnce
    BY <2>1, <2>2, <2>3 DEF AppliedOnce
  <2> QED  BY <2>1, <2>4, InitInv DEF OnceInv
<1>2. OnceInv => AppliedOnce
  BY DEF OnceInv
<1> QED  BY <1>1, <1>2, NextOnceInv, PTL DEF Spec

-----------------------------------------------------------------------------
\* Somebody is going to release the funds of the order, or may.
Held(r) ==
    \/ status[r] \in {"pending", "open"}
    \/ r \in release
    \/ \E d \in Delete : target[d] = r /\ dpc[d] = "release"

\* Nothing is reserved before checkLedgerBalance or after it refused.
Accounted(r) ==
    /\ pc[r] \in {"lookup", "risk", "reserve", "reject"} => reservation[r] = "none"
    /\ pc[r] \in {"publish", "done"} /\ reservation[r] = "active" => Held(r)

LeakInv == IngestInv /\ (faults = 0 => \A r \in Request : Accounted(r))

\* An order none of whose parts a step touches.
LEMMA StillAccounted ==
    ASSUME NEW q \in Request, Accounted(q),
           pc'[q] = pc[q], reservation'[q] = reservation[q], Held(q) => Held(q)'
    PROVE  Accounted(q)'
BY DEF Accounted

\* A POST keeps reservations accounted for.
LEMMA SubmitAccounted ==
    ASSUME IngestInv, \A q \in Request : Accounted(q), NEW r \in Request, Submit(r),
           faults = 0, faults' = 0, NEW q \in Request
    PROVE  Accounted(q)'
<1>1. UNCHANGED <<dpc, target, release>> /\ ~ Fault
  <2>1. UNCHANGED <<deletes, consumer>>
    BY DEF Submit, Lookup, PreTradeCheck, Reserve, CreateRejected, Create, ReleaseUnused,
           PublishAccepted
  <2>2. ~ Fault
    BY DEF Fault
  <2> QED  BY <2>1, <2>2 DEF deletes, consumer
<1>2. pc \in [Request -> Steps] /\ status \in [Request -> Statuses]
      /\ reservation \in [Request -> {"none", "active", "released"}]
  BY DEF IngestInv, Types
<1>3. CASE q # r
  <2>1. pc'[q] = pc[q] /\ reservation'[q] = reservation[q] /\ status'[q] = status[q]
    <3>1. CASE Lookup(r) \/ PreTradeCheck(r) \/ Reserve(r)
      BY <1>1, <1>2, <1>3, <3>1 DEF Lookup, PreTradeCheck, Reserve, Goto, Reply, orders
    <3>2. CASE CreateRejected(r) \/ Create(r)
      BY <1>1, <1>2, <1>3, <3>2 DEF CreateRejected, Create, Inserted, Goto, Reply
    <3>3. CASE ReleaseUnused(r) \/ PublishAccepted(r)
      BY <1>1, <1>2, <1>3, <3>3 DEF ReleaseUnused, Released, PublishAccepted, Reply, orders
    <3> QED  BY <3>1, <3>2, <3>3 DEF Submit
  <2>2. Held(q) => Held(q)'
    BY <1>1, <2>1 DEF Held
  <2> QED  BY <2>1, <2>2, StillAccounted
<1>4. CASE q = r
  <2>1. Accounted(r)
    OBVIOUS
  <2>2. CASE Lookup(r) \/ PreTradeCheck(r)
    <3>1. /\ reservation[r] = "none" /\ reservation' = reservation
      BY <1>1, <2>1, <2>2 DEF Lookup, PreTradeCheck, Accounted
    <3> QED  BY <1>4, <3>1 DEF Accounted
  <2>3. CASE Reserve(r)
    <3>1. reservation[r] = "none"
      BY <2>1, <2>3 DEF Reserve, Accounted
    <3>2. \/ pc'[r] = "create"
          \/ reservation' = reservation
      BY <1>1, <1>2, <2>3 DEF Reserve, Goto, Reply
    <3> QED  BY <1>4, <3>1, <3>2 DEF Accounted
  <2>4. CASE CreateRejected(r)
    <3>1. reservation[r] = "none" /\ reservation' = reservation
      BY <2>1, <2>4 DEF CreateRejected, Accounted
    <3> QED  BY <1>4, <3>1 DEF Accounted
  <2>5. CASE Create(r)
    <3>1. pc'[r] = "release" \/ (pc'[r] = "publish" /\ status'[r] = "pending")
      BY <1>1, <1>2, <2>5 DEF Create, Inserted, Goto
    <3> QED  BY <1>4, <3>1 DEF Accounted, Held
  <2>6. CASE ReleaseUnused(r)
    <3>1. pc'[r] = "done" /\ reservation'[r] # "active"
      BY <1>1, <1>2, <2>6 DEF ReleaseUnused, Released, Reply
    <3> QED  BY <1>4, <3>1 DEF Accounted
  <2>7. CASE PublishAccepted(r)
    <3>1. pc[r] = "publish" /\ pc'[r] = "done" /\ UNCHANGED <<reservation, status>>
      BY <1>2, <2>7 DEF PublishAccepted, Reply, orders
    <3>2. Held(r) => Held(r)'
      BY <1>1, <3>1 DEF Held
    <3> QED  BY <1>4, <2>1, <3>1, <3>2 DEF Accounted
  <2> QED  BY <2>2, <2>3, <2>4, <2>5, <2>6, <2>7 DEF Submit
<1> QED  BY <1>3, <1>4

\* A DELETE keeps reservations accounted for.
LEMMA CancelAccounted ==
    ASSUME IngestInv, \A q \in Request : Accounted(q), NEW d \in Delete, CancelOrder(d),
           faults = 0, faults' = 0, NEW q \in Request
    PROVE  Accounted(q)'
<1>1. UNCHANGED <<pc, target, release>> /\ ~ Fault
  <2>1. UNCHANGED <<requests, target, consumer>>
    BY DEF CancelOrder, Cancel, ReleaseCancelled, PublishCancelled
  <2>2. ~ Fault
    BY DEF Fault
  <2> QED  BY <2>1, <2>2 DEF requests, consumer
<1>2. /\ status \in [Request -> Statuses] /\ target[d] \in Request
      /\ dpc \in [Delete -> {"cancel", "release", "publish", "done"}]
      /\ reservation \in [Request -> {"none", "active", "released"}]
  BY DEF IngestInv, Types
<1>3. CASE Cancel(d)
  <2>1. dpc[d] = "cancel" /\ reservation' = reservation
    BY <1>3 DEF Cancel
  <2>2. \A e \in Delete : dpc[e] = "release" => dpc'[e] = "release"
    BY <1>2, <1>3, <2>1 DEF Cancel, DGoto
  <2>3. \/ status' = status
        \/ status' = [status EXCEPT ![target[d]] = "cancelled"] /\ dpc'[d] = "release"
    BY <1>1, <1>2, <1>3 DEF Cancel, DGoto
  <2>4. Held(q) => Held(q)'
    BY <1>1, <1>2, <2>2, <2>3 DEF Held
  <2> QED  BY <1>1, <2>1, <2>4, StillAccounted
<1>4. CASE ReleaseCancelled(d)
  <2>1. /\ reservation' = Released(target[d]) /\ status' = status
        /\ dpc' = [dpc EXCEPT ![d] = "publish"]
    BY <1>1, <1>4 DEF ReleaseCancelled, DGoto, orders
  <2>2. CASE q = target[d]
    <3>1. reservation'[q] # "active" /\ (reservation[q] = "none" => reservation'[q] = "none")
      BY <1>2, <2>1, <2>2 DEF Released
    <3> QED  BY <1>1, <3>1 DEF Accounted
  <2>3. CASE q # target[d]
    <3>1. reservation'[q] = reservation[q]
      BY <1>2, <2>1, <2>3 DEF Released
    <3>2. \A e \in Delete : e # d => dpc'[e] = dpc[e]
      BY <1>2, <2>1
    <3>3. Held(q) => Held(q)'
      BY <1>1, <2>1, <2>3, <3>2 DEF Held
    <3> QED  BY <1>1, <3>1, <3>3, StillAccounted
  <2> QED  BY <2>2, <2>3
<1>5. CASE PublishCancelled(d)
  <2>1. /\ UNCHANGED <<status, reservation>>
        /\ dpc[d] = "publish" /\ dpc' = [dpc EXCEPT ![d] = "done"]
    BY <1>5 DEF PublishCancelled, DGoto, orders
  <2>2. \A e \in Delete : dpc[e] = "release" => dpc'[e] = "release"
    BY <1>2, <2>1
  <2>3. Held(q) => Held(q)'
    BY <1>1, <2>1, <2>2 DEF Held
  <2> QED  BY <1>1, <2>1, <2>3, StillAccounted
<1> QED  BY <1>3, <1>4, <1>5 DEF CancelOrder

\* Applying a trade leaves the orders it fills to be released.
LEMMA ApplyAccounted ==
    ASSUME IngestInv, \A q \in Request : Accounted(q), ApplyTradeExecution, NEW q \in Request
    PROVE  Accounted(q)'
<1>1. /\ UNCHANGED <<pc, dpc, target, reservation>> /\ release = {}
      /\ read < Len(tape) /\ Applicable(read + 1) /\ Applied(read + 1)
      /\ release' = NewlyFilled(read + 1)
  BY DEF ApplyTradeExecution, requests, deletes
<1>2. \/ status'[q] = status[q]
      \/ status[q] \in {"pending", "open"} /\ status'[q] \in {"open", "filled"}
  BY <1>1, AppliedRows
<1>3. status'[q] = "filled" /\ status[q] # "filled" => q \in release'
  BY <1>1 DEF Applied, NewlyFilled
<1>4. Held(q) => Held(q)'
  BY <1>1, <1>2, <1>3 DEF Held
<1> QED  BY <1>1, <1>4, StillAccounted

\* The consumer releases the orders it filled.
LEMMA ReleaseAccounted ==
    ASSUME IngestInv, \A q \in Request : Accounted(q), NEW o \in release, ReleaseFilled(o),
           faults = 0, faults' = 0, NEW q \in Request
    PROVE  Accounted(q)'
<1>1. /\ UNCHANGED <<pc, dpc, target, status>>
      /\ reservation' = Released(o) /\ release' = release \ {o}
  BY DEF ReleaseFilled, Fault, requests, deletes, orders
<1>2. o \in Request /\ reservation \in [Request -> {"none", "active", "released"}]
  BY DEF IngestInv, Types
<1>3. CASE q = o
  <2>1. reservation'[q] # "active" /\ (reservation[q] = "none" => reservation'[q] = "none")
    BY <1>1, <1>2, <1>3 DEF Released
  <2> QED  BY <1>1, <2>1 DEF Accounted
<1>4. CASE q # o
  <2>1. reservation'[q] = reservation[q]
    BY <1>1, <1>2, <1>4 DEF Released
  <2>2. Held(q) => Held(q)'
    BY <1>1, <1>4 DEF Held
  <2> QED  BY <1>1, <2>1, <2>2, StillAccounted
<1> QED  BY <1>3, <1>4

\* Every step keeps reservations accounted for.
LEMMA NextLeakInv == LeakInv /\ [Next]_vars => LeakInv'
<1> SUFFICES ASSUME LeakInv, [Next]_vars, faults' = 0, NEW q \in Request
             PROVE  Accounted(q)'
  BY NextInv DEF LeakInv
<1>1. faults \in Nat /\ (faults' = faults \/ faults' = faults + 1)
  <2>1. faults \in Nat
    BY IngestAssumption DEF LeakInv, IngestInv, Types
  <2>2. faults' = faults \/ Fault
    BY DEF Next, HandleTrade, Submit, CancelOrder, Lookup, PreTradeCheck, Reserve,
           CreateRejected, Create, ReleaseUnused, PublishAccepted, Cancel, ReleaseCancelled,
           PublishCancelled, Execute, ApplyTradeExecution, SkipTrade, ReleaseFilled,
           TradeFails, RedeliverTrade, Crash, vars
  <2> QED  BY <2>1, <2>2 DEF Fault
<1>2. faults = 0 /\ ~ Fault
  BY <1>1 DEF Fault
<1>3. IngestInv /\ \A r \in Request : Accounted(r)
  BY <1>2 DEF LeakInv
<1>4. CASE UNCHANGED <<pc, dpc, target, status, reservation, release>>
  <2>1. Held(q) => Held(q)'
    BY <1>4 DEF Held
  <2> QED  BY <1>3, <1>4, <2>1, StillAccounted
<1>5. ASSUME NEW r \in Request, Submit(r)  PROVE Accounted(q)'
  BY <1>2, <1>3, <1>5, SubmitAccounted
<1>6. ASSUME NEW d \in Delete, CancelOrder(d)  PROVE Accounted(q)'
  BY <1>2, <1>3, <1>6, CancelAccounted
<1>7. ASSUME NEW m \in Request, NEW k \in Request, Execute(m, k)  PROVE Accounted(q)'
  BY <1>4, <1>7 DEF Execute, requests, deletes, orders, consumer
<1>8. CASE HandleTrade
  <2>1. CASE SkipTrade
    BY <1>4, <2>1 DEF SkipTrade, requests, deletes, orders
  <2> QED  BY <1>2, <1>3, <1>8, <2>1, ApplyAccounted, ReleaseAccounted DEF HandleTrade
<1>9. CASE TradeFails \/ RedeliverTrade \/ Crash
  BY <1>2, <1>9 DEF TradeFails, RedeliverTrade, Crash
<1>10. CASE UNCHANGED vars
  BY <1>4, <1>10 DEF vars, requests, deletes, orders, consumer
<1> QED  BY <1>5, <1>6, <1>7, <1>8, <1>9, <1>10 DEF Next

\* Until a call fails or the service crashes, no answered request leaves a
\* reservation behind: conflicting retries, cancellations and fills each release
\* what they have to, whatever their order.
THEOREM NothingLeaks == Spec => []NoLeak
<1>1. Init => LeakInv
  <2> SUFFICES ASSUME Init  PROVE LeakInv
    OBVIOUS
  <2>1. \A r \in Request : pc[r] = "lookup" /\ reservation[r] = "none"
    BY DEF Init
  <2> QED  BY <2>1, InitInv DEF LeakInv, Accounted
<1>2. LeakInv => NoLeak
  BY DEF LeakInv, Accounted, Held, NoLeak
<1> QED  BY <1>1, <1>2, NextLeakInv, PTL DEF Spec
=============================================================================
