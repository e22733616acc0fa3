------------------------------ MODULE LedgerTx ------------------------------
(***************************************************************************)
(* The transactions of Ledger statement by statement, running concurrently *)
(* in Postgres at READ COMMITTED: each statement that locks or reads is a  *)
(* step, a transaction computes with the rows it has read, and its writes  *)
(* appear when it commits.  The variables of Ledger are the committed      *)
(* tables, so that this module implements Ledger is Ledger's own Spec.     *)
(***************************************************************************)
EXTENDS Ledger, Sequences

CONSTANTS
    Tx,       \* calls of the store, each in its own transaction
    Call,     \* what each one was called with
    Batches   \* which of them come together: alternatives

VARIABLES
    plan,    \* the locks each transaction still has to take; its next statement
    pc,      \* before that: the two duplicate checks; after it: the commit
    held,    \* the locks it holds
    seen     \* the rows it has read

txState == <<plan, pc, held, seen>>
txVars == <<vars, txState>>

ReserveCall(t) == Call[t].kind = "reserve"
ReleaseCall(t) == Call[t].kind = "release"
SettleCall(t) == Call[t].kind = "settle"

TypesOfCalls ==
    \A t \in Tx :
        \/ ReserveCall(t) /\ Call[t].req \in ReserveRequests
        \/ ReleaseCall(t) /\ Call[t].order \in Order
        \/ SettleCall(t) /\ Call[t].req \in Settlements
           /\ Call[t].makerFee \in FeeAmounts /\ Call[t].takerFee \in FeeAmounts

\* The matching engine gives an event to one trade, and a trade to two accounts.
OneTradePerEvent ==
    \A s, r \in Settlements :
        /\ s.event = r.event => s.trade = r.trade
        /\ s.trade = r.trade => s.maker = r.maker /\ s.taker = r.taker

ASSUME TxAssumption ==
    /\ TypesOfCalls /\ Batches \subseteq SUBSET Tx
    /\ OneTradePerEvent

-----------------------------------------------------------------------------
(***************************************************************************)
(* The locks, in the order the statements take them.                       *)
(***************************************************************************)
OrderAdvisory(o) == <<"advisory", o>>
FeeAdvisory == <<"advisory", FeeAccount>>
ReservationRow(o) == <<"reservation", o>>
AccountRow(k) == <<"account", k>>

\* ledgerEventKeys: an event is recorded under its id and the prefixed id.
KeyRow(e, form) == <<"key", e, form>>
KeyRows(e) == {KeyRow(e, "raw"), KeyRow(e, "prefixed")}

NetOf(t) == Net(Call[t].req, Call[t].makerFee, Call[t].takerFee)

\* An aggregated entry locks its account's row, an order its reservation.
EntryLock(t, k) == IF NetOf(t)[k] # 0 THEN <<AccountRow(k)>> ELSE <<>>
ReservationLock(o) == IF o # NilOrder THEN <<ReservationRow(o)>> ELSE <<>>

ReservationLocks(t) ==
    ReservationLock(Call[t].req.makerOrder) \o ReservationLock(Call[t].req.takerOrder)

\* In the order buildSettlementEntries makes the entries.
EntryLocks(t) ==
    LET s == Call[t].req
    IN  EntryLock(t, <<s.maker, Quote>>) \o EntryLock(t, <<s.maker, Base>>)
        \o EntryLock(t, <<s.taker, Quote>>) \o EntryLock(t, <<s.taker, Base>>)
        \o EntryLock(t, <<FeeAccount, Quote>>)

SettleLocksNoFee(t) == ReservationLocks(t) \o EntryLocks(t)

SettleLocks(t) == <<FeeAdvisory>> \o (ReservationLocks(t) \o EntryLocks(t))

ReserveLocks(t) ==
    LET r == Call[t].req
    IN  <<OrderAdvisory(r.order), ReservationRow(r.order),
          AccountRow(<<r.account, r.asset>>)>>

\* The account row is known once the reservation has been read.
ReleaseLocks(t) == <<ReservationRow(Call[t].order)>>

NothingSeen ==
    [available |-> [k \in Key |-> 0], locked |-> [k \in Key |-> 0],
     reservation |-> [o \in Order |-> NoReservation]]

TxInit ==
    /\ Init
    /\ plan = [t \in Tx |-> IF ReserveCall(t) THEN ReserveLocks(t)
                            ELSE IF ReleaseCall(t) THEN ReleaseLocks(t)
                            ELSE SettleLocks(t)]
    /\ \E batch \in Batches :
          pc = [t \in Tx |-> IF t \notin batch THEN "done"
                             ELSE IF SettleCall(t) THEN "event" ELSE "lock"]
    /\ held = [t \in Tx |-> {}]
    /\ seen = [t \in Tx |-> NothingSeen]

-----------------------------------------------------------------------------
End(t) ==
    /\ pc' = [pc EXCEPT ![t] = "done"]
    /\ held' = [held EXCEPT ![t] = {}]
    /\ seen' = [seen EXCEPT ![t] = NothingSeen]
    /\ plan' = [plan EXCEPT ![t] = <<>>]

Rollback(t) == End(t) /\ UNCHANGED vars

\* A trade is settled after the orders it executes have been reserved
\* (OrderIngest publishes an order only then).
Delivered(t) ==
    \A o \in {Call[t].req.makerOrder, Call[t].req.takerOrder} \ {NilOrder} : Reserved(o)

\* The keys come out of a map, in any order.
RecordEvent(t) ==
    /\ pc' = [pc EXCEPT ![t] = "mark"]
    /\ \E keys \in [1 .. 2 -> KeyRows(Call[t].req.event)] :
          keys[1] # keys[2] /\ plan' = [plan EXCEPT ![t] = keys]

GoOn(t, step) == pc' = [pc EXCEPT ![t] = step] /\ UNCHANGED plan

CheckEvent(t) ==
    /\ pc[t] = "event" /\ Delivered(t)
    /\ IF Call[t].req.event \in processed THEN RecordEvent(t) ELSE GoOn(t, "trade")
    /\ UNCHANGED <<vars, held, seen>>

CheckTrade(t) ==
    /\ pc[t] = "trade"
    /\ IF AlreadySettled(Call[t].req.trade) THEN RecordEvent(t) ELSE GoOn(t, "lock")
    /\ UNCHANGED <<vars, held, seen>>

CommitMark(t) ==
    /\ pc[t] = "mark" /\ plan[t] = <<>>
    /\ processed' = processed \cup {Call[t].req.event}
    /\ UNCHANGED <<available, locked, reservation, journal>>
    /\ End(t)

Free(lock, t) == \A u \in Tx \ {t} : lock \notin held[u]

\* SELECT ... FOR UPDATE returns the committed row once the lock is free.
SeenWith(t, lock) ==
    CASE lock[1] \in {"advisory", "key"} -> seen[t]
      [] lock[1] = "reservation" ->
            [seen[t] EXCEPT !.reservation[lock[2]] = reservation[lock[2]]]
      [] lock[1] = "account" ->
            [seen[t] EXCEPT !.available[lock[2]] = available[lock[2]],
                            !.locked[lock[2]] = locked[lock[2]]]

\* ReleaseReservation goes on to the account of the row it has read.
PlanAfter(t, lock) ==
    IF ReleaseCall(t) /\ lock[1] = "reservation" /\ Remaining(lock[2]) > 0
    THEN <<AccountRow(RowOf(lock[2]))>>
    ELSE Tail(plan[t])

\* The reservation read ends the transaction: ReserveBalance finds the row
\* of an earlier call, or ReleaseReservation finds none.
EndsAt(t, lock) ==
    /\ lock[1] = "reservation"
    /\ \/ ReserveCall(t) /\ Reserved(lock[2])
       \/ ReleaseCall(t) /\ ~ Reserved(lock[2])

\* There is no row to lock while an order has no reservation, and an insert
\* locks nothing where the key exists (ON CONFLICT DO NOTHING).
Locked(lock) ==
    IF \/ lock[1] = "reservation" /\ ~ Reserved(lock[2])
       \/ lock[1] = "key" /\ lock[2] \in processed
    THEN {} ELSE {lock}

TakeLock(t) ==
    /\ pc[t] \in {"lock", "mark"} /\ plan[t] # <<>>
    /\ LET lock == Head(plan[t])
       IN  /\ Free(lock, t)
           /\ IF EndsAt(t, lock) THEN Rollback(t)
              ELSE /\ held' = [held EXCEPT ![t] = @ \cup Locked(lock)]
                   /\ seen' = [seen EXCEPT ![t] = SeenWith(t, lock)]
                   /\ plan' = [plan EXCEPT ![t] = PlanAfter(t, lock)]
                   /\ UNCHANGED <<vars, pc>>

-----------------------------------------------------------------------------
(***************************************************************************)
(* The writes and the commit, from the rows read.                          *)
(***************************************************************************)
Ready(t) == pc[t] = "lock" /\ plan[t] = <<>>

SeenRemaining(t, o) == seen[t].reservation[o].amount - seen[t].reservation[o].consumed

WriteAccount(k, av, lk) ==
    /\ available' = [available EXCEPT ![k] = av]
    /\ locked' = [locked EXCEPT ![k] = lk]

CommitReserve(t) ==
    LET r == Call[t].req
        k == <<r.account, r.asset>>
        row == seen[t]
    IN  /\ ReserveCall(t) /\ Ready(t)
        /\ IF row.available[k] < r.amount \/ Reserved(r.order)
           THEN Rollback(t)
           ELSE /\ WriteAccount(k, row.available[k] - r.amount, row.locked[k] + r.amount)
                /\ reservation' = [reservation EXCEPT ![r.order] =
                        [account |-> r.account, asset |-> r.asset,
                         amount |-> r.amount, consumed |-> 0, status |-> "active"]]
                /\ UNCHANGED <<journal, processed>>
                /\ End(t)

CommitRelease(t) ==
    LET o == Call[t].order
        r == seen[t].reservation[o]
        k == <<r.account, r.asset>>
        given == Smaller(SeenRemaining(t, o), seen[t].locked[k])
    IN  /\ ReleaseCall(t) /\ Ready(t)
        /\ IF r.amount > r.consumed
           THEN /\ WriteAccount(k, seen[t].available[k] + given, seen[t].locked[k] - given)
                /\ reservation' = [reservation EXCEPT ![o] =
                        [r EXCEPT !.consumed = r.amount - given,
                                  !.status = StatusAfter(r.amount - given, r.amount,
                                                         "released")]]
           ELSE /\ reservation' = [reservation EXCEPT ![o] = [r EXCEPT !.status = "consumed"]]
                /\ UNCHANGED <<available, locked>>
        /\ UNCHANGED <<journal, processed>>
        /\ End(t)

\* idx_ledger_entries_reference_account
EntryConflictNever(t) == FALSE

EntryConflict(t) ==
    \E k \in Key : NetOf(t)[k] # 0 /\ journal[Call[t].req.trade][k] # 0

\* errors.As looks for another package's PgError than the driver returns, so
\* the duplicate is not recognised and the error is returned.
OnUniqueViolation(t) == Rollback(t)

\* reservationCover and applyEntry, on the rows read.
SeenCovers(t, o) == o \in Order /\ seen[t].reservation[o].status = "active"

SeenCover(t, o, side) ==
    IF SeenCovers(t, o)
    THEN Smaller(ReservedAmount(side, Call[t].req), SeenRemaining(t, o)) ELSE 0

SeenAssetMatches(t, o, side) ==
    SeenCovers(t, o) => seen[t].reservation[o].asset = ReservedAsset(side)

TakesLocked(t, k) ==
    LET s == Call[t].req
        Leads(account, o, side) ==
            /\ k = <<account, ReservedAsset(side)>>
            /\ o = NilOrder \/ SeenCover(t, o, side) > 0
    IN  \/ Leads(s.maker, s.makerOrder, s.makerSide)
        \/ Leads(s.taker, s.takerOrder, Opposite(s.makerSide))

TakenLocked(t, k) ==
    IF TakesLocked(t, k) THEN Smaller(seen[t].locked[k], Debit(NetOf(t)[k])) ELSE 0

TakenAvailable(t, k) == Debit(NetOf(t)[k]) - TakenLocked(t, k)

Consumed(t, o) ==
    LET s == Call[t].req
        By(account, order, side) ==
            IF o = order
            THEN Smaller(SeenCover(t, o, side),
                         Debit(NetOf(t)[<<account, ReservedAsset(side)>>]))
            ELSE 0
    IN  By(s.maker, s.makerOrder, s.makerSide)
        + By(s.taker, s.takerOrder, Opposite(s.makerSide))

Payable(t) ==
    LET s == Call[t].req
    IN  /\ NetOf(t) # NoEntries
        /\ SeenAssetMatches(t, s.makerOrder, s.makerSide)
        /\ SeenAssetMatches(t, s.takerOrder, Opposite(s.makerSide))
        /\ \A k \in Key : TakenAvailable(t, k) <= seen[t].available[k]

WriteEntries(t) ==
    LET s == Call[t].req
        net == NetOf(t)
        row == seen[t]
    IN  /\ available' = [k \in Key |->
                IF net[k] = 0 THEN available[k]
                ELSE row.available[k] + Credit(net[k]) - TakenAvailable(t, k)]
        /\ locked' = [k \in Key |->
                IF net[k] = 0 THEN locked[k] ELSE row.locked[k] - TakenLocked(t, k)]
        /\ reservation' = [o \in Order |->
                IF Consumed(t, o) > 0 THEN Consume(row.reservation[o], Consumed(t, o))
                                      ELSE reservation[o]]
        /\ journal' = [journal EXCEPT ![s.trade] = net]
        /\ processed' = processed \cup {s.event}

CommitSettle(t) ==
    /\ SettleCall(t) /\ Ready(t)
    /\ \/ ~ Payable(t) /\ Rollback(t)
       \/ Payable(t) /\ EntryConflict(t) /\ OnUniqueViolation(t)
       \/ /\ Payable(t) /\ ~ EntryConflict(t)
          /\ \A key \in KeyRows(Call[t].req.event) : Free(key, t)
          /\ WriteEntries(t) /\ End(t)

\* A statement fails, the context's deadline passes or the service crashes.
Abort(t) ==
    /\ pc[t] # "done"
    /\ Rollback(t)

Step(t) ==
    \/ CheckEvent(t) \/ CheckTrade(t) \/ CommitMark(t) \/ TakeLock(t)
    \/ CommitReserve(t) \/ CommitRelease(t) \/ CommitSettle(t)

TxNext == \E t \in Tx : Step(t) \/ Abort(t)

TxSpec == TxInit /\ [][TxNext]_txVars

-----------------------------------------------------------------------------
\* The interleaved transactions behave like the atomic ones of Ledger: row
\* locks, advisory locks and the unique index make them serializable.  (This
\* is Ledger's Spec; TLC looks at Next only where a table changes.)
Serializable == Init /\ [][UNCHANGED vars \/ Next]_vars

Begun(t) == pc[t] \in {"trade", "lock"}
Recording(t) == pc[t] = "mark"

WaitsFor(t, u) == plan[t] # <<>> /\ Head(plan[t]) \in held[u]
Waiting(t) == pc[t] = "lock" /\ \E u \in Tx \ {t} : WaitsFor(t, u)

\* No order of taking locks is circular: of the transactions that have begun
\* and move balances, one is not waiting for another's lock.  The keys of an
\* event, inserted in any order, are waited for only by transactions that record
\* the same event of a settled trade: when Postgres ends one of two that wait
\* for each other, no settlement is lost.
NoDeadlock ==
    /\ \A t \in Tx : Begun(t) => \E u \in Tx : Begun(u) /\ ~ Waiting(u)
    /\ \A t, u \in Tx : Recording(t) /\ t # u /\ WaitsFor(t, u) =>
          /\ Recording(u) /\ Call[u].req.event = Call[t].req.event
          /\ AlreadySettled(Call[t].req.trade)
=============================================================================
