--------------------------- MODULE LedgerTxProofs ---------------------------
(***************************************************************************)
(* Proofs about LedgerTx for every set of calls that come together and     *)
(* every order of their statements: the interleaved transactions implement *)
(* the atomic ones of Ledger, and they never wait for each other in a      *)
(* circle.                                                                 *)
(*                                                                         *)
(* TxInv is inductive.  Two facts carry it: a transaction writes only rows *)
(* whose locks it holds, so that what another has read under a lock stays  *)
(* what the table holds (SeenIsCurrent); and how far each kind of          *)
(* transaction has come with its locks tells which ones it holds           *)
(* (Progress).  That nobody settles a trade twice needs more than locks:   *)
(* the check for an earlier settlement comes before them, and only the     *)
(* unique index over a trade's entries finds one that came in between      *)
(* (ConflictFindsSettled).                                                 *)
(***************************************************************************)
EXTENDS LedgerTx, LedgerProofs

Lock ==
    ({"advisory"} \X (Order \cup {FeeAccount})) \cup ({"reservation"} \X Order)
    \cup ({"account"} \X Key) \cup ({"key"} \X Event \X {"raw", "prefixed"})

SeenRows ==
    [available: [Key -> Nat], locked: [Key -> Nat],
     reservation: [Order -> Reservation \cup {NoReservation}]]

TxTypeOK ==
    /\ pc \in [Tx -> {"event", "trade", "lock", "mark", "done"}]
    /\ plan \in [Tx -> Seq(Lock)]
    /\ held \in [Tx -> SUBSET Lock]
    /\ seen \in [Tx -> SeenRows]

\* A lock has one holder.
Exclusive == \A t, u \in Tx : t # u => held[t] \cap held[u] = {}

\* What a transaction has locked it has read, and nobody else has changed it.
SeenIsCurrent(t) ==
    /\ \A k \in Key : AccountRow(k) \in held[t] =>
          seen[t].available[k] = available[k] /\ seen[t].locked[k] = locked[k]
    /\ \A o \in Order : ReservationRow(o) \in held[t] =>
          Reserved(o) /\ seen[t].reservation[o] = reservation[o]

\* How far each kind of transaction has come with its locks.
ReserveProgress(t) ==
    LET o == Call[t].req.order
        row == AccountRow(<<Call[t].req.account, Call[t].req.asset>>)
    IN  \/ plan[t] = ReserveLocks(t) /\ held[t] = {}
        \/ plan[t] = <<ReservationRow(o), row>> /\ held[t] = {OrderAdvisory(o)}
        \/ plan[t] = <<row>> /\ held[t] = {OrderAdvisory(o)}
        \/ plan[t] = <<>> /\ held[t] = {OrderAdvisory(o), row}

ReleaseProgress(t) ==
    LET o == Call[t].order
    IN  \/ plan[t] = <<ReservationRow(o)>> /\ held[t] = {}
        \/ /\ Reserved(o) /\ Remaining(o) > 0
           /\ plan[t] = <<AccountRow(RowOf(o))>> /\ held[t] = {ReservationRow(o)}
        \/ /\ Reserved(o) /\ Remaining(o) > 0
           /\ plan[t] = <<>> /\ held[t] = {ReservationRow(o), AccountRow(RowOf(o))}
        \/ /\ Reserved(o) /\ Remaining(o) <= 0
           /\ plan[t] = <<>> /\ held[t] = {ReservationRow(o)}

IsAccount(lock) == lock[1] = "account"

AccountsLast(locks) ==
    \A i, j \in DOMAIN locks : i < j /\ IsAccount(locks[i]) => IsAccount(locks[j])

SettleProgress(t) ==
    /\ Delivered(t)
    /\ held[t] \cup Range(plan[t]) = Range(SettleLocks(t))
    /\ \/ plan[t] = SettleLocks(t) /\ held[t] = {}
       \/ /\ FeeAdvisory \in held[t]
          /\ AccountsLast(plan[t])
          /\ \A lock \in Range(plan[t]) : lock[1] \in {"reservation", "account"}
          /\ (\E lock \in held[t] : IsAccount(lock)) =>
                \A lock \in Range(plan[t]) : IsAccount(lock)

Progress(t) ==
    /\ pc[t] \in {"event", "trade"} =>
          SettleCall(t) /\ plan[t] = SettleLocks(t) /\ held[t] = {}
    /\ pc[t] = "trade" => Delivered(t)
    /\ pc[t] = "done" => held[t] = {}
    /\ pc[t] = "mark" =>
          /\ SettleCall(t) /\ Duplicate(Call[t].req)
          /\ held[t] \cup Range(plan[t]) \subseteq KeyRows(Call[t].req.event)
    /\ pc[t] = "lock" =>
          \/ ReserveCall(t) /\ ReserveProgress(t)
          \/ ReleaseCall(t) /\ ReleaseProgress(t)
          \/ SettleCall(t) /\ SettleProgress(t)

\* The entries of a trade are those of a settlement of it.
JournalOfSettlements ==
    \A tr \in Trade : AlreadySettled(tr) =>
        \E s \in Settlements, mf, tf \in FeeAmounts :
            s.trade = tr /\ journal[tr] = Net(s, mf, tf)

TxInv ==
    /\ LedgerInv /\ ProcessedImpliesSettled /\ JournalOfSettlements
    /\ TxTypeOK /\ Exclusive
    /\ \A t \in Tx : SeenIsCurrent(t) /\ Progress(t)

-----------------------------------------------------------------------------
(***************************************************************************)
(* Sequences of locks.                                                     *)
(***************************************************************************)

\* Taking the first lock of a plan leaves the others.
LEMMA RangeTail ==
  ASSUME NEW S, NEW q \in Seq(S), q # <<>>
  PROVE  /\ Head(q) \in S /\ Tail(q) \in Seq(S)
         /\ Range(q) = {Head(q)} \cup Range(Tail(q))
<1>1. /\ Len(q) \in Nat /\ Len(q) > 0 /\ Tail(q) \in Seq(S)
      /\ Len(Tail(q)) = Len(q) - 1 /\ Head(q) = q[1]
      /\ \A i \in 1 .. Len(Tail(q)) : Tail(q)[i] = q[i + 1]
      /\ DOMAIN q = 1 .. Len(q) /\ DOMAIN Tail(q) = 1 .. Len(Tail(q))
      /\ \A i \in 1 .. Len(q) : q[i] \in S
  OBVIOUS
<1>2. ASSUME NEW x \in Range(q)  PROVE x \in {Head(q)} \cup Range(Tail(q))
  <2>1. PICK i \in 1 .. Len(q) : x = q[i]
    BY <1>1, Zenon DEF Range
  <2>2. CASE i = 1
    BY <1>1, <2>1, <2>2, Zenon
  <2>3. CASE i # 1
    <3>1. i - 1 \in 1 .. Len(Tail(q)) /\ x = Tail(q)[i - 1]
      BY <1>1, <2>1, <2>3
    <3> QED  BY <1>1, <3>1, Zenon DEF Range
  <2> QED  BY <2>2, <2>3, Zenon
<1>3. ASSUME NEW x \in Range(Tail(q))  PROVE x \in Range(q)
  <2>1. PICK i \in 1 .. Len(Tail(q)) : x = Tail(q)[i]
    BY <1>1 DEF Range
  <2>2. i + 1 \in 1 .. Len(q) /\ x = q[i + 1]
    BY <1>1, <2>1
  <2> QED  BY <1>1, <2>2, Zenon DEF Range
<1>4. Head(q) \in Range(q) /\ Head(q) \in S
  BY <1>1 DEF Range
<1> QED  BY <1>1, <1>2, <1>3, <1>4, Zenon

\* The locks of two plans, one after the other.
LEMMA RangeConcat ==
  ASSUME NEW S, NEW p \in Seq(S), NEW q \in Seq(S)
  PROVE  p \o q \in Seq(S) /\ Range(p \o q) = Range(p) \cup Range(q)
<1>1. /\ p \o q \in Seq(S) /\ Len(p) \in Nat /\ Len(q) \in Nat
      /\ Len(p \o q) = Len(p) + Len(q)
      /\ DOMAIN p = 1 .. Len(p) /\ DOMAIN q = 1 .. Len(q)
      /\ DOMAIN (p \o q) = 1 .. Len(p) + Len(q)
      /\ \A i \in 1 .. Len(p) + Len(q) :
            (p \o q)[i] = IF i <= Len(p) THEN p[i] ELSE q[i - Len(p)]
  OBVIOUS
<1>2. ASSUME NEW x \in Range(p \o q)  PROVE x \in Range(p) \cup Range(q)
  <2>1. PICK i \in 1 .. Len(p) + Len(q) : x = (p \o q)[i]
    BY <1>1 DEF Range
  <2>2. CASE i <= Len(p)
    BY <1>1, <2>1, <2>2 DEF Range
  <2>3. CASE ~ (i <= Len(p))
    <3>1. i - Len(p) \in 1 .. Len(q) /\ x = q[i - Len(p)]
      BY <1>1, <2>1, <2>3
    <3> QED  BY <1>1, <3>1, Zenon DEF Range
  <2> QED  BY <2>2, <2>3, Zenon
<1>3. ASSUME NEW x \in Range(p)  PROVE x \in Range(p \o q)
  <2>1. PICK i \in 1 .. Len(p) : x = p[i]
    BY <1>1, Zenon DEF Range
  <2>2. i \in 1 .. Len(p) + Len(q) /\ x = (p \o q)[i]
    BY <1>1, <2>1
  <2> QED  BY <1>1, <2>2, Zenon DEF Range
<1>4. ASSUME NEW x \in Range(q)  PROVE x \in Range(p \o q)
  <2>1. PICK i \in 1 .. Len(q) : x = q[i]
    BY <1>1, Zenon DEF Range
  <2>2. Len(p) + i \in 1 .. Len(p) + Len(q) /\ x = (p \o q)[Len(p) + i]
    BY <1>1, <2>1
  <2> QED  BY <1>1, <2>2, Zenon DEF Range
<1> QED  BY <1>1, <1>2, <1>3, <1>4, Zenon

\* A plan that locks accounts last still does when a lock has been taken, and
\* has only accounts left once it has taken one.
LEMMA AccountsLastTail ==
  ASSUME NEW S, NEW q \in Seq(S), q # <<>>, AccountsLast(q)
  PROVE  /\ AccountsLast(Tail(q))
         /\ IsAccount(Head(q)) => \A lock \in Range(Tail(q)) : IsAccount(lock)
<1>1. /\ Len(q) \in Nat /\ Len(q) > 0
      /\ Len(Tail(q)) = Len(q) - 1 /\ Head(q) = q[1]
      /\ \A i \in 1 .. Len(Tail(q)) : Tail(q)[i] = q[i + 1]
      /\ DOMAIN q = 1 .. Len(q) /\ DOMAIN Tail(q) = 1 .. Len(Tail(q))
  OBVIOUS
<1>2. ASSUME NEW i \in 1 .. Len(Tail(q)), NEW j \in 1 .. Len(Tail(q)), i < j,
             IsAccount(Tail(q)[i])
      PROVE  IsAccount(Tail(q)[j])
  <2>1. /\ i + 1 \in DOMAIN q /\ j + 1 \in DOMAIN q /\ i + 1 < j + 1
        /\ Tail(q)[i] = q[i + 1] /\ Tail(q)[j] = q[j + 1]
    BY <1>1, <1>2
  <2>2. IsAccount(q[i + 1])
    BY <1>2, <2>1, Zenon
  <2> QED  BY <2>1, <2>2, Zenon DEF AccountsLast
<1>3. ASSUME IsAccount(Head(q)), NEW lock \in Range(Tail(q))  PROVE IsAccount(lock)
  <2>1. PICK i \in 1 .. Len(Tail(q)) : lock = Tail(q)[i]
    BY <1>1, Zenon DEF Range
  <2>2. 1 \in DOMAIN q /\ i + 1 \in DOMAIN q /\ 1 < i + 1 /\ lock = q[i + 1]
    BY <1>1, <2>1
  <2> QED  BY <1>1, <1>3, <2>2, Zenon DEF AccountsLast
<1>4. AccountsLast(Tail(q))
  BY <1>1, <1>2, Zenon DEF AccountsLast
<1> QED  BY <1>3, <1>4, Zenon

\* Accounts come last when a plan without them is followed by one of them.
LEMMA AccountsLastConcat ==
  ASSUME NEW S, NEW p \in Seq(S), NEW q \in Seq(S),
         \A lock \in Range(p) : ~ IsAccount(lock),
         \A lock \in Range(q) : IsAccount(lock)
  PROVE  AccountsLast(p \o q)
<1>1. /\ Len(p) \in Nat /\ Len(q) \in Nat
      /\ DOMAIN p = 1 .. Len(p) /\ DOMAIN q = 1 .. Len(q)
      /\ DOMAIN (p \o q) = 1 .. Len(p) + Len(q)
      /\ \A i \in 1 .. Len(p) + Len(q) :
            (p \o q)[i] = IF i <= Len(p) THEN p[i] ELSE q[i - Len(p)]
  OBVIOUS
<1>2. \A i \in 1 .. Len(p) : ~ IsAccount(p[i])
  BY <1>1, Zenon DEF Range
<1>3. \A i \in 1 .. Len(q) : IsAccount(q[i])
  BY <1>1, Zenon DEF Range
<1> SUFFICES ASSUME NEW i \in 1 .. Len(p) + Len(q), NEW j \in 1 .. Len(p) + Len(q), i < j,
                    IsAccount((p \o q)[i])
             PROVE  IsAccount((p \o q)[j])
  BY <1>1, Zenon DEF AccountsLast
<1>4. ~ (i <= Len(p))
  <2> SUFFICES ASSUME i <= Len(p)  PROVE FALSE
    BY Zenon
  <2>1. i \in 1 .. Len(p) /\ (p \o q)[i] = p[i]
    BY <1>1
  <2> QED  BY <1>2, <2>1, Zenon
<1>5. ~ (j <= Len(p)) /\ j - Len(p) \in 1 .. Len(q)
  BY <1>1, <1>4
<1>6. (p \o q)[j] = q[j - Len(p)]
  BY <1>1, <1>5, Zenon
<1> QED  BY <1>3, <1>5, <1>6, Zenon

-----------------------------------------------------------------------------
(***************************************************************************)
(* The calls, and the locks a settlement takes.                            *)
(***************************************************************************)

\* A settlement's request.
LEMMA SettleType ==
  ASSUME NEW t \in Tx, SettleCall(t)
  PROVE  /\ Call[t].req \in Settlements
         /\ Call[t].makerFee \in FeeAmounts /\ Call[t].takerFee \in FeeAmounts
         /\ NetOf(t) \in [Key -> Int]
         /\ Call[t].req.trade \in Trade /\ Call[t].req.event \in Event
         /\ Call[t].req.maker \in Account /\ Call[t].req.taker \in Account
         /\ Call[t].req.makerSide \in Side
         /\ Call[t].req.makerOrder \in Order \cup {NilOrder}
         /\ Call[t].req.takerOrder \in Order \cup {NilOrder}
<1>1. /\ Call[t].req \in Settlements
      /\ Call[t].makerFee \in FeeAmounts /\ Call[t].takerFee \in FeeAmounts
  BY TxAssumption, Zenon DEF TypesOfCalls, SettleCall, ReserveCall, ReleaseCall
<1>2. NetOf(t) \in [Key -> Int]
  BY <1>1, NetType, Zenon DEF NetOf
<1>3. Call[t].req \in SettlementRequest
  BY <1>1, LedgerAssumption, Zenon
<1> QED  BY <1>1, <1>2, <1>3, Zenon DEF SettlementRequest

\* A reservation's request.
LEMMA ReserveType ==
  ASSUME NEW t \in Tx, ReserveCall(t)
  PROVE  /\ Call[t].req \in ReserveRequests
         /\ Call[t].req.order \in Order /\ Call[t].req.amount \in Nat
         /\ <<Call[t].req.account, Call[t].req.asset>> \in Key
<1>1. Call[t].req \in ReserveRequests
  BY TxAssumption, Zenon DEF TypesOfCalls, SettleCall, ReserveCall, ReleaseCall
<1>2. Call[t].req \in ReserveRequest
  BY <1>1, LedgerAssumption, Zenon
<1> QED  BY <1>1, <1>2, Zenon DEF ReserveRequest, Key

\* A release's order.
LEMMA ReleaseType ==
  ASSUME NEW t \in Tx, ReleaseCall(t)  PROVE Call[t].order \in Order
  BY TxAssumption, Zenon DEF TypesOfCalls, SettleCall, ReserveCall, ReleaseCall

\* A call is of one kind.
LEMMA OneKind ==
  ASSUME NEW t \in Tx
  PROVE  /\ ReserveCall(t) \/ ReleaseCall(t) \/ SettleCall(t)
         /\ ~ (ReserveCall(t) /\ ReleaseCall(t))
         /\ ~ (ReserveCall(t) /\ SettleCall(t))
         /\ ~ (ReleaseCall(t) /\ SettleCall(t))
  BY TxAssumption, Zenon DEF TypesOfCalls, SettleCall, ReserveCall, ReleaseCall

\* The locks are locks.
LEMMA LockType ==
  /\ \A o \in Order : OrderAdvisory(o) \in Lock /\ ReservationRow(o) \in Lock
  /\ FeeAdvisory \in Lock
  /\ \A k \in Key : AccountRow(k) \in Lock
  /\ \A e \in Event : KeyRows(e) \subseteq Lock
  BY DEF Lock, OrderAdvisory, ReservationRow, FeeAdvisory, AccountRow, KeyRows, KeyRow

\* An entry different from zero is of one of five account rows.
EntryKeys(t) ==
    LET s == Call[t].req
    IN  { <<s.maker, Quote>>, <<s.maker, Base>>, <<s.taker, Quote>>,
          <<s.taker, Base>>, <<FeeAccount, Quote>> }

LEMMA EntryKeysType ==
  ASSUME NEW t \in Tx, SettleCall(t)
  PROVE  /\ EntryKeys(t) \subseteq Key
         /\ \A k \in Key : NetOf(t)[k] # 0 => k \in EntryKeys(t)
<1>1. /\ Call[t].req.maker \in Account /\ Call[t].req.taker \in Account
      /\ FeeAccount \in Account
  BY SettleType, LedgerAssumption, Zenon
<1>2. EntryKeys(t) \subseteq Key
  BY <1>1 DEF EntryKeys, Key, Asset
<1>3. ASSUME NEW k \in Key, k \notin EntryKeys(t)  PROVE NetOf(t)[k] = 0
  <2>1. k = <<k[1], k[2]>> /\ k[2] \in {Base, Quote}
    BY DEF Key, Asset
  <2>2. k[1] # Call[t].req.maker /\ k[1] # Call[t].req.taker /\ k # <<FeeAccount, Quote>>
    BY <1>3, <2>1, Zenon DEF EntryKeys
  <2> QED  BY <2>2 DEF NetOf, Net, Leg, FeeIncome
<1> QED  BY <1>2, <1>3, Zenon

\* The rows that a settlement locks.
SettleRows(t) ==
    {ReservationRow(o) : o \in {Call[t].req.makerOrder, Call[t].req.takerOrder} \ {NilOrder}}
    \cup {AccountRow(k) : k \in {x \in Key : NetOf(t)[x] # 0}}

LEMMA ReservationLocksRange ==
  ASSUME NEW t \in Tx, SettleCall(t)
  PROVE  /\ ReservationLocks(t) \in Seq(Lock)
         /\ Range(ReservationLocks(t)) =
              {ReservationRow(o) :
                  o \in {Call[t].req.makerOrder, Call[t].req.takerOrder} \ {NilOrder}}
<1> DEFINE m == Call[t].req.makerOrder
           n == Call[t].req.takerOrder
<1>1. m \in Order \cup {NilOrder} /\ n \in Order \cup {NilOrder}
  BY SettleType, Zenon
<1>2. ASSUME NEW o \in Order \cup {NilOrder}
      PROVE  /\ ReservationLock(o) \in Seq(Lock)
             /\ Range(ReservationLock(o)) = {ReservationRow(p) : p \in {o} \ {NilOrder}}
  <2>1. CASE o = NilOrder
    BY <2>1 DEF ReservationLock, Range
  <2>2. CASE o # NilOrder
    <3>1. ReservationRow(o) \in Lock
      BY <2>2, LockType, Zenon
    <3>2. ReservationLock(o) = <<ReservationRow(o)>>
      BY <2>2, Zenon DEF ReservationLock
    <3> QED  BY <2>2, <3>1, <3>2 DEF Range
  <2> QED  BY <2>1, <2>2, Zenon
<1>3. ReservationLocks(t) = ReservationLock(m) \o ReservationLock(n)
  BY Zenon DEF ReservationLocks
<1>4. /\ ReservationLock(m) \in Seq(Lock) /\ ReservationLock(n) \in Seq(Lock)
      /\ Range(ReservationLock(m)) = {ReservationRow(p) : p \in {m} \ {NilOrder}}
      /\ Range(ReservationLock(n)) = {ReservationRow(p) : p \in {n} \ {NilOrder}}
  BY <1>1, <1>2, Zenon
<1> HIDE DEF m, n
<1>5. /\ ReservationLocks(t) \in Seq(Lock)
      /\ Range(ReservationLocks(t)) = Range(ReservationLock(m)) \cup Range(ReservationLock(n))
  BY <1>3, <1>4, RangeConcat
<1> QED  BY <1>4, <1>5, Zenon DEF m, n

LEMMA EntryLocksRange ==
  ASSUME NEW t \in Tx, SettleCall(t)
  PROVE  /\ EntryLocks(t) \in Seq(Lock)
         /\ Range(EntryLocks(t)) = {AccountRow(k) : k \in {x \in Key : NetOf(t)[x] # 0}}
<1> DEFINE s == Call[t].req
           e1 == EntryLock(t, <<s.maker, Quote>>)
           e2 == EntryLock(t, <<s.maker, Base>>)
           e3 == EntryLock(t, <<s.taker, Quote>>)
           e4 == EntryLock(t, <<s.taker, Base>>)
           e5 == EntryLock(t, <<FeeAccount, Quote>>)
           Rows(k) == {AccountRow(x) : x \in {y \in {k} : NetOf(t)[y] # 0}}
<1>1. ASSUME NEW k \in Key
      PROVE  EntryLock(t, k) \in Seq(Lock) /\ Range(EntryLock(t, k)) = Rows(k)
  <2>1. CASE NetOf(t)[k] = 0
    BY <2>1 DEF EntryLock, Range
  <2>2. CASE NetOf(t)[k] # 0
    <3>1. AccountRow(k) \in Lock
      BY LockType, Zenon
    <3>2. EntryLock(t, k) = <<AccountRow(k)>>
      BY <2>2 DEF EntryLock
    <3> QED  BY <2>2, <3>1, <3>2 DEF Range
  <2> QED  BY <2>1, <2>2, Zenon
<1>2. /\ EntryKeys(t) \subseteq Key
      /\ \A k \in Key : NetOf(t)[k] # 0 => k \in EntryKeys(t)
  BY EntryKeysType, Zenon
<1>3. /\ Range(e1) = Rows(<<s.maker, Quote>>) /\ Range(e2) = Rows(<<s.maker, Base>>)
      /\ Range(e3) = Rows(<<s.taker, Quote>>) /\ Range(e4) = Rows(<<s.taker, Base>>)
      /\ Range(e5) = Rows(<<FeeAccount, Quote>>)
  BY <1>1, <1>2, Zenon DEF EntryKeys
<1>11. /\ e1 \in Seq(Lock) /\ e2 \in Seq(Lock) /\ e3 \in Seq(Lock)
       /\ e4 \in Seq(Lock) /\ e5 \in Seq(Lock)
  BY <1>1, <1>2, Zenon DEF EntryKeys
<1> DEFINE f2 == e1 \o e2
           f3 == f2 \o e3
           f4 == f3 \o e4
           f5 == f4 \o e5
<1>4. EntryLocks(t) = f5
  BY DEF EntryLocks
<1> HIDE DEF e1, e2, e3, e4, e5, Rows, f2, f3, f4, f5
<1>12. \A p, q \in Seq(Lock) :
          p \o q \in Seq(Lock) /\ Range(p \o q) = Range(p) \cup Range(q)
  BY RangeConcat, Zenon
<1>5. f2 \in Seq(Lock) /\ Range(f2) = Range(e1) \cup Range(e2)
  BY <1>11, <1>12, Zenon DEF f2
<1>6. f3 \in Seq(Lock) /\ Range(f3) = Range(f2) \cup Range(e3)
  BY <1>11, <1>12, <1>5, Zenon DEF f3
<1>7. f4 \in Seq(Lock) /\ Range(f4) = Range(f3) \cup Range(e4)
  BY <1>11, <1>12, <1>6, Zenon DEF f4
<1>8. f5 \in Seq(Lock) /\ Range(f5) = Range(f4) \cup Range(e5)
  BY <1>11, <1>12, <1>7, Zenon DEF f5
<1>9. Range(EntryLocks(t)) = Rows(<<s.maker, Quote>>) \cup Rows(<<s.maker, Base>>)
        \cup Rows(<<s.taker, Quote>>) \cup Rows(<<s.taker, Base>>)
        \cup Rows(<<FeeAccount, Quote>>)
  BY <1>3, <1>4, <1>5, <1>6, <1>7, <1>8, Zenon
<1>10. {AccountRow(k) : k \in {x \in Key : NetOf(t)[x] # 0}}
         = {AccountRow(k) : k \in {x \in EntryKeys(t) : NetOf(t)[x] # 0}}
  BY <1>2, Zenon
<1> QED  BY <1>4, <1>8, <1>9, <1>10, Zenon DEF Rows, EntryKeys

LEMMA SettleLocksRange ==
  ASSUME NEW t \in Tx, SettleCall(t)
  PROVE  /\ SettleLocks(t) \in Seq(Lock) /\ SettleLocks(t) # <<>>
         /\ Head(SettleLocks(t)) = FeeAdvisory
         /\ Range(SettleLocks(t)) = {FeeAdvisory} \cup SettleRows(t)
         /\ Range(Tail(SettleLocks(t))) = SettleRows(t)
         /\ AccountsLast(Tail(SettleLocks(t)))
<1> DEFINE r == ReservationLocks(t)
           e == EntryLocks(t)
<1>1. /\ r \in Seq(Lock) /\ e \in Seq(Lock)
      /\ Range(r) = {ReservationRow(o) :
            o \in {Call[t].req.makerOrder, Call[t].req.takerOrder} \ {NilOrder}}
      /\ Range(e) = {AccountRow(k) : k \in {x \in Key : NetOf(t)[x] # 0}}
  BY ReservationLocksRange, EntryLocksRange, Zenon
<1>2. SettleLocks(t) = <<FeeAdvisory>> \o (r \o e)
  BY Zenon DEF SettleLocks
<1>3. r \o e \in Seq(Lock) /\ Range(r \o e) = SettleRows(t)
  <2>1. r \o e \in Seq(Lock) /\ Range(r \o e) = Range(r) \cup Range(e)
    <3> HIDE DEF r, e
    <3> QED  BY <1>1, RangeConcat
  <2> QED  BY <1>1, <2>1, Zenon DEF SettleRows
<1>4. AccountsLast(r \o e)
  <2>1. \A lock \in Range(r) : ~ IsAccount(lock)
    BY <1>1 DEF ReservationRow, IsAccount
  <2>2. \A lock \in Range(e) : IsAccount(lock)
    BY <1>1 DEF AccountRow, IsAccount
  <2> HIDE DEF r, e
  <2> QED  BY <1>1, <2>1, <2>2, AccountsLastConcat, Zenon
<1> DEFINE w == r \o e
<1>5. FeeAdvisory \in Lock
  BY LockType, Zenon
<1> HIDE DEF r, e, w
<1>6. w \in Seq(Lock) /\ SettleLocks(t) = <<FeeAdvisory>> \o w
  BY <1>2, <1>3, Zenon DEF w
<1>7. /\ SettleLocks(t) \in Seq(Lock) /\ SettleLocks(t) # <<>>
      /\ Head(SettleLocks(t)) = FeeAdvisory /\ Tail(SettleLocks(t)) = w
  <2> HIDE DEF FeeAdvisory
  <2> QED  BY <1>5, <1>6
<1>8. Range(SettleLocks(t)) = {FeeAdvisory} \cup Range(w)
  BY <1>7, RangeTail, Zenon
<1> QED  BY <1>3, <1>4, <1>7, <1>8, Zenon DEF w

-----------------------------------------------------------------------------
(***************************************************************************)
(* What a committed step of the ledger never takes back.                   *)
(***************************************************************************)

\* A row that has a status other than "none" is there.
LEMMA ReservedStays ==
  ASSUME LedgerInv, [Next]_vars, NEW o \in Order, Reserved(o)
  PROVE  Reserved(o)'
<1>1. reservation \in [Order -> Reservation \cup {NoReservation}]
  BY Zenon DEF LedgerInv, TypeOK
<1>2. reservation[o] \in Reservation
  BY ReservedRow, Zenon
<1>3. CASE reservation'[o] = reservation[o]
  BY <1>3, Zenon DEF Reserved
<1>4. ASSUME NEW req \in ReserveRequests, ReserveBalance(req)
      PROVE  reservation'[o] = reservation[o]
  BY <1>1, <1>4, Zenon DEF ReserveBalance, CanReserve
<1>5. ASSUME NEW p \in Order, ReleaseReservation(p)  PROVE Reserved(o)'
  <2>1. CASE p # o
    BY <1>1, <1>3, <1>5, <2>1, Zenon DEF ReleaseReservation, Release
  <2>2. CASE p = o
    <3>1. PICK st : /\ st # "none" /\ reservation'[o].status = st
      <4> DEFINE c == reservation[o].amount - ReleaseAmount(o)
                 st == StatusAfter(c, reservation[o].amount, "released")
      <4>1. CASE Remaining(o) > 0 /\ Release(o)
        <5>1. reservation' = [reservation EXCEPT ![o].consumed = c, ![o].status = st]
          BY <4>1, Zenon DEF Release
        <5>2. st # "none"
          BY Zenon DEF StatusAfter
        <5> HIDE DEF c, st
        <5>3. reservation'[o].status = st
          BY <1>1, <1>2, <5>1, Zenon DEF Reservation
        <5> QED  BY <5>2, <5>3, Zenon
      <4>2. CASE reservation' = [reservation EXCEPT ![o].status = "consumed"]
        BY <1>1, <1>2, <4>2, Zenon DEF Reservation
      <4> QED  BY <1>5, <2>2, <4>1, <4>2, Zenon DEF ReleaseReservation
    <3> QED  BY <3>1 DEF Reserved, NoReservation
  <2> QED  BY <2>1, <2>2, Zenon
<1>6. ASSUME NEW s \in Settlements, NEW mf \in FeeAmounts, NEW tf \in FeeAmounts,
             ApplySettlement(s, mf, tf), reservation'[o] # reservation[o]
      PROVE  Reserved(o)'
  <2>1. Post(s, mf, tf)
    BY <1>6, Zenon DEF ApplySettlement
  <2>2. reservation'[o].status # "none"
    BY <1>6, <2>1, PostRow, Zenon
  <2> QED  BY <2>2 DEF Reserved, NoReservation
<1> QED  BY <1>3, <1>4, <1>5, <1>6, Zenon DEF Next, vars

\* The entries of a settled trade, and the marks of processed events, stay.
LEMMA SettledStays ==
  ASSUME LedgerInv, [Next]_vars
  PROVE  /\ processed \subseteq processed'
         /\ \A tr \in Trade : AlreadySettled(tr) => AlreadySettled(tr)'
<1>1. CASE journal' = journal /\ processed' = processed
  BY <1>1, Zenon DEF AlreadySettled
<1>2. ASSUME NEW s \in Settlements, NEW mf \in FeeAmounts, NEW tf \in FeeAmounts,
             ApplySettlement(s, mf, tf)
      PROVE  /\ processed \subseteq processed'
             /\ \A tr \in Trade : AlreadySettled(tr) => AlreadySettled(tr)'
  <2>1. s.trade \in Trade
    BY LedgerAssumption, Zenon DEF SettlementRequest
  <2>2. processed' = processed \cup {s.event}
    BY <1>2, Zenon DEF ApplySettlement
  <2>3. CASE journal' = journal
    BY <2>2, <2>3, Zenon DEF AlreadySettled
  <2>4. CASE ~ Duplicate(s) /\ Post(s, mf, tf)
    <3>1. \A u \in Trade \ {s.trade} : journal'[u] = journal[u]
      BY <2>1, <2>4, Zenon DEF Post, LedgerInv, TypeOK
    <3>2. ~ AlreadySettled(s.trade)
      BY <2>4, Zenon DEF Duplicate
    <3> QED  BY <2>2, <3>1, <3>2, Zenon DEF AlreadySettled
  <2> QED  BY <1>2, <2>3, <2>4, Zenon DEF ApplySettlement
<1> QED  BY <1>1, <1>2, Zenon DEF Next, vars, ReserveBalance, ReleaseReservation

\* Entries are written by a settlement of their trade.
LEMMA EntriesOfSettlements ==
  ASSUME LedgerInv, JournalOfSettlements, [Next]_vars
  PROVE  JournalOfSettlements'
<1>1. CASE journal' = journal
  BY <1>1 DEF JournalOfSettlements, AlreadySettled
<1>2. ASSUME NEW s \in Settlements, NEW mf \in FeeAmounts, NEW tf \in FeeAmounts,
             Post(s, mf, tf)
      PROVE  JournalOfSettlements'
  <2>1. s.trade \in Trade
    BY LedgerAssumption, Zenon DEF SettlementRequest
  <2>2. /\ journal'[s.trade] = Net(s, mf, tf)
        /\ \A u \in Trade \ {s.trade} : journal'[u] = journal[u]
    BY <1>2, <2>1, Zenon DEF Post, LedgerInv, TypeOK
  <2> QED  BY <2>1, <2>2 DEF JournalOfSettlements, AlreadySettled
<1> QED
  BY <1>1, <1>2, Zenon DEF Next, vars, ReserveBalance, ReleaseReservation, ApplySettlement

-----------------------------------------------------------------------------
(***************************************************************************)
(* Locks protect what was read: a step of one transaction writes only rows *)
(* whose locks it holds, so what the others have read stays current.       *)
(***************************************************************************)

\* A step of t writes only account rows and reservations it has locked.
WritesOwnRows(t) ==
    /\ \A k \in Key : AccountRow(k) \notin held[t] =>
          available'[k] = available[k] /\ locked'[k] = locked[k]
    /\ \A o \in Order : Reserved(o) /\ ReservationRow(o) \notin held[t] =>
          reservation'[o] = reservation[o]

\* The transaction u does nothing.
Idle(u) ==
    /\ pc'[u] = pc[u] /\ plan'[u] = plan[u]
    /\ held'[u] = held[u] /\ seen'[u] = seen[u]

LEMMA OthersSeeCurrent ==
  ASSUME TxInv, [Next]_vars, NEW t \in Tx, NEW u \in Tx, u # t,
         WritesOwnRows(t), Idle(u)
  PROVE  SeenIsCurrent(u)'
<1>1. held[t] \cap held[u] = {} /\ SeenIsCurrent(u) /\ LedgerInv
  BY Zenon DEF TxInv, Exclusive
<1>2. ASSUME NEW k \in Key, AccountRow(k) \in held'[u]
      PROVE  seen'[u].available[k] = available'[k] /\ seen'[u].locked[k] = locked'[k]
  BY <1>1, <1>2 DEF SeenIsCurrent, WritesOwnRows, Idle
<1>3. ASSUME NEW o \in Order, ReservationRow(o) \in held'[u]
      PROVE  Reserved(o)' /\ seen'[u].reservation[o] = reservation'[o]
  <2>1. Reserved(o) /\ seen[u].reservation[o] = reservation[o]
    BY <1>1, <1>3, Zenon DEF SeenIsCurrent, Idle
  <2>2. reservation'[o] = reservation[o]
    BY <1>1, <1>3, <2>1, Zenon DEF WritesOwnRows, Idle
  <2> QED  BY <2>1, <2>2, Zenon DEF Reserved, Idle
<1> QED  BY <1>2, <1>3, Zenon DEF SeenIsCurrent

LEMMA OthersProgress ==
  ASSUME TxInv, [Next]_vars, NEW t \in Tx, NEW u \in Tx, u # t,
         WritesOwnRows(t), Idle(u)
  PROVE  Progress(u)'
<1>1. held[t] \cap held[u] = {} /\ Progress(u) /\ SeenIsCurrent(u) /\ LedgerInv
  BY Zenon DEF TxInv, Exclusive
<1>2. SettleCall(u) /\ Delivered(u) => Delivered(u)'
  <2> SUFFICES ASSUME SettleCall(u), Delivered(u)  PROVE Delivered(u)'
    BY Zenon
  <2>1. /\ Call[u].req.makerOrder \in Order \cup {NilOrder}
        /\ Call[u].req.takerOrder \in Order \cup {NilOrder}
    BY SettleType, Zenon
  <2> QED  BY <1>1, <2>1, ReservedStays, Zenon DEF Delivered
<1>3. SettleCall(u) /\ Duplicate(Call[u].req) => Duplicate(Call[u].req)'
  BY <1>1, SettleType, SettledStays, Zenon DEF Duplicate
<1>4. ASSUME pc'[u] = "lock"
      PROVE  (\/ ReserveCall(u) /\ ReserveProgress(u)
              \/ ReleaseCall(u) /\ ReleaseProgress(u)
              \/ SettleCall(u) /\ SettleProgress(u))'
  <2>1. \/ ReserveCall(u) /\ ReserveProgress(u)
        \/ ReleaseCall(u) /\ ReleaseProgress(u)
        \/ SettleCall(u) /\ SettleProgress(u)
    BY <1>1, <1>4, Zenon DEF Progress, Idle
  <2>2. CASE ReserveCall(u) /\ ReserveProgress(u)
    BY <2>2, Zenon DEF ReserveCall, ReserveProgress, Idle, ReserveLocks
  <2>3. CASE ReleaseCall(u) /\ ReleaseProgress(u)
    <3> DEFINE o == Call[u].order
    <3>1. o \in Order
      BY <2>3, ReleaseType, Zenon
    <3>2. CASE plan[u] = <<ReservationRow(o)>> /\ held[u] = {}
      BY <2>3, <3>2, Zenon DEF ReleaseCall, ReleaseProgress, Idle
    <3>3. CASE Reserved(o) /\ ReservationRow(o) \in held[u]
      <4>1. reservation'[o] = reservation[o]
        BY <1>1, <3>1, <3>3, Zenon DEF WritesOwnRows
      <4>2. /\ Reserved(o)' /\ Remaining(o)' = Remaining(o) /\ RowOf(o)' = RowOf(o)
        BY <3>3, <4>1, Zenon DEF Reserved, Remaining, RowOf
      <4> QED  BY <2>3, <4>2, Zenon DEF ReleaseCall, ReleaseProgress, Idle
    <3> QED  BY <2>3, <3>2, <3>3, Zenon DEF ReleaseProgress
  <2>4. CASE SettleCall(u) /\ SettleProgress(u)
    <3>1. Delivered(u)'
      BY <1>2, <2>4, Zenon DEF SettleProgress
    <3>2. SettleLocks(u)' = SettleLocks(u)
      BY Zenon
    <3> QED  BY <2>4, <3>1, <3>2, Zenon DEF SettleCall, SettleProgress, Idle
  <2> QED  BY <2>1, <2>2, <2>3, <2>4, Zenon
<1> QED
  BY <1>1, <1>2, <1>3, <1>4, Zenon DEF Progress, Idle, SettleCall

\* What is left to show of a step of t.
LEMMA StepKeepsInv ==
  ASSUME TxInv, [Next]_vars, NEW t \in Tx, WritesOwnRows(t), TxTypeOK',
         \A u \in Tx \ {t} : Idle(u),
         \A u \in Tx \ {t} : held'[t] \cap held[u] = {},
         SeenIsCurrent(t)', Progress(t)'
  PROVE  TxInv'
<1>1. LedgerInv' /\ ProcessedImpliesSettled' /\ JournalOfSettlements'
  BY NextInv, MarksFollowEntries, EntriesOfSettlements, Zenon DEF TxInv
<1>2. Exclusive'
  BY Zenon DEF TxInv, Exclusive, Idle
<1>3. ASSUME NEW u \in Tx  PROVE (SeenIsCurrent(u) /\ Progress(u))'
  <2>1. CASE u = t
    BY <2>1, Zenon
  <2>2. CASE u # t
    BY <2>2, OthersSeeCurrent, OthersProgress, Zenon
  <2> QED  BY <2>1, <2>2, Zenon
<1> QED  BY <1>1, <1>2, <1>3, Zenon DEF TxInv

-----------------------------------------------------------------------------
(***************************************************************************)
(* The steps that change no table.                                         *)
(***************************************************************************)

\* A transaction that ends keeps no locks, whatever it has written of its own.
LEMMA EndStep ==
  ASSUME TxInv, [Next]_vars, NEW t \in Tx, WritesOwnRows(t), End(t)
  PROVE  TxInv'
<1>1. TxTypeOK
  BY Zenon DEF TxInv
<1>2. NothingSeen \in SeenRows
  BY Zenon DEF NothingSeen, SeenRows
<1>3. /\ pc'[t] = "done" /\ held'[t] = {} /\ \A u \in Tx \ {t} : Idle(u)
  BY <1>1, Zenon DEF End, TxTypeOK, Idle
<1>4. TxTypeOK'
  <2>1. <<>> \in Seq(Lock) /\ {} \in SUBSET Lock
    OBVIOUS
  <2> QED  BY <1>1, <1>2, <2>1, Zenon DEF End, TxTypeOK
<1>5. SeenIsCurrent(t)'
  BY <1>3, Zenon DEF SeenIsCurrent
<1>6. Progress(t)'
  BY <1>3, Zenon DEF Progress
<1> QED  BY <1>3, <1>4, <1>5, <1>6, StepKeepsInv, Zenon

LEMMA RollbackStep ==
  ASSUME TxInv, NEW t \in Tx, Rollback(t)  PROVE TxInv'
<1>1. [Next]_vars /\ WritesOwnRows(t) /\ End(t)
  BY DEF Rollback, WritesOwnRows, vars
<1> QED  BY <1>1, EndStep, Zenon

\* Recording a duplicate plans the two keys of the event.
LEMMA RecordKeys ==
  ASSUME TxInv, NEW t \in Tx, SettleCall(t), RecordEvent(t)
  PROVE  /\ pc' = [pc EXCEPT ![t] = "mark"]
         /\ \E keys \in Seq(Lock) : /\ Range(keys) \subseteq KeyRows(Call[t].req.event)
                                    /\ plan' = [plan EXCEPT ![t] = keys]
<1>1. PICK keys \in [1 .. 2 -> KeyRows(Call[t].req.event)] :
        plan' = [plan EXCEPT ![t] = keys]
  BY Zenon DEF RecordEvent
<1>2. KeyRows(Call[t].req.event) \subseteq Lock
  BY SettleType, LockType, Zenon
<1>3. keys \in Seq(Lock) /\ Range(keys) \subseteq KeyRows(Call[t].req.event)
  <2> DEFINE K == KeyRows(Call[t].req.event)
  <2>1. keys \in [1 .. 2 -> K] /\ K \subseteq Lock
    BY <1>2, Zenon
  <2> HIDE DEF K
  <2>2. keys \in Seq(Lock)
    <3>1. keys = [i \in 1 .. 2 |-> keys[i]]
      BY <2>1, Zenon
    <3>2. [i \in 1 .. 2 |-> keys[i]] \in Seq(Lock)
      BY <2>1
    <3> QED  BY <3>1, <3>2, Zenon
  <2>3. Range(keys) \subseteq K
    BY <2>1, Zenon DEF Range
  <2> QED  BY <2>2, <2>3, Zenon DEF K
<1> QED  BY <1>1, <1>3, Zenon DEF RecordEvent

\* The two checks before a settlement takes locks.
LEMMA CheckStep ==
  ASSUME TxInv, NEW t \in Tx, CheckEvent(t) \/ CheckTrade(t)
  PROVE  TxInv'
<1>1. TxTypeOK /\ SeenIsCurrent(t) /\ Progress(t)
  BY Zenon DEF TxInv
<1>2. pc[t] \in {"event", "trade"} /\ UNCHANGED <<vars, held, seen>>
  BY Zenon DEF CheckEvent, CheckTrade
<1>3. /\ SettleCall(t) /\ plan[t] = SettleLocks(t) /\ held[t] = {} /\ Delivered(t)
  BY <1>1, <1>2, Zenon DEF Progress, CheckEvent, CheckTrade
<1>4. [Next]_vars /\ WritesOwnRows(t)
  BY <1>2, Zenon DEF WritesOwnRows, vars
<1>5. SeenIsCurrent(t)'
  BY <1>2, <1>3 DEF SeenIsCurrent
<1>6. CASE RecordEvent(t) /\ Duplicate(Call[t].req)
  <2>1. PICK keys \in Seq(Lock) : /\ Range(keys) \subseteq KeyRows(Call[t].req.event)
                                  /\ plan' = [plan EXCEPT ![t] = keys]
    BY <1>3, <1>6, RecordKeys, Zenon
  <2>2. pc' = [pc EXCEPT ![t] = "mark"]
    BY <1>6, Zenon DEF RecordEvent
  <2>3. TxTypeOK' /\ \A u \in Tx \ {t} : Idle(u)
    BY <1>1, <1>2, <2>1, <2>2, Zenon DEF TxTypeOK, Idle
  <2>4. /\ pc'[t] = "mark" /\ plan'[t] = keys /\ held'[t] = {}
    BY <1>1, <1>2, <1>3, <2>1, <2>2, Zenon DEF TxTypeOK
  <2>5. Duplicate(Call[t].req)'
    BY <1>2, <1>6, Zenon DEF Duplicate, AlreadySettled, vars
  <2>6. Progress(t)'
    BY <1>3, <2>1, <2>4, <2>5, Zenon DEF Progress, SettleCall
  <2> QED  BY <1>4, <1>5, <2>3, <2>4, <2>6, StepKeepsInv, Zenon
<1>7. ASSUME NEW step \in {"trade", "lock"}, GoOn(t, step)  PROVE TxInv'
  <2>1. TxTypeOK' /\ \A u \in Tx \ {t} : Idle(u)
    BY <1>1, <1>2, <1>7, Zenon DEF TxTypeOK, Idle, GoOn
  <2>2. pc'[t] = step /\ plan'[t] = SettleLocks(t) /\ held'[t] = {}
    BY <1>1, <1>2, <1>3, <1>7, Zenon DEF TxTypeOK, GoOn
  <2>3. Delivered(t)'
    BY <1>2, <1>3, Zenon DEF Delivered, Reserved, vars
  <2>4. SettleLocks(t)' = SettleLocks(t) /\ SettleCall(t)'
    BY <1>3, Zenon DEF SettleCall
  <2>5. Progress(t)'
    BY <2>2, <2>3, <2>4, Zenon DEF Progress, SettleProgress
  <2> QED  BY <1>4, <1>5, <2>1, <2>2, <2>5, StepKeepsInv, Zenon
<1> QED  BY <1>6, <1>7, Zenon DEF CheckEvent, CheckTrade, Duplicate

\* What reading a row adds.
LEMMA SeenWithType ==
  ASSUME TxInv, NEW t \in Tx, NEW lock \in Lock
  PROVE  /\ SeenWith(t, lock) \in SeenRows
         /\ \A k \in Key : lock # AccountRow(k) =>
               /\ SeenWith(t, lock).available[k] = seen[t].available[k]
               /\ SeenWith(t, lock).locked[k] = seen[t].locked[k]
         /\ \A o \in Order : lock # ReservationRow(o) =>
               SeenWith(t, lock).reservation[o] = seen[t].reservation[o]
         /\ \A k \in Key : lock = AccountRow(k) =>
               /\ SeenWith(t, lock).available[k] = available[k]
               /\ SeenWith(t, lock).locked[k] = locked[k]
         /\ \A o \in Order : lock = ReservationRow(o) =>
               SeenWith(t, lock).reservation[o] = reservation[o]
<1>1. /\ seen[t] \in SeenRows /\ available \in [Key -> Nat] /\ locked \in [Key -> Nat]
      /\ reservation \in [Order -> Reservation \cup {NoReservation}]
  BY Zenon DEF TxInv, TxTypeOK, LedgerInv, TypeOK
<1>2. CASE lock[1] \in {"advisory", "key"}
  <2>1. SeenWith(t, lock) = seen[t]
    BY <1>2, Zenon DEF SeenWith
  <2>2. \A k \in Key : lock # AccountRow(k)
    BY <1>2 DEF AccountRow
  <2>3. \A o \in Order : lock # ReservationRow(o)
    BY <1>2 DEF ReservationRow
  <2> QED  BY <1>1, <2>1, <2>2, <2>3, Zenon
<1>3. CASE \E o \in Order : lock = ReservationRow(o)
  <2>1. PICK o \in Order : lock = ReservationRow(o)
    BY <1>3, Zenon
  <2>2. lock[1] = "reservation" /\ lock[2] = o
    BY <2>1, Zenon DEF ReservationRow
  <2>3. SeenWith(t, lock) = [seen[t] EXCEPT !.reservation[o] = reservation[o]]
    BY <2>2, Zenon DEF SeenWith
  <2>4. \A k \in Key : lock # AccountRow(k)
    BY <2>2 DEF AccountRow
  <2>5. \A p \in Order : lock = ReservationRow(p) <=> p = o
    BY <2>1, Zenon DEF ReservationRow
  <2> DEFINE new == [seen[t].reservation EXCEPT ![o] = reservation[o]]
  <2>6. /\ new \in [Order -> Reservation \cup {NoReservation}]
        /\ new[o] = reservation[o] /\ \A p \in Order \ {o} : new[p] = seen[t].reservation[p]
    BY <1>1, Zenon DEF SeenRows
  <2>7. SeenWith(t, lock) = [available |-> seen[t].available, locked |-> seen[t].locked,
                             reservation |-> new]
    BY <1>1, <2>3, Zenon DEF SeenRows
  <2> HIDE DEF new
  <2>8. SeenWith(t, lock) \in SeenRows
    BY <1>1, <2>6, <2>7 DEF SeenRows
  <2> QED  BY <2>4, <2>5, <2>6, <2>7, <2>8
<1>4. CASE \E k \in Key : lock = AccountRow(k)
  <2>1. PICK k \in Key : lock = AccountRow(k)
    BY <1>4, Zenon
  <2>2. lock[1] = "account" /\ lock[2] = k
    BY <2>1, Zenon DEF AccountRow
  <2>3. SeenWith(t, lock) = [seen[t] EXCEPT !.available[k] = available[k],
                                            !.locked[k] = locked[k]]
    BY <2>2, Zenon DEF SeenWith
  <2>4. \A o \in Order : lock # ReservationRow(o)
    BY <2>2 DEF ReservationRow
  <2>5. \A x \in Key : lock = AccountRow(x) <=> x = k
    BY <2>1, Zenon DEF AccountRow
  <2> DEFINE av == [seen[t].available EXCEPT ![k] = available[k]]
             lk == [seen[t].locked EXCEPT ![k] = locked[k]]
  <2>6. /\ av \in [Key -> Nat] /\ lk \in [Key -> Nat]
        /\ av[k] = available[k] /\ lk[k] = locked[k]
        /\ \A x \in Key \ {k} : av[x] = seen[t].available[x] /\ lk[x] = seen[t].locked[x]
    BY <1>1, Zenon DEF SeenRows
  <2>7. SeenWith(t, lock) = [available |-> av, locked |-> lk,
                             reservation |-> seen[t].reservation]
    BY <1>1, <2>3, Zenon DEF SeenRows
  <2> HIDE DEF av, lk
  <2>8. SeenWith(t, lock) \in SeenRows
    BY <1>1, <2>6, <2>7 DEF SeenRows
  <2> QED  BY <2>4, <2>5, <2>6, <2>7, <2>8
<1>5. lock[1] \in {"advisory", "key"} \/ (\E o \in Order : lock = ReservationRow(o))
        \/ (\E k \in Key : lock = AccountRow(k))
  BY DEF Lock, ReservationRow, AccountRow
<1> QED  BY <1>2, <1>3, <1>4, <1>5, Zenon

\* What a transaction has read with a lock is what the table holds.
LEMMA TakeSeesCurrent ==
  ASSUME TxInv, NEW t \in Tx, NEW lock \in Lock, UNCHANGED vars,
         held' = [held EXCEPT ![t] = @ \cup Locked(lock)],
         seen' = [seen EXCEPT ![t] = SeenWith(t, lock)]
  PROVE  SeenIsCurrent(t)'
<1>1. TxTypeOK /\ SeenIsCurrent(t)
  BY Zenon DEF TxInv
<1>2. held'[t] = held[t] \cup Locked(lock) /\ seen'[t] = SeenWith(t, lock)
  BY <1>1, Zenon DEF TxTypeOK
<1>3. available' = available /\ locked' = locked /\ reservation' = reservation
  BY Zenon DEF vars
<1>4. ASSUME NEW k \in Key, AccountRow(k) \in held'[t]
      PROVE  seen'[t].available[k] = available'[k] /\ seen'[t].locked[k] = locked'[k]
  <2>1. CASE lock = AccountRow(k)
    BY <1>2, <1>3, <2>1, SeenWithType
  <2>2. CASE lock # AccountRow(k)
    <3>1. AccountRow(k) \in held[t]
      BY <1>2, <1>4, <2>2, Zenon DEF Locked
    <3> QED  BY <1>1, <1>2, <1>3, <2>2, <3>1, SeenWithType DEF SeenIsCurrent
  <2> QED  BY <2>1, <2>2, Zenon
<1>5. ASSUME NEW o \in Order, ReservationRow(o) \in held'[t]
      PROVE  Reserved(o)' /\ seen'[t].reservation[o] = reservation'[o]
  <2>1. CASE lock = ReservationRow(o)
    <3>1. Reserved(o)
      <4>1. CASE ReservationRow(o) \in held[t]
        BY <1>1, <4>1, Zenon DEF SeenIsCurrent
      <4>2. CASE ReservationRow(o) \in Locked(lock)
        BY <2>1, <4>2, Zenon DEF Locked, ReservationRow
      <4> QED  BY <1>2, <1>5, <4>1, <4>2, Zenon
    <3> QED  BY <1>2, <1>3, <2>1, <3>1, SeenWithType DEF Reserved
  <2>2. CASE lock # ReservationRow(o)
    <3>1. ReservationRow(o) \in held[t]
      BY <1>2, <1>5, <2>2, Zenon DEF Locked
    <3> QED  BY <1>1, <1>2, <1>3, <2>2, <3>1, SeenWithType DEF SeenIsCurrent, Reserved
  <2> QED  BY <2>1, <2>2, Zenon
<1> QED  BY <1>4, <1>5, Zenon DEF SeenIsCurrent

\* Taking the next lock, for each kind of transaction.
TakesNext(t) ==
    LET lock == Head(plan[t])
    IN  /\ plan[t] # <<>> /\ ~ EndsAt(t, lock)
        /\ held'[t] = held[t] \cup Locked(lock)
        /\ plan'[t] = PlanAfter(t, lock)
        /\ UNCHANGED vars

LEMMA TakeReserve ==
  ASSUME TxInv, NEW t \in Tx, ReserveCall(t), ReserveProgress(t), TakesNext(t)
  PROVE  ReserveProgress(t)'
<1> DEFINE o == Call[t].req.order
           row == AccountRow(<<Call[t].req.account, Call[t].req.asset>>)
           lock == Head(plan[t])
<1>1. ~ ReleaseCall(t)
  BY OneKind, Zenon
<1>2. plan'[t] = Tail(plan[t])
  BY <1>1, Zenon DEF TakesNext, PlanAfter
<1>3. CASE plan[t] = ReserveLocks(t) /\ held[t] = {}
  <2>1. lock = OrderAdvisory(o) /\ plan'[t] = <<ReservationRow(o), row>>
    BY <1>2, <1>3 DEF ReserveLocks
  <2>2. held'[t] = {OrderAdvisory(o)}
    BY <1>3, <2>1 DEF TakesNext, Locked, OrderAdvisory
  <2> QED  BY <2>1, <2>2, Zenon DEF ReserveProgress
<1>4. CASE plan[t] = <<ReservationRow(o), row>> /\ held[t] = {OrderAdvisory(o)}
  <2>1. lock = ReservationRow(o) /\ plan'[t] = <<row>>
    BY <1>2, <1>4
  <2>2. Locked(lock) = {}
    BY <2>1 DEF TakesNext, EndsAt, Locked, ReservationRow
  <2>3. held'[t] = {OrderAdvisory(o)}
    BY <1>4, <2>2, Zenon DEF TakesNext
  <2> QED  BY <2>1, <2>3, Zenon DEF ReserveProgress
<1>5. CASE plan[t] = <<row>> /\ held[t] = {OrderAdvisory(o)}
  <2>1. lock = row /\ plan'[t] = <<>>
    BY <1>2, <1>5
  <2>2. Locked(lock) = {row}
    BY <2>1 DEF Locked, AccountRow
  <2>3. held'[t] = {OrderAdvisory(o), row}
    BY <1>5, <2>2, Zenon DEF TakesNext
  <2> QED  BY <2>1, <2>3, Zenon DEF ReserveProgress
<1> QED  BY <1>3, <1>4, <1>5, Zenon DEF ReserveProgress, TakesNext

LEMMA TakeRelease ==
  ASSUME TxInv, NEW t \in Tx, ReleaseCall(t), ReleaseProgress(t), TakesNext(t)
  PROVE  ReleaseProgress(t)'
<1> DEFINE o == Call[t].order
           lock == Head(plan[t])
<1>1. /\ Reserved(o)' <=> Reserved(o)
      /\ Remaining(o)' = Remaining(o) /\ RowOf(o)' = RowOf(o)
  BY Zenon DEF TakesNext, vars, Reserved, Remaining, RowOf
<1>2. CASE plan[t] = <<ReservationRow(o)>> /\ held[t] = {}
  <2>1. lock = ReservationRow(o) /\ Tail(plan[t]) = <<>>
    BY <1>2
  <2>2. Reserved(o) /\ Locked(lock) = {ReservationRow(o)}
    <3>1. ~ EndsAt(t, lock)
      BY Zenon DEF TakesNext
    <3>2. lock[1] = "reservation" /\ lock[2] = o
      BY <2>1 DEF ReservationRow
    <3>3. Reserved(o)
      BY <3>1, <3>2, Zenon DEF EndsAt
    <3>4. Locked(lock) = {lock}
      BY <3>2, <3>3, Zenon DEF Locked
    <3> QED  BY <2>1, <3>3, <3>4, Zenon
  <2>3. held'[t] = {ReservationRow(o)}
    BY <1>2, <2>2, Zenon DEF TakesNext
  <2>4. CASE Remaining(o) > 0
    <3>1. plan'[t] = <<AccountRow(RowOf(o))>>
      BY <2>1, <2>4 DEF TakesNext, PlanAfter, ReservationRow
    <3> QED  BY <1>1, <2>2, <2>3, <2>4, <3>1, Zenon DEF ReleaseProgress
  <2>5. CASE ~ (Remaining(o) > 0)
    <3>1. plan'[t] = <<>>
      BY <2>1, <2>5 DEF TakesNext, PlanAfter, ReservationRow
    <3>2. o \in Order /\ LedgerInv
      BY ReleaseType, Zenon DEF TxInv
    <3>3. Remaining(o) <= 0
      BY <2>2, <2>5, <3>2, ReservedRow
    <3> QED  BY <1>1, <2>2, <2>3, <3>1, <3>3, Zenon DEF ReleaseProgress
  <2> QED  BY <2>4, <2>5, Zenon
<1>3. CASE /\ Reserved(o) /\ Remaining(o) > 0
           /\ plan[t] = <<AccountRow(RowOf(o))>> /\ held[t] = {ReservationRow(o)}
  <2>1. lock = AccountRow(RowOf(o)) /\ Tail(plan[t]) = <<>>
    BY <1>3
  <2>2. Locked(lock) = {AccountRow(RowOf(o))} /\ plan'[t] = <<>>
    BY <2>1 DEF TakesNext, PlanAfter, Locked, AccountRow
  <2>3. held'[t] = {ReservationRow(o), AccountRow(RowOf(o))}
    BY <1>3, <2>2, Zenon DEF TakesNext
  <2> QED  BY <1>1, <1>3, <2>2, <2>3, Zenon DEF ReleaseProgress
<1> QED  BY <1>2, <1>3, Zenon DEF ReleaseProgress, TakesNext

LEMMA TakeSettle ==
  ASSUME TxInv, NEW t \in Tx, SettleCall(t), SettleProgress(t), TakesNext(t)
  PROVE  SettleProgress(t)'
<1> DEFINE lock == Head(plan[t])
<1>1. plan'[t] = Tail(plan[t])
  BY OneKind, Zenon DEF TakesNext, PlanAfter
<1>2. plan[t] \in Seq(Lock) /\ plan[t] # <<>>
  BY Zenon DEF TxInv, TxTypeOK, TakesNext
<1>3. Range(plan[t]) = {lock} \cup Range(plan'[t])
  BY <1>1, <1>2, RangeTail, Zenon
<1>4. lock \in {FeeAdvisory} \cup SettleRows(t)
  BY <1>3, SettleLocksRange, Zenon DEF SettleProgress
<1>5. Locked(lock) = {lock}
  <2>1. CASE lock = FeeAdvisory
    BY <2>1 DEF Locked, FeeAdvisory
  <2>2. CASE \E k \in Key : lock = AccountRow(k)
    BY <2>2 DEF Locked, AccountRow
  <2>3. ASSUME NEW o \in {Call[t].req.makerOrder, Call[t].req.takerOrder} \ {NilOrder},
               lock = ReservationRow(o)
        PROVE  Locked(lock) = {lock}
    <3>1. Reserved(o)
      BY Zenon DEF SettleProgress, Delivered
    <3> QED  BY <2>3, <3>1 DEF Locked, ReservationRow
  <2> QED  BY <1>4, <2>1, <2>2, <2>3, Zenon DEF SettleRows
<1>6. held'[t] = held[t] \cup {lock}
  BY <1>5, Zenon DEF TakesNext
<1>7. Delivered(t)' /\ Range(SettleLocks(t))' = Range(SettleLocks(t))
  BY Zenon DEF SettleProgress, Delivered, Reserved, TakesNext, vars
<1>8. held'[t] \cup Range(plan'[t]) = Range(SettleLocks(t))
  BY <1>3, <1>6, Zenon DEF SettleProgress
<1>9. CASE plan[t] = SettleLocks(t) /\ held[t] = {}
  <2>1. /\ lock = FeeAdvisory /\ held'[t] = {FeeAdvisory}
        /\ plan'[t] = Tail(SettleLocks(t))
    BY <1>1, <1>6, <1>9, SettleLocksRange, Zenon
  <2>2. AccountsLast(plan'[t]) /\ Range(plan'[t]) = SettleRows(t)
    BY <2>1, SettleLocksRange, Zenon
  <2>3. \A x \in Range(plan'[t]) : x[1] \in {"reservation", "account"}
    BY <2>2 DEF SettleRows, ReservationRow, AccountRow
  <2>4. ~ \E x \in held'[t] : IsAccount(x)
    BY <2>1 DEF IsAccount, FeeAdvisory
  <2> QED  BY <1>7, <1>8, <2>1, <2>2, <2>3, <2>4, Zenon DEF SettleProgress
<1>10. CASE /\ FeeAdvisory \in held[t] /\ AccountsLast(plan[t])
            /\ \A x \in Range(plan[t]) : x[1] \in {"reservation", "account"}
            /\ (\E x \in held[t] : IsAccount(x)) =>
                  \A x \in Range(plan[t]) : IsAccount(x)
  <2>1. /\ AccountsLast(plan'[t])
        /\ IsAccount(lock) => \A x \in Range(plan'[t]) : IsAccount(x)
    BY <1>1, <1>2, <1>10, AccountsLastTail, Zenon
  <2>2. \A x \in Range(plan'[t]) : x[1] \in {"reservation", "account"}
    BY <1>3, <1>10, Zenon
  <2>3. (\E x \in held'[t] : IsAccount(x)) => \A x \in Range(plan'[t]) : IsAccount(x)
    BY <1>3, <1>6, <1>10, <2>1, Zenon
  <2>4. FeeAdvisory \in held'[t]
    BY <1>6, <1>10, Zenon
  <2> QED  BY <1>7, <1>8, <2>1, <2>2, <2>3, <2>4, Zenon DEF SettleProgress
<1> QED  BY <1>9, <1>10, Zenon DEF SettleProgress

\* A lock is taken when nobody else holds it.
LEMMA TakeLockStep ==
  ASSUME TxInv, NEW t \in Tx, TakeLock(t)
  PROVE  TxInv'
<1> DEFINE lock == Head(plan[t])
<1>1. TxTypeOK /\ Progress(t) /\ SeenIsCurrent(t)
  BY Zenon DEF TxInv
<1>2. /\ pc[t] \in {"lock", "mark"} /\ plan[t] # <<>> /\ Free(lock, t)
  BY Zenon DEF TakeLock
<1>3. plan[t] \in Seq(Lock) /\ lock \in Lock /\ Tail(plan[t]) \in Seq(Lock)
  BY <1>1, <1>2, RangeTail, Zenon DEF TxTypeOK
<1>4. CASE EndsAt(t, lock)
  BY <1>4, RollbackStep, Zenon DEF TakeLock
<1>5. CASE ~ EndsAt(t, lock)
  <2>1. /\ held' = [held EXCEPT ![t] = @ \cup Locked(lock)]
        /\ seen' = [seen EXCEPT ![t] = SeenWith(t, lock)]
        /\ plan' = [plan EXCEPT ![t] = PlanAfter(t, lock)]
        /\ UNCHANGED <<vars, pc>>
    BY <1>5, Zenon DEF TakeLock
  <2> HIDE DEF lock
  <2>2. Locked(lock) \subseteq {lock}
    BY Zenon DEF Locked
  <2>3. SeenWith(t, lock) \in SeenRows
    BY <1>3, SeenWithType, Zenon
  <2>4. PlanAfter(t, lock) \in Seq(Lock)
    <3>1. CASE ReleaseCall(t) /\ lock[1] = "reservation" /\ Remaining(lock[2]) > 0
      <4>1. lock[2] \in Order
        BY <1>3, <3>1, Zenon DEF Lock
      <4>2. Reserved(lock[2]) /\ LedgerInv
        BY <1>5, <3>1, Zenon DEF EndsAt, TxInv
      <4>3. RowOf(lock[2]) \in Key
        BY <4>1, <4>2, ReservedRow, Zenon
      <4>4. AccountRow(RowOf(lock[2])) \in Lock
        BY <4>3, LockType, Zenon
      <4>5. PlanAfter(t, lock) = <<AccountRow(RowOf(lock[2]))>>
        BY <3>1, Zenon DEF PlanAfter
      <4> QED  BY <4>4, <4>5
    <3>2. CASE PlanAfter(t, lock) = Tail(plan[t])
      BY <1>3, <3>2, Zenon
    <3> QED  BY <3>1, <3>2, Zenon DEF PlanAfter
  <2>5. TxTypeOK'
    <3>1. held[t] \cup Locked(lock) \in SUBSET Lock
      BY <1>1, <1>3, <2>2, Zenon DEF TxTypeOK
    <3> QED  BY <1>1, <2>1, <2>3, <2>4, <3>1, Zenon DEF TxTypeOK
  <2>6. /\ held'[t] = held[t] \cup Locked(lock)
        /\ plan'[t] = PlanAfter(t, lock)
        /\ \A u \in Tx \ {t} : Idle(u)
    BY <1>1, <2>1, Zenon DEF TxTypeOK, Idle
  <2>7. ASSUME NEW u \in Tx \ {t}  PROVE held'[t] \cap held[u] = {}
    BY <1>2, <2>2, <2>6, Zenon DEF TxInv, Exclusive, Free
  <2>8. SeenIsCurrent(t)'
    BY <1>3, <2>1, TakeSeesCurrent, Zenon
  <2>9. TakesNext(t)
    BY <1>2, <1>5, <2>1, <2>6, Zenon DEF TakesNext, lock
  <2>10. Progress(t)'
    <3>1. pc'[t] = pc[t]
      BY <2>1, Zenon
    <3>2. CASE pc[t] = "lock"
      <4>1. \/ ReserveCall(t) /\ ReserveProgress(t)'
            \/ ReleaseCall(t) /\ ReleaseProgress(t)'
            \/ SettleCall(t) /\ SettleProgress(t)'
        BY <1>1, <2>9, <3>2, TakeReserve, TakeRelease, TakeSettle, Zenon DEF Progress
      <4> QED  BY <3>1, <3>2, <4>1, Zenon DEF Progress, ReserveCall, ReleaseCall, SettleCall
    <3>3. CASE pc[t] = "mark"
      <4>1. SettleCall(t) /\ Duplicate(Call[t].req)
        BY <1>1, <3>3, Zenon DEF Progress
      <4>2. held[t] \cup Range(plan[t]) \subseteq KeyRows(Call[t].req.event)
        BY <1>1, <3>3, Zenon DEF Progress
      <4>3. PlanAfter(t, lock) = Tail(plan[t])
        BY <4>1, OneKind, Zenon DEF PlanAfter
      <4>4. Range(plan[t]) = {lock} \cup Range(Tail(plan[t]))
        BY <1>2, <1>3, RangeTail, Zenon DEF lock
      <4>5. held'[t] \cup Range(plan'[t]) \subseteq KeyRows(Call[t].req.event)
        BY <2>2, <2>6, <4>2, <4>3, <4>4, Zenon
      <4>6. Duplicate(Call[t].req)'
        BY <2>1, <4>1, Zenon DEF Duplicate, AlreadySettled, vars
      <4> QED  BY <3>1, <3>3, <4>1, <4>5, <4>6, Zenon DEF Progress, SettleCall
    <3> QED  BY <1>2, <3>2, <3>3, Zenon
  <2>11. [Next]_vars /\ WritesOwnRows(t)
    BY <2>1, Zenon DEF WritesOwnRows, vars
  <2> QED  BY <2>5, <2>6, <2>7, <2>8, <2>10, <2>11, StepKeepsInv, Zenon
<1> QED  BY <1>4, <1>5, Zenon

-----------------------------------------------------------------------------
(***************************************************************************)
(* The commits.  Each one is a step of Ledger, or changes nothing.         *)
(***************************************************************************)

\* A recorded duplicate is ApplySettlement's first branch.
LEMMA CommitMarkStep ==
  ASSUME TxInv, NEW t \in Tx, CommitMark(t)
  PROVE  Next /\ TxInv'
<1>1. SettleCall(t) /\ Duplicate(Call[t].req)
  BY Zenon DEF TxInv, Progress, CommitMark
<1> DEFINE s == Call[t].req
           mf == Call[t].makerFee
           tf == Call[t].takerFee
<1>2. s \in Settlements /\ mf \in FeeAmounts /\ tf \in FeeAmounts
  BY <1>1, SettleType, Zenon
<1>3. ApplySettlement(s, mf, tf)
  BY <1>1, Zenon DEF CommitMark, ApplySettlement
<1>4. Next
  BY <1>2, <1>3, Zenon DEF Next
<1>5. WritesOwnRows(t) /\ End(t)
  BY Zenon DEF CommitMark, WritesOwnRows
<1> QED  BY <1>4, <1>5, EndStep, Zenon

\* A reservation commits with its account row locked; the row of the order
\* was not there, and the order's advisory lock kept others from adding it.
LEMMA CommitReserveStep ==
  ASSUME TxInv, NEW t \in Tx, CommitReserve(t)
  PROVE  [Next]_vars /\ TxInv'
<1> DEFINE r == Call[t].req
           k == <<r.account, r.asset>>
<1>1. ReserveCall(t) /\ Ready(t)
  BY Zenon DEF CommitReserve
<1>2. r \in ReserveRequests /\ k \in Key /\ r.order \in Order
  BY <1>1, ReserveType, Zenon
<1>3. ReserveProgress(t)
  BY <1>1, OneKind, Zenon DEF TxInv, Progress, Ready
<1>4. AccountRow(k) \in held[t]
  BY <1>1, <1>3 DEF ReserveProgress, Ready, ReserveLocks
<1>5. seen[t].available[k] = available[k] /\ seen[t].locked[k] = locked[k]
  BY <1>2, <1>4, Zenon DEF TxInv, SeenIsCurrent
<1>6. CASE Rollback(t)
  BY <1>6, RollbackStep, Zenon DEF Rollback
<1>7. CASE ~ (seen[t].available[k] < r.amount \/ Reserved(r.order)) /\ ~ Rollback(t)
  <2>1. /\ WriteAccount(k, seen[t].available[k] - r.amount, seen[t].locked[k] + r.amount)
        /\ reservation' = [reservation EXCEPT ![r.order] =
              [account |-> r.account, asset |-> r.asset,
               amount |-> r.amount, consumed |-> 0, status |-> "active"]]
        /\ UNCHANGED <<journal, processed>> /\ End(t)
    BY <1>7, Zenon DEF CommitReserve
  <2>2. TypeOK
    BY Zenon DEF TxInv, LedgerInv
  <2>3. CanReserve(r)
    <3>1. r.amount \in Nat /\ available[k] \in Nat
      BY <1>1, <1>2, <2>2, ReserveType, Zenon DEF TypeOK
    <3>2. available[k] >= r.amount
      BY <1>5, <1>7, <3>1
    <3> QED  BY <1>7, <3>2, Zenon DEF CanReserve
  <2>4. ReserveBalance(r)
    BY <1>5, <2>1, <2>3, Zenon DEF ReserveBalance, WriteAccount
  <2>5. Next
    BY <1>2, <2>4, Zenon DEF Next
  <2>6. WritesOwnRows(t)
    BY <1>2, <1>4, <1>7, <2>1, <2>2, Zenon DEF WritesOwnRows, WriteAccount, TypeOK
  <2> QED  BY <2>1, <2>5, <2>6, EndStep, Zenon
<1> QED  BY <1>6, <1>7, Zenon DEF CommitReserve

\* A release commits with the reservation, and what it gives back to, locked.
LEMMA CommitReleaseStep ==
  ASSUME TxInv, NEW t \in Tx, CommitRelease(t)
  PROVE  Next /\ TxInv'
<1> DEFINE o == Call[t].order
           r == seen[t].reservation[o]
           k == <<r.account, r.asset>>
           given == Smaller(SeenRemaining(t, o), seen[t].locked[k])
<1>1. ReleaseCall(t) /\ Ready(t) /\ UNCHANGED <<journal, processed>> /\ End(t)
  BY Zenon DEF CommitRelease
<1>2. o \in Order /\ LedgerInv
  BY <1>1, ReleaseType, Zenon DEF TxInv
<1>3. ReleaseProgress(t) /\ SeenIsCurrent(t)
  BY <1>1, OneKind, Zenon DEF TxInv, Progress, Ready
<1>4. /\ Reserved(o) /\ ReservationRow(o) \in held[t]
      /\ Remaining(o) > 0 => AccountRow(RowOf(o)) \in held[t]
  <2>1. /\ Reserved(o) /\ ReservationRow(o) \in held[t]
        /\ Remaining(o) <= 0 \/ AccountRow(RowOf(o)) \in held[t]
    BY <1>1, <1>3 DEF ReleaseProgress, Ready
  <2>2. Remaining(o) \in Nat
    BY <1>2, <2>1, ReservedRow, Zenon
  <2> QED  BY <2>1, <2>2
<1>5. r = reservation[o]
  BY <1>2, <1>3, <1>4, Zenon DEF SeenIsCurrent
<1>6. /\ reservation[o] \in Reservation /\ RowOf(o) \in Key /\ Remaining(o) \in Nat
      /\ k = RowOf(o) /\ SeenRemaining(t, o) = Remaining(o)
  BY <1>2, <1>4, <1>5, ReservedRow, Zenon DEF RowOf, SeenRemaining, Remaining
<1>7. r.amount > r.consumed <=> Remaining(o) > 0
  BY <1>5, <1>6, SMTT(20) DEF Remaining, Reservation
<1>8. /\ available \in [Key -> Nat] /\ locked \in [Key -> Nat]
      /\ reservation \in [Order -> Reservation \cup {NoReservation}]
  BY <1>2, Zenon DEF LedgerInv, TypeOK
<1>9. CASE Remaining(o) > 0
  <2>1. seen[t].available[k] = available[k] /\ seen[t].locked[k] = locked[k]
    BY <1>3, <1>4, <1>6, <1>9, Zenon DEF SeenIsCurrent
  <2> DEFINE c == r.amount - given
             st == StatusAfter(c, r.amount, "released")
  <2>2. /\ WriteAccount(k, seen[t].available[k] + given, seen[t].locked[k] - given)
        /\ reservation' = [reservation EXCEPT ![o] =
              [r EXCEPT !.consumed = c, !.status = st]]
    BY <1>7, <1>9, Zenon DEF CommitRelease
  <2>3. given = ReleaseAmount(o)
    BY <1>6, <2>1, Zenon DEF ReleaseAmount
  <2> DEFINE c1 == reservation[o].amount - ReleaseAmount(o)
             st1 == StatusAfter(c1, reservation[o].amount, "released")
  <2>4. c = c1 /\ st = st1
    BY <1>5, <2>3, Zenon
  <2> HIDE DEF c, st, c1, st1, r, k, given
  <2>5. reservation' = [reservation EXCEPT ![o].consumed = c1, ![o].status = st1]
    BY <1>2, <1>5, <1>6, <1>8, <2>2, <2>4, Zenon DEF Reservation
  <2>6. /\ locked' = [locked EXCEPT ![RowOf(o)] = @ - ReleaseAmount(o)]
        /\ available' = [available EXCEPT ![RowOf(o)] = @ + ReleaseAmount(o)]
    BY <1>6, <2>1, <2>2, <2>3, Zenon DEF WriteAccount
  <2>7. Release(o)
    BY <2>5, <2>6, Zenon DEF Release, c1, st1
  <2>8. Next
    BY <1>1, <1>2, <1>4, <1>9, <2>7, Zenon DEF ReleaseReservation, Next
  <2>9. WritesOwnRows(t)
    BY <1>2, <1>4, <1>6, <1>8, <1>9, <2>2, <2>6, Zenon DEF WritesOwnRows
  <2> QED  BY <1>1, <2>8, <2>9, EndStep, Zenon
<1>10. CASE ~ (Remaining(o) > 0)
  <2>1. /\ reservation' = [reservation EXCEPT ![o] = [r EXCEPT !.status = "consumed"]]
        /\ UNCHANGED <<available, locked>>
    BY <1>7, <1>10, Zenon DEF CommitRelease
  <2>2. Remaining(o) <= 0
    BY <1>6, <1>10, SMTT(20)
  <2>3. reservation' = [reservation EXCEPT ![o].status = "consumed"]
    BY <1>5, <2>1, Zenon
  <2>4. Next
    BY <1>1, <1>2, <1>4, <2>1, <2>2, <2>3, Zenon DEF ReleaseReservation, Next
  <2>5. WritesOwnRows(t)
    BY <1>2, <1>4, <1>8, <2>1, Zenon DEF WritesOwnRows
  <2> QED  BY <1>1, <2>4, <2>5, EndStep
<1> QED  BY <1>9, <1>10, Zenon

-----------------------------------------------------------------------------
(***************************************************************************)
(* A settlement, when it has all its locks.                                *)
(***************************************************************************)

\* It holds every row it will write and every reservation it has read.
LEMMA SettleHolds ==
  ASSUME TxInv, NEW t \in Tx, SettleCall(t), Ready(t)
  PROVE  /\ \A k \in Key : NetOf(t)[k] # 0 =>
               /\ AccountRow(k) \in held[t]
               /\ seen[t].available[k] = available[k] /\ seen[t].locked[k] = locked[k]
         /\ \A o \in {Call[t].req.makerOrder, Call[t].req.takerOrder} \cap Order :
               /\ ReservationRow(o) \in held[t] /\ Reserved(o)
               /\ seen[t].reservation[o] = reservation[o]
<1>1. SettleProgress(t) /\ SeenIsCurrent(t) /\ plan[t] = <<>>
  BY OneKind, Zenon DEF TxInv, Progress, Ready
<1>2. Range(plan[t]) = {}
  BY <1>1 DEF Range
<1>3. SettleRows(t) \subseteq held[t]
  BY <1>1, <1>2, SettleLocksRange, Zenon DEF SettleProgress
<1>4. NilOrder \notin Order
  BY LedgerAssumption, Zenon
<1> QED  BY <1>1, <1>3, <1>4, Zenon DEF SettleRows, SeenIsCurrent

\* What it computes from the rows it has read is what Ledger computes.
LEMMA SettleComputes ==
  ASSUME TxInv, NEW t \in Tx, SettleCall(t), Ready(t)
  PROVE  LET s == Call[t].req
             mf == Call[t].makerFee
             tf == Call[t].takerFee
             taker == Opposite(s.makerSide)
         IN  /\ SeenCover(t, s.makerOrder, s.makerSide) = Cover(s.makerOrder, s.makerSide, s)
             /\ SeenCover(t, s.takerOrder, taker) = Cover(s.takerOrder, taker, s)
             /\ SeenAssetMatches(t, s.makerOrder, s.makerSide)
                   <=> AssetMatches(s.makerOrder, s.makerSide)
             /\ SeenAssetMatches(t, s.takerOrder, taker)
                   <=> AssetMatches(s.takerOrder, taker)
             /\ \A k \in Key : TakesLocked(t, k) <=> UsesLocked(k, s)
             /\ \A o \in Order : Consumed(t, o) = Used(o, s, mf, tf)
<1> DEFINE s == Call[t].req
           taker == Opposite(s.makerSide)
           mine == {s.makerOrder, s.takerOrder}
<1>1. \A o \in mine \cap Order : Reserved(o) /\ seen[t].reservation[o] = reservation[o]
  BY SettleHolds, Zenon
<1>2. ASSUME NEW o \in mine
      PROVE  /\ SeenCovers(t, o) <=> Covers(o)
             /\ SeenCovers(t, o) => seen[t].reservation[o] = reservation[o]
  BY <1>1, Zenon DEF SeenCovers, Covers, Active
<1> HIDE DEF s
<1>3. ASSUME NEW o \in mine, NEW side
      PROVE  /\ SeenCover(t, o, side) = Cover(o, side, s)
             /\ SeenAssetMatches(t, o, side) <=> AssetMatches(o, side)
  <2>1. CASE Covers(o)
    <3>1. SeenCovers(t, o) /\ seen[t].reservation[o] = reservation[o]
      BY <1>2, <2>1
    <3> QED  BY <2>1, <3>1, Zenon DEF SeenCover, Cover, SeenRemaining, Remaining,
                               SeenAssetMatches, AssetMatches, s
  <2>2. CASE ~ Covers(o)
    <3>1. ~ SeenCovers(t, o)
      BY <1>2, <2>2, Zenon
    <3> QED  BY <2>2, <3>1, Zenon DEF SeenCover, Cover, SeenAssetMatches, AssetMatches
  <2> QED  BY <2>1, <2>2, Zenon
<1>4. /\ SeenCover(t, s.makerOrder, s.makerSide) = Cover(s.makerOrder, s.makerSide, s)
      /\ SeenCover(t, s.takerOrder, taker) = Cover(s.takerOrder, taker, s)
      /\ SeenAssetMatches(t, s.makerOrder, s.makerSide)
            <=> AssetMatches(s.makerOrder, s.makerSide)
      /\ SeenAssetMatches(t, s.takerOrder, taker) <=> AssetMatches(s.takerOrder, taker)
  BY <1>3, Zenon
<1>5. ASSUME NEW k \in Key  PROVE TakesLocked(t, k) <=> UsesLocked(k, s)
  BY <1>4, Zenon DEF TakesLocked, UsesLocked, s
<1>6. ASSUME NEW o \in Order
      PROVE  Consumed(t, o) = Used(o, s, Call[t].makerFee, Call[t].takerFee)
  BY <1>4, Zenon DEF Consumed, Used, Consumption, NetOf, s
<1> QED  BY <1>4, <1>5, <1>6, Zenon DEF s

\* A settlement that has entries has one of a row that its accounts decide.
LEMMA EntryOfAccounts ==
  ASSUME NEW s \in Settlements, NEW mf \in FeeAmounts, NEW tf \in FeeAmounts,
         Net(s, mf, tf) # NoEntries
  PROVE  /\ s.maker # s.taker => Net(s, mf, tf)[<<s.maker, Base>>] # 0
         /\ s.maker = s.taker => Net(s, mf, tf)[<<s.maker, Quote>>] # 0
<1>1. /\ s.maker \in Account /\ s.taker \in Account /\ s.makerSide \in Side
      /\ s.quantity \in Nat \ {0} /\ FeeAccount \in Account
      /\ mf \in Nat /\ tf \in Nat /\ Base # Quote
  BY LedgerAssumption, Zenon DEF SettlementRequest
<1>2. Notional(s) \in Nat
  BY NotionalType, Zenon
<1> DEFINE b == <<s.maker, Base>>
           q == <<s.maker, Quote>>
           n == Notional(s)
<1>3. b \in Key /\ q \in Key /\ b[1] = s.maker /\ q[1] = s.maker /\ b[2] = Base
      /\ q[2] = Quote /\ b # <<FeeAccount, Quote>>
  BY <1>1, Zenon DEF Key, Asset
<1>4. CASE s.maker # s.taker
  <2>1. Net(s, mf, tf)[b] = (IF s.makerSide = "buy" THEN s.quantity ELSE -s.quantity) + 0 + 0
    BY <1>1, <1>3, <1>4, Zenon DEF Net, Leg, FeeIncome
  <2> QED  BY <1>1, <1>4, <2>1
<1>5. CASE s.maker = s.taker
  <2>1. ASSUME NEW k \in Key
        PROVE  Net(s, mf, tf)[k] = Leg(k, s.maker, s.makerSide, s, mf)
                 + Leg(k, s.maker, Opposite(s.makerSide), s, tf) + FeeIncome(k, mf + tf)
    BY <1>5, Zenon DEF Net
  <2> HIDE DEF n
  <2>2. ASSUME NEW k \in Key, k[2] = Base  PROVE Net(s, mf, tf)[k] = 0
    <3>1. k # <<FeeAccount, Quote>>
      BY <1>1, <2>2
    <3>2. /\ FeeIncome(k, mf + tf) = 0
          /\ \/ /\ Leg(k, s.maker, s.makerSide, s, mf) = 0
                /\ Leg(k, s.maker, Opposite(s.makerSide), s, tf) = 0
             \/ /\ Leg(k, s.maker, s.makerSide, s, mf) = s.quantity
                /\ Leg(k, s.maker, Opposite(s.makerSide), s, tf) = -s.quantity
             \/ /\ Leg(k, s.maker, s.makerSide, s, mf) = -s.quantity
                /\ Leg(k, s.maker, Opposite(s.makerSide), s, tf) = s.quantity
      BY <1>1, <2>2, <3>1, Zenon DEF Leg, FeeIncome, Opposite, Side
    <3> QED  BY <1>1, <2>1, <3>2
  <2>3. ASSUME NEW k \in Key, k[2] = Quote, k[1] = s.maker
        PROVE  Net(s, mf, tf)[k] = FeeIncome(k, mf + tf) - (mf + tf)
    <3>1. \/ /\ Leg(k, s.maker, s.makerSide, s, mf) = n - mf
             /\ Leg(k, s.maker, Opposite(s.makerSide), s, tf) = -n - tf
          \/ /\ Leg(k, s.maker, s.makerSide, s, mf) = -n - mf
             /\ Leg(k, s.maker, Opposite(s.makerSide), s, tf) = n - tf
      BY <1>1, <2>3, Zenon DEF Leg, Opposite, Side, n
    <3>2. FeeIncome(k, mf + tf) \in Nat /\ n \in Nat
      BY <1>1, <1>2 DEF FeeIncome, n
    <3> QED  BY <1>1, <2>1, <3>1, <3>2
  <2>4. ASSUME NEW k \in Key, k[2] = Quote, k[1] # s.maker
        PROVE  Net(s, mf, tf)[k] = FeeIncome(k, mf + tf)
    <3>1. /\ Leg(k, s.maker, s.makerSide, s, mf) = 0
          /\ Leg(k, s.maker, Opposite(s.makerSide), s, tf) = 0
          /\ FeeIncome(k, mf + tf) \in Nat
      BY <1>1, <2>4 DEF Leg, FeeIncome
    <3> QED  BY <2>1, <3>1
  <2>5. PICK k \in Key : Net(s, mf, tf)[k] # 0
    <3>1. Net(s, mf, tf) = [k \in Key |-> Net(s, mf, tf)[k]]
      BY Zenon DEF Net
    <3> QED  BY <3>1, Zenon DEF NoEntries
  <2>6. k = <<k[1], k[2]>> /\ k[2] = Quote
    BY <2>2, <2>5 DEF Key, Asset
  <2>7. CASE k[1] = s.maker
    <3>1. k = q
      BY <2>6, <2>7, Zenon
    <3> QED  BY <1>5, <2>5, <3>1, Zenon
  <2>8. CASE k[1] # s.maker
    <3>1. k = <<FeeAccount, Quote>> /\ mf + tf # 0
      BY <2>4, <2>5, <2>6, <2>8, Zenon DEF FeeIncome
    <3>2. q # <<FeeAccount, Quote>>
      BY <2>6, <2>8, <3>1
    <3>3. Net(s, mf, tf)[q] = 0 - (mf + tf)
      BY <1>3, <2>3, <3>2, Zenon DEF FeeIncome
    <3> QED  BY <1>1, <1>5, <3>1, <3>3
  <2> QED  BY <2>7, <2>8, Zenon
<1> QED  BY <1>4, <1>5, Zenon

\* The unique index over a trade's entries finds every trade settled before:
\* two settlements of one trade always meet in some account row.
LEMMA ConflictFindsSettled ==
  ASSUME TxInv, NEW t \in Tx, SettleCall(t), NetOf(t) # NoEntries, ~ EntryConflict(t)
  PROVE  ~ Duplicate(Call[t].req)
<1> DEFINE s == Call[t].req
<1>1. /\ s \in Settlements /\ Call[t].makerFee \in FeeAmounts
      /\ Call[t].takerFee \in FeeAmounts /\ s.trade \in Trade
      /\ s.maker \in Account /\ s.taker \in Account
  BY SettleType, Zenon
<1>2. ASSUME AlreadySettled(s.trade)  PROVE FALSE
  <2>1. PICK r \in Settlements, mf \in FeeAmounts, tf \in FeeAmounts :
           r.trade = s.trade /\ journal[s.trade] = Net(r, mf, tf)
    BY <1>1, <1>2, Zenon DEF TxInv, JournalOfSettlements
  <2>2. r.maker = s.maker /\ r.taker = s.taker
    BY <1>1, <2>1, TxAssumption, Zenon DEF OneTradePerEvent
  <2>3. Net(r, mf, tf) # NoEntries
    BY <1>2, <2>1, Zenon DEF AlreadySettled
  <2>4. /\ s.maker # s.taker => journal[s.trade][<<s.maker, Base>>] # 0
        /\ s.maker = s.taker => journal[s.trade][<<s.maker, Quote>>] # 0
    BY <2>1, <2>2, <2>3, EntryOfAccounts, Zenon
  <2>5. /\ s.maker # s.taker => NetOf(t)[<<s.maker, Base>>] # 0
        /\ s.maker = s.taker => NetOf(t)[<<s.maker, Quote>>] # 0
    BY <1>1, EntryOfAccounts, Zenon DEF NetOf
  <2>6. <<s.maker, Base>> \in Key /\ <<s.maker, Quote>> \in Key
    BY <1>1, Zenon DEF Key, Asset
  <2> QED  BY <2>4, <2>5, <2>6, Zenon DEF EntryConflict
<1>3. ASSUME s.event \in processed  PROVE FALSE
  <2>1. PICK r \in Settlements : r.event = s.event /\ AlreadySettled(r.trade)
    BY <1>3, Zenon DEF TxInv, ProcessedImpliesSettled
  <2>2. r.trade = s.trade
    BY <1>1, <2>1, TxAssumption, Zenon DEF OneTradePerEvent
  <2> QED  BY <1>2, <2>1, <2>2, Zenon
<1> QED  BY <1>2, <1>3, Zenon DEF Duplicate

\* What it takes from a row is what Ledger takes from it; an account without
\* an entry gives nothing.
LEMMA SettleTakes ==
  ASSUME TxInv, NEW t \in Tx, SettleCall(t), Ready(t), NEW k \in Key
  PROVE  LET s == Call[t].req
             n == NetOf(t)[k]
         IN  /\ n # 0 => /\ TakenLocked(t, k) = FromLocked(k, n, s)
                         /\ TakenAvailable(t, k) = FromAvailable(k, n, s)
             /\ n = 0 => FromLocked(k, n, s) = 0 /\ FromAvailable(k, n, s) = 0
             /\ n = 0 => Credit(n) = 0
<1> DEFINE s == Call[t].req
           n == NetOf(t)[k]
<1>1. TakesLocked(t, k) <=> UsesLocked(k, s)
  BY SettleComputes, Zenon
<1>2. locked[k] \in Nat
  BY Zenon DEF TxInv, LedgerInv, TypeOK
<1>3. CASE n # 0
  <2>1. seen[t].locked[k] = locked[k]
    BY <1>3, SettleHolds, Zenon
  <2>2. TakenLocked(t, k) = FromLocked(k, n, s)
    BY <1>1, <2>1, Zenon DEF TakenLocked, FromLocked
  <2> QED  BY <1>3, <2>2, Zenon DEF TakenAvailable, FromAvailable
<1>4. CASE n = 0
  <2>1. Debit(n) = 0 /\ Credit(n) = 0
    BY <1>4 DEF Debit, Credit
  <2> HIDE DEF n, s
  <2>2. Smaller(locked[k], 0) = 0
    BY <1>2 DEF Smaller
  <2>3. FromLocked(k, n, s) = 0
    BY <2>1, <2>2, Zenon DEF FromLocked
  <2>4. FromAvailable(k, n, s) = 0
    BY <2>1, <2>3 DEF FromAvailable
  <2> QED  BY <1>4, <2>1, <2>3, <2>4, Zenon DEF n, s
<1> QED  BY <1>3, <1>4, Zenon

\* A settlement that writes posts its trade as Ledger does.
LEMMA WriteIsPost ==
  ASSUME TxInv, NEW t \in Tx, SettleCall(t), Ready(t), Payable(t), WriteEntries(t)
  PROVE  Post(Call[t].req, Call[t].makerFee, Call[t].takerFee)
<1> DEFINE s == Call[t].req
           mf == Call[t].makerFee
           tf == Call[t].takerFee
           net == NetOf(t)
           taker == Opposite(s.makerSide)
<1>1. /\ s \in Settlements /\ net \in [Key -> Int]
      /\ available \in [Key -> Nat] /\ locked \in [Key -> Nat]
  BY SettleType, Zenon DEF TxInv, LedgerInv, TypeOK
<1>2. /\ net # NoEntries
      /\ AssetMatches(s.makerOrder, s.makerSide) /\ AssetMatches(s.takerOrder, taker)
  BY SettleComputes, Zenon DEF Payable
<1>3. ASSUME NEW k \in Key
      PROVE  /\ net[k] # 0 =>
                  /\ TakenLocked(t, k) = FromLocked(k, net[k], s)
                  /\ TakenAvailable(t, k) = FromAvailable(k, net[k], s)
                  /\ seen[t].available[k] = available[k] /\ seen[t].locked[k] = locked[k]
             /\ net[k] = 0 => /\ FromLocked(k, net[k], s) = 0
                              /\ FromAvailable(k, net[k], s) = 0 /\ Credit(net[k]) = 0
  BY SettleTakes, SettleHolds, Zenon
<1>4. \A k \in Key : TakenAvailable(t, k) <= seen[t].available[k]
  BY Zenon DEF Payable
<1>5. /\ available' = [k \in Key |->
            IF net[k] = 0 THEN available[k]
            ELSE seen[t].available[k] + Credit(net[k]) - TakenAvailable(t, k)]
      /\ locked' = [k \in Key |->
            IF net[k] = 0 THEN locked[k] ELSE seen[t].locked[k] - TakenLocked(t, k)]
      /\ reservation' = [o \in Order |->
            IF Consumed(t, o) > 0 THEN Consume(seen[t].reservation[o], Consumed(t, o))
                                  ELSE reservation[o]]
      /\ journal' = [journal EXCEPT ![s.trade] = net]
  BY Zenon DEF WriteEntries
<1>6. ASSUME NEW o \in Order
      PROVE  (IF Consumed(t, o) > 0 THEN Consume(seen[t].reservation[o], Consumed(t, o))
                                    ELSE reservation[o])
             = IF Used(o, s, mf, tf) > 0 THEN Consume(reservation[o], Used(o, s, mf, tf))
                                         ELSE reservation[o]
  <2>1. Consumed(t, o) = Used(o, s, mf, tf)
    BY SettleComputes, Zenon
  <2>2. CASE o \in {s.makerOrder, s.takerOrder}
    <3>1. seen[t].reservation[o] = reservation[o]
      BY <2>2, SettleHolds, Zenon
    <3> QED  BY <2>1, <3>1, Zenon
  <2>3. CASE o \notin {s.makerOrder, s.takerOrder}
    <3>1. Used(o, s, mf, tf) = 0
      BY <2>3 DEF Used
    <3> QED  BY <2>1, <3>1
  <2> QED  BY <2>2, <2>3, Zenon
<1>7. net = Net(s, mf, tf)
  BY Zenon DEF NetOf
<1> HIDE DEF s, mf, tf, net, taker
<1>8. \A k \in Key : FromAvailable(k, net[k], s) <= available[k]
  <2> SUFFICES ASSUME NEW k \in Key  PROVE FromAvailable(k, net[k], s) <= available[k]
    BY Zenon
  <2>1. CASE net[k] = 0
    BY <1>1, <1>3, <2>1
  <2>2. CASE net[k] # 0
    BY <1>3, <1>4, <2>2, Zenon
  <2> QED  BY <2>1, <2>2, Zenon
<1>9. available' = [k \in Key |-> available[k] + Credit(net[k]) - FromAvailable(k, net[k], s)]
  <2> SUFFICES ASSUME NEW k \in Key
               PROVE  (IF net[k] = 0 THEN available[k]
                       ELSE seen[t].available[k] + Credit(net[k]) - TakenAvailable(t, k))
                      = available[k] + Credit(net[k]) - FromAvailable(k, net[k], s)
    BY <1>5, Zenon
  <2>1. available[k] \in Nat
    BY <1>1, Zenon
  <2> QED  BY <1>3, <2>1
<1>10. locked' = [k \in Key |-> locked[k] - FromLocked(k, net[k], s)]
  <2> SUFFICES ASSUME NEW k \in Key
               PROVE  (IF net[k] = 0 THEN locked[k]
                       ELSE seen[t].locked[k] - TakenLocked(t, k))
                      = locked[k] - FromLocked(k, net[k], s)
    BY <1>5, Zenon
  <2>1. locked[k] \in Nat
    BY <1>1, Zenon
  <2> QED  BY <1>3, <2>1
<1>11. reservation' = [o \in Order |->
          IF Used(o, s, mf, tf) > 0 THEN Consume(reservation[o], Used(o, s, mf, tf))
                                    ELSE reservation[o]]
  BY <1>5, <1>6, Zenon
<1>12. Post(s, mf, tf)
  BY <1>2, <1>5, <1>7, <1>8, <1>9, <1>10, <1>11, Zenon DEF Post, Used, taker
<1> QED  BY <1>12, Zenon DEF s, mf, tf

\* A settlement commits what it has written only for an unsettled trade.
LEMMA CommitSettleStep ==
  ASSUME TxInv, NEW t \in Tx, CommitSettle(t)
  PROVE  [Next]_vars /\ TxInv'
<1> DEFINE s == Call[t].req
           mf == Call[t].makerFee
           tf == Call[t].takerFee
<1>1. SettleCall(t) /\ Ready(t)
  BY Zenon DEF CommitSettle
<1>2. CASE Rollback(t)
  BY <1>2, RollbackStep DEF Rollback
<1>3. CASE Payable(t) /\ ~ EntryConflict(t) /\ WriteEntries(t) /\ End(t)
  <2>1. s \in Settlements /\ mf \in FeeAmounts /\ tf \in FeeAmounts
    BY <1>1, SettleType, Zenon
  <2>2. ~ Duplicate(s)
    BY <1>1, <1>3, ConflictFindsSettled, Zenon DEF Payable
  <2>3. Post(s, mf, tf)
    BY <1>1, <1>3, WriteIsPost, Zenon
  <2>4. processed' = processed \cup {s.event}
    BY <1>3, Zenon DEF WriteEntries
  <2>5. Next
    BY <2>1, <2>2, <2>3, <2>4, Zenon DEF ApplySettlement, Next
  <2>6. ASSUME NEW k \in Key, AccountRow(k) \notin held[t]
        PROVE  available'[k] = available[k] /\ locked'[k] = locked[k]
    <3>1. NetOf(t)[k] = 0
      BY <1>1, <2>6, SettleHolds, Zenon
    <3> QED  BY <1>3, <3>1, Zenon DEF WriteEntries
  <2>7. ASSUME NEW o \in Order, ReservationRow(o) \notin held[t]
        PROVE  reservation'[o] = reservation[o]
    <3>1. o \notin {s.makerOrder, s.takerOrder}
      BY <1>1, <2>7, SettleHolds, Zenon
    <3>2. Consumed(t, o) = 0
      BY <3>1 DEF Consumed
    <3> QED  BY <1>3, <3>2, SMTT(20) DEF WriteEntries
  <2>8. WritesOwnRows(t)
    BY <2>6, <2>7, Zenon DEF WritesOwnRows
  <2> QED  BY <1>3, <2>5, <2>8, EndStep, Zenon
<1> QED  BY <1>2, <1>3, Zenon DEF CommitSettle, OnUniqueViolation

-----------------------------------------------------------------------------
(***************************************************************************)
(* The interleaved transactions implement the atomic ones.                 *)
(***************************************************************************)
LEMMA TxInitInv == TxInit => TxInv
<1> SUFFICES ASSUME TxInit  PROVE TxInv
  BY Zenon
<1>1. Init /\ LedgerInv
  BY InitInv, Zenon DEF TxInit
<1>2. ProcessedImpliesSettled /\ JournalOfSettlements
  BY <1>1, Zenon DEF Init, ProcessedImpliesSettled, JournalOfSettlements, AlreadySettled
<1>3. ASSUME NEW t \in Tx
      PROVE  /\ ReserveCall(t) => ReserveLocks(t) \in Seq(Lock)
             /\ ReleaseCall(t) => ReleaseLocks(t) \in Seq(Lock)
             /\ SettleCall(t) => SettleLocks(t) \in Seq(Lock)
  <2>1. ReserveCall(t) => ReserveLocks(t) \in Seq(Lock)
    <3> SUFFICES ASSUME ReserveCall(t)  PROVE ReserveLocks(t) \in Seq(Lock)
      BY Zenon
    <3>1. Call[t].req.order \in Order /\ <<Call[t].req.account, Call[t].req.asset>> \in Key
      BY ReserveType, Zenon
    <3>2. /\ OrderAdvisory(Call[t].req.order) \in Lock
          /\ ReservationRow(Call[t].req.order) \in Lock
          /\ AccountRow(<<Call[t].req.account, Call[t].req.asset>>) \in Lock
      BY <3>1, LockType, Zenon
    <3> QED  BY <3>2 DEF ReserveLocks
  <2>2. ReleaseCall(t) => ReleaseLocks(t) \in Seq(Lock)
    <3> SUFFICES ASSUME ReleaseCall(t)  PROVE ReleaseLocks(t) \in Seq(Lock)
      OBVIOUS
    <3>1. ReservationRow(Call[t].order) \in Lock
      BY ReleaseType, LockType, Zenon
    <3> QED  BY <3>1 DEF ReleaseLocks
  <2> QED  BY <2>1, <2>2, SettleLocksRange, Zenon
<1>4. TxTypeOK
  <2>1. plan \in [Tx -> Seq(Lock)]
    BY <1>3, OneKind, Zenon DEF TxInit
  <2>2. NothingSeen \in SeenRows
    BY Zenon DEF NothingSeen, SeenRows
  <2>3. seen \in [Tx -> SeenRows] /\ held \in [Tx -> SUBSET Lock]
    BY <2>2, Zenon DEF TxInit
  <2>4. pc \in [Tx -> {"event", "trade", "lock", "mark", "done"}]
    BY Zenon DEF TxInit
  <2> QED  BY <2>1, <2>3, <2>4, Zenon DEF TxTypeOK
<1>5. \A t \in Tx : held[t] = {}
  BY Zenon DEF TxInit
<1>6. Exclusive /\ \A t \in Tx : SeenIsCurrent(t)
  BY <1>5, Zenon DEF Exclusive, SeenIsCurrent
<1>7. ASSUME NEW t \in Tx  PROVE Progress(t)
  <2>1. /\ plan[t] = IF ReserveCall(t) THEN ReserveLocks(t)
                     ELSE IF ReleaseCall(t) THEN ReleaseLocks(t) ELSE SettleLocks(t)
        /\ pc[t] = "done" \/ (SettleCall(t) /\ pc[t] = "event")
             \/ (~ SettleCall(t) /\ pc[t] = "lock")
    BY Zenon DEF TxInit
  <2>2. CASE SettleCall(t)
    BY <1>5, <2>1, <2>2, OneKind, Zenon DEF Progress
  <2>3. CASE ReserveCall(t)
    BY <1>5, <2>1, <2>3, OneKind, Zenon DEF Progress, ReserveProgress
  <2>4. CASE ReleaseCall(t)
    BY <1>5, <2>1, <2>4, OneKind, Zenon DEF Progress, ReleaseProgress, ReleaseLocks
  <2> QED  BY <2>2, <2>3, <2>4, OneKind, Zenon
<1> QED  BY <1>1, <1>2, <1>4, <1>6, <1>7, Zenon DEF TxInv

LEMMA TxNextInv ==
  ASSUME TxInv, [TxNext]_txVars
  PROVE  [Next]_vars /\ TxInv'
<1>1. ASSUME NEW t \in Tx, Step(t) \/ Abort(t)  PROVE [Next]_vars /\ TxInv'
  <2>1. CASE CheckEvent(t) \/ CheckTrade(t)
    BY <2>1, CheckStep, Zenon DEF CheckEvent, CheckTrade
  <2>2. CASE TakeLock(t)
    BY <2>2, TakeLockStep, Zenon DEF TakeLock, Rollback
  <2>3. CASE CommitMark(t)
    BY <2>3, CommitMarkStep, Zenon
  <2>4. CASE CommitReserve(t)
    BY <2>4, CommitReserveStep, Zenon
  <2>5. CASE CommitRelease(t)
    BY <2>5, CommitReleaseStep
  <2>6. CASE CommitSettle(t)
    BY <2>6, CommitSettleStep, Zenon
  <2>7. CASE Abort(t)
    BY <2>7, RollbackStep, Zenon DEF Abort, Rollback
  <2> QED  BY <1>1, <2>1, <2>2, <2>3, <2>4, <2>5, <2>6, <2>7, Zenon DEF Step
<1>2. CASE UNCHANGED txVars
  <2>1. UNCHANGED vars /\ UNCHANGED <<plan, pc, held, seen>>
    BY <1>2, Zenon DEF txVars, txState
  <2>2. TxInv'
    <3>1. LedgerInv' /\ ProcessedImpliesSettled' /\ JournalOfSettlements'
      BY <2>1, NextInv, MarksFollowEntries, EntriesOfSettlements, Zenon DEF TxInv
    <3>2. TxTypeOK' /\ Exclusive'
      BY <2>1, Zenon DEF TxInv, TxTypeOK, Exclusive
    <3>3. ASSUME NEW t \in Tx  PROVE SeenIsCurrent(t)' /\ Progress(t)'
      <4>1. SeenIsCurrent(t) /\ Progress(t)
        BY Zenon DEF TxInv
      <4>2. SeenIsCurrent(t)'
        BY <2>1, <4>1, Zenon DEF SeenIsCurrent, Reserved, vars
      <4>3. ReserveProgress(t) => ReserveProgress(t)'
        BY <2>1, Zenon DEF ReserveProgress, ReserveLocks
      <4>4. ReleaseProgress(t) => ReleaseProgress(t)'
        BY <2>1, Zenon DEF ReleaseProgress, Reserved, Remaining, RowOf, vars
      <4>5. /\ Delivered(t) => Delivered(t)'
            /\ SettleProgress(t) => SettleProgress(t)'
        BY <2>1, Zenon DEF SettleProgress, Delivered, Reserved, vars
      <4>6. Duplicate(Call[t].req) => Duplicate(Call[t].req)'
        BY <2>1, Zenon DEF Duplicate, AlreadySettled, vars
      <4>7. Progress(t)'
        BY <2>1, <4>1, <4>3, <4>4, <4>5, <4>6, Zenon
           DEF Progress, ReserveCall, ReleaseCall, SettleCall
      <4> QED  BY <4>2, <4>7, Zenon
    <3> QED  BY <3>1, <3>2, <3>3, Zenon DEF TxInv
  <2> QED  BY <2>1, <2>2, Zenon
<1> QED  BY <1>1, <1>2, Zenon DEF TxNext

\* Every behaviour of the interleaved transactions is one of the atomic ones.
THEOREM TransactionsSerializable == TxSpec => Serializable
<1>1. TxInv /\ [TxNext]_txVars => TxInv' /\ [UNCHANGED vars \/ Next]_vars
  BY TxNextInv, Zenon
<1>2. TxInit => Init
  BY Zenon DEF TxInit
<1> QED  BY <1>1, <1>2, TxInitInv, PTL DEF TxSpec, Serializable

-----------------------------------------------------------------------------
(***************************************************************************)
(* Deadlock.  Locks are ordered: advisory locks, reservations, accounts;   *)
(* and the only transactions that take two locks of a kind, settlements,   *)
(* hold the fee account's advisory lock while they do.                     *)
(***************************************************************************)

\* What a transaction that has locks still to take holds and takes next.
LEMMA HeldAndNext ==
  ASSUME TxInv, NEW t \in Tx, pc[t] = "lock", plan[t] # <<>>
  PROVE  /\ Head(plan[t])[1] # "key"
         /\ held[t] # {} => Head(plan[t])[1] \in {"reservation", "account"}
         /\ (\E lock \in held[t] : lock[1] = "account") =>
               FeeAdvisory \in held[t] /\ Head(plan[t])[1] = "account"
         /\ (\E lock \in held[t] : lock[1] = "reservation") =>
               FeeAdvisory \in held[t] \/ Head(plan[t])[1] = "account"
<1>1. Progress(t) /\ plan[t] \in Seq(Lock)
  BY Zenon DEF TxInv, TxTypeOK
<1>2. CASE ReserveCall(t) /\ ReserveProgress(t)
  <2> DEFINE o == Call[t].req.order
             row == AccountRow(<<Call[t].req.account, Call[t].req.asset>>)
  <2>1. CASE plan[t] = ReserveLocks(t) /\ held[t] = {}
    <3>1. Head(plan[t]) = OrderAdvisory(o)
      BY <2>1 DEF ReserveLocks
    <3> QED  BY <2>1, <3>1 DEF OrderAdvisory
  <2>2. CASE plan[t] = <<ReservationRow(o), row>> /\ held[t] = {OrderAdvisory(o)}
    <3>1. Head(plan[t]) = ReservationRow(o)
      BY <2>2
    <3> QED  BY <2>2, <3>1 DEF OrderAdvisory, ReservationRow
  <2>3. CASE plan[t] = <<row>> /\ held[t] = {OrderAdvisory(o)}
    <3>1. Head(plan[t]) = row
      BY <2>3
    <3> QED  BY <2>3, <3>1 DEF OrderAdvisory, AccountRow
  <2> QED  BY <1>2, <2>1, <2>2, <2>3, Zenon DEF ReserveProgress
<1>3. CASE ReleaseCall(t) /\ ReleaseProgress(t)
  <2> DEFINE o == Call[t].order
  <2>1. CASE plan[t] = <<ReservationRow(o)>> /\ held[t] = {}
    <3>1. Head(plan[t]) = ReservationRow(o)
      BY <2>1
    <3> QED  BY <2>1, <3>1 DEF ReservationRow
  <2>2. CASE plan[t] = <<AccountRow(RowOf(o))>> /\ held[t] = {ReservationRow(o)}
    <3>1. Head(plan[t]) = AccountRow(RowOf(o))
      BY <2>2
    <3> QED  BY <2>2, <3>1 DEF ReservationRow, AccountRow
  <2> QED  BY <1>3, <2>1, <2>2, Zenon DEF ReleaseProgress
<1>4. CASE SettleCall(t) /\ SettleProgress(t)
  <2>1. Head(plan[t]) \in Range(plan[t])
    BY <1>1, RangeTail, Zenon
  <2>2. CASE plan[t] = SettleLocks(t) /\ held[t] = {}
    <3>1. Head(plan[t]) = FeeAdvisory
      BY <1>4, <2>2, SettleLocksRange, Zenon
    <3> QED  BY <2>2, <3>1 DEF FeeAdvisory
  <2>3. CASE ~ (plan[t] = SettleLocks(t) /\ held[t] = {})
    BY <1>4, <2>1, <2>3, Zenon DEF SettleProgress, IsAccount
  <2> QED  BY <2>2, <2>3, Zenon
<1> QED  BY <1>1, <1>2, <1>3, <1>4, Zenon DEF Progress

\* The keys of an event are held only by those who record it.
LEMMA KeysHeldByRecorders ==
  ASSUME TxInv, NEW t \in Tx, NEW lock \in held[t]
  PROVE  /\ pc[t] \in {"lock", "mark"}
         /\ pc[t] = "lock" => lock[1] # "key"
         /\ pc[t] = "mark" => lock \in KeyRows(Call[t].req.event)
<1>1. Progress(t) /\ pc[t] \in {"event", "trade", "lock", "mark", "done"}
  BY DEF TxInv, TxTypeOK
<1>2. ASSUME pc[t] = "lock"  PROVE lock[1] # "key"
  <2>1. CASE ReserveCall(t) /\ ReserveProgress(t)
    BY <2>1 DEF ReserveProgress, OrderAdvisory, AccountRow
  <2>2. CASE ReleaseCall(t) /\ ReleaseProgress(t)
    BY <2>2 DEF ReleaseProgress, ReservationRow, AccountRow
  <2>3. CASE SettleCall(t) /\ SettleProgress(t)
    <3>1. lock \in {FeeAdvisory} \cup SettleRows(t)
      BY <2>3, SettleLocksRange, Zenon DEF SettleProgress
    <3> QED  BY <3>1 DEF FeeAdvisory, SettleRows, ReservationRow, AccountRow
  <2> QED  BY <1>1, <1>2, <2>1, <2>2, <2>3, Zenon DEF Progress
<1> QED  BY <1>1, <1>2, Zenon DEF Progress

\* Of the transactions that move balances, one does not wait.
LEMMA SomeoneRuns ==
  ASSUME TxInv, NEW t \in Tx, Begun(t)
  PROVE  \E u \in Tx : Begun(u) /\ ~ Waiting(u)
<1> SUFFICES ASSUME \A u \in Tx : Begun(u) => Waiting(u)  PROVE FALSE
  BY Zenon
<1> DEFINE Stuck(v) == pc[v] = "lock" /\ plan[v] # <<>>
<1>1. \A v \in Tx : Begun(v) => Stuck(v)
  BY Zenon DEF Waiting, WaitsFor
<1>2. ASSUME NEW v \in Tx, Stuck(v)
      PROVE  \E w \in Tx : w # v /\ Stuck(w) /\ Head(plan[v]) \in held[w]
  <2>1. PICK w \in Tx \ {v} : Head(plan[v]) \in held[w]
    BY <1>2, Zenon DEF Begun, Waiting, WaitsFor
  <2>2. Head(plan[v])[1] # "key"
    BY <1>2, HeldAndNext, Zenon
  <2>3. pc[w] # "mark"
    BY <2>1, <2>2, KeysHeldByRecorders DEF KeyRows, KeyRow
  <2>4. Begun(w)
    BY <2>1, <2>3, KeysHeldByRecorders, Zenon DEF Begun
  <2> QED  BY <1>1, <2>1, <2>4, Zenon
<1>3. \A v, w \in Tx : v # w => ~ (FeeAdvisory \in held[v] /\ FeeAdvisory \in held[w])
  BY Zenon DEF TxInv, Exclusive
<1>4. ASSUME NEW v \in Tx, Stuck(v), NEW lock \in held[v], lock[1] = "account"
      PROVE  FALSE
  <2>1. FeeAdvisory \in held[v] /\ Head(plan[v])[1] = "account"
    BY <1>4, HeldAndNext, Zenon
  <2>2. PICK w \in Tx : w # v /\ Stuck(w) /\ Head(plan[v]) \in held[w]
    BY <1>2, <1>4, Zenon
  <2>3. FeeAdvisory \in held[w]
    BY <2>1, <2>2, HeldAndNext, Zenon
  <2> QED  BY <1>3, <2>1, <2>2, <2>3, Zenon
<1>5. ASSUME NEW v \in Tx, Stuck(v), Head(plan[v])[1] = "account"  PROVE FALSE
  BY <1>2, <1>4, <1>5, Zenon
<1>6. ASSUME NEW v \in Tx, Stuck(v), NEW lock \in held[v], lock[1] = "reservation"
      PROVE  FALSE
  <2>1. FeeAdvisory \in held[v] /\ Head(plan[v])[1] = "reservation"
    BY <1>5, <1>6, HeldAndNext, Zenon
  <2>2. PICK w \in Tx : w # v /\ Stuck(w) /\ Head(plan[v]) \in held[w]
    BY <1>2, <1>6, Zenon
  <2>3. FeeAdvisory \in held[w]
    BY <1>5, <2>1, <2>2, HeldAndNext, Zenon
  <2> QED  BY <1>3, <2>1, <2>2, <2>3, Zenon
<1>7. PICK w \in Tx : Stuck(w) /\ Head(plan[t]) \in held[w]
  BY <1>1, <1>2, Zenon
<1>8. Head(plan[w])[1] = "reservation"
  BY <1>5, <1>7, HeldAndNext, Zenon
<1>9. PICK x \in Tx : Stuck(x) /\ Head(plan[w]) \in held[x]
  BY <1>2, <1>7, Zenon
<1> QED  BY <1>6, <1>8, <1>9, Zenon

\* A transaction that records an event waits only for another that does.
LEMMA RecordersWaitForRecorders ==
  ASSUME TxInv, NEW t \in Tx, NEW u \in Tx, Recording(t), t # u, WaitsFor(t, u)
  PROVE  /\ Recording(u) /\ Call[u].req.event = Call[t].req.event
         /\ AlreadySettled(Call[t].req.trade)
<1> DEFINE lock == Head(plan[t])
<1>1. /\ SettleCall(t) /\ Duplicate(Call[t].req)
      /\ Range(plan[t]) \subseteq KeyRows(Call[t].req.event)
  BY Zenon DEF TxInv, Progress, Recording
<1>2. lock \in held[u] /\ lock \in KeyRows(Call[t].req.event)
  <2>1. plan[t] \in Seq(Lock) /\ plan[t] # <<>> /\ lock \in held[u]
    BY Zenon DEF TxInv, TxTypeOK, WaitsFor
  <2> QED  BY <1>1, <2>1, RangeTail, Zenon
<1>3. lock[1] = "key" /\ lock[2] = Call[t].req.event
  BY <1>2 DEF KeyRows, KeyRow
<1>4. pc[u] = "mark" /\ lock \in KeyRows(Call[u].req.event)
  BY <1>2, <1>3, KeysHeldByRecorders, Zenon
<1>5. lock[2] = Call[u].req.event
  BY <1>4 DEF KeyRows, KeyRow
<1>6. AlreadySettled(Call[t].req.trade)
  <2>1. CASE Call[t].req.event \in processed
    <3>1. PICK s \in Settlements : s.event = Call[t].req.event /\ AlreadySettled(s.trade)
      BY <2>1, Zenon DEF TxInv, ProcessedImpliesSettled
    <3>2. Call[t].req \in Settlements
      BY <1>1, SettleType, Zenon
    <3> QED  BY <3>1, <3>2, TxAssumption, Zenon DEF OneTradePerEvent
  <2> QED  BY <1>1, <2>1, Zenon DEF Duplicate
<1> QED  BY <1>3, <1>4, <1>5, <1>6, Zenon DEF Recording

\* No circular wait, whatever calls come together.
THEOREM NoCircularWait == TxSpec => []NoDeadlock
<1>1. TxInv => NoDeadlock
  BY SomeoneRuns, RecordersWaitForRecorders DEF NoDeadlock
<1>2. TxInv /\ [TxNext]_txVars => TxInv'
  BY TxNextInv
<1> QED  BY <1>1, <1>2, TxInitInv, PTL DEF TxSpec
=============================================================================
