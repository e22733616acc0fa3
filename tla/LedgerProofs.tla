---------------------------- MODULE LedgerProofs ----------------------------
(***************************************************************************)
(* Proofs about Ledger for every set of accounts, orders and trades, every *)
(* opening balance, every set of requests and every fee schedule.          *)
(*                                                                         *)
(* LedgerInv is inductive: the types alone are not, since consuming more   *)
(* than a reservation holds would leave Remaining negative and a release   *)
(* would then hand out a negative amount.                                  *)
(***************************************************************************)
EXTENDS Ledger, TLAPS

LedgerInv == TypeOK /\ ReservationsWithinAmount

-----------------------------------------------------------------------------
(***************************************************************************)
(* The netted entries.                                                     *)
(***************************************************************************)

\* The notional of a request is a natural number.
LEMMA NotionalType ==
  ASSUME NEW s \in Settlements
  PROVE  Notional(s) \in Nat /\ s.quantity \in Nat /\ Notional(s) > 0
  <1>1. s.price \in Nat /\ s.quantity \in Nat /\ s.price > 0 /\ s.quantity > 0
    BY LedgerAssumption DEF SettlementRequest
  <1>2. \A m, n \in Nat : m > 0 /\ n > 0 => m * n \in Nat /\ m * n > 0
    OBVIOUS
  <1> QED  BY <1>1, <1>2 DEF Notional

\* buildSettlementEntries yields one integer per account row.
LEMMA NetType ==
  ASSUME NEW s \in Settlements, NEW mf \in FeeAmounts, NEW tf \in FeeAmounts
  PROVE  Net(s, mf, tf) \in [Key -> Int]
  <1> SUFFICES ASSUME NEW k \in Key
               PROVE  /\ \A a, side, f : f \in Nat => Leg(k, a, side, s, f) \in Int
                      /\ FeeIncome(k, mf + tf) \in Int
    BY LedgerAssumption DEF Net
  <1>1. mf \in Nat /\ tf \in Nat
    BY LedgerAssumption
  <1>2. FeeIncome(k, mf + tf) \in Int
    BY <1>1 DEF FeeIncome
  <1>3. ASSUME NEW a, NEW side, NEW f \in Nat
        PROVE  Leg(k, a, side, s, f) \in Int
    BY NotionalType DEF Leg
  <1> QED  BY <1>2, <1>3

-----------------------------------------------------------------------------
(***************************************************************************)
(* One lemma per transaction: it preserves LedgerInv.                      *)
(***************************************************************************)

\* The empty database satisfies the invariant.
LEMMA InitInv == Init => LedgerInv
  BY LedgerAssumption
  DEF Init, LedgerInv, TypeOK, ReservationsWithinAmount, Reserved, NoEntries

\* ReserveBalance checks the balance before it moves it.
LEMMA ReserveInv ==
  ASSUME LedgerInv, NEW req \in ReserveRequests, ReserveBalance(req)
  PROVE  LedgerInv'
  <1> DEFINE k == <<req.account, req.asset>>
             new == [account |-> req.account, asset |-> req.asset,
                     amount |-> req.amount, consumed |-> 0, status |-> "active"]
  <1>1. /\ req.order \in Order /\ req.account \in Account /\ req.asset \in Asset
        /\ req.amount \in Nat /\ req.amount > 0
    BY LedgerAssumption DEF ReserveRequest
  <1>2. k \in Key /\ new \in Reservation
    BY <1>1 DEF Key, Reservation
  <1>3. /\ available[k] >= req.amount
        /\ available' = [available EXCEPT ![k] = @ - req.amount]
        /\ locked' = [locked EXCEPT ![k] = @ + req.amount]
        /\ reservation' = [reservation EXCEPT ![req.order] = new]
        /\ UNCHANGED <<journal, processed>>
    BY DEF ReserveBalance, CanReserve
  <1>4. TypeOK'
    BY <1>1, <1>2, <1>3 DEF LedgerInv, TypeOK
  <1>5. ReservationsWithinAmount'
    <2> SUFFICES ASSUME NEW o \in Order, Reserved(o)'
                 PROVE  /\ 0 < reservation'[o].amount
                        /\ reservation'[o].consumed <= reservation'[o].amount
                        /\ Remaining(o)' = 0 <=> reservation'[o].status = "consumed"
      BY DEF ReservationsWithinAmount
    <2>1. CASE o = req.order
      <3>1. reservation'[o] = new
        BY <1>1, <1>3, <2>1 DEF LedgerInv, TypeOK
      <3> QED  BY <1>1, <3>1 DEF Remaining
    <2>2. CASE o # req.order
      <3>1. reservation'[o] = reservation[o]
        BY <1>3, <2>2 DEF LedgerInv, TypeOK
      <3> QED  BY <3>1 DEF LedgerInv, ReservationsWithinAmount, Remaining, Reserved
    <2> QED  BY <2>1, <2>2
  <1> QED  BY <1>4, <1>5 DEF LedgerInv

\* What a reserved order's row looks like under the invariant.
LEMMA ReservedRow ==
  ASSUME LedgerInv, NEW o \in Order, Reserved(o)
  PROVE  /\ reservation[o] \in Reservation
         /\ RowOf(o) \in Key
         /\ Remaining(o) \in Nat
         /\ 0 < reservation[o].amount
         /\ Remaining(o) <= reservation[o].amount
         /\ Remaining(o) = 0 <=> reservation[o].status = "consumed"
  <1>1. reservation[o] \in Reservation
    BY DEF LedgerInv, TypeOK, Reserved
  <1> QED  BY <1>1 DEF LedgerInv, ReservationsWithinAmount, Reservation, RowOf,
                       Remaining, Key

\* A change of one reserved row's consumption and status that keeps it within
\* its amount keeps the invariant's second half.
LEMMA RowUpdate ==
  ASSUME LedgerInv, NEW o \in Order, Reserved(o), NEW c \in Nat, NEW st,
         st \in {"active", "released", "consumed"},
         c <= reservation[o].amount,
         c = reservation[o].amount <=> st = "consumed",
         reservation' = [reservation EXCEPT ![o].consumed = c, ![o].status = st]
  PROVE  /\ reservation' \in [Order -> Reservation \cup {NoReservation}]
         /\ ReservationsWithinAmount'
  <1>1. reservation[o] \in Reservation /\ 0 < reservation[o].amount
    BY ReservedRow
  <1>2. reservation \in [Order -> Reservation \cup {NoReservation}]
    BY DEF LedgerInv, TypeOK
  <1> DEFINE new == [reservation[o] EXCEPT !.consumed = c, !.status = st]
  <1>3. new \in Reservation /\ new.consumed = c /\ new.status = st
        /\ new.amount = reservation[o].amount
    BY <1>1 DEF Reservation
  <1>4. reservation' = [reservation EXCEPT ![o] = new]
    BY <1>1, <1>2 DEF Reservation
  <1> HIDE DEF new
  <1>5. reservation' \in [Order -> Reservation \cup {NoReservation}]
    BY <1>2, <1>3, <1>4
  <1>6. ReservationsWithinAmount'
    <2> SUFFICES ASSUME NEW p \in Order, Reserved(p)'
                 PROVE  /\ 0 < reservation'[p].amount
                        /\ reservation'[p].consumed <= reservation'[p].amount
                        /\ Remaining(p)' = 0 <=> reservation'[p].status = "consumed"
      BY DEF ReservationsWithinAmount
    <2>1. CASE p = o
      <3>1. reservation'[p] = new
        BY <1>2, <1>4, <2>1
      <3> QED  BY <1>1, <1>3, <3>1 DEF Remaining, Reservation
    <2>2. CASE p # o
      <3>1. reservation'[p] = reservation[p]
        BY <1>2, <1>4, <2>2
      <3> QED  BY <3>1 DEF LedgerInv, ReservationsWithinAmount, Remaining, Reserved
    <2> QED  BY <2>1, <2>2
  <1> QED  BY <1>5, <1>6

\* ReleaseReservation clamps to the locked balance and to what remains.
LEMMA ReleaseInv ==
  ASSUME LedgerInv, NEW o \in Order, ReleaseReservation(o)
  PROVE  LedgerInv'
  <1>1. Reserved(o) /\ UNCHANGED <<journal, processed>>
    BY DEF ReleaseReservation
  <1>2. /\ reservation[o] \in Reservation /\ RowOf(o) \in Key
        /\ Remaining(o) \in Nat /\ 0 < reservation[o].amount
        /\ Remaining(o) <= reservation[o].amount
        /\ Remaining(o) = 0 <=> reservation[o].status = "consumed"
    BY <1>1, ReservedRow
  <1>3. CASE Remaining(o) > 0 /\ Release(o)
    <2> DEFINE given == ReleaseAmount(o)
               c == reservation[o].amount - given
               st == StatusAfter(c, reservation[o].amount, "released")
    <2>1. given \in Nat /\ given <= Remaining(o) /\ given <= locked[RowOf(o)]
      BY <1>2 DEF ReleaseAmount, Smaller, LedgerInv, TypeOK
    <2>2. c \in Nat /\ c <= reservation[o].amount
      BY <1>2, <2>1 DEF Reservation
    <2>3. /\ st \in {"active", "released", "consumed"}
          /\ c = reservation[o].amount <=> st = "consumed"
      BY <1>2, <2>2 DEF StatusAfter, Reservation
    <2>4. /\ locked' = [locked EXCEPT ![RowOf(o)] = @ - given]
          /\ available' = [available EXCEPT ![RowOf(o)] = @ + given]
          /\ reservation' = [reservation EXCEPT ![o].consumed = c, ![o].status = st]
      BY <1>3 DEF Release
    <2>5. available' \in [Key -> Nat] /\ locked' \in [Key -> Nat]
      BY <1>2, <2>1, <2>4 DEF LedgerInv, TypeOK
    <2> HIDE DEF given, c, st
    <2>6. /\ reservation' \in [Order -> Reservation \cup {NoReservation}]
          /\ ReservationsWithinAmount'
      BY <1>1, <2>2, <2>3, <2>4, RowUpdate
    <2> QED  BY <1>1, <2>5, <2>6 DEF LedgerInv, TypeOK
  <1>4. CASE /\ Remaining(o) <= 0
             /\ reservation' = [reservation EXCEPT ![o].status = "consumed"]
             /\ UNCHANGED <<available, locked>>
    <2>1. Remaining(o) = 0 /\ reservation[o].status = "consumed"
      BY <1>2, <1>4
    <2>2. reservation' = reservation
      BY <1>2, <1>4, <2>1 DEF LedgerInv, TypeOK, Reservation
    <2> QED  BY <1>1, <1>4, <2>2 DEF LedgerInv, TypeOK, ReservationsWithinAmount,
                                     Remaining, Reserved
  <1> QED  BY <1>3, <1>4 DEF ReleaseReservation

\* reservationCover never exceeds what the reservation still holds.
LEMMA CoverBound ==
  ASSUME LedgerInv, NEW s \in Settlements, NEW o, NEW side \in Side
  PROVE  /\ Cover(o, side, s) \in Nat
         /\ Covers(o) => Cover(o, side, s) <= Remaining(o)
         /\ ~ Covers(o) => Cover(o, side, s) = 0
  <1>1. Covers(o) => Remaining(o) \in Nat
    BY ReservedRow DEF Covers
  <1>2. ReservedAmount(side, s) \in Nat
    BY NotionalType DEF ReservedAmount
  <1> QED  BY <1>1, <1>2 DEF Cover, Smaller

\* applyEntry takes from the locked balance no more than it holds.
LEMMA LockedPart ==
  ASSUME LedgerInv, NEW s \in Settlements, NEW k \in Key, NEW n \in Int
  PROVE  /\ FromLocked(k, n, s) \in Nat
         /\ FromLocked(k, n, s) <= locked[k]
         /\ FromLocked(k, n, s) <= Debit(n)
         /\ FromAvailable(k, n, s) \in Nat
         /\ Credit(n) \in Nat
         /\ n = Credit(n) - FromLocked(k, n, s) - FromAvailable(k, n, s)
  <1>1. locked[k] \in Nat /\ Debit(n) \in Nat
    BY DEF LedgerInv, TypeOK, Debit
  <1>2. /\ FromLocked(k, n, s) \in Nat
        /\ FromLocked(k, n, s) <= locked[k]
        /\ FromLocked(k, n, s) <= Debit(n)
    BY <1>1 DEF FromLocked, Smaller
  <1> QED  BY <1>1, <1>2 DEF FromAvailable, Credit, Debit

\* What one order's reservation pays for a leg of the trade.
LEMMA ConsumptionBound ==
  ASSUME LedgerInv, NEW s \in Settlements, NEW mf \in FeeAmounts,
         NEW tf \in FeeAmounts, NEW o, NEW a \in Account, NEW side \in Side
  PROVE  LET c == Consumption(a, o, side, Net(s, mf, tf), s)
         IN  c \in Nat /\ c <= Cover(o, side, s)
  <1>1. <<a, ReservedAsset(side)>> \in Key
    BY DEF Key, Asset, ReservedAsset
  <1>2. Net(s, mf, tf)[<<a, ReservedAsset(side)>>] \in Int
    BY <1>1, NetType
  <1>3. Debit(Net(s, mf, tf)[<<a, ReservedAsset(side)>>]) \in Nat
    BY <1>2 DEF Debit
  <1> QED  BY <1>3, CoverBound DEF Consumption, Smaller

\* The assets the two legs reserve differ, so an order named on both sides of
\* a trade can be consumed on one side at most.
LEMMA LegAssets ==
  ASSUME NEW side \in Side
  PROVE  /\ Opposite(side) \in Side
         /\ ReservedAsset(side) # ReservedAsset(Opposite(side))
  BY LedgerAssumption DEF Side, Opposite, ReservedAsset

\* Consuming within the remainder keeps a row within its amount.
LEMMA ConsumeRow ==
  ASSUME NEW r \in Reservation, r.status = "active", r.consumed < r.amount,
         NEW n \in Nat, n <= r.amount - r.consumed
  PROVE  LET c == Consume(r, n)
         IN  /\ c \in Reservation
             /\ c.account = r.account /\ c.asset = r.asset /\ c.amount = r.amount
             /\ c.consumed = r.consumed + n /\ c.consumed <= c.amount
             /\ c.status = IF c.consumed = c.amount THEN "consumed" ELSE "active"
  <1> DEFINE m == r.consumed + n
             st == StatusAfter(m, r.amount, r.status)
  <1>1. /\ m \in Nat /\ m <= r.amount
        /\ st = IF m = r.amount THEN "consumed" ELSE "active"
    BY DEF StatusAfter, Reservation
  <1>2. Consume(r, n) = [r EXCEPT !.consumed = m, !.status = st]
    BY DEF Consume
  <1> HIDE DEF m, st
  <1>3. Consume(r, n) = [account |-> r.account, asset |-> r.asset,
                         amount |-> r.amount, consumed |-> m, status |-> st]
    BY <1>2 DEF Reservation
  <1>4. r.account \in Account /\ r.asset \in Asset /\ r.amount \in Nat
    BY DEF Reservation
  <1>5. m = r.consumed + n
    BY DEF m
  <1> QED  BY <1>1, <1>3, <1>4, <1>5 DEF Reservation

-----------------------------------------------------------------------------
(***************************************************************************)
(* ApplySettlement.  used[o] is what the step consumes of o's reservation. *)
(***************************************************************************)
Used(o, s, mf, tf) ==
    (IF o = s.makerOrder
     THEN Consumption(s.maker, o, s.makerSide, Net(s, mf, tf), s) ELSE 0)
    + (IF o = s.takerOrder
       THEN Consumption(s.taker, o, Opposite(s.makerSide), Net(s, mf, tf), s)
       ELSE 0)

\* A settlement consumes an order's reservation only if it is active, and
\* never more than remains of it.
LEMMA UsedBound ==
  ASSUME LedgerInv, NEW s \in Settlements, NEW mf \in FeeAmounts,
         NEW tf \in FeeAmounts, NEW o \in Order, Post(s, mf, tf)
  PROVE  /\ Used(o, s, mf, tf) \in Nat
         /\ Used(o, s, mf, tf) > 0 => /\ Covers(o)
                                     /\ Used(o, s, mf, tf) <= Remaining(o)
  <1>1. /\ s.maker \in Account /\ s.taker \in Account /\ s.makerSide \in Side
        /\ Opposite(s.makerSide) \in Side
        /\ ReservedAsset(s.makerSide) # ReservedAsset(Opposite(s.makerSide))
    BY LedgerAssumption, LegAssets DEF SettlementRequest
  <1> DEFINE cm == Consumption(s.maker, o, s.makerSide, Net(s, mf, tf), s)
             ct == Consumption(s.taker, o, Opposite(s.makerSide), Net(s, mf, tf), s)
  <1>2. cm \in Nat /\ cm <= Cover(o, s.makerSide, s)
    BY <1>1, ConsumptionBound
  <1>3. ct \in Nat /\ ct <= Cover(o, Opposite(s.makerSide), s)
    BY <1>1, ConsumptionBound
  <1>4. ASSUME NEW side \in Side
        PROVE  /\ Cover(o, side, s) \in Nat
               /\ Covers(o) => Cover(o, side, s) <= Remaining(o)
               /\ ~ Covers(o) => Cover(o, side, s) = 0
    BY CoverBound
  <1>5. ~ (Covers(o) /\ o = s.makerOrder /\ o = s.takerOrder)
    BY <1>1 DEF Post, AssetMatches
  <1>6. Covers(o) => Remaining(o) \in Nat
    BY ReservedRow DEF Covers
  <1>7. Used(o, s, mf, tf) = (IF o = s.makerOrder THEN cm ELSE 0)
                             + (IF o = s.takerOrder THEN ct ELSE 0)
    BY DEF Used
  <1> HIDE DEF cm, ct
  <1>8. CASE ~ Covers(o)
    <2>1. Cover(o, s.makerSide, s) = 0 /\ Cover(o, Opposite(s.makerSide), s) = 0
      BY <1>1, <1>4, <1>8
    <2>2. cm = 0 /\ ct = 0
      BY <1>2, <1>3, <2>1
    <2> QED  BY <1>7, <2>2
  <1>9. CASE Covers(o)
    <2>1. /\ Cover(o, s.makerSide, s) \in Nat
          /\ Cover(o, s.makerSide, s) <= Remaining(o)
          /\ Cover(o, Opposite(s.makerSide), s) \in Nat
          /\ Cover(o, Opposite(s.makerSide), s) <= Remaining(o)
      BY <1>1, <1>4, <1>9
    <2>2. cm <= Remaining(o) /\ ct <= Remaining(o) /\ Remaining(o) \in Nat
      BY <1>2, <1>3, <1>6, <1>9, <2>1
    <2> QED  BY <1>2, <1>3, <1>5, <1>7, <1>9, <2>2
  <1> QED  BY <1>8, <1>9

\* The rows after a posting: each reservation is as before or has consumed
\* within its remainder.
LEMMA PostRow ==
  ASSUME LedgerInv, NEW s \in Settlements, NEW mf \in FeeAmounts,
         NEW tf \in FeeAmounts, NEW o \in Order, Post(s, mf, tf)
  PROVE  \/ reservation'[o] = reservation[o]
         \/ /\ Covers(o)
            /\ Used(o, s, mf, tf) > 0
            /\ reservation'[o] \in Reservation
            /\ reservation'[o].account = reservation[o].account
            /\ reservation'[o].asset = reservation[o].asset
            /\ reservation'[o].amount = reservation[o].amount
            /\ reservation'[o].consumed
                  = reservation[o].consumed + Used(o, s, mf, tf)
            /\ reservation'[o].consumed <= reservation'[o].amount
            /\ reservation'[o].status =
                  IF reservation'[o].consumed = reservation'[o].amount
                  THEN "consumed" ELSE "active"
  <1> DEFINE u == Used(o, s, mf, tf)
  <1>1. u \in Nat /\ (u > 0 => Covers(o) /\ u <= Remaining(o))
    BY UsedBound
  <1>2. reservation'[o] = IF u > 0 THEN Consume(reservation[o], u)
                                   ELSE reservation[o]
    BY DEF Post, Used
  <1> HIDE DEF u
  <1>3. CASE u > 0
    <2>1. /\ reservation[o] \in Reservation /\ reservation[o].status = "active"
          /\ Covers(o) /\ Remaining(o) \in Nat
      BY <1>1, <1>3, ReservedRow DEF Covers, Active
    <2>2. reservation[o].consumed < reservation[o].amount
      BY <1>1, <1>3, <2>1 DEF Remaining, Reservation
    <2>3. u <= reservation[o].amount - reservation[o].consumed
      BY <1>1, <1>3 DEF Remaining
    <2>4. reservation'[o] = Consume(reservation[o], u)
      BY <1>2, <1>3
    <2> QED  BY <1>1, <1>3, <2>1, <2>2, <2>3, <2>4, ConsumeRow DEF u
  <1> QED  BY <1>1, <1>2, <1>3

\* The balances after a posting: no row goes negative, and every row moves by
\* exactly its entry.
LEMMA PostBalances ==
  ASSUME LedgerInv, NEW s \in Settlements, NEW mf \in FeeAmounts,
         NEW tf \in FeeAmounts, Post(s, mf, tf)
  PROVE  /\ available' \in [Key -> Nat] /\ locked' \in [Key -> Nat]
         /\ \A k \in Key :
               available'[k] + locked'[k] = Total(k) + Net(s, mf, tf)[k]
  <1> DEFINE net == Net(s, mf, tf)
  <1>1. net \in [Key -> Int]
    BY NetType
  <1>2. /\ \A k \in Key : FromAvailable(k, net[k], s) <= available[k]
        /\ available' = [k \in Key |-> available[k] + Credit(net[k])
                                         - FromAvailable(k, net[k], s)]
        /\ locked' = [k \in Key |-> locked[k] - FromLocked(k, net[k], s)]
    BY DEF Post
  <1> HIDE DEF net
  <1>3. ASSUME NEW k \in Key
        PROVE  /\ available'[k] \in Nat /\ locked'[k] \in Nat
               /\ available'[k] + locked'[k] = Total(k) + net[k]
    <2>1. available[k] \in Nat /\ locked[k] \in Nat /\ net[k] \in Int
      BY <1>1 DEF LedgerInv, TypeOK
    <2>2. /\ FromLocked(k, net[k], s) \in Nat
          /\ FromLocked(k, net[k], s) <= locked[k]
          /\ FromAvailable(k, net[k], s) \in Nat
          /\ Credit(net[k]) \in Nat
          /\ net[k] = Credit(net[k]) - FromLocked(k, net[k], s)
                                    - FromAvailable(k, net[k], s)
      BY <2>1, LockedPart
    <2>3. /\ FromAvailable(k, net[k], s) <= available[k]
          /\ available'[k] = available[k] + Credit(net[k])
                              - FromAvailable(k, net[k], s)
          /\ locked'[k] = locked[k] - FromLocked(k, net[k], s)
      BY <1>2
    <2> QED  BY <2>1, <2>2, <2>3 DEF Total
  <1>4. available' \in [Key -> Nat] /\ locked' \in [Key -> Nat]
    BY <1>2, <1>3
  <1> QED  BY <1>3, <1>4 DEF net

\* ApplySettlement keeps the invariant, whether the request is a duplicate
\* or is posted.
LEMMA SettleInv ==
  ASSUME LedgerInv, NEW s \in Settlements, NEW mf \in FeeAmounts,
         NEW tf \in FeeAmounts, ApplySettlement(s, mf, tf)
  PROVE  LedgerInv'
  <1>1. processed' \subseteq Event
    BY LedgerAssumption DEF ApplySettlement, LedgerInv, TypeOK, SettlementRequest
  <1>2. CASE UNCHANGED <<available, locked, reservation, journal>>
    BY <1>1, <1>2 DEF LedgerInv, TypeOK, ReservationsWithinAmount, Remaining,
                      Reserved
  <1>3. CASE Post(s, mf, tf)
    <2>1. available' \in [Key -> Nat] /\ locked' \in [Key -> Nat]
      BY <1>3, PostBalances
    <2>2. journal' \in [Trade -> [Key -> Int]]
      BY <1>3, NetType DEF Post, LedgerInv, TypeOK
    <2>3. ASSUME NEW o \in Order
          PROVE  /\ reservation'[o] \in Reservation \cup {NoReservation}
                 /\ Reserved(o)' =>
                      /\ 0 < reservation'[o].amount
                      /\ reservation'[o].consumed <= reservation'[o].amount
                      /\ Remaining(o)' = 0 <=> reservation'[o].status = "consumed"
      <3>1. CASE reservation'[o] = reservation[o]
        BY <3>1 DEF LedgerInv, TypeOK, ReservationsWithinAmount, Remaining,
                    Reserved
      <3>2. CASE reservation'[o] # reservation[o]
        <4>1. /\ Covers(o) /\ reservation'[o] \in Reservation
              /\ reservation'[o].amount = reservation[o].amount
              /\ reservation'[o].consumed <= reservation'[o].amount
              /\ reservation'[o].status =
                    IF reservation'[o].consumed = reservation'[o].amount
                    THEN "consumed" ELSE "active"
          BY <1>3, <3>2, PostRow
        <4>2. 0 < reservation[o].amount
          BY <4>1, ReservedRow DEF Covers
        <4> QED  BY <4>1, <4>2 DEF Remaining, Reservation
      <3> QED  BY <3>1, <3>2
    <2>4. reservation' \in [Order -> Reservation \cup {NoReservation}]
      BY <1>3, <2>3 DEF Post
    <2>5. ReservationsWithinAmount'
      BY <2>3 DEF ReservationsWithinAmount
    <2> QED  BY <1>1, <2>1, <2>2, <2>4, <2>5 DEF LedgerInv, TypeOK
  <1> QED  BY <1>2, <1>3 DEF ApplySettlement

\* Every step keeps the invariant.
LEMMA NextInv == LedgerInv /\ [Next]_vars => LedgerInv'
  <1> SUFFICES ASSUME LedgerInv, [Next]_vars PROVE LedgerInv'
    OBVIOUS
  <1>1. CASE \E req \in ReserveRequests : ReserveBalance(req)
    BY <1>1, ReserveInv
  <1>2. CASE \E o \in Order : ReleaseReservation(o)
    BY <1>2, ReleaseInv
  <1>3. CASE \E s \in Settlements, mf, tf \in FeeAmounts :
                ApplySettlement(s, mf, tf)
    BY <1>3, SettleInv
  <1>4. CASE UNCHANGED vars
    BY <1>4 DEF vars, LedgerInv, TypeOK, ReservationsWithinAmount, Remaining,
                Reserved
  <1> QED  BY <1>1, <1>2, <1>3, <1>4 DEF Next

\* No balance is ever negative: every transaction of the store checks or
\* clamps before it subtracts.
THEOREM TypeCorrect == Spec => []TypeOK
  <1>1. LedgerInv => TypeOK
    BY DEF LedgerInv
  <1> QED  BY <1>1, InitInv, NextInv, PTL DEF Spec

\* No sequence of reserves, releases and settlements consumes more of a
\* reservation than it holds, and "consumed" marks exactly the empty ones.
THEOREM ReservationsSafe == Spec => []ReservationsWithinAmount
  <1>1. LedgerInv => ReservationsWithinAmount
    BY DEF LedgerInv
  <1> QED  BY <1>1, InitInv, NextInv, PTL DEF Spec

-----------------------------------------------------------------------------
(***************************************************************************)
(* What a step may do, from the same invariant.                            *)
(***************************************************************************)

\* Reserving moves funds from available to locked, nothing else.
LEMMA ReserveKeepsTotals ==
  ASSUME LedgerInv, NEW req \in ReserveRequests, ReserveBalance(req),
         NEW k \in Key
  PROVE  journal' = journal /\ available'[k] + locked'[k] = Total(k)
  <1>1. req.amount \in Nat /\ <<req.account, req.asset>> \in Key
    BY LedgerAssumption DEF ReserveRequest, Key
  <1>2. available \in [Key -> Nat] /\ locked \in [Key -> Nat]
    BY DEF LedgerInv, TypeOK
  <1> QED  BY <1>1, <1>2 DEF ReserveBalance, Total

\* Releasing moves funds from locked to available, nothing else.
LEMMA ReleaseKeepsTotals ==
  ASSUME LedgerInv, NEW o \in Order, ReleaseReservation(o), NEW k \in Key
  PROVE  journal' = journal /\ available'[k] + locked'[k] = Total(k)
  <1>1. available \in [Key -> Nat] /\ locked \in [Key -> Nat]
    BY DEF LedgerInv, TypeOK
  <1>2. CASE Remaining(o) > 0 /\ Release(o)
    <2>1. RowOf(o) \in Key /\ ReleaseAmount(o) \in Nat
      BY <1>1, ReservedRow DEF ReleaseReservation, ReleaseAmount, Smaller
    <2> QED  BY <1>1, <1>2, <2>1 DEF Release, ReleaseReservation, Total
  <1>3. CASE UNCHANGED <<available, locked>>
    BY <1>1, <1>3 DEF ReleaseReservation, Total
  <1> QED  BY <1>2, <1>3 DEF ReleaseReservation

\* A posting is a settlement step of its trade.
LEMMA PostIsSettlementStep ==
  ASSUME LedgerInv, NEW s \in Settlements, NEW mf \in FeeAmounts,
         NEW tf \in FeeAmounts, Post(s, mf, tf), ~ Duplicate(s)
  PROVE  s.trade \in Trade /\ SettlementStep(s.trade)
  <1>1. s.trade \in Trade
    BY LedgerAssumption DEF SettlementRequest
  <1>2. journal' = [journal EXCEPT ![s.trade] = Net(s, mf, tf)]
    BY DEF Post
  <1>3. journal'[s.trade] = Net(s, mf, tf)
    BY <1>1, <1>2 DEF LedgerInv, TypeOK
  <1>4. \A u \in Trade \ {s.trade} : journal'[u] = journal[u]
    BY <1>1, <1>2 DEF LedgerInv, TypeOK
  <1> QED  BY <1>1, <1>3, <1>4, PostBalances DEF SettlementStep, Duplicate

\* The step form of SettledExactlyOnce.
LEMMA SettledOnceStep ==
  ASSUME LedgerInv, Next, NEW k \in Key
  PROVE  \/ journal' = journal /\ available'[k] + locked'[k] = Total(k)
         \/ \E t \in Trade : SettlementStep(t)
  <1>1. CASE \E req \in ReserveRequests : ReserveBalance(req)
    BY <1>1, ReserveKeepsTotals
  <1>2. CASE \E o \in Order : ReleaseReservation(o)
    BY <1>2, ReleaseKeepsTotals
  <1>3. ASSUME NEW s \in Settlements, NEW mf \in FeeAmounts,
               NEW tf \in FeeAmounts, ApplySettlement(s, mf, tf)
        PROVE  \/ journal' = journal /\ available'[k] + locked'[k] = Total(k)
               \/ \E t \in Trade : SettlementStep(t)
    <2>1. CASE UNCHANGED <<available, locked, reservation, journal>>
      BY <2>1 DEF Total
    <2>2. CASE ~ Duplicate(s) /\ Post(s, mf, tf)
      BY <2>2, PostIsSettlementStep
    <2> QED  BY <1>3, <2>1, <2>2 DEF ApplySettlement
  <1> QED  BY <1>1, <1>2, <1>3 DEF Next

\* A trade is settled at most once, under however many event ids it arrives:
\* its entries never change again, and the one step that writes them moves
\* every balance by exactly its entry.
THEOREM SettledOnce == Spec => SettledExactlyOnce
  <1>1. LedgerInv /\ [Next]_vars =>
          [\A k \in Key :
              \/ journal' = journal /\ available'[k] + locked'[k] = Total(k)
              \/ \E t \in Trade : SettlementStep(t)]_vars
    BY SettledOnceStep
  <1> QED  BY <1>1, InitInv, NextInv, PTL DEF Spec, SettledExactlyOnce

\* How a row may change in a step.
Shrinks(o) ==
    /\ reservation'[o].account = reservation[o].account
    /\ reservation'[o].asset = reservation[o].asset
    /\ reservation'[o].amount = reservation[o].amount
    /\ reservation'[o].consumed >= reservation[o].consumed
    /\ reservation'[o].status = "active" => Active(o)

\* A row that does not change shrinks.
LEMMA SameRowShrinks ==
  ASSUME LedgerInv, NEW o \in Order, Reserved(o),
         reservation'[o] = reservation[o]
  PROVE  Shrinks(o)
  <1>1. reservation[o] \in Reservation
    BY ReservedRow
  <1> QED  BY <1>1 DEF Shrinks, Active, Reservation

\* A release closes one row and consumes forward.
LEMMA ReleaseShrinks ==
  ASSUME LedgerInv, NEW p \in Order, ReleaseReservation(p),
         NEW o \in Order, Reserved(o)
  PROVE  Shrinks(o)
  <1>1. reservation \in [Order -> Reservation \cup {NoReservation}]
    BY DEF LedgerInv, TypeOK
  <1>2. CASE o # p
    <2>1. reservation'[o] = reservation[o]
      BY <1>1, <1>2 DEF ReleaseReservation, Release
    <2> QED  BY <2>1, SameRowShrinks
  <1>3. CASE o = p /\ Remaining(p) > 0 /\ Release(p)
    <2> DEFINE c == reservation[p].amount - ReleaseAmount(p)
               st == StatusAfter(c, reservation[p].amount, "released")
    <2>1. reservation[p] \in Reservation /\ RowOf(p) \in Key /\ Remaining(p) \in Nat
      BY <1>3, ReservedRow
    <2>2. ReleaseAmount(p) \in Nat /\ ReleaseAmount(p) <= Remaining(p)
      BY <2>1 DEF ReleaseAmount, Smaller, LedgerInv, TypeOK
    <2>3. c >= reservation[p].consumed /\ st # "active"
      BY <2>1, <2>2 DEF Remaining, Reservation, StatusAfter
    <2>4. reservation' = [reservation EXCEPT ![p].consumed = c, ![p].status = st]
      BY <1>3 DEF Release
    <2> HIDE DEF c, st
    <2>5. reservation'[p] = [reservation[p] EXCEPT !.consumed = c, !.status = st]
      BY <1>1, <2>1, <2>4 DEF Reservation
    <2> QED  BY <1>3, <2>1, <2>3, <2>5 DEF Shrinks, Reservation
  <1>4. CASE /\ o = p /\ Remaining(p) <= 0
             /\ reservation' = [reservation EXCEPT ![p].status = "consumed"]
    <2>1. reservation[p] \in Reservation
      BY <1>4, ReservedRow
    <2>2. reservation'[p] = [reservation[p] EXCEPT !.status = "consumed"]
      BY <1>1, <1>4
    <2> QED  BY <1>4, <2>1, <2>2 DEF Shrinks, Reservation
  <1> QED  BY <1>2, <1>3, <1>4 DEF ReleaseReservation

\* The step form of ReservationsOnlyShrink.
LEMMA ShrinkStep ==
  ASSUME LedgerInv, Next, NEW o \in Order, Reserved(o)
  PROVE  Shrinks(o)
  <1>1. ASSUME NEW req \in ReserveRequests, ReserveBalance(req)
        PROVE  Shrinks(o)
    <2>1. req.order # o
      BY <1>1 DEF ReserveBalance, CanReserve
    <2>2. reservation'[o] = reservation[o]
      BY <1>1, <2>1 DEF ReserveBalance, LedgerInv, TypeOK
    <2> QED  BY <2>2, SameRowShrinks
  <1>2. CASE \E p \in Order : ReleaseReservation(p)
    BY <1>2, ReleaseShrinks
  <1>3. ASSUME NEW s \in Settlements, NEW mf \in FeeAmounts,
               NEW tf \in FeeAmounts, ApplySettlement(s, mf, tf)
        PROVE  Shrinks(o)
    <2>1. CASE reservation'[o] = reservation[o]
      BY <2>1, SameRowShrinks
    <2>2. CASE Post(s, mf, tf) /\ reservation'[o] # reservation[o]
      <3>1. /\ Covers(o)
            /\ reservation'[o].account = reservation[o].account
            /\ reservation'[o].asset = reservation[o].asset
            /\ reservation'[o].amount = reservation[o].amount
            /\ reservation'[o].consumed
                  = reservation[o].consumed + Used(o, s, mf, tf)
        BY <2>2, PostRow
      <3>2. Used(o, s, mf, tf) \in Nat /\ reservation[o].consumed \in Nat
        BY <2>2, UsedBound, ReservedRow DEF Reservation
      <3> QED  BY <3>1, <3>2 DEF Shrinks, Covers
    <2> QED  BY <1>3, <2>1, <2>2 DEF ApplySettlement
  <1> QED  BY <1>1, <1>2, <1>3 DEF Next

\* A reservation that was released or used up never covers a trade again, and
\* consumption never goes back, whatever the order of the calls.
THEOREM ReservationsShrink == Spec => ReservationsOnlyShrink
  <1>1. LedgerInv /\ [Next]_vars =>
          [\A o \in Order : Reserved(o) =>
              /\ reservation'[o].account = reservation[o].account
              /\ reservation'[o].asset = reservation[o].asset
              /\ reservation'[o].amount = reservation[o].amount
              /\ reservation'[o].consumed >= reservation[o].consumed
              /\ reservation'[o].status = "active" => Active(o)]_vars
    BY ShrinkStep DEF Shrinks
  <1> QED  BY <1>1, InitInv, NextInv, PTL DEF Spec, ReservationsOnlyShrink

-----------------------------------------------------------------------------
(***************************************************************************)
(* Idempotency marks.                                                      *)
(***************************************************************************)

\* A step marks an event only together with, or after, its trade's entries.
LEMMA MarksFollowEntries ==
  LedgerInv /\ ProcessedImpliesSettled /\ [Next]_vars => ProcessedImpliesSettled'
  <1> SUFFICES ASSUME LedgerInv, ProcessedImpliesSettled, [Next]_vars
               PROVE  ProcessedImpliesSettled'
    OBVIOUS
  <1>1. CASE journal' = journal /\ processed' = processed
    BY <1>1 DEF ProcessedImpliesSettled, AlreadySettled
  <1>2. ASSUME NEW s \in Settlements, NEW mf \in FeeAmounts,
               NEW tf \in FeeAmounts, ApplySettlement(s, mf, tf)
        PROVE  ProcessedImpliesSettled'
    <2>1. processed' = processed \cup {s.event} /\ s.trade \in Trade
      BY <1>2, LedgerAssumption DEF ApplySettlement, SettlementRequest
    <2>2. CASE Duplicate(s) /\ journal' = journal
      BY <2>1, <2>2 DEF Duplicate, ProcessedImpliesSettled, AlreadySettled
    <2>3. CASE ~ Duplicate(s) /\ Post(s, mf, tf)
      <3>1. /\ journal'[s.trade] # NoEntries
            /\ \A u \in Trade \ {s.trade} : journal'[u] = journal[u]
        BY <2>1, <2>3 DEF Post, LedgerInv, TypeOK
      <3>2. \A r \in Settlements : r.trade \in Trade
        BY LedgerAssumption DEF SettlementRequest
      <3> QED  BY <2>1, <3>1, <3>2 DEF ProcessedImpliesSettled, AlreadySettled
    <2> QED  BY <1>2, <2>2, <2>3 DEF ApplySettlement
  <1> QED  BY <1>1, <1>2 DEF Next, vars, ReserveBalance, ReleaseReservation

\* An event the store reports as processed has its trade's entries in the
\* ledger: skipping its redelivery loses no settlement.
THEOREM ProcessedEventsAreSettled == Spec => []ProcessedImpliesSettled
  <1>1. Init => ProcessedImpliesSettled
    BY DEF Init, ProcessedImpliesSettled
  <1> QED  BY <1>1, InitInv, NextInv, MarksFollowEntries, PTL DEF Spec

-----------------------------------------------------------------------------
(***************************************************************************)
(* Double entry: the three accounts of a trade cancel out and no other     *)
(* account has an entry.                                                   *)
(***************************************************************************)

\* buildSettlementEntries debits what it credits, fees included, in either
\* asset; only the two traders and the fee account are touched.
THEOREM EntriesBalance ==
  ASSUME NEW s \in Settlements, NEW mf \in FeeAmounts, NEW tf \in FeeAmounts,
         s.maker # s.taker, FeeAccount \notin {s.maker, s.taker},
         NEW x \in Asset
  PROVE  LET net == Net(s, mf, tf)
         IN  /\ net[<<s.maker, x>>] + net[<<s.taker, x>>]
                  + net[<<FeeAccount, x>>] = 0
             /\ \A a \in Account \ {s.maker, s.taker, FeeAccount} :
                   net[<<a, x>>] = 0
  <1>1. /\ s.maker \in Account /\ s.taker \in Account /\ FeeAccount \in Account
        /\ s.makerSide \in Side /\ Base # Quote /\ mf \in Nat /\ tf \in Nat
    BY LedgerAssumption DEF SettlementRequest
  <1>2. Notional(s) \in Nat /\ s.quantity \in Nat
    BY NotionalType
  <1>3. ASSUME NEW a \in Account
        PROVE  Net(s, mf, tf)[<<a, x>>]
                 = Leg(<<a, x>>, s.maker, s.makerSide, s, mf)
                   + Leg(<<a, x>>, s.taker, Opposite(s.makerSide), s, tf)
                   + FeeIncome(<<a, x>>, mf + tf)
    BY <1>3 DEF Net, Key
  <1>4. ASSUME NEW a \in Account \ {s.maker, s.taker, FeeAccount}
        PROVE  Net(s, mf, tf)[<<a, x>>] = 0
    BY <1>3, <1>4 DEF Leg, FeeIncome
  <1>5. CASE x = Base
    BY <1>1, <1>2, <1>3, <1>4, <1>5 DEF Leg, FeeIncome, Opposite, Side
  <1>6. CASE x = Quote
    BY <1>1, <1>2, <1>3, <1>4, <1>6 DEF Leg, FeeIncome, Opposite, Side
  <1> QED  BY <1>5, <1>6 DEF Asset
=============================================================================
