------------------------------- MODULE Ledger -------------------------------
(***************************************************************************)
(* The ledger's store (services/ledger/internal/storage/postgres.go): the  *)
(* tables ledger_accounts, balance_reservations, ledger_entries and        *)
(* processed_events, and the three transactions that change them.  Each    *)
(* transaction is one step here; LedgerTx splits them into the statements  *)
(* the code sends and is shown to implement this module.                   *)
(*                                                                         *)
(* A transaction that returns an error is rolled back and changes nothing, *)
(* so an error path is the absence of a step.  One market BASE-QUOTE is    *)
(* modelled; amounts are natural numbers (the code's decimals, scaled).    *)
(***************************************************************************)
EXTENDS Integers, FiniteSetsExt

CONSTANTS
    Account,          \* account ids, the fee account included
    FeeAccount,       \* accounts.type = feeAccountType
    Base, Quote,      \* the two assets of the market
    Order, NilOrder,  \* order ids, and uuid.Nil
    Trade, Event,     \* trade ids and event ids
    Opening,          \* balance_available of every account row at the start
    ReserveRequests,  \* the calls order-ingest may make
    Settlements,      \* the settlement requests that may arrive
    FeeAmounts        \* what calculateFee may return, in the quote asset

Asset == {Base, Quote}
Key == Account \X Asset
Side == {"buy", "sell"}

ReserveRequest ==
    [order: Order, account: Account, asset: Asset, amount: Nat \ {0}]

SettlementRequest ==
    [trade: Trade, event: Event,
     makerOrder: Order \cup {NilOrder}, takerOrder: Order \cup {NilOrder},
     maker: Account, taker: Account, makerSide: Side,
     price: Nat \ {0}, quantity: Nat \ {0}]

ASSUME LedgerAssumption ==
    /\ FeeAccount \in Account
    /\ Base # Quote
    /\ NilOrder \notin Order
    /\ Opening \in [Key -> Nat]
    /\ ReserveRequests \subseteq ReserveRequest
    /\ Settlements \subseteq SettlementRequest
    /\ FeeAmounts \subseteq Nat
    /\ IsFiniteSet(Account) /\ IsFiniteSet(Order) /\ IsFiniteSet(Trade)

VARIABLES
    available,    \* ledger_accounts.balance_available
    locked,       \* ledger_accounts.balance_locked
    reservation,  \* balance_reservations, by order_id (unique)
    journal,      \* ledger_entries: signed net amount per trade and account row
    processed     \* processed_events

vars == <<available, locked, reservation, journal, processed>>

(***************************************************************************)
(* Rows.  ledger_entries holds at most one row per trade and account row   *)
(* (the unique index of migration 0012): a credit is a positive number, a  *)
(* debit a negative one, no row is 0.                                      *)
(***************************************************************************)
NoReservation == [status |-> "none"]

Reservation ==
    [account: Account, asset: Asset, amount: Nat, consumed: Nat,
     status: {"active", "released", "consumed"}]

NoEntries == [k \in Key |-> 0]

Init ==
    /\ available = Opening
    /\ locked = [k \in Key |-> 0]
    /\ reservation = [o \in Order |-> NoReservation]
    /\ journal = [t \in Trade |-> NoEntries]
    /\ processed = {}

Reserved(o) == reservation[o] # NoReservation
Active(o) == reservation[o].status = "active"
RowOf(o) == <<reservation[o].account, reservation[o].asset>>
Remaining(o) == reservation[o].amount - reservation[o].consumed

Smaller(m, n) == IF m < n THEN m ELSE n

-----------------------------------------------------------------------------
(***************************************************************************)
(* ReserveBalance.  A second call for an order finds the row and changes   *)
(* nothing (or fails: closed, or another account or asset).                *)
(***************************************************************************)
CanReserveUnchecked(req) == ~ Reserved(req.order)

CanReserve(req) ==
    /\ ~ Reserved(req.order)
    /\ available[<<req.account, req.asset>>] >= req.amount

ReserveBalance(req) ==
    LET k == <<req.account, req.asset>>
    IN  /\ CanReserve(req)
        /\ available' = [available EXCEPT ![k] = @ - req.amount]
        /\ locked' = [locked EXCEPT ![k] = @ + req.amount]
        /\ reservation' = [reservation EXCEPT ![req.order] =
                [account |-> req.account, asset |-> req.asset,
                 amount |-> req.amount, consumed |-> 0, status |-> "active"]]
        /\ UNCHANGED <<journal, processed>>

(***************************************************************************)
(* ReleaseReservation.  The status of the row is not looked at, and an     *)
(* account whose locked balance no longer covers the reservation gives     *)
(* back what it has: the row then says how much was not given back.        *)
(***************************************************************************)
ReleaseAmount(o) == Smaller(Remaining(o), locked[RowOf(o)])

StatusAfterActive(consumed, amount, otherwise) ==
    IF consumed >= amount THEN "consumed" ELSE "active"

StatusAfter(consumed, amount, otherwise) ==
    IF consumed >= amount THEN "consumed" ELSE otherwise

Release(o) ==
    LET given == ReleaseAmount(o)
        consumed == reservation[o].amount - given
    IN  /\ locked' = [locked EXCEPT ![RowOf(o)] = @ - given]
        /\ available' = [available EXCEPT ![RowOf(o)] = @ + given]
        /\ reservation' = [reservation EXCEPT
                ![o].consumed = consumed,
                ![o].status = StatusAfter(consumed, reservation[o].amount,
                                           "released")]

ReleaseReservation(o) ==
    /\ Reserved(o)
    /\ \/ Remaining(o) > 0 /\ Release(o)
       \/ /\ Remaining(o) <= 0
          /\ reservation' = [reservation EXCEPT ![o].status = "consumed"]
          /\ UNCHANGED <<available, locked>>
    /\ UNCHANGED <<journal, processed>>

-----------------------------------------------------------------------------
(***************************************************************************)
(* ApplySettlement.  buildSettlementEntries and aggregateEntries: the two  *)
(* legs of the trade and the two fees, netted per account row.             *)
(***************************************************************************)
Opposite(side) == IF side = "buy" THEN "sell" ELSE "buy"
Notional(s) == s.price * s.quantity

Leg(k, account, side, s, fee) ==
    IF k[1] # account THEN 0
    ELSE IF k[2] = Base
         THEN (IF side = "buy" THEN s.quantity ELSE -s.quantity)
         ELSE (IF side = "buy" THEN -Notional(s) ELSE Notional(s)) - fee

FeeIncome(k, fees) == IF k = <<FeeAccount, Quote>> THEN fees ELSE 0

Net(s, makerFee, takerFee) ==
    [k \in Key |-> Leg(k, s.maker, s.makerSide, s, makerFee)
                  + Leg(k, s.taker, Opposite(s.makerSide), s, takerFee)
                  + FeeIncome(k, makerFee + takerFee)]

Debit(n) == IF n < 0 THEN -n ELSE 0
Credit(n) == IF n > 0 THEN n ELSE 0

(***************************************************************************)
(* reservationCover: how much of a leg the order's reservation covers.     *)
(***************************************************************************)
ReservedAsset(side) == IF side = "buy" THEN Quote ELSE Base
ReservedAmount(side, s) == IF side = "buy" THEN Notional(s) ELSE s.quantity

Covers(o) == o \in Order /\ Reserved(o) /\ Active(o)

AssetMatches(o, side) ==
    Covers(o) => reservation[o].asset = ReservedAsset(side)

Cover(o, side, s) ==
    IF Covers(o) THEN Smaller(ReservedAmount(side, s), Remaining(o)) ELSE 0

(***************************************************************************)
(* A debit is taken from the locked balance first, all of it, when the     *)
(* row's order has a cover, or came without an order id (forcedLockedKeys).*)
(***************************************************************************)
UsesLocked(k, s) ==
    LET Leads(account, o, side) ==
            /\ k = <<account, ReservedAsset(side)>>
            /\ o = NilOrder \/ Cover(o, side, s) > 0
    IN  \/ Leads(s.maker, s.makerOrder, s.makerSide)
        \/ Leads(s.taker, s.takerOrder, Opposite(s.makerSide))

FromLocked(k, n, s) ==
    IF UsesLocked(k, s) THEN Smaller(locked[k], Debit(n)) ELSE 0

FromAvailableUnlessLocked(k, n, s) == IF UsesLocked(k, s) THEN 0 ELSE Debit(n)

FromAvailable(k, n, s) == Debit(n) - FromLocked(k, n, s)

Consumption(account, o, side, net, s) ==
    Smaller(Cover(o, side, s), Debit(net[<<account, ReservedAsset(side)>>]))

Consume(r, amount) ==
    [r EXCEPT !.consumed = @ + amount,
              !.status = StatusAfter(r.consumed + amount, r.amount, r.status)]

AlreadySettled(t) == journal[t] # NoEntries

Post(s, makerFee, takerFee) ==
    LET net == Net(s, makerFee, takerFee)
        used == [o \in Order |->
            (IF o = s.makerOrder
             THEN Consumption(s.maker, o, s.makerSide, net, s) ELSE 0)
            + (IF o = s.takerOrder
               THEN Consumption(s.taker, o, Opposite(s.makerSide), net, s)
               ELSE 0)]
    IN  /\ net # NoEntries
        /\ AssetMatches(s.makerOrder, s.makerSide)
        /\ AssetMatches(s.takerOrder, Opposite(s.makerSide))
        /\ \A k \in Key : FromAvailable(k, net[k], s) <= available[k]
        /\ available' = [k \in Key |-> available[k] + Credit(net[k])
                                        - FromAvailable(k, net[k], s)]
        /\ locked' = [k \in Key |-> locked[k] - FromLocked(k, net[k], s)]
        /\ reservation' = [o \in Order |->
                IF used[o] > 0 THEN Consume(reservation[o], used[o])
                               ELSE reservation[o]]
        /\ journal' = [journal EXCEPT ![s.trade] = net]

DuplicateByEvent(s) == s.event \in processed

Duplicate(s) == s.event \in processed \/ AlreadySettled(s.trade)

ApplySettlementMarkFirst(s, makerFee, takerFee) ==
    \/ /\ s.event \notin processed
       /\ UNCHANGED <<available, locked, reservation, journal>>
       /\ processed' = processed \cup {s.event}
    \/ /\ ~ AlreadySettled(s.trade)
       /\ Post(s, makerFee, takerFee)
       /\ UNCHANGED processed

ApplySettlement(s, makerFee, takerFee) ==
    /\ \/ /\ Duplicate(s)
          /\ UNCHANGED <<available, locked, reservation, journal>>
       \/ /\ ~ Duplicate(s)
          /\ Post(s, makerFee, takerFee)
    /\ processed' = processed \cup {s.event}

-----------------------------------------------------------------------------
Next ==
    \/ \E req \in ReserveRequests : ReserveBalance(req)
    \/ \E o \in Order : ReleaseReservation(o)
    \/ \E s \in Settlements, mf, tf \in FeeAmounts : ApplySettlement(s, mf, tf)

Spec == Init /\ [][Next]_vars

-----------------------------------------------------------------------------
(***************************************************************************)
(* Properties.                                                             *)
(***************************************************************************)

\* Types; in particular no balance is ever negative (applyEntry and
\* ReserveBalance check before they subtract, ReleaseReservation clamps).
TypeOK ==
    /\ available \in [Key -> Nat]
    /\ locked \in [Key -> Nat]
    /\ reservation \in [Order -> Reservation \cup {NoReservation}]
    /\ journal \in [Trade -> [Key -> Int]]
    /\ processed \subseteq Event

\* A reservation never gives out more than it holds, and it is "consumed"
\* exactly when nothing of it is left: whatever the order of releases and
\* settlements, cover and release never see a negative remainder (migration
\* 0015's CHECK would abort the transaction).
ReservationsWithinAmount ==
    \A o \in Order : Reserved(o) =>
        /\ 0 < reservation[o].amount
        /\ reservation[o].consumed <= reservation[o].amount
        /\ Remaining(o) = 0 <=> reservation[o].status = "consumed"

Total(k) == available[k] + locked[k]

\* Auditability: what an account owns is its opening balance plus its ledger
\* entries.  Reserving and releasing move funds between available and locked
\* and never change the sum; settling changes it by exactly what it posts.
JournalExplainsBalances ==
    \A k \in Key :
        Total(k) = Opening[k] + MapThenSumSet(LAMBDA t : journal[t][k], Trade)

\* An event recorded as processed was really applied: its trade has entries,
\* so the consumer that skips it (AlreadyProcessed) loses nothing.
ProcessedImpliesSettled ==
    \A e \in processed :
        \E s \in Settlements : s.event = e /\ AlreadySettled(s.trade)

\* Settled once and for all: entries of a settled trade never change, whatever
\* is redelivered under whatever event id; and the step that posts a trade
\* moves the balances by exactly its entries and posts no other trade.
SettlementStep(t) ==
    /\ ~ AlreadySettled(t)
    /\ \A u \in Trade \ {t} : journal'[u] = journal[u]
    /\ \A k \in Key : available'[k] + locked'[k] = Total(k) + journal'[t][k]

SettledExactlyOnce ==
    [][\A k \in Key :
          \/ journal' = journal /\ available'[k] + locked'[k] = Total(k)
          \/ \E t \in Trade : SettlementStep(t)]_vars

\* A closed reservation stays closed: it never covers a leg again, its row
\* keeps its account, asset and amount, and consumption never goes back.
ReservationsOnlyShrink ==
    [][\A o \in Order : Reserved(o) =>
          /\ reservation'[o].account = reservation[o].account
          /\ reservation'[o].asset = reservation[o].asset
          /\ reservation'[o].amount = reservation[o].amount
          /\ reservation'[o].consumed >= reservation[o].consumed
          /\ reservation'[o].status = "active" => Active(o)]_vars

\* What the active reservations of an account row still hold back.
HeldBack(k) ==
    MapThenSumSet(Remaining, {o \in Order : Active(o) /\ RowOf(o) = k})

Backed == \A k \in Key : locked[k] >= HeldBack(k)

ReleasesAgain(o) == reservation[o].status = "released" /\ ReleaseReservation(o)

DebitsBeyondCover(s, mf, tf) ==
    LET net == Net(s, mf, tf)
        taker == Opposite(s.makerSide)
    IN  /\ ApplySettlement(s, mf, tf)
        /\ \E k \in Key :
              FromLocked(k, net[k], s)
                > (IF k = <<s.maker, ReservedAsset(s.makerSide)>>
                   THEN Cover(s.makerOrder, s.makerSide, s)
                   ELSE IF k = <<s.taker, ReservedAsset(taker)>>
                        THEN Cover(s.takerOrder, taker, s) ELSE 0)

\* The locked balance backs every active reservation until one of two steps
\* is taken: a reservation already released is released again (the code never
\* looks at its status), or a settlement takes from the locked balance more
\* than its order's cover (the fee, or a price above the reserved one).
LockedBacksReservations ==
    [][\/ Backed => Backed'
       \/ \E o \in Order : ReleasesAgain(o)
       \/ \E s \in Settlements, mf, tf \in FeeAmounts :
             DebitsBeyondCover(s, mf, tf)]_vars
=============================================================================
