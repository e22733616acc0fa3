----------------------------- MODULE OrderBook ------------------------------
(***************************************************************************)
(* What an order book of the matching engine promises                      *)
(* (services/matching/internal/engine/orderbook.go and matcher.go): an     *)
(* order trades with the resting orders of the other side in price-time    *)
(* priority, and every operation is one step because OrderBook.mu is held  *)
(* throughout.  Matcher has the loops of MatchOrder and canFill and is     *)
(* shown to implement this module.                                         *)
(*                                                                         *)
(* A price level's list is a set of orders and the relation "was pushed    *)
(* before": the heap and the maps of bookSide only index the same orders.  *)
(***************************************************************************)
EXTENDS Integers, FiniteSetsExt

CONSTANTS
    Account, NoAccount,   \* account ids; NoAccount is the empty AccountID
    Order,                \* order ids
    Info                  \* the fields an order is accepted with

Side == {"buy", "sell"}
Opposite(side) == IF side = "buy" THEN "sell" ELSE "buy"

\* The orders validateOrderFields lets through.
Fields ==
    {f \in [account: Account, side: Side, type: {"limit", "market"},
            price: Nat, quantity: Nat \ {0}, tif: {"GTC", "IOC", "FOK"}] :
        f.type = "limit" => f.price > 0}

ASSUME BookAssumption ==
    /\ NoAccount \in Account
    /\ Info \in [Order -> Fields]

VARIABLES
    book,    \* the resting orders: see Book
    trades   \* what the last MatchOrder returned

bookVars == <<book, trades>>

(***************************************************************************)
(* resting: the keys of OrderBook.orders.  before: <<m, n>> if both are in *)
(* one level's list and m comes first.  filled: Order.Filled of a resting  *)
(* order (0 for the others).                                               *)
(***************************************************************************)
Book == [resting: SUBSET Order, before: SUBSET (Order \X Order),
         filled: [Order -> Nat]]

EmptyBook == [resting |-> {}, before |-> {}, filled |-> [o \in Order |-> 0]]

Remaining(b, o) == Info[o].quantity - b.filled[o]

SameLevel(m, n) ==
    Info[m].side = Info[n].side /\ Info[m].price = Info[n].price

(***************************************************************************)
(* addOrderLocked and removeOrderLocked (of a set of orders).              *)
(***************************************************************************)
Add(b, o, filled) ==
    IF o \in b.resting \/ Info[o].type = "market" \/ filled >= Info[o].quantity
    THEN b
    ELSE [resting |-> b.resting \cup {o},
          before |-> b.before \cup {<<m, o>> : m \in {r \in b.resting : SameLevel(r, o)}},
          filled |-> [b.filled EXCEPT ![o] = filled]]

Remove(b, gone) ==
    LET kept == b.resting \ gone
    IN  [resting |-> kept,
         before |-> b.before \cap (kept \X kept),
         filled |-> [o \in Order |-> IF o \in gone THEN 0 ELSE b.filled[o]]]

-----------------------------------------------------------------------------
(***************************************************************************)
(* Who may trade with the incoming order o, and who goes first.            *)
(***************************************************************************)
PriceCrosses(o, price) ==
    \/ Info[o].type = "market"
    \/ Info[o].side = "buy" /\ price <= Info[o].price
    \/ Info[o].side = "sell" /\ price >= Info[o].price

Better(o, p, q) == IF Info[o].side = "buy" THEN p < q ELSE p > q

Own(o, m) ==
    Info[m].account # NoAccount /\ Info[m].account = Info[o].account

Opposing(b, o) == {m \in b.resting : Info[m].side = Opposite(Info[o].side)}

Matchable(b, o) ==
    {m \in Opposing(b, o) : PriceCrosses(o, Info[m].price) /\ ~ Own(o, m)}

Ahead(b, o, m, n) ==
    \/ Better(o, Info[m].price, Info[n].price)
    \/ <<m, n>> \in b.before

Depth(b, orders) == MapThenSumSet(LAMBDA m : Remaining(b, m), orders)

QuantityAhead(b, o, n) ==
    Depth(b, {m \in Matchable(b, o) : Ahead(b, o, m, n)})

(***************************************************************************)
(* What MatchOrder does to the book.  A level that is reached and holds    *)
(* only the incoming account's orders is emptied, with no trade.           *)
(***************************************************************************)
Smaller(m, n) == IF m < n THEN m ELSE n

Fill(b, o, m) ==
    LET left == Info[o].quantity - QuantityAhead(b, o, m)
    IN  IF left <= 0 THEN 0 ELSE Smaller(left, Remaining(b, m))

Reached(b, o, price) ==
    /\ PriceCrosses(o, price)
    /\ Depth(b, {m \in Matchable(b, o) : Better(o, Info[m].price, price)})
         < Info[o].quantity

SelfOnly(b, o) ==
    {m \in Opposing(b, o) :
        /\ Own(o, m)
        /\ Reached(b, o, Info[m].price)
        /\ \A n \in Opposing(b, o) : Info[n].price = Info[m].price => Own(o, n)}

CanFill(b, o) == Depth(b, Matchable(b, o)) >= Info[o].quantity

Rests(o) == Info[o].type = "limit" /\ Info[o].tif = "GTC"

Trades(b, o) ==
    {[maker |-> m, taker |-> o, price |-> Info[m].price,
      quantity |-> Fill(b, o, m),
      index |-> Cardinality({n \in Matchable(b, o) : Ahead(b, o, n, m)})] :
        m \in {n \in Matchable(b, o) : Fill(b, o, n) > 0}}

Filled(b, o) == Smaller(Info[o].quantity, Depth(b, Matchable(b, o)))

AfterTrades(b, o) ==
    LET used == Matchable(b, o)
        traded == [b EXCEPT !.filled = [m \in Order |->
                      b.filled[m] + IF m \in used THEN Fill(b, o, m) ELSE 0]]
    IN  Remove(traded,
               {m \in used : Fill(b, o, m) = Remaining(b, m)} \cup SelfOnly(b, o))

Refused(b, o) == Info[o].tif = "FOK" /\ ~ CanFill(b, o)

TradesOf(b, o) == IF Refused(b, o) THEN {} ELSE Trades(b, o)

BookAfter(b, o) ==
    IF Refused(b, o) THEN b
    ELSE IF Rests(o) THEN Add(AfterTrades(b, o), o, Filled(b, o))
                     ELSE AfterTrades(b, o)

-----------------------------------------------------------------------------
MatchOrder(o) ==
    /\ book' = BookAfter(book, o)
    /\ trades' = TradesOf(book, o)

RemoveOrder(o) ==
    /\ book' = Remove(book, {o})
    /\ UNCHANGED trades

BookInit == book = EmptyBook /\ trades = {}

BookNext == \E o \in Order : MatchOrder(o) \/ RemoveOrder(o)

BookSpec == BookInit /\ [][BookNext]_bookVars
=============================================================================
