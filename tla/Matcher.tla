------------------------------ MODULE Matcher -------------------------------
(***************************************************************************)
(* MatchOrder and canFill of services/matching/internal/engine/matcher.go, *)
(* loop iteration by loop iteration: the outer loop over the price levels  *)
(* of the other side, best first, and the inner loop over a level's list.  *)
(* OrderBook.mu is held from Begin* to the end, so RemoveOrder waits and   *)
(* nobody sees the book half-way.                                          *)
(***************************************************************************)
EXTENDS Integers, FiniteSetsExt

CONSTANTS Account, NoAccount, Order, Info, NoOrder

VARIABLES
    book,     \* the book, changed in place
    trades,   \* what the last completed MatchOrder returned
    taker,    \* the order being matched (incoming), NoOrder if the lock is free
    phase,    \* "idle", "canFill" or "match"
    left,     \* remaining
    levels,   \* prices of the levels the outer loop has not come to
    walk,     \* orders of the current level the inner loop has not come to
    out,      \* the trades so far
    before    \* the book when the lock was taken (history variable)

B == INSTANCE OrderBook WITH book <- IF taker = NoOrder THEN book ELSE before,
                             trades <- trades

ASSUME MatcherAssumption ==
    /\ NoAccount \in Account
    /\ Info \in [Order -> B!Fields]
    /\ NoOrder \notin Order

local == <<taker, phase, left, levels, walk, out, before>>
vars == <<book, trades, local>>

Init ==
    /\ book = B!EmptyBook
    /\ trades = {}
    /\ taker = NoOrder
    /\ phase = "idle"
    /\ left = 0
    /\ levels = {}
    /\ walk = {}
    /\ out = {}
    /\ before = B!EmptyBook

-----------------------------------------------------------------------------
(***************************************************************************)
(* The two loops visit the levels best price first and a level's list from *)
(* its front.                                                              *)
(***************************************************************************)
LevelOrders(price) == {m \in B!Opposing(book, taker) : Info[m].price = price}

LevelPrices(o) == {Info[m].price : m \in B!Opposing(book, o)}

IsBest(price) == \A p \in levels \ {price} : B!Better(taker, price, p)

IsBack(m) == \A n \in walk : <<m, n>> \notin book.before

IsFront(m) == \A n \in walk : <<n, m>> \notin book.before

Begin(o, ph) ==
    /\ phase' = ph
    /\ left' = Info[o].quantity
    /\ levels' = LevelPrices(o)
    /\ walk' = {}
    /\ out' = {}

Lock(o) ==
    /\ taker = NoOrder
    /\ taker' = o
    /\ before' = book
    /\ Begin(o, IF Info[o].tif = "FOK" THEN "canFill" ELSE "match")
    /\ UNCHANGED <<book, trades>>

Unlock(result) ==
    /\ trades' = result
    /\ taker' = NoOrder
    /\ phase' = "idle"
    /\ left' = 0
    /\ levels' = {}
    /\ walk' = {}
    /\ out' = {}
    /\ before' = B!EmptyBook

-----------------------------------------------------------------------------
(***************************************************************************)
(* canFill.                                                                *)
(***************************************************************************)
Counts(m) ==
    IF B!Own(taker, m) \/ B!Remaining(book, m) <= 0 THEN 0 ELSE B!Remaining(book, m)

CountMaker(m) ==
    /\ phase = "canFill"
    /\ left > 0
    /\ m \in walk /\ IsFront(m)
    /\ walk' = walk \ {m}
    /\ left' = left - Counts(m)
    /\ UNCHANGED <<book, trades, taker, phase, levels, out, before>>

CountLevel(price) ==
    /\ phase = "canFill"
    /\ left > 0
    /\ walk = {}
    /\ price \in levels /\ IsBest(price)
    /\ B!PriceCrosses(taker, price)
    /\ walk' = LevelOrders(price)
    /\ levels' = levels \ {price}
    /\ UNCHANGED <<book, trades, taker, phase, left, out, before>>

CanFill ==
    /\ phase = "canFill"
    /\ left <= 0
    /\ Begin(taker, "match")
    /\ UNCHANGED <<book, trades, taker, before>>

CannotFill ==
    /\ phase = "canFill"
    /\ left > 0
    /\ walk = {}
    /\ \A p \in levels : ~ B!PriceCrosses(taker, p)
    /\ Unlock({})
    /\ UNCHANGED book

-----------------------------------------------------------------------------
(***************************************************************************)
(* MatchOrder.                                                             *)
(***************************************************************************)
SomeSelf(makers) == \E m \in makers : B!Own(taker, m)

SelfOnly(makers) ==
    LET live == {m \in makers : B!Remaining(book, m) > 0}
    IN  live # {} /\ \A m \in live : B!Own(taker, m)

EnterLevel(price) ==
    /\ phase = "match"
    /\ left > 0
    /\ walk = {}
    /\ price \in levels /\ IsBest(price)
    /\ B!PriceCrosses(taker, price)
    /\ levels' = levels \ {price}
    /\ IF SelfOnly(LevelOrders(price))
       THEN /\ book' = B!Remove(book, {m \in LevelOrders(price) : B!Own(taker, m)})
            /\ walk' = {}
       ELSE /\ walk' = LevelOrders(price)
            /\ UNCHANGED book
    /\ UNCHANGED <<trades, taker, phase, left, out, before>>

Tradable(m) == B!Remaining(book, m) > 0 /\ ~ B!Own(taker, m)

SkipMakerStuck(m) ==
    /\ phase = "match"
    /\ left > 0
    /\ m \in walk /\ IsFront(m)
    /\ ~ Tradable(m)
    /\ UNCHANGED vars

SkipMaker(m) ==
    /\ phase = "match"
    /\ left > 0
    /\ m \in walk /\ IsFront(m)
    /\ ~ Tradable(m)
    /\ walk' = walk \ {m}
    /\ book' = IF B!Remaining(book, m) <= 0 THEN B!Remove(book, {m}) ELSE book
    /\ UNCHANGED <<trades, taker, phase, left, levels, out, before>>

MatchQty(m) == B!Smaller(left, B!Remaining(book, m))

TradeWith(m) ==
    [maker |-> m, taker |-> taker, price |-> Info[m].price,
     quantity |-> MatchQty(m), index |-> Cardinality(out)]

MatchMaker(m) ==
    /\ phase = "match"
    /\ left > 0
    /\ m \in walk /\ IsFront(m)
    /\ Tradable(m)
    /\ left' = left - MatchQty(m)
    /\ out' = out \cup {TradeWith(m)}
    /\ book' = IF MatchQty(m) = B!Remaining(book, m)
               THEN B!Remove(book, {m})
               ELSE [book EXCEPT !.filled[m] = @ + MatchQty(m)]
    /\ walk' = walk \ {m}
    /\ UNCHANGED <<trades, taker, phase, levels, before>>

NoLevelLeft == walk = {} /\ \A p \in levels : ~ B!PriceCrosses(taker, p)

Finish ==
    /\ phase = "match"
    /\ left <= 0 \/ NoLevelLeft
    /\ Unlock(out)
    /\ book' = IF left > 0 /\ B!Rests(taker)
               THEN B!Add(book, taker, Info[taker].quantity - left)
               ELSE book

RemoveOrder(o) ==
    /\ taker = NoOrder
    /\ book' = B!Remove(book, {o})
    /\ UNCHANGED <<trades, local>>

-----------------------------------------------------------------------------
Step ==
    \/ \E m \in walk : CountMaker(m) \/ SkipMaker(m) \/ MatchMaker(m)
    \/ \E p \in levels : CountLevel(p) \/ EnterLevel(p)
    \/ CanFill \/ CannotFill \/ Finish

Next == Step \/ \E o \in Order : Lock(o) \/ RemoveOrder(o)

\* A goroutine inside MatchOrder runs on: nothing in the loops blocks.
Spec == Init /\ [][Next]_vars /\ WF_vars(Step)

-----------------------------------------------------------------------------
\* A resting order has something left to trade, is never over-filled, and is
\* a limit order: an order that a loop filled leaves the book at once.
RestingIsOpen ==
    \A o \in book.resting :
        0 <= book.filled[o] /\ book.filled[o] < Info[o].quantity
        /\ Info[o].type = "limit"

\* Every trade is between orders of two accounts, at the maker's price, within
\* the taker's limit and for a positive quantity.
FairTrades ==
    \A t \in out :
        /\ t.taker = taker /\ t.maker # taker /\ ~ B!Own(taker, t.maker)
        /\ t.price = Info[t.maker].price /\ B!PriceCrosses(taker, t.price)
        /\ t.quantity > 0

\* Between calls no two orders of different accounts could trade with each
\* other: MatchOrder leaves nothing behind that it should have matched.
NotCrossed ==
    taker = NoOrder =>
        \A m, n \in book.resting :
            (/\ Info[m].side = "buy" /\ Info[n].side = "sell"
             /\ ~ B!Own(m, n)) => Info[m].price < Info[n].price

\* The loops compute what OrderBook promises: trades in price-time priority, no
\* trade with oneself, and all or nothing for a fill-or-kill order.
PriceTimePriority == B!BookSpec

\* MatchOrder returns.
Returns == taker # NoOrder ~> taker = NoOrder
=============================================================================
