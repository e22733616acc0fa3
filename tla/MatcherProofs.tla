--------------------------- MODULE MatcherProofs ----------------------------
(***************************************************************************)
(* Proofs about Matcher for every set of orders, prices and quantities.    *)
(*                                                                         *)
(* NotCrossed says nothing about the middle of a call, so it is not        *)
(* inductive.  The invariant says where the orders are that the taker can  *)
(* still trade with: while it has something left, each is in a level yet   *)
(* to come or in the part of the current level yet to be walked.           *)
(***************************************************************************)
EXTENDS Matcher, TLAPS

\* Types; in particular the taker is never over-filled.
TypeOK ==
    /\ book \in B!Book /\ before \in B!Book
    /\ taker \in Order \cup {NoOrder}
    /\ phase \in {"idle", "canFill", "match"}
    /\ left \in Int /\ (phase = "match" => left \in Nat)
    /\ levels \subseteq Nat /\ walk \subseteq Order

Uncrossed(b) ==
    \A m, n \in b.resting :
        Info[m].side = "buy" /\ Info[n].side = "sell" /\ ~ B!Own(m, n)
            => Info[m].price < Info[n].price

Open(b) ==
    \A o \in b.resting : /\ b.filled[o] < Info[o].quantity
                         /\ Info[o].type = "limit"

Walking ==
    phase # "idle" =>
        /\ left <= Info[taker].quantity
        /\ \A m \in walk : /\ m \in B!Opposing(book, taker)
                           /\ B!PriceCrosses(taker, Info[m].price)

StillToCome ==
    phase = "match" /\ left > 0 =>
        \A m \in B!Matchable(book, taker) : m \in walk \/ Info[m].price \in levels

MatcherInv ==
    /\ TypeOK
    /\ taker = NoOrder <=> phase = "idle"
    /\ phase # "match" => out = {}
    /\ Open(book)
    /\ Uncrossed(book)
    /\ Walking
    /\ StillToCome
    /\ FairTrades

-----------------------------------------------------------------------------
(***************************************************************************)
(* The fields of an order, and the two changes of a book.                  *)
(***************************************************************************)

\* What an accepted order looks like.
LEMMA FieldTypes ==
  ASSUME NEW o \in Order
  PROVE  /\ Info[o].price \in Nat /\ Info[o].quantity \in Nat
         /\ Info[o].quantity > 0
         /\ Info[o].side \in {"buy", "sell"} /\ Info[o].type \in {"limit", "market"}
  BY MatcherAssumption DEF B!Fields, B!Side

\* Removing orders keeps a book a book and what the invariant says of it.
LEMMA RemoveBook ==
  ASSUME NEW b \in B!Book, NEW gone
  PROVE  /\ B!Remove(b, gone) \in B!Book
         /\ B!Remove(b, gone).resting = b.resting \ gone
         /\ \A o \in b.resting \ gone : B!Remove(b, gone).filled[o] = b.filled[o]
         /\ Open(b) => Open(B!Remove(b, gone))
         /\ Uncrossed(b) => Uncrossed(B!Remove(b, gone))
  <1>1. b.resting \subseteq Order /\ b.filled \in [Order -> Nat]
        /\ b.before \subseteq Order \X Order
    BY DEF B!Book
  <1> DEFINE r == B!Remove(b, gone)
  <1>2. /\ r.resting = b.resting \ gone
        /\ r.before = b.before \cap ((b.resting \ gone) \X (b.resting \ gone))
        /\ r.filled = [o \in Order |-> IF o \in gone THEN 0 ELSE b.filled[o]]
    BY DEF B!Remove
  <1>3. r.filled \in [Order -> Nat]
    BY <1>1, <1>2
  <1>4. r = [resting |-> r.resting, before |-> r.before, filled |-> r.filled]
    BY DEF B!Remove
  <1>5. r \in B!Book
    BY <1>1, <1>2, <1>3, <1>4 DEF B!Book
  <1>6. \A o \in b.resting \ gone : r.filled[o] = b.filled[o]
    BY <1>1, <1>2
  <1> HIDE DEF r
  <1>7. Open(b) => Open(r)
    BY <1>2, <1>6 DEF Open
  <1>8. Uncrossed(b) => Uncrossed(r)
    BY <1>2 DEF Uncrossed
  <1> QED  BY <1>2, <1>5, <1>6, <1>7, <1>8 DEF r

\* Being the same account is symmetric.
LEMMA OwnSymmetric == \A m, n : B!Own(m, n) <=> B!Own(n, m)
  BY DEF B!Own

\* A limit order with nothing to trade with may rest.
LEMMA AddBook ==
  ASSUME NEW b \in B!Book, NEW o \in Order, NEW f \in Nat, f < Info[o].quantity,
         Open(b), Uncrossed(b), Info[o].type = "limit",
         B!Matchable(b, o) = {}
  PROVE  /\ B!Add(b, o, f) \in B!Book
         /\ Open(B!Add(b, o, f))
         /\ Uncrossed(B!Add(b, o, f))
  <1>1. b.resting \subseteq Order /\ b.filled \in [Order -> Nat]
        /\ b.before \subseteq Order \X Order
    BY DEF B!Book
  <1>2. CASE o \in b.resting
    BY <1>2 DEF B!Add
  <1>3. CASE o \notin b.resting
    <2> DEFINE a == B!Add(b, o, f)
               bf == b.before \cup {<<m, o>> : m \in {r \in b.resting : B!SameLevel(r, o)}}
    <2>1. a = [resting |-> b.resting \cup {o}, before |-> bf,
               filled |-> [b.filled EXCEPT ![o] = f]]
      BY <1>3, FieldTypes DEF B!Add
    <2>2. bf \subseteq Order \X Order
      BY <1>1
    <2> HIDE DEF bf, a
    <2>3. a \in B!Book
      BY <1>1, <2>1, <2>2 DEF B!Book
    <2>4. Open(a)
      <3> SUFFICES ASSUME NEW p \in b.resting \cup {o}
                   PROVE  a.filled[p] < Info[p].quantity /\ Info[p].type = "limit"
        BY <2>1 DEF Open
      <3>1. a.filled[p] = IF p = o THEN f ELSE b.filled[p]
        BY <1>1, <2>1
      <3> QED  BY <3>1 DEF Open
    <2>5. Uncrossed(a)
      <3> SUFFICES ASSUME NEW m \in b.resting \cup {o}, NEW n \in b.resting \cup {o},
                          Info[m].side = "buy", Info[n].side = "sell", ~ B!Own(m, n)
                   PROVE  Info[m].price < Info[n].price
        BY <2>1 DEF Uncrossed
      <3>1. CASE m # o /\ n # o
        BY <3>1 DEF Uncrossed
      <3>2. CASE m = o
        <4>1. n \in b.resting /\ n \in Order
          BY <1>1, <3>2
        <4>2. n \in B!Opposing(b, o)
          BY <3>2, <4>1 DEF B!Opposing, B!Opposite
        <4>3. ~ B!PriceCrosses(o, Info[n].price)
          BY <3>2, <4>2 DEF B!Matchable
        <4> QED  BY <3>2, <4>1, <4>3, FieldTypes DEF B!PriceCrosses
      <3>3. CASE n = o
        <4>1. m \in b.resting /\ m \in Order
          BY <1>1, <3>3
        <4>2. m \in B!Opposing(b, o) /\ ~ B!Own(o, m)
          BY <3>3, <4>1, OwnSymmetric DEF B!Opposing, B!Opposite
        <4>3. ~ B!PriceCrosses(o, Info[m].price)
          BY <4>2 DEF B!Matchable
        <4> QED  BY <3>3, <4>1, <4>3, FieldTypes DEF B!PriceCrosses
      <3> QED  BY <3>1, <3>2, <3>3
    <2> QED  BY <2>3, <2>4, <2>5 DEF a
  <1> QED  BY <1>2, <1>3

-----------------------------------------------------------------------------
(***************************************************************************)
(* One lemma per action.                                                   *)
(***************************************************************************)

\* The empty book.
LEMMA InitInv == Init => MatcherInv
  <1> SUFFICES ASSUME Init PROVE MatcherInv
    OBVIOUS
  <1>1. B!EmptyBook \in B!Book /\ B!EmptyBook.resting = {}
    BY DEF B!EmptyBook, B!Book
  <1>2. TypeOK /\ taker = NoOrder /\ phase = "idle" /\ out = {} /\ book.resting = {}
    BY <1>1 DEF Init, TypeOK
  <1> QED  BY <1>2 DEF MatcherInv, Open, Uncrossed, Walking, StillToCome, FairTrades

\* Starting a pass over the levels: every order the taker can trade with is
\* in a level to come.
LEMMA BeginInv ==
  ASSUME MatcherInv, NEW o \in Order, NEW ph \in {"canFill", "match"},
         Begin(o, ph), taker' = o, book' = book, before' \in B!Book
  PROVE  MatcherInv'
  <1>1. /\ phase' = ph /\ left' = Info[o].quantity /\ walk' = {} /\ out' = {}
        /\ levels' = LevelPrices(o)
    BY DEF Begin
  <1>2. book \in B!Book /\ book.resting \subseteq Order
    BY DEF MatcherInv, TypeOK, B!Book
  <1>3. LevelPrices(o) \subseteq Nat
    BY <1>2, FieldTypes DEF LevelPrices, B!Opposing
  <1>4. Info[o].quantity \in Nat /\ o # NoOrder
    BY FieldTypes, MatcherAssumption
  <1>5. TypeOK'
    BY <1>1, <1>2, <1>3, <1>4 DEF TypeOK
  <1>6. Walking' /\ FairTrades'
    BY <1>1, <1>4 DEF Walking, FairTrades
  <1>7. StillToCome'
    BY <1>1 DEF StillToCome, LevelPrices, B!Matchable
  <1> QED  BY <1>1, <1>4, <1>5, <1>6, <1>7 DEF MatcherInv, Open, Uncrossed

\* A call takes the lock.
LEMMA LockInv ==
  ASSUME MatcherInv, NEW o \in Order, Lock(o)
  PROVE  MatcherInv'
  <1>1. before' \in B!Book
    BY DEF Lock, MatcherInv, TypeOK
  <1> QED  BY <1>1, BeginInv DEF Lock

\* canFill changes nothing but its own counters.
LEMMA CountInv ==
  ASSUME MatcherInv,
         \/ \E m \in walk : CountMaker(m)
         \/ \E p \in levels : CountLevel(p)
  PROVE  MatcherInv'
  <1>1. /\ phase = "canFill" /\ UNCHANGED <<book, trades, taker, phase, out, before>>
        /\ taker \in Order /\ book \in B!Book /\ book.resting \subseteq Order
    BY DEF CountMaker, CountLevel, MatcherInv, TypeOK, B!Book
  <1>2. ASSUME NEW m \in walk, CountMaker(m) PROVE MatcherInv'
    <2>1. m \in Order /\ left \in Int /\ book.filled[m] \in Nat
      BY <1>1, <1>2 DEF MatcherInv, TypeOK, B!Book
    <2>2. B!Remaining(book, m) \in Int
      BY <2>1, FieldTypes DEF B!Remaining
    <2>3. /\ walk' = walk \ {m} /\ levels' = levels
          /\ left' \in Int /\ left' <= left
      BY <1>2, <2>1, <2>2 DEF CountMaker, Counts
    <2>4. TypeOK'
      BY <1>1, <2>3 DEF MatcherInv, TypeOK
    <2>5. Walking'
      <3>1. Info[taker].quantity \in Nat
        BY <1>1, FieldTypes
      <3> QED  BY <1>1, <2>1, <2>3, <3>1 DEF MatcherInv, Walking
    <2> QED  BY <1>1, <2>4, <2>5 DEF MatcherInv, StillToCome, FairTrades, Open, Uncrossed
  <1>3. ASSUME NEW p \in levels, CountLevel(p) PROVE MatcherInv'
    <2>1. /\ walk' = LevelOrders(p) /\ levels' = levels \ {p} /\ left' = left
          /\ B!PriceCrosses(taker, p)
      BY <1>3 DEF CountLevel
    <2>2. TypeOK'
      BY <1>1, <2>1 DEF MatcherInv, TypeOK, LevelOrders, B!Opposing
    <2>3. Walking'
      BY <1>1, <2>1 DEF MatcherInv, Walking, LevelOrders
    <2> QED  BY <1>1, <2>2, <2>3 DEF MatcherInv, StillToCome, FairTrades, Open, Uncrossed
  <1> QED  BY <1>2, <1>3

\* Leaving canFill, either way.
LEMMA DecideInv ==
  ASSUME MatcherInv, CanFill \/ CannotFill
  PROVE  MatcherInv'
  <1>1. CASE CanFill
    <2>1. taker \in Order /\ before \in B!Book
      BY <1>1 DEF CanFill, MatcherInv, TypeOK
    <2> QED  BY <1>1, <2>1, BeginInv DEF CanFill
  <1>2. CASE CannotFill
    <2>1. /\ taker' = NoOrder /\ phase' = "idle" /\ left' = 0 /\ levels' = {}
          /\ walk' = {} /\ out' = {} /\ before' = B!EmptyBook /\ book' = book
      BY <1>2 DEF CannotFill, Unlock
    <2>2. B!EmptyBook \in B!Book
      BY DEF B!EmptyBook, B!Book
    <2>3. TypeOK'
      BY <2>1, <2>2 DEF MatcherInv, TypeOK
    <2> QED  BY <2>1, <2>3 DEF MatcherInv, Walking, StillToCome, FairTrades,
                               Open, Uncrossed
  <1> QED  BY <1>1, <1>2

\* What holds throughout a step of the matching loops.
LEMMA Matching ==
  ASSUME MatcherInv, phase = "match"
  PROVE  /\ taker \in Order /\ left \in Nat /\ book \in B!Book
         /\ book.resting \subseteq Order /\ book.filled \in [Order -> Nat]
         /\ Info[taker].quantity \in Nat /\ levels \subseteq Nat
  BY FieldTypes DEF MatcherInv, TypeOK, B!Book

\* In an open book every resting order has something left.
LEMMA LiveMakers ==
  ASSUME MatcherInv, phase = "match", NEW m \in book.resting
  PROVE  B!Remaining(book, m) \in Nat /\ B!Remaining(book, m) > 0
  <1>1. m \in Order /\ book.filled[m] \in Nat /\ book.filled[m] < Info[m].quantity
    BY Matching DEF MatcherInv, Open
  <1> QED  BY <1>1, FieldTypes DEF B!Remaining

\* Removing makers shrinks what the taker can trade with.
LEMMA RemoveMakers ==
  ASSUME MatcherInv, phase = "match", NEW gone,
         book' = B!Remove(book, gone), taker' = taker, phase' = phase
  PROVE  /\ book' \in B!Book /\ Open(book)' /\ Uncrossed(book)'
         /\ B!Opposing(book', taker) = B!Opposing(book, taker) \ gone
         /\ B!Matchable(book', taker) = B!Matchable(book, taker) \ gone
  <1>1. /\ book' \in B!Book /\ book'.resting = book.resting \ gone
        /\ Open(book') /\ Uncrossed(book')
    BY Matching, RemoveBook DEF MatcherInv
  <1> QED  BY <1>1 DEF B!Opposing, B!Matchable, Open, Uncrossed

\* The outer loop enters a level, or empties it of the taker's own orders.
LEMMA EnterInv ==
  ASSUME MatcherInv, NEW p \in levels, EnterLevel(p)
  PROVE  MatcherInv'
  <1>1. /\ phase = "match" /\ left > 0 /\ walk = {} /\ B!PriceCrosses(taker, p)
        /\ levels' = levels \ {p}
        /\ UNCHANGED <<trades, taker, phase, left, out, before>>
    BY DEF EnterLevel
  <1>2. /\ taker \in Order /\ left \in Nat /\ book \in B!Book
        /\ book.resting \subseteq Order /\ levels \subseteq Nat
    BY <1>1, Matching
  <1>3. ASSUME NEW m \in B!Matchable(book, taker), Info[m].price = p
        PROVE  m \in LevelOrders(p)
    BY <1>3 DEF B!Matchable, LevelOrders
  <1>4. FairTrades'
    BY <1>1 DEF MatcherInv, FairTrades
  <1>5. CASE /\ SelfOnly(LevelOrders(p)) /\ walk' = {}
             /\ book' = B!Remove(book, {m \in LevelOrders(p) : B!Own(taker, m)})
    <2> DEFINE gone == {m \in LevelOrders(p) : B!Own(taker, m)}
    <2>1. /\ book' \in B!Book /\ Open(book)' /\ Uncrossed(book)'
          /\ B!Matchable(book', taker) = B!Matchable(book, taker) \ gone
      BY <1>1, <1>5, RemoveMakers
    <2>2. TypeOK'
      BY <1>1, <1>2, <1>5, <2>1 DEF MatcherInv, TypeOK
    <2>3. ASSUME NEW m \in B!Matchable(book, taker) PROVE Info[m].price # p
      <3> SUFFICES ASSUME Info[m].price = p PROVE FALSE
        OBVIOUS
      <3>1. m \in LevelOrders(p) /\ m \in book.resting /\ ~ B!Own(taker, m)
        BY <1>3, <2>3 DEF B!Matchable, B!Opposing
      <3>2. B!Remaining(book, m) > 0
        BY <1>1, <3>1, LiveMakers
      <3> QED  BY <1>5, <3>1, <3>2 DEF SelfOnly
    <2>4. StillToCome'
      BY <1>1, <2>1, <2>3 DEF MatcherInv, StillToCome
    <2> QED  BY <1>1, <1>4, <1>5, <2>1, <2>2, <2>4 DEF MatcherInv, Walking
  <1>6. CASE ~ SelfOnly(LevelOrders(p)) /\ walk' = LevelOrders(p) /\ book' = book
    <2>1. TypeOK'
      BY <1>1, <1>2, <1>6 DEF MatcherInv, TypeOK, LevelOrders, B!Opposing
    <2>2. Walking'
      BY <1>1, <1>6 DEF MatcherInv, Walking, LevelOrders
    <2>3. StillToCome'
      BY <1>1, <1>3, <1>6 DEF MatcherInv, StillToCome
    <2> QED  BY <1>1, <1>4, <1>6, <2>1, <2>2, <2>3 DEF MatcherInv, Open, Uncrossed
  <1> QED  BY <1>5, <1>6 DEF EnterLevel

\* The inner loop passes over an order of the taker's own account.
LEMMA SkipInv ==
  ASSUME MatcherInv, NEW m \in walk, SkipMaker(m)
  PROVE  MatcherInv'
  <1>1. /\ phase = "match" /\ left > 0 /\ walk' = walk \ {m}
        /\ UNCHANGED <<trades, taker, phase, left, levels, out, before>>
        /\ ~ (B!Remaining(book, m) > 0 /\ ~ B!Own(taker, m))
    BY DEF SkipMaker, Tradable
  <1>2. m \in book.resting
    BY <1>1 DEF MatcherInv, Walking, B!Opposing
  <1>3. B!Remaining(book, m) \in Nat /\ B!Remaining(book, m) > 0
    BY <1>1, <1>2, LiveMakers
  <1>4. book' = book /\ B!Own(taker, m)
    BY <1>1, <1>3 DEF SkipMaker
  <1>5. TypeOK'
    BY <1>1, <1>4 DEF MatcherInv, TypeOK
  <1>6. Walking' /\ FairTrades'
    BY <1>1, <1>4 DEF MatcherInv, Walking, FairTrades
  <1>7. StillToCome'
    BY <1>1, <1>4 DEF MatcherInv, StillToCome, B!Matchable
  <1> QED  BY <1>1, <1>4, <1>5, <1>6, <1>7 DEF MatcherInv, Open, Uncrossed

\* The inner loop trades with a maker.
LEMMA MatchInv ==
  ASSUME MatcherInv, NEW m \in walk, MatchMaker(m)
  PROVE  MatcherInv'
  <1> DEFINE q == MatchQty(m)
  <1>1. /\ phase = "match" /\ left > 0 /\ walk' = walk \ {m} /\ ~ B!Own(taker, m)
        /\ left' = left - q
        /\ UNCHANGED <<trades, taker, phase, levels, before>>
    BY DEF MatchMaker, Tradable
  <1>2. /\ taker \in Order /\ left \in Nat /\ book \in B!Book
        /\ book.resting \subseteq Order /\ book.filled \in [Order -> Nat]
        /\ Info[taker].quantity \in Nat
    BY <1>1, Matching
  <1>3. /\ m \in B!Opposing(book, taker) /\ B!PriceCrosses(taker, Info[m].price)
        /\ m \in book.resting /\ m \in Order
    BY <1>1, <1>2 DEF MatcherInv, Walking, B!Opposing
  <1>4. B!Remaining(book, m) \in Nat /\ B!Remaining(book, m) > 0
    BY <1>1, <1>3, LiveMakers
  <1>5. q \in Nat /\ q > 0 /\ q <= left /\ q <= B!Remaining(book, m)
        /\ (q = left \/ q = B!Remaining(book, m))
    BY <1>1, <1>2, <1>4 DEF MatchQty, B!Smaller
  <1>6. m # taker
    BY <1>2, <1>3, FieldTypes DEF B!Opposing, B!Opposite
  <1>7. FairTrades'
    <2> DEFINE t == [maker |-> m, taker |-> taker, price |-> Info[m].price,
                     quantity |-> q, index |-> Cardinality(out)]
    <2>1. out' = out \cup {t}
      BY DEF MatchMaker, TradeWith
    <2>2. /\ t.taker = taker /\ t.maker # taker /\ ~ B!Own(taker, t.maker)
          /\ t.price = Info[t.maker].price /\ B!PriceCrosses(taker, t.price)
          /\ t.quantity > 0
      BY <1>1, <1>3, <1>5, <1>6
    <2> HIDE DEF t
    <2> QED  BY <1>1, <2>1, <2>2 DEF MatcherInv, FairTrades
  <1>8. left' \in Nat /\ left' <= Info[taker].quantity
    <2>1. left <= Info[taker].quantity
      BY <1>1 DEF MatcherInv, Walking
    <2> HIDE DEF q
    <2> QED  BY <1>1, <1>2, <1>5, <2>1
  <1>9. CASE q = B!Remaining(book, m)
    <2>1. book' = B!Remove(book, {m})
      BY <1>9 DEF MatchMaker
    <2>2. /\ book' \in B!Book /\ Open(book)' /\ Uncrossed(book)'
          /\ B!Opposing(book', taker) = B!Opposing(book, taker) \ {m}
          /\ B!Matchable(book', taker) = B!Matchable(book, taker) \ {m}
      BY <1>1, <2>1, RemoveMakers
    <2>3. TypeOK'
      BY <1>1, <1>8, <2>2 DEF MatcherInv, TypeOK
    <2>4. Walking'
      BY <1>1, <1>8, <2>2 DEF MatcherInv, Walking
    <2>5. StillToCome'
      BY <1>1, <2>2 DEF MatcherInv, StillToCome
    <2> QED  BY <1>1, <1>7, <1>8, <2>2, <2>3, <2>4, <2>5 DEF MatcherInv
  <1>10. CASE q # B!Remaining(book, m)
    <2>1. book' = [book EXCEPT !.filled[m] = @ + q] /\ left' = 0
      BY <1>1, <1>2, <1>5, <1>10 DEF MatchMaker
    <2>2. /\ book'.resting = book.resting /\ book'.before = book.before
          /\ book'.filled = [book.filled EXCEPT ![m] = @ + q]
          /\ book' \in B!Book
      BY <1>2, <1>3, <1>5, <2>1 DEF B!Book
    <2>3. book.filled[m] + q < Info[m].quantity
      BY <1>2, <1>3, <1>4, <1>5, <1>10, FieldTypes DEF B!Remaining
    <2>4. Open(book')
      <3> SUFFICES ASSUME NEW o \in book.resting
                   PROVE  book'.filled[o] < Info[o].quantity /\ Info[o].type = "limit"
        BY <2>2 DEF Open
      <3>1. book'.filled[o] = IF o = m THEN book.filled[m] + q ELSE book.filled[o]
        BY <1>2, <2>2
      <3> QED  BY <2>3, <3>1 DEF MatcherInv, Open
    <2>5. Uncrossed(book')
      BY <2>2 DEF MatcherInv, Uncrossed
    <2>6. TypeOK'
      BY <1>1, <1>8, <2>2 DEF MatcherInv, TypeOK
    <2>7. Walking'
      BY <1>1, <1>8, <2>2 DEF MatcherInv, Walking, B!Opposing
    <2>8. StillToCome'
      BY <2>1 DEF StillToCome
    <2> QED  BY <1>1, <1>7, <1>8, <2>4, <2>5, <2>6, <2>7, <2>8
             DEF MatcherInv, Open, Uncrossed
  <1> QED  BY <1>9, <1>10

\* The call ends; what is left of a limit order comes to rest, and then there
\* is nothing it could have traded with.
LEMMA FinishInv ==
  ASSUME MatcherInv, Finish
  PROVE  MatcherInv'
  <1>1. /\ phase = "match" /\ taker' = NoOrder /\ phase' = "idle" /\ left' = 0
        /\ levels' = {} /\ walk' = {} /\ out' = {} /\ before' = B!EmptyBook
    BY DEF Finish, Unlock
  <1>2. /\ taker \in Order /\ left \in Nat /\ book \in B!Book
        /\ Info[taker].quantity \in Nat /\ left <= Info[taker].quantity
    BY <1>1, Matching DEF MatcherInv, Walking
  <1>3. book' \in B!Book /\ Open(book') /\ Uncrossed(book')
    <2>1. CASE left > 0 /\ B!Rests(taker)
      <3>1. NoLevelLeft
        BY <2>1, <1>2 DEF Finish
      <3>2. B!Matchable(book, taker) = {}
        BY <1>1, <2>1, <3>1 DEF MatcherInv, StillToCome, NoLevelLeft, B!Matchable
      <3>3. /\ Info[taker].quantity - left \in Nat
            /\ Info[taker].quantity - left < Info[taker].quantity
            /\ Info[taker].type = "limit"
        BY <1>2, <2>1 DEF B!Rests
      <3>4. book' = B!Add(book, taker, Info[taker].quantity - left)
        BY <2>1 DEF Finish
      <3> QED  BY <1>2, <3>2, <3>3, <3>4, AddBook DEF MatcherInv
    <2>2. CASE ~ (left > 0 /\ B!Rests(taker))
      BY <1>2, <2>2 DEF Finish, MatcherInv
    <2> QED  BY <2>1, <2>2
  <1>4. B!EmptyBook \in B!Book
    BY DEF B!EmptyBook, B!Book
  <1>5. TypeOK'
    BY <1>1, <1>3, <1>4 DEF MatcherInv, TypeOK
  <1> QED  BY <1>1, <1>3, <1>5 DEF MatcherInv, Walking, StillToCome, FairTrades,
                                   Open, Uncrossed

\* A cancelled order leaves the book.
LEMMA RemoveInv ==
  ASSUME MatcherInv, NEW o \in Order, RemoveOrder(o)
  PROVE  MatcherInv'
  <1>1. /\ taker = NoOrder /\ phase = "idle" /\ book' = B!Remove(book, {o})
        /\ UNCHANGED <<trades, taker, phase, left, levels, walk, out, before>>
        /\ book \in B!Book
    BY DEF RemoveOrder, local, MatcherInv, TypeOK
  <1>2. book' \in B!Book /\ Open(book') /\ Uncrossed(book')
    BY <1>1, RemoveBook DEF MatcherInv
  <1>3. TypeOK'
    BY <1>1, <1>2 DEF MatcherInv, TypeOK
  <1> QED  BY <1>1, <1>2, <1>3 DEF MatcherInv, Walking, StillToCome, FairTrades,
                                   Open, Uncrossed

\* Every step keeps the invariant.
LEMMA NextInv == MatcherInv /\ [Next]_vars => MatcherInv'
  <1> SUFFICES ASSUME MatcherInv, [Next]_vars PROVE MatcherInv'
    OBVIOUS
  <1>1. CASE \E o \in Order : Lock(o) \/ RemoveOrder(o)
    BY <1>1, LockInv, RemoveInv
  <1>2. CASE \E m \in walk : CountMaker(m) \/ SkipMaker(m) \/ MatchMaker(m)
    BY <1>2, CountInv, SkipInv, MatchInv
  <1>3. CASE \E p \in levels : CountLevel(p) \/ EnterLevel(p)
    BY <1>3, CountInv, EnterInv
  <1>4. CASE CanFill \/ CannotFill \/ Finish
    BY <1>4, DecideInv, FinishInv
  <1>5. CASE UNCHANGED vars
    BY <1>5 DEF vars, local, MatcherInv, TypeOK, Walking, StillToCome, FairTrades,
                Open, Uncrossed
  <1> QED  BY <1>1, <1>2, <1>3, <1>4, <1>5 DEF Next, Step

-----------------------------------------------------------------------------
\* MatchOrder leaves no two orders of different accounts in the book that
\* could trade with each other, for any set of orders and prices.
THEOREM BookNotCrossed == Spec => []NotCrossed
  <1>1. MatcherInv => NotCrossed
    BY DEF MatcherInv, Uncrossed, NotCrossed
  <1> QED  BY <1>1, InitInv, NextInv, PTL DEF Spec

\* No order trades with its own account, beyond its limit or for nothing.
THEOREM TradesAreFair == Spec => []FairTrades
  <1>1. MatcherInv => FairTrades
    BY DEF MatcherInv
  <1> QED  BY <1>1, InitInv, NextInv, PTL DEF Spec

\* No order in the book is filled or over-filled, and none is a market order.
THEOREM RestingOrdersOpen == Spec => []RestingIsOpen
  <1>1. MatcherInv => RestingIsOpen
    <2> SUFFICES ASSUME MatcherInv, NEW o \in book.resting
                 PROVE  /\ 0 <= book.filled[o] /\ book.filled[o] < Info[o].quantity
                        /\ Info[o].type = "limit"
      BY DEF RestingIsOpen
    <2>1. book.filled[o] \in Nat
      BY DEF MatcherInv, TypeOK, B!Book
    <2> QED  BY <2>1 DEF MatcherInv, Open
  <1> QED  BY <1>1, InitInv, NextInv, PTL DEF Spec
=============================================================================
