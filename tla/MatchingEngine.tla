--------------------------- MODULE MatchingEngine ---------------------------
(***************************************************************************)
(* The matching service around one order book                              *)
(* (services/matching/internal/{consumer,engine,storage}): two goroutines  *)
(* consume the partitions of orders.accepted and orders.cancelled that     *)
(* hold the symbol, match or remove, publish trades.executed and remember  *)
(* what they did in two bounded in-memory dedupers; an operator may call   *)
(* LoadSnapshot at any time.  Delivery is what KafkaConsumer models, with  *)
(* fewer failures than its retry budget; the orders table is order-ingest, *)
(* which applies the trades it reads from trades.executed.                 *)
(***************************************************************************)
EXTENDS OrderBook, Sequences

CONSTANTS
    DedupMax,       \* capacity of deduper (100000 in the code)
    OrderDedupMax,  \* capacity of orderDeduper (200000 in the code)
    MaxLag,         \* messages handled since the last commit, at most
    Budgets         \* bounds: how often each kind of event may happen, alternatives

ASSUME EngineAssumption ==
    /\ DedupMax \in Nat \ {0} /\ OrderDedupMax \in Nat \ {0}
    /\ MaxLag \in Nat \ {0}
    /\ Budgets \subseteq [{"cancel", "rebalance", "publish", "crash", "snapshot"} -> Nat]
    /\ \A b \in Budgets : b.publish < 3   \* the third error would be dead-lettered

VARIABLES
    acceptedLog, cancelledLog,   \* the two topics: sequences of orders
    accepted, cancelled,         \* their consumers: [next, marked, committed]
    pc,                          \* of handleOrderAccepted: "poll", "match", "publish"
    held,                        \* <<>>, or <<the replaced book it still refers to>>
    sent,                        \* trades published of the current order
    deduper, orderDeduper,       \* eventDeduper.order, oldest first
    tape,                        \* the topic trades.executed
    snap, rows,                  \* LoadSnapshot: where it is, the rows to add
    applied, filledDB,           \* order-ingest: trades read, orders.filled_quantity
    matched,                     \* how often MatchOrder was called (history)
    left, happened               \* what is left of the budget, kinds of events so far

topics == <<acceptedLog, cancelledLog>>
handler == <<trades, pc, held, sent, matched>>
memory == <<deduper, orderDeduper>>
snapshot == <<snap, rows>>
spent == <<left, happened>>
database == <<applied, filledDB>>
vars == <<book, topics, accepted, cancelled, handler, memory, tape, snapshot,
          database, spent>>

Start == [next |-> 1, marked |-> 1, committed |-> 1]

Init ==
    /\ BookInit
    /\ acceptedLog = <<>> /\ cancelledLog = <<>>
    /\ accepted = Start /\ cancelled = Start
    /\ pc = "poll" /\ held = <<>> /\ sent = 0
    /\ deduper = <<>> /\ orderDeduper = <<>>
    /\ tape = <<>>
    /\ snap = "idle" /\ rows = {}
    /\ applied = 0 /\ filledDB = [o \in Order |-> 0]
    /\ matched = [o \in Order |-> 0]
    /\ left \in Budgets /\ happened = {}

Spend(k) ==
    /\ left[k] > 0
    /\ left' = [left EXCEPT ![k] = @ - 1]
    /\ happened' = happened \cup {k}

Elements(s) == {s[i] : i \in DOMAIN s}

-----------------------------------------------------------------------------
(***************************************************************************)
(* order-ingest and the orders table.  A row is 'pending' until a trade is *)
(* applied to it, then 'open' until it is filled; a trade that was applied *)
(* already, or of a cancelled order, changes nothing.                      *)
(***************************************************************************)
StatusDB(o) ==
    IF o \in Elements(cancelledLog) THEN "cancelled"
    ELSE IF filledDB[o] = 0 THEN "pending"
    ELSE IF filledDB[o] < Info[o].quantity THEN "open" ELSE "filled"

PublishAccepted(o) ==
    /\ o \notin Elements(acceptedLog)
    /\ acceptedLog' = Append(acceptedLog, o)
    /\ UNCHANGED <<book, cancelledLog, accepted, cancelled, handler, memory, tape,
                   snapshot, database, spent>>

PublishCancelled(o) ==
    /\ o \in Elements(acceptedLog)
    /\ StatusDB(o) # "filled"
    /\ Spend("cancel")
    /\ cancelledLog' = Append(cancelledLog, o)
    /\ UNCHANGED <<book, acceptedLog, accepted, cancelled, handler, memory, tape,
                   snapshot, database>>

ApplyTrade ==
    /\ applied < Len(tape)
    /\ applied' = applied + 1
    /\ LET t == tape[applied + 1]
           parties == {t.maker, t.taker}
           again == \E i \in 1 .. applied : tape[i].id = t.id
       IN  filledDB' = [o \in Order |->
               IF o \in parties /\ ~ again /\ \A q \in parties : StatusDB(q) # "cancelled"
               THEN Smaller(filledDB[o] + t.quantity, Info[o].quantity)
               ELSE filledDB[o]]
    /\ UNCHANGED <<book, topics, accepted, cancelled, handler, memory, tape, snapshot,
                   spent>>

-----------------------------------------------------------------------------
(***************************************************************************)
(* eventDeduper.                                                           *)
(***************************************************************************)
Seen(d, id) == id \in Elements(d)

MarkSmall(d, id, max) ==
    IF Seen(d, id) THEN d
    ELSE IF Len(d) + 1 >= max THEN Tail(Append(d, id)) ELSE Append(d, id)

Mark(d, id, max) ==
    IF Seen(d, id) THEN d
    ELSE IF Len(d) + 1 > max THEN Tail(Append(d, id)) ELSE Append(d, id)

Handled(c) == [c EXCEPT !.next = @ + 1, !.marked = c.next + 1]
Skipped(c) == [c EXCEPT !.next = @ + 1]

(***************************************************************************)
(* handleOrderAccepted: check the dedupers, take the book, match, publish  *)
(* the trades one by one, remember.  An error of PublishJSON does not say  *)
(* whether the broker has the trade.                                       *)
(***************************************************************************)
Incoming == acceptedLog[accepted.next]

AcceptedEvent(o) == <<"orders.accepted", o>>

HasMessage(c, log) == c.next <= Len(log) /\ c.next - c.committed < MaxLag

DuplicateEvent(o) == Seen(deduper, AcceptedEvent(o))

Duplicate(o) == Seen(deduper, AcceptedEvent(o)) \/ Seen(orderDeduper, o)

AlreadyAccepted ==
    /\ pc = "poll" /\ HasMessage(accepted, acceptedLog)
    /\ Duplicate(Incoming)
    /\ accepted' = Handled(accepted)
    /\ UNCHANGED <<book, topics, cancelled, handler, memory, tape, snapshot, database, spent>>

GetOrderBook ==
    /\ pc = "poll" /\ HasMessage(accepted, acceptedLog)
    /\ ~ Duplicate(Incoming)
    /\ pc' = "match"
    /\ held' = <<>>
    /\ UNCHANGED <<book, topics, accepted, cancelled, trades, sent, matched, memory,
                   tape, snapshot, database, spent>>

Match ==
    /\ pc = "match"
    /\ LET b == IF held = <<>> THEN book ELSE held[1]
       IN  /\ trades' = TradesOf(b, Incoming)
           /\ book' = IF held = <<>> THEN BookAfter(b, Incoming) ELSE book
    /\ pc' = "publish"
    /\ sent' = 0
    /\ matched' = [matched EXCEPT ![Incoming] = @ + 1]
    /\ held' = <<>>
    /\ UNCHANGED <<topics, accepted, cancelled, memory, tape, snapshot, database, spent>>

TradeId(o, n) == <<o, n>>

ExecutedWhole(n) ==
    LET t == CHOOSE u \in trades : u.index = n
    IN  [id |-> TradeId(t.taker, n), maker |-> t.maker, taker |-> t.taker,
         price |-> t.price, quantity |-> Info[t.maker].quantity]

Executed(n) ==
    LET t == CHOOSE u \in trades : u.index = n
    IN  [id |-> TradeId(t.taker, n), maker |-> t.maker, taker |-> t.taker,
         price |-> t.price, quantity |-> t.quantity]

PublishTrade ==
    /\ pc = "publish" /\ sent < Cardinality(trades)
    /\ tape' = Append(tape, Executed(sent))
    /\ sent' = sent + 1
    /\ UNCHANGED <<book, topics, accepted, cancelled, trades, pc, held, matched, memory,
                   snapshot, database, spent>>

PublishTradeIgnored ==
    /\ pc = "publish" /\ sent < Cardinality(trades)
    /\ Spend("publish")
    /\ sent' = sent + 1
    /\ UNCHANGED <<book, topics, accepted, cancelled, trades, pc, held, matched, memory,
                   tape, snapshot, database>>

PublishTradeFails ==
    /\ pc = "publish" /\ sent < Cardinality(trades)
    /\ Spend("publish")
    /\ tape' \in {tape, Append(tape, Executed(sent))}
    /\ accepted' = Skipped(accepted)
    /\ pc' = "poll" /\ sent' = 0 /\ trades' = {}
    /\ UNCHANGED <<book, topics, cancelled, held, matched, memory, snapshot, database>>

Accept ==
    /\ pc = "publish" /\ sent = Cardinality(trades)
    /\ deduper' = Mark(deduper, AcceptedEvent(Incoming), DedupMax)
    /\ orderDeduper' = Mark(orderDeduper, Incoming, OrderDedupMax)
    /\ accepted' = Handled(accepted)
    /\ pc' = "poll" /\ sent' = 0 /\ trades' = {}
    /\ UNCHANGED <<book, topics, cancelled, held, matched, tape, snapshot, database, spent>>

(***************************************************************************)
(* handleOrderCancelled.                                                   *)
(***************************************************************************)
CancelledEvent(o) == <<"orders.cancelled", o>>

CancelOrder ==
    /\ HasMessage(cancelled, cancelledLog)
    /\ LET o == cancelledLog[cancelled.next]
           again == Seen(deduper, CancelledEvent(o))
       IN  /\ book' = IF again THEN book ELSE Remove(book, {o})
           /\ deduper' = IF again THEN deduper
                         ELSE Mark(deduper, CancelledEvent(o), DedupMax)
    /\ cancelled' = Handled(cancelled)
    /\ UNCHANGED <<topics, accepted, handler, orderDeduper, tape, snapshot, database, spent>>

-----------------------------------------------------------------------------
(***************************************************************************)
(* The consumer group: commits, rebalances between two messages, and the   *)
(* end of the process, which loses the book and the dedupers.  main.go     *)
(* starts with an empty book and does not load a snapshot.                 *)
(***************************************************************************)
Commit ==
    /\ <<accepted.committed, cancelled.committed>> # <<accepted.marked, cancelled.marked>>
    /\ accepted' = [accepted EXCEPT !.committed = accepted.marked]
    /\ cancelled' = [cancelled EXCEPT !.committed = cancelled.marked]
    /\ UNCHANGED <<book, topics, handler, memory, tape, snapshot, database, spent>>

Restarted(c) == [next |-> c.committed, marked |-> c.committed, committed |-> c.committed]

Rebalance ==
    /\ pc = "poll"
    /\ Spend("rebalance")
    /\ accepted' = Restarted(accepted) /\ cancelled' = Restarted(cancelled)
    /\ UNCHANGED <<book, topics, handler, memory, tape, snapshot, database>>

Crash ==
    /\ Spend("crash")
    /\ book' = EmptyBook
    /\ trades' = {} /\ pc' = "poll" /\ held' = <<>> /\ sent' = 0
    /\ deduper' = <<>> /\ orderDeduper' = <<>>
    /\ snap' = "idle" /\ rows' = {}
    /\ accepted' = Restarted(accepted) /\ cancelled' = Restarted(cancelled)
    /\ UNCHANGED <<topics, tape, database, matched>>

-----------------------------------------------------------------------------
(***************************************************************************)
(* LoadSnapshot: put a new book in Engine.books, query the open orders, or *)
(* fail to, and add them one by one without matching.                      *)
(***************************************************************************)
SnapshotClear ==
    /\ snap \in {"idle", "done"}
    /\ Spend("snapshot")
    /\ book' = EmptyBook
    /\ held' = IF pc = "match" /\ held = <<>> THEN <<book>> ELSE held
    /\ snap' = "query"
    /\ UNCHANGED <<topics, accepted, cancelled, trades, pc, sent, matched, memory, tape,
                   rows, database>>

\* The open orders, each by its place in order of created_at, and what was
\* filled of it.
LoadOpenOrders ==
    {<<i, filledDB[acceptedLog[i]]>> :
        i \in {j \in DOMAIN acceptedLog : StatusDB(acceptedLog[j]) = "open"}}

SnapshotQuery ==
    /\ snap = "query"
    /\ rows' = LoadOpenOrders
    /\ snap' = "add"
    /\ UNCHANGED <<book, topics, accepted, cancelled, handler, memory, tape, database, spent>>

SnapshotQueryFails ==
    /\ snap = "query"
    /\ snap' = "idle"
    /\ UNCHANGED <<book, topics, accepted, cancelled, handler, memory, tape, rows,
                   database, spent>>

AddRow(row) == Add(book, acceptedLog[row[1]], row[2])

SnapshotAdd ==
    /\ snap = "add"
    /\ \E row \in rows :
          /\ \A r \in rows : row[1] <= r[1]
          /\ book' = AddRow(row)
          /\ rows' = rows \ {row}
    /\ UNCHANGED <<topics, accepted, cancelled, handler, memory, tape, snap, database, spent>>

SnapshotDone ==
    /\ snap = "add" /\ rows = {}
    /\ snap' = "done"
    /\ UNCHANGED <<book, topics, accepted, cancelled, handler, memory, tape, rows,
                   database, spent>>

-----------------------------------------------------------------------------
HandleAccepted ==
    AlreadyAccepted \/ GetOrderBook \/ Match \/ PublishTrade \/ PublishTradeFails \/ Accept

LoadSnapshot ==
    SnapshotClear \/ SnapshotQuery \/ SnapshotQueryFails \/ SnapshotAdd \/ SnapshotDone

Next ==
    \/ \E o \in Order : PublishAccepted(o) \/ PublishCancelled(o)
    \/ ApplyTrade
    \/ HandleAccepted \/ CancelOrder
    \/ Commit \/ Rebalance \/ Crash
    \/ LoadSnapshot

\* A handler that has a message runs, and sarama commits periodically.
Spec ==
    Init /\ [][Next]_vars
    /\ WF_vars(HandleAccepted) /\ WF_vars(CancelOrder) /\ WF_vars(Commit)

-----------------------------------------------------------------------------
\* What trades.executed says was executed of an order, and what MatchOrder has
\* returned and the handler has not published yet.
OnTape(o) ==
    MapThenSumSet(LAMBDA i : IF o \in {tape[i].maker, tape[i].taker}
                             THEN tape[i].quantity ELSE 0, DOMAIN tape)

Unpublished(o) ==
    MapThenSumSet(LAMBDA t : IF o \in {t.maker, t.taker} THEN t.quantity ELSE 0,
                  {t \in trades : pc = "publish" /\ t.index >= sent})

\* No publish has failed and the process has not ended, so nothing was lost
\* between the book and the topic.
Undisturbed == happened \cap {"publish", "crash"} = {}

\* Redelivery after a rebalance never matches an order a second time: as long
\* as commits keep the window of redelivered messages within the capacity of
\* orderDeduper, whatever deduper has forgotten.  Only a handler that failed
\* to publish, or lost its memory, matches again.
MatchedOnce == Undisturbed => \A o \in Order : matched[o] <= 1

\* While the book is neither lost nor replaced it agrees with the topic: what a
\* resting order was filled is what was, or is about to be, published for it.
BookAgreesWithTape ==
    Undisturbed /\ "snapshot" \notin happened =>
        \A o \in book.resting : book.filled[o] = OnTape(o) + Unpublished(o)

\* An order that was matched and is no longer in the book (filled, cancelled or
\* never resting) does not come back, as long as the book is not replaced.
NeverReturns ==
    [][Undisturbed' /\ "snapshot" \notin happened' =>
        \A o \in Order :
            matched[o] > 0 /\ o \notin book.resting => o \notin book'.resting]_vars

\* Whatever fails: only open limit orders rest, never over-filled.
RestingIsOpen ==
    \A o \in book.resting :
        book.filled[o] < Info[o].quantity /\ Info[o].type = "limit"

\* Whatever fails: an order's trades are published in order, without gaps.
NoGaps ==
    \A i \in DOMAIN tape :
        tape[i].id[2] > 0 =>
            \E j \in 1 .. i - 1 : tape[j].id = <<tape[i].id[1], tape[i].id[2] - 1>>
=============================================================================
