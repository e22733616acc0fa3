------------------------------ MODULE Exchange ------------------------------
(***************************************************************************)
(* The services together: order-ingest reserves funds in the ledger and    *)
(* publishes orders and cancellations, the matching engine trades them,    *)
(* and order-ingest and the ledger read the trades, each at its own pace.  *)
(* Nothing fails here (the services' own modules have their failures):     *)
(* what can go wrong is the order in which the services act.               *)
(*                                                                         *)
(* The ledger's tables and transactions are Ledger's, the book is          *)
(* OrderBook's.  All orders are limit orders, and no fee is taken.         *)
(***************************************************************************)
EXTENDS Ledger, Sequences, SequencesExt

CONSTANTS
    Info, NoAccount,   \* the orders, as in OrderBook
    Deletes            \* how many DELETE requests each order may get

VARIABLES
    pc, del, deletes,            \* per order: its POST, its DELETE, DELETEs so far
    status, filled,              \* the orders table
    acceptedLog, cancelledLog,   \* orders.accepted, orders.cancelled
    tape,                        \* trades.executed
    read,                        \* how many messages each consumer has handled
    book,                        \* the engine's
    refused, release,            \* order-ingest: trades not applied, orders to release
    unpaid                       \* the ledger: trades passed without settlement

ledger == <<available, locked, reservation, journal, processed>>
requests == <<pc, del, deletes>>
orders == <<status, filled>>
topics == <<acceptedLog, cancelledLog, tape>>
ingest == <<refused, release>>
exchangeVars == <<ledger, requests, orders, topics, read, book, ingest, unpaid>>

Engine == INSTANCE OrderBook WITH trades <- {}

ExchangeInit ==
    /\ Init
    /\ pc = [o \in Order |-> "new"] /\ del = [o \in Order |-> "none"]
    /\ deletes = [o \in Order |-> 0]
    /\ status = [o \in Order |-> "none"] /\ filled = [o \in Order |-> 0]
    /\ acceptedLog = <<>> /\ cancelledLog = <<>> /\ tape = <<>>
    /\ read = [accepted |-> 0, cancelled |-> 0, ingest |-> 0, ledger |-> 0]
    /\ book = Engine!EmptyBook
    /\ refused = {} /\ release = {} /\ unpaid = {}

-----------------------------------------------------------------------------
(***************************************************************************)
(* POST and DELETE /orders.                                                *)
(***************************************************************************)
RequestOf(o) ==
    LET i == Info[o]
    IN  [order |-> o, account |-> i.account, asset |-> ReservedAsset(i.side),
         amount |-> IF i.side = "buy" THEN i.price * i.quantity ELSE i.quantity]

Goto(o, step) == pc' = [pc EXCEPT ![o] = step]

Reserve(o) ==
    /\ pc[o] = "new"
    /\ \/ ReserveBalance(RequestOf(o)) /\ Goto(o, "create")
       \/ ~ CanReserve(RequestOf(o)) /\ Goto(o, "done") /\ UNCHANGED ledger
    /\ UNCHANGED <<del, deletes, orders, topics, read, book, ingest, unpaid>>

Create(o) ==
    /\ pc[o] = "create" /\ Goto(o, "publish")
    /\ status' = [status EXCEPT ![o] = "pending"]
    /\ UNCHANGED <<ledger, del, deletes, filled, topics, read, book, ingest, unpaid>>

PublishAccepted(o) ==
    /\ pc[o] = "publish" /\ Goto(o, "done")
    /\ acceptedLog' = Append(acceptedLog, o)
    /\ UNCHANGED <<ledger, del, deletes, orders, cancelledLog, tape, read, book, ingest, unpaid>>

Submit(o) == Reserve(o) \/ Create(o) \/ PublishAccepted(o)

\* An order that is cancelled already is released and published again.
CancelOrder(o) ==
    /\ del[o] = "none" /\ deletes[o] < Deletes[o]
    /\ status[o] \in {"pending", "open", "cancelled"}
    /\ status' = [status EXCEPT ![o] = "cancelled"]
    /\ del' = [del EXCEPT ![o] = "release"]
    /\ deletes' = [deletes EXCEPT ![o] = @ + 1]
    /\ UNCHANGED <<ledger, pc, filled, topics, read, book, ingest, unpaid>>

ReleaseCancelled(o) ==
    /\ del[o] = "release" /\ del' = [del EXCEPT ![o] = "publish"]
    /\ ReleaseReservation(o)
    /\ UNCHANGED <<pc, deletes, orders, topics, read, book, ingest, unpaid>>

PublishCancelled(o) ==
    /\ del[o] = "publish" /\ del' = [del EXCEPT ![o] = "none"]
    /\ cancelledLog' = Append(cancelledLog, o)
    /\ UNCHANGED <<ledger, pc, deletes, orders, acceptedLog, tape, read, book, ingest, unpaid>>

FinishDelete(o) == ReleaseCancelled(o) \/ PublishCancelled(o)

-----------------------------------------------------------------------------
(***************************************************************************)
(* The matching engine: two topics, read independently.                    *)
(***************************************************************************)
Executed(o) ==
    LET Before(t, u) == t.index < u.index
    IN  SetToSortSeq(Engine!TradesOf(book, o), Before)

HandleAccepted ==
    /\ read.accepted < Len(acceptedLog)
    /\ LET o == acceptedLog[read.accepted + 1]
       IN  book' = Engine!BookAfter(book, o) /\ tape' = tape \o Executed(o)
    /\ read' = [read EXCEPT !.accepted = @ + 1]
    /\ UNCHANGED <<ledger, requests, orders, acceptedLog, cancelledLog, ingest, unpaid>>

HandleCancelledResting ==
    /\ read.cancelled < Len(cancelledLog)
    /\ cancelledLog[read.cancelled + 1] \in book.resting
    /\ book' = Engine!Remove(book, {cancelledLog[read.cancelled + 1]})
    /\ read' = [read EXCEPT !.cancelled = @ + 1]
    /\ UNCHANGED <<ledger, requests, orders, topics, ingest, unpaid>>

HandleCancelled ==
    /\ read.cancelled < Len(cancelledLog)
    /\ book' = Engine!Remove(book, {cancelledLog[read.cancelled + 1]})
    /\ read' = [read EXCEPT !.cancelled = @ + 1]
    /\ UNCHANGED <<ledger, requests, orders, topics, ingest, unpaid>>

-----------------------------------------------------------------------------
(***************************************************************************)
(* order-ingest's consumer of trades.executed.                             *)
(***************************************************************************)
Parties(t) == {t.maker, t.taker}

FilledBy(o, t) == Smaller(filled[o] + t.quantity, Info[o].quantity)

FilledOrdersOnceOpen(t) ==
    {o \in Parties(t) : FilledBy(o, t) = Info[o].quantity /\ status[o] = "open"}

\* FilledOrderIDs
FilledOrders(t) ==
    {o \in Parties(t) : FilledBy(o, t) = Info[o].quantity /\ status[o] # "filled"}

UpdatableAny(o) == TRUE

Updatable(o) == status[o] \in {"pending", "open", "filled"}

ApplyTradeExecution ==
    /\ read.ingest < Len(tape) /\ release = {}
    /\ read' = [read EXCEPT !.ingest = @ + 1]
    /\ LET t == tape[read.ingest + 1]
       IN  IF \A o \in Parties(t) : Updatable(o)
           THEN /\ filled' = [o \in Order |-> IF o \in Parties(t) THEN FilledBy(o, t)
                                                                  ELSE filled[o]]
                /\ status' = [o \in Order |->
                      IF o \notin Parties(t) THEN status[o]
                      ELSE IF FilledBy(o, t) = Info[o].quantity THEN "filled" ELSE "open"]
                /\ release' = FilledOrders(t)
                /\ UNCHANGED refused
           ELSE /\ refused' = refused \cup {read.ingest + 1}
                /\ UNCHANGED <<orders, release>>
    /\ UNCHANGED <<ledger, requests, topics, book, unpaid>>

ReleaseFilled(o) ==
    /\ o \in release /\ release' = release \ {o}
    /\ ReleaseReservation(o)
    /\ UNCHANGED <<requests, orders, topics, read, book, refused, unpaid>>

-----------------------------------------------------------------------------
(***************************************************************************)
(* The ledger's consumer of trades.executed.                               *)
(***************************************************************************)
SettlementOf(t) ==
    [trade |-> <<t.taker, t.index>>, event |-> <<t.taker, t.index>>,
     makerOrder |-> t.maker, takerOrder |-> t.taker,
     maker |-> Info[t.maker].account, taker |-> Info[t.taker].account,
     makerSide |-> Info[t.maker].side, price |-> t.price, quantity |-> t.quantity]

\* applyEntry: there is enough to pay with.
Payable(s) ==
    LET net == Net(s, 0, 0)
    IN  \A k \in Key : FromAvailable(k, net[k], s) <= available[k]

Unsettled == read.ledger < Len(tape)

SettleTrade ==
    /\ Unsettled
    /\ ApplySettlement(SettlementOf(tape[read.ledger + 1]), 0, 0)
    /\ read' = [read EXCEPT !.ledger = @ + 1]
    /\ UNCHANGED <<requests, orders, topics, book, ingest, unpaid>>

\* ErrInsufficientBalance: ConsumeClaim goes on, and the next mark passes it.
PassTrade ==
    /\ Unsettled
    /\ ~ Payable(SettlementOf(tape[read.ledger + 1]))
    /\ unpaid' = unpaid \cup {read.ledger + 1}
    /\ read' = [read EXCEPT !.ledger = @ + 1]
    /\ UNCHANGED <<ledger, requests, orders, topics, book, ingest>>

-----------------------------------------------------------------------------
GoOn ==
    \/ \E o \in Order : Submit(o) \/ FinishDelete(o) \/ ReleaseFilled(o)
    \/ HandleAccepted \/ HandleCancelled
    \/ ApplyTradeExecution \/ SettleTrade \/ PassTrade

ExchangeNext == GoOn \/ \E o \in Order : CancelOrder(o)

\* While requests or consumers have something to do, something is done.
ExchangeSpec ==
    ExchangeInit /\ [][ExchangeNext]_exchangeVars /\ WF_exchangeVars(GoOn)

-----------------------------------------------------------------------------
Open(o) == status[o] \in {"pending", "open"}

\* No request is running, and every consumer has read everything.
Quiet ==
    /\ \A o \in Order : pc[o] \in {"new", "done"} /\ del[o] = "none"
    /\ read = [accepted |-> Len(acceptedLog), cancelled |-> Len(cancelledLog),
               ingest |-> Len(tape), ledger |-> Len(tape)]
    /\ release = {}

CancelledTwice(k) == \E o \in Order : Reserved(o) /\ RowOf(o) = k /\ deletes[o] > 1

\* Funds are reconciled: when all is quiet, what an account has locked is what
\* its open orders have reserved and not used, although reservations are used by
\* the ledger's consumer and released by order-ingest, which overtake each other.
\* Not so where an order was cancelled twice: the second release takes from the
\* account's other orders.
Reconciled ==
    Quiet => \A k \in Key : CancelledTwice(k) \/
        locked[k] = MapThenSumSet(Remaining,
                        {o \in Order : Open(o) /\ Reserved(o) /\ RowOf(o) = k})

TradesWith(o) == {i \in DOMAIN tape : o \in Parties(tape[i])}

\* The table and the book agree: when all is quiet, an order open in the table
\* rests in the book, filled equally, unless it is IOC or FOK, whose remainder
\* the book drops, or order-ingest has refused one of its trades.
BookAgreesWithTable ==
    Quiet => \A o \in Order :
        Open(o) /\ Info[o].tif = "GTC" /\ TradesWith(o) \cap refused = {} =>
            o \in book.resting /\ book.filled[o] = filled[o]

\* A trade the ledger cannot settle has an order whose funds order-ingest has
\* released before, being cancelled or filled, or were released with another
\* order that was cancelled twice: no order that is open is unable to pay.
UnpaidWasReleased ==
    \A i \in unpaid : \E o \in Parties(tape[i]) :
        status[o] \in {"cancelled", "filled"} \/ CancelledTwice(RowOf(o))

\* The services come to rest: every request and release ends and every consumer
\* reads to the end of its topics, although a trade may be refused by order-ingest
\* or the ledger and a cancellation may find no order.
ComesToRest == <>[]Quiet
=============================================================================
