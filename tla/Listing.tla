------------------------------ MODULE Listing -------------------------------
(***************************************************************************)
(* Listing with a cursor: GET /orders (order-ingest), GET /accounts and    *)
(* GET /balances (user service).  A client walks through the pages while   *)
(* rows are inserted.  All three lists are ordered by a time stamp and an  *)
(* id, return one page, and a cursor when they have read a row too many.   *)
(*                                                                         *)
(* An order and an account have an id of their own and stay where they are *)
(* in the list; the balances of one account in several assets share the    *)
(* account's id, and move when they are written, being listed by           *)
(* updated_at.                                                             *)
(***************************************************************************)
EXTENDS Integers, Sequences, FiniteSets, Functions

CONSTANTS
    Row,       \* rows that match the filter, now or later
    Id,        \* their tie-breaking ids
    Balances,  \* the rows that are balances
    Limit,     \* clampLimit of the request's limit
    MaxTime    \* bound of the clock

ASSUME ListingAssumption ==
    /\ IsFiniteSet(Row) /\ Balances \subseteq Row
    /\ Id \in [Row -> Nat] /\ Limit \in Nat \ {0} /\ MaxTime \in Nat

VARIABLES
    stamp,     \* created_at (updated_at); 0: not inserted
    now,
    cursor,    \* the next_cursor the client has; NoCursor before the first page
    state,     \* "first", "more" or "end" of the walk
    seen,      \* the rows of the pages so far
    first,     \* the rows that were there when the walk began
    skipped    \* the rows that had the key of a cursor when it was made

listVars == <<stamp, now, cursor, state, seen, first, skipped>>

NoCursor == <<0, 0>>

Rows == {r \in Row : stamp[r] > 0}

Key(r) == <<stamp[r], Id[r]>>

Precedes(k, l) == k[1] < l[1] \/ (k[1] = l[1] /\ k[2] < l[2])

ListInit ==
    /\ stamp \in [Row -> 0 .. 1] /\ now = 1
    /\ cursor = NoCursor /\ state = "first"
    /\ seen = <<>> /\ first = {} /\ skipped = {}

AfterByTime(r) == cursor = NoCursor \/ cursor[1] < stamp[r]

\* AND (created_at, id) > ($ts, $id), if there is a cursor.
After(r) == cursor = NoCursor \/ Precedes(cursor, Key(r))

\* What ORDER BY created_at, id may return: rows with one key come in any order.
Ordered(S) ==
    {s \in Bijection(1 .. Cardinality(S), S) :
        \A i, j \in 1 .. Len(s) : i < j => ~ Precedes(Key(s[j]), Key(s[i]))}

\* LIMIT limit + 1: the row too many becomes the cursor and is not returned.
HasMore(rows) == Len(rows) > Limit

Page(rows) == IF HasMore(rows) THEN SubSeq(rows, 1, Limit) ELSE rows

List ==
    /\ state # "end"
    /\ \E rows \in Ordered({r \in Rows : After(r)}) :
          /\ seen' = seen \o Page(rows)
          /\ IF HasMore(rows)
             THEN /\ state' = "more" /\ cursor' = Key(rows[Limit + 1])
                  /\ skipped' = skipped \cup {r \in Rows : Key(r) = cursor'}
             ELSE state' = "end" /\ UNCHANGED <<cursor, skipped>>
    /\ first' = IF state = "first" THEN Rows ELSE first
    /\ UNCHANGED <<stamp, now>>

\* created_at is the time the inserting transaction began, so a row can appear
\* behind younger ones.
Insert(r) ==
    /\ r \notin Rows
    /\ \E t \in {now, now - 1} \ {0} : stamp' = [stamp EXCEPT ![r] = t]
    /\ UNCHANGED <<now, cursor, state, seen, first, skipped>>

\* A settlement writes the balance.
Update(r) ==
    /\ r \in Rows \cap Balances /\ stamp[r] < now
    /\ stamp' = [stamp EXCEPT ![r] = now]
    /\ UNCHANGED <<now, cursor, state, seen, first, skipped>>

Tick ==
    /\ now < MaxTime /\ now' = now + 1
    /\ UNCHANGED <<stamp, cursor, state, seen, first, skipped>>

Write(r) == state # "end" /\ (Insert(r) \/ Update(r))

-----------------------------------------------------------------------------
\* What a walk misses of the rows that were there when it began are rows that
\* had the key of one of its cursors when the page was read, and nothing else:
\* not a row that was inserted or moved meanwhile, nor one tied in time only.
MissesOnlyCursors ==
    state = "end" => first \ Range(seen) \subseteq skipped
=============================================================================
