------------------------------ MODULE FeeTiers ------------------------------
(***************************************************************************)
(* The fee service: GetFeeTier and CalculateFees resolve the tier of an    *)
(* account's volume from TierCache, which keeps a map of tiers and, next   *)
(* to it, the list of their thresholds for a binary search.  A miss reads  *)
(* the database and adds the row to the cache, in steps that interleave    *)
(* with other calls, with the periodic refresh and with changes of the     *)
(* fee_tiers table.                                                        *)
(*                                                                         *)
(* A tier is its min_volume and a rate (the maker and taker fee in basis   *)
(* points); min_volume is taken to be unique.                              *)
(***************************************************************************)
EXTENDS Integers, Sequences, SequencesExt

CONSTANTS
    Caller,      \* concurrent calls
    Volume,      \* 30-day volumes, and the thresholds of tiers
    Rate,
    DefaultMin,  \* min_volume of the tier named "default"
    MaxChanges   \* bound: changes of the fee_tiers table

ASSUME FeeAssumption ==
    Volume \subseteq Nat /\ DefaultMin \in Volume /\ MaxChanges \in Nat

VARIABLES
    table,               \* fee_tiers, min_volume |-> rate
    tiers, thresholds,   \* TierCache
    queried,             \* GetAllFeeTiers of a refresh, not yet installed
    pc, volume, tier,    \* per call
    changes

cache == <<tiers, thresholds>>
calls == <<pc, volume, tier>>
vars == <<table, cache, queried, calls, changes>>

Tables == UNION {[S -> Rate] : S \in SUBSET Volume}
NoTier == [min |-> -1]
NoQuery == <<>>

Row(rows, min) == [min |-> min, rate |-> rows[min]]

Descending(S) == SetToSortSeq(S, LAMBDA a, b : a > b)

\* GetFeeTierByVolume: ORDER BY min_volume DESC LIMIT 1.
GetFeeTierByVolume(rows, v) ==
    LET below == {m \in DOMAIN rows : m <= v}
    IN  IF below = {} THEN NoTier ELSE Row(rows, CHOOSE m \in below : \A n \in below : n <= m)

\* sort.Search(len(thresholds), thresholds[i] <= v), counted from 0.
Search(s, v) ==
    LET from[i \in 0 .. Len(s), j \in 0 .. Len(s)] ==
            IF i >= j THEN i
            ELSE LET h == (i + j) \div 2
                 IN  IF s[h + 1] <= v THEN from[i, h] ELSE from[h + 1, j]
    IN  from[0, Len(s)]

GetTierByVolume(v) ==
    LET idx == Search(thresholds, v)
    IN  IF idx >= Len(thresholds) \/ thresholds[idx + 1] \notin DOMAIN tiers
        THEN NoTier
        ELSE Row(tiers, thresholds[idx + 1])

\* main loads the cache before it serves.
Init ==
    /\ table \in Tables
    /\ tiers = table /\ thresholds = Descending(DOMAIN table)
    /\ queried = NoQuery /\ changes = 0
    /\ pc = [c \in Caller |-> "idle"]
    /\ volume = [c \in Caller |-> DefaultMin]
    /\ tier = [c \in Caller |-> NoTier]

Step(c, step, row) ==
    /\ pc' = [pc EXCEPT ![c] = step]
    /\ tier' = [tier EXCEPT ![c] = row]

\* The volume of the account, given or from GetAccountVolume30d, which may fail.
Begin(c) ==
    /\ pc[c] = "idle" /\ \E step \in {"cache", "error"} : Step(c, step, NoTier)
    /\ \E v \in Volume : volume' = [volume EXCEPT ![c] = v]
    /\ UNCHANGED <<table, cache, queried, changes>>

LookInCache(c) ==
    /\ pc[c] = "cache"
    /\ LET found == GetTierByVolume(volume[c])
       IN  Step(c, IF found = NoTier THEN "store" ELSE "done", found)
    /\ UNCHANGED <<table, cache, queried, volume, changes>>

LookInStore(c) ==
    /\ pc[c] = "store"
    /\ LET found == GetFeeTierByVolume(table, volume[c])
       IN  \/ Step(c, IF found = NoTier THEN "default" ELSE "set", found)
           \/ Step(c, "error", NoTier)
    /\ UNCHANGED <<table, cache, queried, volume, changes>>

GetDefaultFeeTier(c) ==
    /\ pc[c] = "default"
    /\ \/ DefaultMin \in DOMAIN table /\ Step(c, "set", Row(table, DefaultMin))
       \/ Step(c, "error", NoTier)
    /\ UNCHANGED <<table, cache, queried, volume, changes>>

WithTier(row) == [m \in DOMAIN tiers \cup {row.min} |-> IF m = row.min THEN row.rate ELSE tiers[m]]

SetUnsorted(c) ==
    /\ pc[c] = "set" /\ Step(c, "done", tier[c])
    /\ tiers' = WithTier(tier[c])
    /\ thresholds' = IF tier[c].min \in DOMAIN tiers THEN thresholds
                                                     ELSE Append(thresholds, tier[c].min)
    /\ UNCHANGED <<table, queried, volume, changes>>

SetTierByVolume(c) ==
    /\ pc[c] = "set" /\ Step(c, "done", tier[c])
    /\ tiers' = WithTier(tier[c])
    /\ thresholds' = IF Contains(thresholds, tier[c].min)
                     THEN thresholds
                     ELSE SortSeq(Append(thresholds, tier[c].min), >)
    /\ UNCHANGED <<table, queried, volume, changes>>

Return(c) ==
    /\ pc[c] \in {"done", "error"} /\ Step(c, "idle", NoTier)
    /\ volume' = [volume EXCEPT ![c] = DefaultMin]
    /\ UNCHANGED <<table, cache, queried, changes>>

ResolveTier(c) ==
    \/ LookInCache(c) \/ LookInStore(c) \/ GetDefaultFeeTier(c) \/ SetTierByVolume(c)

\* TierCache.Load: the query, and the installation under the lock.
GetAllFeeTiers ==
    /\ queried = NoQuery /\ queried' = <<table>>
    /\ UNCHANGED <<table, cache, calls, changes>>

LoadAdds ==
    /\ queried # NoQuery /\ queried' = NoQuery
    /\ tiers' = [m \in DOMAIN tiers \cup DOMAIN queried[1] |->
                    IF m \in DOMAIN queried[1] THEN queried[1][m] ELSE tiers[m]]
    /\ thresholds' = Descending(DOMAIN tiers')
    /\ UNCHANGED <<table, calls, changes>>

Load ==
    /\ queried # NoQuery /\ queried' = NoQuery
    /\ tiers' = queried[1]
    /\ thresholds' = Descending(DOMAIN queried[1])
    /\ UNCHANGED <<table, calls, changes>>

StartAutoRefresh == GetAllFeeTiers \/ Load

ChangeTable ==
    /\ changes < MaxChanges /\ changes' = changes + 1
    /\ table' \in Tables \ {table}
    /\ UNCHANGED <<cache, queried, calls>>

Next ==
    \/ \E c \in Caller : Begin(c) \/ ResolveTier(c) \/ Return(c)
    \/ StartAutoRefresh \/ ChangeTable

\* Calls that have begun go on, and the ticker refreshes the cache.
Fairness ==
    /\ \A c \in Caller : WF_vars(ResolveTier(c))
    /\ WF_vars(StartAutoRefresh)

Spec == Init /\ [][Next]_vars /\ Fairness

-----------------------------------------------------------------------------
\* The two halves of the cache stay consistent under concurrent misses and
\* refreshes: the binary search over thresholds finds, for every volume, what
\* the query would find in the cached tiers.
SearchIsQuery ==
    \A v \in Volume : GetTierByVolume(v) = GetFeeTierByVolume(tiers, v)

\* A call that read a row before a change may put it into the cache after the
\* refresh that followed the change; yet once the table is left alone, the cache
\* becomes the table and stays it.
CacheConverges == <>[](tiers = table)
=============================================================================
