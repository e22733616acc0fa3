------------------------- MODULE SettlementConsumer -------------------------
(***************************************************************************)
(* The ledger's consumer of trades.executed (services/ledger/internal/     *)
(* consumer): it settles a trade, then publishes ledger.entries and        *)
(* balances.updated, one event per account.  The topic is partitioned by   *)
(* symbol and every partition has a goroutine of its own, so handlers that *)
(* touch the same account interleave.                                      *)
(*                                                                         *)
(* A balance is abstracted to its version, the number of times it changed. *)
(***************************************************************************)
EXTENDS Integers, Sequences

CONSTANTS
    Account,
    Trade,
    Accounts,    \* the accounts a trade touches, the fee account too
    Partition,
    Log,         \* the trades of each partition, redeliveries apart
    MaxEvents    \* bound: failing calls, redeliveries, reservations in between

ASSUME SettlementAssumption ==
    /\ Accounts \in [Trade -> (SUBSET Account) \ {{}}]
    /\ Log \in [Partition -> Seq(Trade)]
    /\ \A p, q \in Partition : \A i \in DOMAIN Log[p], j \in DOMAIN Log[q] :
          Log[p][i] = Log[q][j] => <<p, i>> = <<q, j>>
    /\ MaxEvents \in Nat

VARIABLES
    version,        \* ledger_accounts
    settledAt,      \* per trade, the versions it left behind (<<>>: not settled)
    position,       \* per partition, the message to handle
    stage, toSend, copy, \* its handler: step, accounts left to publish, balances
    entryEvents,    \* ledger.entries: set of [trade, account]
    balanceEvents,  \* balances.updated: set of [trade, account, version]
    dropped,        \* trades whose handling ended in an error
    events          \* faults and reservations so far

handlers == <<stage, toSend, copy>>
topics == <<entryEvents, balanceEvents>>
settlementVars == <<version, settledAt, position, handlers, topics, dropped, events>>

SettlementInit ==
    /\ version = [a \in Account |-> 0]
    /\ settledAt = [t \in Trade |-> <<>>]
    /\ position = [p \in Partition |-> 1]
    /\ stage = [p \in Partition |-> "settle"]
    /\ toSend = [p \in Partition |-> {}] /\ copy = [p \in Partition |-> <<>>]
    /\ entryEvents = {} /\ balanceEvents = {} /\ dropped = {}
    /\ events = 0

Settled(t) == settledAt[t] # <<>>

Current(p) == Log[p][position[p]]

Pending(p) == position[p] <= Len(Log[p])

\* The balances a handler publishes: of the accounts with entries.
BalancesOf(t, versions) == [a \in Accounts[t] |-> versions[a]]

\* ApplySettlement reads the balances it returns after its updates.
ReturnedTooEarly(t, before, after) == BalancesOf(t, before)

Returned(t, before, after) == BalancesOf(t, after)

Goto(p, s, accounts) ==
    /\ stage' = [stage EXCEPT ![p] = s]
    /\ toSend' = [toSend EXCEPT ![p] = accounts]

\* ApplySettlementInternal returns the entries and the balances it wrote.
Settle(p) ==
    /\ stage[p] = "settle" /\ Pending(p) /\ ~ Settled(Current(p))
    /\ LET t == Current(p)
       IN  /\ version' = [a \in Account |->
                            IF a \in Accounts[t] THEN version[a] + 1 ELSE version[a]]
           /\ settledAt' = [settledAt EXCEPT ![t] = <<BalancesOf(t, version')>>]
           /\ copy' = [copy EXCEPT ![p] = Returned(t, version, version')]
           /\ Goto(p, "entries", Accounts[t])
    /\ UNCHANGED <<position, topics, dropped, events>>

ReturnsWhenProcessed(p) ==
    /\ stage[p] = "settle" /\ Pending(p) /\ Settled(Current(p))
    /\ position' = [position EXCEPT ![p] = @ + 1]
    /\ UNCHANGED <<version, settledAt, handlers, topics, dropped, events>>

\* AlreadyProcessed: entries and balances are read again, by two queries.
ReadEntries(p) ==
    /\ stage[p] = "settle" /\ Pending(p) /\ Settled(Current(p))
    /\ Goto(p, "read", {})
    /\ UNCHANGED <<version, settledAt, position, copy, topics, dropped, events>>

ReadBalances(p) ==
    /\ stage[p] = "read"
    /\ copy' = [copy EXCEPT ![p] = BalancesOf(Current(p), version)]
    /\ Goto(p, "entries", Accounts[Current(p)])
    /\ UNCHANGED <<version, settledAt, position, topics, dropped, events>>

PublishEntries(p, a) ==
    /\ stage[p] = "entries" /\ a \in toSend[p]
    /\ entryEvents' = entryEvents \cup {[trade |-> Current(p), account |-> a]}
    /\ IF toSend[p] = {a} THEN Goto(p, "balances", Accounts[Current(p)])
                          ELSE Goto(p, "entries", toSend[p] \ {a})
    /\ UNCHANGED <<version, settledAt, position, copy, balanceEvents, dropped, events>>

BalanceEvent(p, a) == [trade |-> Current(p), account |-> a, version |-> copy[p][a]]

\* HandleMessage returns nil after the last event.
PublishBalances(p, a) ==
    /\ stage[p] = "balances" /\ a \in toSend[p]
    /\ balanceEvents' = balanceEvents \cup {BalanceEvent(p, a)}
    /\ IF toSend[p] = {a}
       THEN /\ Goto(p, "settle", {}) /\ position' = [position EXCEPT ![p] = @ + 1]
            /\ copy' = [copy EXCEPT ![p] = <<>>]
       ELSE Goto(p, "balances", toSend[p] \ {a}) /\ UNCHANGED <<position, copy>>
    /\ UNCHANGED <<version, settledAt, entryEvents, dropped, events>>

Event == events < MaxEvents /\ events' = events + 1

\* An error of any call.  The message is read again, or passed by (KafkaConsumer).
HandleFails(p) ==
    /\ Pending(p) /\ Event
    /\ \/ UNCHANGED <<position, dropped>>
       \/ /\ position' = [position EXCEPT ![p] = @ + 1]
          /\ dropped' = dropped \cup {Current(p)}
    /\ Goto(p, "settle", {}) /\ copy' = [copy EXCEPT ![p] = <<>>]
    /\ UNCHANGED <<version, settledAt, topics>>

\* A rebalance or a restart before the offset is committed.
Redeliver(p) ==
    /\ stage[p] = "settle" /\ position[p] > 1 /\ Event
    /\ position' = [position EXCEPT ![p] = @ - 1]
    /\ UNCHANGED <<version, settledAt, handlers, topics, dropped>>

\* ReserveBalance and ReleaseBalance change balances without an event.
ReserveOrRelease(a) ==
    /\ Event
    /\ version' = [version EXCEPT ![a] = @ + 1]
    /\ UNCHANGED <<settledAt, position, handlers, topics, dropped>>

HandleMessage(p) ==
    \/ Settle(p) \/ ReadEntries(p) \/ ReadBalances(p)
    \/ \E a \in Account : PublishEntries(p, a) \/ PublishBalances(p, a)

SettlementNext ==
    \/ \E p \in Partition : HandleMessage(p) \/ HandleFails(p) \/ Redeliver(p)
    \/ \E a \in Account : ReserveOrRelease(a)

\* Every partition's claim has a goroutine.
SettlementSpec ==
    /\ SettlementInit /\ [][SettlementNext]_settlementVars
    /\ \A p \in Partition : WF_settlementVars(HandleMessage(p))

-----------------------------------------------------------------------------
\* A published balance is one the account had after the trade of the event was
\* settled and that exists, whatever was redelivered or interleaved: never one
\* from before the trade.
UpdateIncludesTrade ==
    \A e \in balanceEvents :
        /\ Settled(e.trade)
        /\ settledAt[e.trade][1][e.account] <= e.version
        /\ e.version <= version[e.account]

\* A settlement whose events a fault interrupted is published by the retry:
\* every settled trade is published or given up with an error.
SettledIsPublished ==
    \A t \in Trade :
        Settled(t) ~> \/ t \in dropped
                      \/ \A a \in Accounts[t] : \E e \in balanceEvents :
                            e.trade = t /\ e.account = a
=============================================================================
