# A verification project for goex

goex is a small exchange written in Go: services that talk over gRPC and Kafka and
keep their state in Postgres. This directory holds TLA+ specifications of the parts
with interesting state, TLC configurations that check them on small instances, and
proofs of the most important results for every instance, checked by TLAPS.
`PROJECT.json` is the index: components, runs, the source lines of every definition,
findings, hazards and theorems. Paths below are relative to `src/`.

## 1. The system

| part | state | operations that change it | module |
|---|---|---|---|
| order-ingest (`services/order-ingest`) | table `orders`, its marks in `processed_events` | SubmitOrder, CancelOrder, ApplyTradeExecution | `OrderIngest` |
| ledger store (`services/ledger/internal/storage`) | `ledger_accounts`, `balance_reservations`, `ledger_entries`, its marks in `processed_events` | ReserveBalance, ReleaseReservation, ApplySettlement | `Ledger`, `LedgerTx` |
| ledger consumer (`services/ledger/internal/consumer`) | position in `trades.executed` | HandleMessage | `SettlementConsumer` |
| order book (`services/matching/internal/engine`) | price levels in memory | MatchOrder, RemoveOrder, AddOrder | `OrderBook`, `Matcher` |
| matching service (`services/matching`) | books, two bounded dedupers, positions in two topics | accepted and cancelled handlers, LoadSnapshot | `MatchingEngine` |
| Kafka consumer (`libs/kafka/consumer.go`) | retry tracker, marks, committed offset | ConsumeClaim | `KafkaConsumer` |
| risk (`services/risk`) | market cache, circuit breaker | PreTradeCheck, refresh loop | `RiskCheck` |
| fee (`services/fee`) | tier cache | resolveTier, refresh loop | `FeeTiers` |
| the ledger's fee quotes (`services/ledger/internal/storage`) | rate cache | calculateFee | `FeeQuote` |
| auth (`services/auth`) | table `refresh_tokens`, login limiter | Login, Refresh, Logout, Allow | `Auth` |
| user (`services/user`, `libs/apikey`) | tables `api_keys`, `audit_logs` | create, list and revoke keys; verification | `UserService` |
| cursor lists (order-ingest, user) | none; the client holds a cursor | ListOrders, ListAccounts, ListBalances | `Listing` |
| processes (`services/*/cmd`) | open resources, servers, consumer session | main, waitForShutdown, deferred closes | `Service` |
| the services together | all of the first five rows | an order from POST to settlement | `Exchange` |

An order goes this way. order-ingest looks up the idempotency key, asks risk, reserves
funds in the ledger, inserts the row and publishes `orders.accepted`. The matching
service matches it and publishes `trades.executed`. order-ingest applies the trade to
its rows and releases what a filled order did not use; the ledger settles the trade and
publishes `ledger.entries` and `balances.updated`. A cancellation changes the row,
releases the reservation and publishes `orders.cancelled`, which the matching service
reads independently of `orders.accepted`.

The behaviours that are hard to test, each listed at its line under "hazards" in
`PROJECT.json`:

- Kafka delivers at least once; what a service did before an error is done again.
- Every service writes in one place and then tells another. A crash or an error in
  between leaves the first write without the second.
- Two requests, two partitions or two topics meet in an order no test has written down.
- Transactions read rows into memory, compute, and write them back; what protects them
  is the order of their locks.
- Memory is bounded (dedupers) or stale (caches, a breaker with calls in flight).

## 2. The modules

Every module says at its head which code it models. A step is what the code does
without another actor being able to interfere: a transaction or one statement of it, a
call to another service, a publish, a critical section under a mutex. Amounts are
natural numbers (the code's decimals, scaled); names, ids and events are model values.

**Ledger.** The three transactions as atomic steps over the four tables. A
transaction that returns an error is rolled back, so an error path is the absence of a
step. ApplySettlement is modelled with its duplicate checks, netting of the entries, the
cover of both reservations and their consumption. The fee is any member of
`FeeAmounts`; where it comes from is FeeQuote.

**LedgerTx.** The same transactions statement by statement under READ COMMITTED: the
duplicate checks, advisory locks, `SELECT ... FOR UPDATE` rows, and the commit. Its
database variables are Ledger's, so `Serializable` is Ledger's own specification as a
property: every concurrent execution has the effect of atomic transactions.

**OrderBook, Matcher.** OrderBook states price-time priority with self-trade prevention
declaratively: a book is a set of resting orders and the relation "came before", and a
MatchOrder is one step. Matcher has the loops of `MatchOrder` and `canFill`, one
iteration per step, under the book's mutex; `PriceTimePriority` says it implements
OrderBook.

**KafkaConsumer.** ConsumeClaim over one partition: handler results, the retry tracker
with its time to live, the dead-letter topic, marks; commits, rebalances and crashes
are the environment (sarama and the broker are external).

**MatchingEngine.** The two handlers of the matching service, the dedupers with
eviction, the publishing of trades one by one, and LoadSnapshot: replace the book,
query, add row by row. It extends OrderBook and takes delivery from what KafkaConsumer
shows: messages are handled in order from the committed offset, and again after a
rebalance or a crash. order-ingest's side, which the snapshot reads, is
a fill count that follows the tape.

**OrderIngest.** Each POST, each DELETE and the trade consumer is a process; each call
to the table, the ledger or Kafka is a step that may fail, or be done and then reported
as failed. Trades may be redelivered and, with `Excess`, exceed the order.

**SettlementConsumer.** One handler per partition: settle, read balances (on a
redelivery), publish entries, publish balances account by account. A balance is
abstracted to its version, so "the event carries a balance that includes the trade" is
a comparison of numbers.

**RiskCheck, FeeTiers.** Concurrent calls and a refresh loop whose query and
installation are two steps. The breaker's clock is kept as time left, so it needs no
bound. FeeTiers has the cache's map, its threshold list and the search over it.

**FeeQuote.** `calculateFee` for the maker and the taker under one deadline: three
attempts with their timeouts and backoff, then the cached rate, then no fee. It extends
FeeTiers, whose callers are the attempts: one that timed out may still be running there.

**Auth.** Each request is a process and each call of the store a step; RotateToken is
one transaction. Both limiters stand in front of login as alternatives; the memory
limiter is given a clock reading that may be older than its lock.

**Listing, UserService.** A client's walk through pages while rows are inserted and
balances move to the end of the list; rows may share a key, as the balances of an
account do. UserService adds API keys that are created, revoked and verified by
concurrent requests, each writing its audit row after its own statement.

**Service.** A process from the first step of `main` to its end: resources opened in
order, their deferred closes, servers, readiness, `waitForShutdown` with its deadline,
`os.Exit`, crashes and restarts. The steps of the eight mains are data (`Programs`). The
consumer inside is KafkaConsumer, whose topic outlives the process.

**Exchange.** order-ingest, the ledger and the matching engine composed: Ledger's
transactions and OrderBook's `BookAfter` are used as they are, and the services are
joined by the topics they write and read. Nothing fails there, since the components'
own modules have the faults; what is explored is the order in which the services act.

An `MC*` module gives the constants of its component values that a .cfg cannot write;
the .cfg files set bounds and choose properties. Operators that a map entry does not
name and that precede a definition as a variant of it (a dropped guard, an off-by-one)
are its mutants: with the variant in the definition's place the property named in
`PROJECT.json` fails, which shows the property depends on that code.

## 3. The runs

"Faults" are failing calls and publishes, crashes and rebalances.

| run | instance | what it shows |
|---|---|---|
| `ledger` | two bids of one account, an ask of another, two trades, one of them also under a second event id, one settlement without a taker order, fees 0 and 1 | balances are explained by the entries; one settlement per trade, and a processed event is settled; locked funds back the active reservations, up to the two exceptions `LockedBacksReservations` names |
| `ledger_tx` | three batches of overlapping transactions: a repeated reserve, a release and two settlements of one trade; three settlements of one trade under two event ids; and two settlements with the accounts in opposite roles next to four reserves and a release; every transaction may fail at any statement | `Serializable`; the lock order is not circular |
| `matcher` | nine orders on two prices, limit and market, GTC, IOC and FOK, two accounts and the empty one | the loops implement price-time priority with self-trade prevention and all-or-nothing FOK; the book is not crossed; MatchOrder returns |
| `engine` | three orders, dedupers of 1 and 2 entries; two cancellations and two rebalances, or one cancellation with a failing publish, a crash and a snapshot | redelivery matches an order once, book and tape agree and a removed order does not return until a publish fails or memory is lost; whatever fails, the tape has no gaps |
| `ingest` | two requests with one key, a third with another, two deletes on any of them, a trade in excess, one fault | one order per key, open orders funded, fills applied once, terminal states stay; until a fault comes no reservation is left behind and the funds of finished orders are freed |
| `settlement` | two partitions, three trades that share accounts, two events (faults or balance changes) | no event older than its trade; a settled trade is published when it comes again |
| `risk` | two calls, threshold 2, cooldown 2 | late results do not keep it open; a closed market is denied in the end |
| `fees` | two calls and two volumes while two rows of one rate come and go; or a ledger that quotes while the rate of its tier changes | a search of the cache finds what the query would on the cached rows; quoting is bounded in time; the fee service's cache converges and the ledger's old rates die out |
| `auth` | four requests of two users from one address, four tokens, one fault, each limiter | one live token per session but for requests that overlapped; an ended session stays ended; at most twice the limit in a window |
| `user` | five rows, two of them with one key, pages of two; or up to three requests on keys that may share a prefix, and a verification | a walk misses only rows with a cursor's key; after a revocation only earlier lookups are accepted |
| `service` | each of the eight mains, two messages of which one is poison, two attempts, three faults | handlers have their resources; a signal ends the process; nothing is passed over unseen; only failures keep the group behind |
| `exchange` | an ask of two and two bids, one of them IOC, of an account that cannot pay for both; up to two DELETEs of one order | at rest, locked funds are those of open orders and the book agrees with the table; a trade stays unpaid only where funds were released before; the services come to rest |

### Why the bounds are enough

The bounds are the smallest at which each behaviour meets the others. Two orders of
one account are needed for one order's settlement to touch the other's funds; one
trade under two ids for a duplicate; two levels and two orders on each for the loops
to cross a level with own and foreign orders; two attempts and three faults for a
restart between them; four requests for two rotations, a logout and the login they
start from; a bid better than the ask for a fill that leaves a rest to release; dedupers smaller than the number of orders for
eviction, with `MaxLag` at what they can remember (the code's 100000 and 200000
against sarama's one-second commits). The runs that would be too large with every
disturbance at once choose among alternatives in Init (`Budgets`, `Batches`,
`Targets`, `Clients`, `Limiters`, `Programs`), each of which holds the disturbances that can interact. In `fees` and `user` a state
constraint (`Bounded`) keeps the two alternatives of the run apart and small. Every property has
a mutant that these instances reject. Deadlock checking is off where the system really
comes to rest (all messages handled, all requests answered).

### Fairness

Weak fairness on a step means that the goroutine running it is scheduled and its call
returns; the Go scheduler, sarama's session loop and the periodic offset commit provide
that. It is assumed of the matcher's loop (`Step`), ConsumeClaim and Commit, the
matching handlers, each request and the trade consumer of order-ingest, the settlement
handlers, calls in progress and the refresh loops of risk and fee, and the clock; of the steps of
a starting or stopping process, its timer, its session loop and calls that are not
stuck; and in Exchange of the system as a whole: while a request or a consumer has
something to do, something is done. In FeeQuote a cached rate expires unless
another answer renews it (`RateChanges`). No
fairness is assumed of faults, clients, rebalances, snapshots or table changes.
LedgerTx needs none: `NoDeadlock` says that of the transactions that have begun one can
always take its next statement, and each has finitely many.

### Where the code and its documents disagree, and what is therefore conditional

No run expects a violation. The places where a document or the obvious property does
not hold are these; the properties that are checked name the exceptions.

- `docs/runbook.md` says that failed messages are published to the `dead_letter` topic.
  When that publish itself fails, or before the retry budget is used up, the loop goes
  on (`libs/kafka/consumer.go:154`), the next message's mark passes the failed one, and
  it is in no topic the group will read again. `NoneUnseen` promises only that the
  handler was given it, and Exchange's `PassTrade` is this step.
- A second ReleaseReservation of one order frees funds locked for another, and leaves no
  entry. `LockedBacksReservations` names this step, and a debit beyond an order's own
  cover, as its only exceptions.
- Of two overlapping settlements of one trade the second ends in an error and not in
  "already processed": `isUniqueViolation` tests for the `PgError` of another driver
  package than the pool's. `Serializable` shows that balances and marks are right.
- After a failing publish an order is matched again and its trades take the ids of the
  first ones. `MatchedOnce` and `BookAgreesWithTape` hold up to that point, `NoGaps`
  always.
- A cancellation handled before its acceptance is forgotten. `NeverReturns` speaks of
  orders that were matched.
- LoadSnapshot reads rows with status open, so an order that rests but has not traded
  (its row is pending) is dropped from the book. It is modelled so; no property is
  claimed of the book it leaves.
- A second DELETE of a cancelled order releases again and takes from the account's
  other orders. `Reconciled` and `UnpaidWasReleased` except accounts of such orders.
- What is left of an IOC or FOK order is dropped by the book without an event; the row
  stays open and its funds stay locked. `BookAgreesWithTable` speaks of GTC orders, and
  `Reconciled` counts such a row as open.
- order-ingest releases a filled or cancelled order without waiting for the ledger.
  A settlement that comes later pays from what is available, or is not paid:
  `UnpaidWasReleased` says that this is the only way.
- RotateToken does not look again whether the token it replaces is still live.
  `OneLivePerSession` allows one more token for each rotation of this kind, and
  `EndedStaysEnded` names the refreshes that looked their token up before.
- A key is judged by the copy of its record that was read (`libs/apikey`).
  `LateUseWasLookedUpBefore` says that only lookups from before a revocation succeed.
- A fixed window admits twice the limit around its reset: `AtMostTwiceTheLimit`.
- matching's GracefulStop has no deadline: `ShutdownEnds` excepts a call of it that is
  stuck, and an HTTP request that is.
- A concurrent retry can be answered "rejected" while the key's order lives.
  `OneOrderPerKey` is about orders, not answers.
- A trade with an order cancelled meanwhile is refused for both sides.
  `BookAgreesWithTable` excepts orders with such a trade.
- A redelivered trade publishes the balances of that moment under the first event's
  id. `UpdateIncludesTrade` says that neither is older than the trade.
- The row whose key is the cursor is on no page. `MissesOnlyCursors` says that no other
  row is missed.

## 4. The proofs

Every theorem holds for all values of the constants that satisfy the module's named
assumption, which states what the code guarantees of its inputs (positive quantities, distinct
names, requests of the declared form). TLC evaluates each assumption on its run.

**LedgerProofs** (`LedgerAssumption`). The inductive invariant is `TypeOK` with
`ReservationsWithinAmount`. Types alone are not inductive: a reservation consumed beyond
its amount would make a release hand out a negative amount. Lemmas bound the netted
entries and the split of a debit into locked and available. From the invariant follow
`TypeCorrect`, `ReservationsSafe`, and the action properties `SettledOnce` and
`ReservationsShrink`; `ProcessedEventsAreSettled` needs in addition that a netted
settlement has an entry different from zero; `EntriesBalance` is about the
entries of one settlement between two traders and the fee account.

**MatcherProofs** (`MatcherAssumption`). `BookNotCrossed`, `TradesAreFair` and
`RestingOrdersOpen`. That nothing is left crossed cannot be seen from the book in the
middle of the loops; `MatcherInv` says where the orders are that the taker can still
trade with: while it has something left, each is in the rest of the current level
(`walk`) or on a level still to come, and what is walked crosses the taker's price.

**KafkaConsumerProofs** (`ConsumerAssumption`). `NothingUnseen` and
`RetriesBeforeDLQ`, for any partition, retry budget and number of faults.
`ConsumerInv` adds that everything below the loop's position was given to the handler
and that the tracker never counts more attempts than there were errors.

**OrderIngestProofs** (`IngestAssumption`). `OneOrderPerClientId`, `OpenOrdersFunded`,
`TerminalOrdersStay`, `IngestTypeCorrect`, `TradesAppliedOnce` and `NothingLeaks`, for any
number of requests, deletes and faults. `OpenIsFunded` is not inductive because a release is decided in one step and done
in a later one: `ReleasersSaw` records, for every process about to release, the state
of the row that let it decide so and that cannot change back; `FundedOrders` extends
funding to requests between their reservation and their insert. `OnceInv` adds that what
is processed is on the tape, so that an order's trades are a finite set that grows by
one; `LeakInv` adds that nothing is reserved before the ledger is asked, and that every
other reservation belongs to an open row or to somebody about to release it.

**SettlementConsumerProofs** (its own `ConsumerAssumption`). `UpdatesIncludeTrades`. A
handler reads balances in one step and publishes them in later ones, while other
partitions settle: `SettlementInv` says that what every handler holds includes its trade,
and the proof is that balances only go on and settlements stay (`LedgerGoesOn`).

**ServiceProofs** (`ServiceAssumption`). `ServiceStep` shows that every step of a process
is a step of its consumer or leaves the topic alone, so that `ConsumerInv` is an
invariant of every service; `ServicesPassNothingUnseen` and `ServicesRetryBeforeDLQ` follow.

**AuthProofs** (`AuthAssumption`). `SessionsEnd` and `OneLiveToken`. A request looks its
token up in one step and rotates it in a later one: `AuthInv` says that a request about
to rotate found its token live or read the clock before its revocation, which is what
`EndedStaysEnded` asks of it. `SessionInv` adds that sessions begin with an existing
token; that a step adds at most as many live tokens as it makes late ones, or takes a
live one away, is the lemma `Counts` on cardinalities.

**UserServiceProofs**. `RevokedKeysRefused`. `UserInv` says of every verification under
way that its copy of the key was read before the revocation, if the copy is not revoked.

## 5. What is only model-checked

- Liveness under fairness: `Returns`, `OnlyFailuresLag`, `ShutdownEnds`, `FundsFreed`,
  `SettledIsPublished`, `BreakerRecovers`, `ClosedMarketIsDenied`, `CacheConverges`,
  `OldRatesDieOut`, `ComesToRest`. The prover has no support for it.
- Properties that sum over sets of rows or orders: `JournalExplainsBalances`,
  `LockedBacksReservations`, `BookAgreesWithTape`, `Reconciled`. They need induction over
  the set, which is out of the prover's reach.
- The two refinements, `Serializable` and `PriceTimePriority` (the second also sums).
- The other properties of MatchingEngine, FeeTiers, FeeQuote, Listing, Service and
  Exchange, and `AtMostTwiceTheLimit` and `NoDeadlock`.

## 6. What is not modelled

- Hashing, signing, parsing and validation of one request: functions without state.
- Logging, metrics, tracing and configuration, and the handlers of health endpoints (the
  readiness flag they report is in Service).
- Decimal arithmetic: amounts are integers, and the scaling and rounding of the code's
  decimals is not represented. The product of rate and amount of the fee service is one
  such computation.
- The Kafka producer and the payloads of events: a publish is one step that succeeds or
  fails. Generated protobuf code.
- Postgres, Kafka, sarama and Redis, beyond the guarantees the code relies on: atomic
  commit, row and advisory locks, unique indexes; order within a partition,
  at-least-once delivery.
- Faults in Exchange: crashes, rebalances and failing calls multiplied over three services
  are beyond TLC, and are checked in each service's own module.
- Seed data, test helpers, and the services that the architecture document describes
  without code.

What is left of the code is of these kinds, so no further component is planned. The
proofs could be taken further: `NoDeadlock` of LedgerTx (locks are taken in one global
order) and `MatchedOnce` of MatchingEngine state no sums and look within the prover's
reach.
