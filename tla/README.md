# mini-exchange: TLA+ models and proofs

A verification of the order choreography of mini-exchange: what the database transactions, the
Kafka consumer loop, the two services that settle an order and the one that audits it do, step by
step, with restarts, redeliveries, failing calls and concurrent transactions. TLC checks every module
on small instances; TLAPS proves every invariant and every safety property those runs check, for
any number of users, orders, events, transactions, restarts and failures (three of them under a hypothesis
that is stated with the theorem).

    tlc -config OrderSaga.cfg MCOrderSaga.tla
    tlapm PortfolioStore_proofs.tla

## The system

| Component | State it keeps | Operations | Talks to |
| --- | --- | --- | --- |
| Portfolio Service, intake (`portfolio-service/src/main.rs`) | none of its own | `POST /orders`: validate, look for the portfolio, insert the row, send `OrderCreated`, answer 202; `GET` of portfolio and order | database, topic `order-created` |
| Portfolio Service, saga (`saga.rs`, group `portfolio-service`) | the message in hand | `on_price_quoted`: one transaction, then publish its outcome; `on_order_rejected`: one transaction | topics `price-quoted`, `order-rejected`, `order-executed`; database |
| Portfolio database (`repo.rs`, `migrations/`) | `users`, `portfolios`, `holdings`, `orders`, `processed_events` | `seed_demo`, `create_order`, `apply_price_quoted`, `apply_order_rejected`, reads | |
| Market Service (`market-service/src/main.rs`, group `market-service`) | the message in hand | `on_order_created`: quote and publish `PriceQuoted` or `OrderRejected`; REST prices | topics `order-created`, `price-quoted`, `order-rejected` |
| Price engine (`price.rs`) | catalog, failing symbols, band; constant while a process lives | `quote`, `price`, `all_prices` | |
| Kafka wrapper (`shared/src/kafka.rs`) | position (memory), committed offset (broker) | `EventProducer::send`, `EventConsumer::run` | |
| Audit Service (`audit-service/`) | `audit_events` | record every event, list those of an order | all four topics; database |
| Domain types, event contracts (`domain.rs`, `events.rs`) | | `Symbol::new`, `NewOrder::validate`, envelopes | |
| Scaffolding (`http.rs`, `db.rs`, `error.rs`, `signal.rs`, `telemetry.rs`) | | pure I/O | |

The services call nobody but their database and Kafka. An order advances by the chain
`POST` → `order-created` → market handler → `price-quoted` or `order-rejected` → portfolio handler
→ `order-executed` or `order-rejected`. The consumer loop of a service handles one message at a
time; the HTTP server of the same process runs concurrently with it.

What makes each component correct, and what is hard about it:

- **Database.** Balances and positions never go negative though nothing is reserved at intake; an
  event has its effect once; a terminal order is final; reseeding at every start changes nothing; cash
  and positions are what the trades add up to. Hard: several open orders of one user, late events on
  two unrelated topics, restarts in the middle of seeding, rounding to `NUMERIC(38,10)`.
- **Consumer loop.** No message is passed by the offset before it is handled; messages of a stream are
  handled in order; each is handled eventually. Hard: the position is in memory and the offset at the
  broker, commits are asynchronous and may be lost, an offset says nothing of single messages, a
  rejoin moves the position while a handler runs.
- **Choreography.** One execution for each order, at one price, announced once; an accepted order is
  resolved; offsets and ledger agree. Hard: transaction, send and commit are three steps, and a
  process may stop or a call fail between any two; a repeated quote has another price.
- **Concurrent transactions.** Those of several instances, and those a dead process left behind, take
  effect one by one although they lock rows in different orders and a client reads between them.
- **Audit.** The trail holds every event once, as it was sent, and never contradicts the orders. Hard: four
  topics are four unrelated streams, an event may come again, one insertion may fail and the next succeed.
- **Price engine.** A quote is within the band around its base price. Hard: rounding to cents.

The hazards, each at its line, are in `PROJECT.json`.

## The modules

| Module | Models |
| --- | --- |
| `PortfolioStore` | the portfolio database, one action for each transaction of `repo.rs` |
| `MCPortfolioStore` | its instance for TLC |
| `PortfolioStore_proofs`, `PortfolioLedger_proofs` | its theorems: types, solvency, finality; positions and balances |
| `SetSums` | sums over finite sets, with the lemmas that the balances need |
| `EventConsumer` | one consumer group of `kafka.rs`, to be composed |
| `EventDelivery` | `EventConsumer` with any producer and any handler |
| `MCEventDelivery`, `EventDelivery_proofs` | its instance and its theorems |
| `OrderLifecycle` | abstract: what a client is promised of an order |
| `OrderSaga` | `PortfolioStore` + the topics + two instances of `EventConsumer` + intake and both handlers |
| `MCOrderSaga`, `OrderSaga_proofs` | its instance and its theorems |
| `PortfolioTx` | the transactions of `PortfolioStore` statement by statement, several at once, and the `GET` handlers |
| `MCPortfolioTx`, `PortfolioTx_proofs` | its instance and its theorems |
| `AuditTrail` | `OrderSaga` + `EventDelivery` + the table of the Audit Service |
| `MCAuditTrail`, `AuditTrail_proofs` | its instance and its theorems |
| `PriceEngine` | the arithmetic of `price.rs`, with its theorems |

### PortfolioStore

A table is a function from the keys present to the rows: `cash` is `portfolios.cash_balance`,
`holdings` is keyed by user and symbol, `orders` by id, `processed` is the set of event ids in
`processed_events`. `users` is the table of that name; `startup` says which statement of `seed_demo`
is due, or that the process serves. `SeedUser`, `SeedPortfolio`, `SeedHolding` are those statements,
`Restart` stops the process anywhere. `CreateOrder` is the path of a `POST` to its row, `Accepts` its
refusals (validation, no portfolio, and the `CHECK (quantity > 0)` that a quantity fails when it rounds
to zero). `ApplyPriceQuoted` is the transaction of that name with its five outcomes as actions,
`ApplyOrderRejected` the other. A database error rolls back and changes nothing, so it needs no action.

Quantities of requests and products `price * qty` are counted in fine units, columns in units of
`Scale` of them; `ToColumn` rounds as Postgres does on assignment. A request's symbol is stored as the
client spelt it, because `Symbol`'s derived `Deserialize` does not go through `Symbol::new`; a row that
is read back is normalized (`Asset`). `PRICED`, `INVALID_ORDER` and `reserved_cash` are written by no
code and are left out, as are timestamps.

### EventConsumer and EventDelivery

A stream is one partition of one topic; offsets are counted as numbers of messages. `Recv` is
`recv().await`, `HandlerOk` the `Ok` branch with its asynchronous commit (landed or lost),
`HandlerErr` the `Err` branch, which leaves the in-memory position where it is. `Restart` starts a
process at the committed offsets, `Rejoin` is what the broker does to a consumer it had dropped:
positions are fetched again while the handler runs on. `EventDelivery` adds a producer, the outcome of the
handler and two histories, `handled` and `failed`.

### OrderSaga

The handlers of `main.rs` and `saga.rs` cut at their awaits: `PlaceOrder` (row), `Accept` (event and
answer) or `IntakeFails`; `MarketRecv`, then `MarketQuotes` or `MarketFails`; `PortfolioRecv`, then
`ApplyQuote` (transaction), then `EmitOutcome` or `EmitFails`; `ApplyRejection`; `TransactionFails` for
a database call that returns `Err`, with the transaction rolled back or committed with its answer lost. A
send that fails may have appended (`SendFails`): the timeout of the producer does not recall a record.
An event's id is the place where it is stored: a redelivery has the same id, an event emitted again
another one. Market and Portfolio restart and rejoin independently; a restarted Market may have another
`MARKET_FAIL_SYMBOLS`. A crash between the end of a handler and its commit is a lost commit followed by
the restart. `Faults` says which calls may fail in an instance. `QuotePanics` is the handler unwinding on
`price * qty` when the product exceeds `MaxDecimal`: the consumer task is gone (`consuming`), the HTTP
server stays.

### PortfolioTx

Extends `PortfolioStore`, whose variables become the committed state. A transaction is a worker: `step` is
its next statement, `event` what it applies, `verdict` and `written` what it has decided and written
but not committed, `locks` the rows it holds. `Wanted` says which rows a statement locks or inserts; a
statement runs when no other transaction holds one of them (`Granted`) and then sees what is committed, as at
READ COMMITTED. `MarkEvent` inserts into the ledger and waits for another transaction that has inserted
the same event; `SELECT ... FOR UPDATE` of a row that does not exist locks nothing and waits for nobody.
`Settle` is the pair of updates: a BUY waits for the holding while it has the portfolio, a SELL the other
way round. `DeadlockVictim` is Postgres cancelling one statement of a circle, `Rollback` any failure or a lost
process, `Panic` the overflow. The tables start seeded: seeding again does nothing, which
`PortfolioStore` shows. An event is begun only once its order is committed, since an event is sent
because of its order. `GetOrder`, `ReadBalance` and `ReadHoldings` are the queries of the two `GET` handlers, the
last two the unprotected pair in `get_portfolio`.

### AuditTrail

Extends `OrderSaga` and changes none of its variables. The consumer is `EventDelivery` instantiated over
all four topics, so what is proved of that module applies; `trail` is the table `audit_events` in the order
of its serial key. `Record` is `record_event` inserting (`ON CONFLICT DO NOTHING`) and returning `Ok`,
`RecordFails` the insertion returning `Err`, with the row stored or not. `list_for_order` is the
subsequence of an order.

### PriceEngine

`Jitter` multiplies the base price by the drawn factor and rounds to cents, ties to even, as
`Decimal::round_dp` does; `Quote` and `GetPrice` are the answers of `quote` and of the route. There is no state to
explore, so the module has theorems and no run.

## What the runs check

| Run | Shows |
| --- | --- |
| `portfolioStore` | types and references; `Solvent`; `HoldingsMatchTrades` and `CashTracksTrades` (positions and cash are the seed plus the trades, cash up to half a unit of the column for each); `EveryResolutionLogged`; `TerminalIsFinal`; `MoneyMovesOnlyBySettlement` |
| `eventDelivery` | `CommittedImpliesTried`, `TriedInOrder`, and that every message is tried, with failing handlers |
| `orderSaga` | no failing call, repeated and conflicting quotes: `ExecutionAnnouncedOnce`, `FirstQuoteWins`, `CommittedIsProcessed` |
| `orderSagaLifecycle` | `OrderSaga` implements `OrderLifecycle` under the mapping in `OrderSaga`, its liveness included: an accepted order is resolved |
| `orderSagaFaults` | with every call failing at will, the safety part of that refinement, and `OutcomeLostOnlyInGap`: what a quote has decided is told or about to be, unless the process stops or a call returns `Err` between the transaction and the acknowledged send |
| `portfolioTx` | `ImplementsStore`: every commit is a transaction of `PortfolioStore` on the state it finds; `TransactionsEnd` in spite of deadlocks; `Solvent` under concurrency; `FindingsHold`: what a handler has read and compared is still so when it commits; `NoDoubleSpend`: no two transactions have both decided to spend from one balance or position; `PortfolioShowsWhatWasTold`: the two reads of `GET /portfolio` |
| `auditTrail` | `TrailIsFaithful` (once, unaltered), `PassedIsRecorded` (the offset passes nothing unrecorded but what failed), `TopicOrderKept`, `TrailAgreesWithOrders` |

`ImplementsStore` has one exception, stated as an action of its own (`RejectPhantomSell`). A SELL of a
symbol of which the user has no row locks nothing; a BUY may commit the first purchase before the SELL
commits its rejection. The outcome is that of the SELL coming first, so nothing is wrong with the tables, but
the rejection is committed in a state in which the position would have covered it.

`PortfolioShowsWhatWasTold` is as much as `get_portfolio` gives: cash and holdings may be of two
moments, so that a purchase shows in the holdings and not in the cash, but never earlier than what
`GET /orders` has told the same client.

Five runs end in a violation on purpose; each states what the repository says of itself:

| Run | The text | The code |
| --- | --- | --- |
| `eventDeliveryErr` | `kafka.rs:124-125`: on `Err` the message "is left uncommitted and will be redelivered" | the next `Ok` of the partition commits past it; a restart does not bring it back either |
| `orderSagaStuck` | `portfolio-service/src/main.rs:121-123`: the result "is resolved asynchronously by the saga" | `price * qty` panics when no Decimal holds the product; the consumer task dies while HTTP serves: the accepted order stays in `CREATED` (in the code, though not in the trace, a later process is delivered the same quote: its offset was not committed) |
| `auditTrailOrder` | `events.rs:7-8`: "all events for one order share a partition and stay ordered"; `audit-service/src/main.rs:7`: "all recorded events for an order, in order" | one partition of each of four topics: a trail may begin with `PRICE_QUOTED`, with nothing failing |
| `orderSagaUnemitted` | `domain.rs:81`: `CREATED` is "Persisted, `OrderCreated` emitted" | a failed send leaves the row without its event, and nothing emits it later |
| `portfolioStoreSymbols` | `domain.rs:188`: "symbol must not be empty" | a symbol of blanks is accepted and stored |

Also seen, and told by the properties that do hold: "exact decimal money" (README) is exact up to half a
unit of 10^-10 for each settlement (`CashTracksTrades`); an outcome event is lost not only by a crash in
the gap the README names, but by any call in it that fails (`OutcomeLostOnlyInGap`, which is violated if
any of its three exceptions is dropped); "prices move on every request" (`price.rs:3-5`) is not so for DOGE, and the band of two
per cent not for ADA (`CheapSymbols`); an order that was executed may have a `MARKET_UNAVAILABLE` in its
trail, against `events.rs:110`, when `OrderCreated` was handled before and after a restart with another
`MARKET_FAIL_SYMBOLS`.

### Bounds

- `portfolioStore`: three orders of two users (and a third user without portfolio), three events, two
  prices, nine requests of which four are refused. Three orders are the least with a purchase, a
  sale of what was bought and a third order in flight; three events give each order one, or one order a
  quote, a duplicate and a late rejection. `Scale = 3` makes values that round up and down; starting cash
  of 2 makes the same order affordable or not by its price. Orders and events are interchangeable
  (symmetry).
- `eventDelivery`: two streams of three messages, two errors, two disruptions: an error before and
  after a success on the same stream, a disruption before and after a lost commit, and another stream
  whose commits must not matter.
- `orderSaga`, `orderSagaFaults`: two orders on one partition (the offset of one passes messages of
  the other), two prices, of which one leaves the second order without cash; two disruptions (one under
  faults) are what it takes to quote an order twice and to stop the portfolio handler between its
  transaction and its commit.
- `orderSagaLifecycle`: two orders on two partitions, one disruption, no symmetry because of liveness.
- `orderSagaStuck`: `MaxDecimal = 1` below the only price; one restart, which does not help.
- `portfolioTx`: two transactions are what a deadlock, a double check or a double settlement takes; two
  orders of one user, each a BUY or a SELL of the seeded symbol or of one without a row; of the four
  events two are for each order, at an affordable price, at all the cash, at an overflowing one, and a
  rejection. Events are delivered any number of times. No bound on failures, no symmetry (liveness).
- `auditTrail`: one order, executed or rejected by its quantity, so that the topics hold the events of a
  repeated quote and the interleavings are of topics, not of orders; one restart in the saga, one
  disruption and one error in the audit. The market lists the symbol, has one price and never fails.
  That a market rejection stands beside an outcome of the Portfolio Service, with two prices, is in
  `orderSaga` (`ExecutionAnnouncedOnce`) and `orderSagaFaults` (`OutcomeLostOnlyInGap`), which look at the
  topics themselves; for the trail the theorem `TrailIsTrue` has it.
  `auditTrailOrder`: the same with no failure of any kind.

### Fairness

`EventDelivery` and `OrderSaga` assume weak fairness of receiving and of handlers coming to an end: the
tasks run on tokio, sends end after `message.timeout.ms`, database calls end or fail. No fairness is assumed
of clients, failures, restarts or rejoins, and `OrderSaga` assumes none of a failing call being
repeated, because no code repeats it. `PortfolioTx` assumes strong fairness of the statements of a
transaction, because a statement that waits for a lock is enabled on and off and Postgres grants a lock
in the order of the queue, and weak fairness of the deadlock detector. `AuditTrail` is checked for safety: the
liveness of its consumer is `EventuallyTried` of `EventDelivery`. The number of restarts is bounded: a service that crashes for ever
resolves nothing. `CHECK_DEADLOCK FALSE` stands where the system may come to rest: all orders
resolved, all messages handled.

## What is proved

Each theorem is for any values of the constants under the assumptions named in the modules
(`StoreAssumption`, `TxAssumption`, `DeliveryAssumption`, `SagaAssumption`, and the instances of them
that a composed module needs: `StoreConstants`, `DeliveryConstants`, `IdleAssumption`). They say what
type a constant has, that `Null` and `Idle` are no data, and that normalizing a symbol twice is normalizing
it once.

### The database

`PortfolioStore_proofs`:

- `TypeCorrect` and `NeverOverdrawn`: `TypeOK` and `Solvent` together are inductive. Solvency needs types
  (an order's quantity is a positive natural, its owner has a portfolio), and the type of `cash` needs
  solvency: what a purchase leaves is rounded from a value that must not be negative (`ToColumnNat`). A
  sale needs the position to exist; `Covered` gives it because no order is for a zero quantity.
- `Finality`: `CreateOrder` writes a new key, `MarkExecuted` and `MarkRejected` an open order, nothing
  else writes `orders`.
- `SettlementOnly`: a step that moves cash or assets executes one open order and touches only its owner's
  rows; and an execution always moves the position.

`SetSums` and `PortfolioLedger_proofs`. The balances are sums over sets, which the community modules
define by a fold that picks elements in an order of its own. `SetSums` shows that the order does not
matter (`FoldRemove`), that the sum is determined by the values (`SumUnique`) and that one element more
adds its value (`SumAdd`). The induction it takes is over the subsets of a finite set: of the subsets
that would be counterexamples one is minimal (`MinimalSubset`). `PaidSum` and `MovedSum` then tie
`MapThenSumSet` to that sum. The invariant is `BooksInv`: every step is one of six kinds (`StepKinds`),
of which a settlement alone adds an order to the executed ones.

- `PositionsMatch`: besides the equation, an executed order's position exists and the demo position
  does before the service serves, so that seeding again finds it.
- `BalancesMatch`: a settlement rounds once, by at most half a unit (`ToColumnNear`, `DriftSettle`), and is
  one trade more to explain that (`OneMore`).
- `BalancesExact`: where amounts are whole units of the column (`Scale = 1`), the drift is zero.
- `ResolutionLogged`: each resolution uses up an event, each event resolves at most one order.

### Concurrent transactions

`PortfolioTx_proofs`. The invariant is `TxInv`. A row has one holder (`LocksExclusive`); a transaction
holds the row of every fact it relies on, from the statement that found it (`Progress`); another
transaction's commit leaves rows alone that it has not locked, so the facts stay (`FindingsHold`).

- `TxTypeCorrect`, `NoStaleDecision`.
- `OneSpender`: `NoDoubleSpend`. Whoever has decided to execute holds the row it compared (`Progress`), which
  is what `FOR UPDATE` adds: without it two transactions decide upon one balance (the mutant `CheckUnlocked`).
- `Serializable`: `ImplementsStore`, statement by statement. A commit whose facts hold is a step of
  `PortfolioStore` on the committed state; all other statements change none of its variables; the late
  rejection of a sale is the exception, as it is in the property.
- `TxNeverOverdrawn`, `TxFinality`, `TxSettlementOnly`, `TxBooksKept`: what is proved of `PortfolioStore`
  carries over by that refinement, the exception being a rejection like any other.
- `AnswersExplained`: `PortfolioShowsWhatWasTold`, where `Scale = 1`, as the property itself takes amounts
  without rounding. `ClientKnows` keeps the set of trades that the balance was read after: executed
  orders are final, so that set and its sums stay what they were while others commit (`AfterKept`),
  and at the moment of a read all trades of a user give the tables (`AllTrades`).

### The consumer loop

`EventDelivery_proofs`, for any streams, events and bounds. The inductive
invariant adds to `CommittedImpliesTried` that everything delivered was tried or is in hand, and that
everything before the message in hand was tried, which a commit relies on once a rejoin has set the
position back behind it.

- `TypeCorrect`, `NothingSkippedUntried`, `InOrder`.
- `AtLeastOnce`: with `MaxErrors = 0` the doc comment of `run` holds, `CommittedImpliesHandled`. One
  failing handler is enough to break it (`eventDeliveryErr`).

### The choreography

`OrderSaga_proofs`, for any orders, partitions, prices and restarts and, but for the two theorems that
say otherwise, any `Faults`.

- `SagaTypeCorrect`. `SagaInv` says besides that every message and the outcome to be published are about
  orders that exist, and that a handler's message lies at its place in the log.
- `SagaUsesStore`: the choreography implements `PortfolioStore` at work, so `SagaKeepsBooks`: solvency,
  positions, balances and finality hold under it.
- `OffsetsBehindLedger`: `CommittedIsProcessed` **when no database call fails** (`"database" \notin
  Faults`). `Progress` is to the ledger what the invariant of `EventDelivery` is to the handlers. The
  hypothesis is needed: an `Err` of the transaction leaves the position where it is, and the next `Ok`
  passes an event that is in no ledger.
- `FirstQuoteDecides`: `FirstQuoteWins` under the same hypothesis, as a first quote whose transaction failed
  is passed over and the second decides. An event in the ledger has resolved its order
  (`LedgerResolved`), so a quote that finds its order open is the first of it (`DecidingIsFirst`).
- `ExecutionToldOnce`: `ExecutionAnnouncedOnce`. Announcements agree with the row (`TopicsAgree`), and an
  outcome waiting to be published has not been (`ToldOnce`).
- `LostOnlyInGap`: `OutcomeLostOnlyInGap`. The transaction that decides leaves its outcome with the handler
  (`DecidingTells`), the handler lets go of it by publishing (`BeingToldNext`), and what a topic has it
  keeps (`ToldKept`).
- `LifecycleKept`: the safety part of the refinement of `OrderLifecycle`, one lemma for each kind of
  step.

### The audit

`AuditTrail_proofs`. The saga's steps are steps of the producer of the consumer's model (`SagaInv` says the
logs only grow), its own are steps of the loop; so the invariants of `EventDelivery_proofs` hold of it, and
`AuditInv` adds `handled \subseteq Recorded \subseteq Tried`: an `Ok` has a row, a row had its attempt.

- `AuditTypeCorrect`, `RowsAreEvents` (`TrailIsFaithful`), `NothingUnrecorded` (`PassedIsRecorded`).
- `TrailInOrder`: an event newly tried comes after everything tried of its stream, so its row does.
- `TrailIsTrue`: `TrailAgreesWithOrders`, since rows are events and events agree with orders.

### The price engine

`PriceEngine`, with no assumption, for every base price and every draw of the jitter:

- `NearestCent` bounds the rounding, `DrawnInBand` the value before it; `QuoteNearBand` adds the two: within
  the band and half a cent, and never zero.
- `QuoteInBand`: for base prices of whole half dollars the ends of the band are whole cents, and
  rounding cannot leave it. `CheapSymbols`: what happens to the others.

### Only model-checked

Liveness: `EventuallyTried`, `TransactionsEnd` and the liveness of `OrderLifecycle`
(`orderSagaLifecycle`), because the prover handles neither fairness nor `ENABLED`. The five runs that end in
a violation show what does not hold and have nothing to prove.

## Not modelled

Health and readiness routes, configuration, logging, JSON encoding (a message written by this code decodes),
table `users` beyond its keys, topic creation, `recv_event` (used by an example only), limits of the connection
pool, several audit processes at once (Kafka gives a partition to one of them), Kafka's and
Postgres' own failures beyond lost commits, timed-out sends and failed transactions. Kafka, librdkafka
and the SQL semantics are external and modelled from their use: a committed transaction is durable, an
acknowledged record stays, offsets are per partition.

Amounts are integers of any size. A product `price * qty` is exact until it is no Decimal at all
(`Representable`), while `rust_decimal` rounds a product of more than 28 digits before it overflows; and a
credit that overflows `NUMERIC(38,10)`, an SQL error that rolls its transaction back, has no action of
its own: it is one more `Err` of `TransactionFails` and `Rollback`. No case of a property depends on either.

## Plan

1. Done: the modules above, and theorems for all safety properties that the passing runs check.
2. Done: which announcements are lost (`OutcomeLostOnlyInGap`).
3. Open: the exception of `Serializable` in the order of the sale first: the tables after a late rejection
   are those of a run of `PortfolioStore` in which the rejection comes before the purchase.
