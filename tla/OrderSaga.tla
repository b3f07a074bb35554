------------------------------ MODULE OrderSaga ------------------------------
(***************************************************************************)
(* The choreography of an order: POST /orders in the Portfolio Service, the*)
(* topics, the consumer of the Market Service and the consumer of the      *)
(* Portfolio Service, with restarts of both, and sends and database calls  *)
(* that fail.  PortfolioStore gives the transactions, EventConsumer the    *)
(* consumer loop of each service.                                          *)
(*                                                                         *)
(* An event is known by where it is stored, <<stream, index>>: a redelivery*)
(* has the same event_id, an event that is emitted again has another one.  *)
(***************************************************************************)
EXTENDS Integers, Sequences, FiniteSets

CONSTANTS
  Users, DemoUser, Accounts, RawSymbols, Normalize, EmptySymbol, DemoSymbol,
  Requests, OrderIds, Prices, Scale, StartingCash, StartingHolding,
  MaxDecimal, Null,
  Partitions,    \* partitions of each topic
  PartitionOf,   \* where Kafka's hash of the key order_id leads
  Listed,        \* symbols of default_catalog
  FailSets,      \* values operators give to MARKET_FAIL_SYMBOLS
  Faults,        \* calls that may return Err, a subset of FaultKinds
  MaxRestarts,   \* bound: restarts and rejoins, of all consumers
  Idle           \* no message in hand, nothing to publish

FaultKinds == {"intake send", "market send", "portfolio send", "database"}

ASSUME SagaAssumption ==
  /\ PartitionOf \in [OrderIds -> Partitions]
  /\ Listed \subseteq RawSymbols
  /\ FailSets \subseteq SUBSET RawSymbols /\ FailSets # {}
  /\ Faults \subseteq FaultKinds
  /\ MaxRestarts \in Nat

Topics == {"order-created", "price-quoted", "order-executed", "order-rejected"}
Streams == Topics \X Partitions
MarketStreams == {"order-created"} \X Partitions
PortfolioStreams == {"price-quoted", "order-rejected"} \X Partitions

VARIABLES
  users, cash, holdings, orders, processed, startup,   \* PortfolioStore
  log,                                                 \* the topics
  mPosition, mCommitted, mCurrent,                     \* group market-service
  pPosition, pCommitted, pCurrent,                     \* group portfolio-service
  outcome,    \* committed outcome the portfolio handler has yet to publish
  intake,     \* where the POST of each order stands
  consuming,  \* the consumer task of the Portfolio Service has not panicked
  failing,    \* PriceEngine.failing of the running Market Service
  restarts    \* restarts and rejoins so far

storeVars == <<users, cash, holdings, orders, processed, startup>>
marketVars == <<mPosition, mCommitted, mCurrent>>
portfolioVars == <<pPosition, pCommitted, pCurrent>>
vars == <<storeVars, log, marketVars, portfolioVars,
          outcome, intake, consuming, failing, restarts>>

Store == INSTANCE PortfolioStore WITH EventIds <- Streams \X Nat
Market == INSTANCE EventConsumer WITH
  Streams <- MarketStreams, position <- mPosition,
  committed <- mCommitted, current <- mCurrent
Portfolio == INSTANCE EventConsumer WITH
  Streams <- PortfolioStreams, position <- pPosition,
  committed <- pCommitted, current <- pCurrent

\* The payloads of the four contracts, each with its topic and key.
Events ==
  [topic: {"order-created"}, order: OrderIds, symbol: RawSymbols]
    \cup [topic: {"price-quoted", "order-executed"}, order: OrderIds, price: Prices]
    \cup [topic: {"order-rejected"}, order: OrderIds, reason: Store!RejectionReason]

ASSUME StoreConstants == Store!StoreAssumption
ASSUME IdleAssumption == Idle \notin Events \cup Market!Unhandled \cup Portfolio!Unhandled

Init ==
  /\ Store!Init
  /\ log = [s \in Streams |-> <<>>]
  /\ Market!ConsumerInit
  /\ Portfolio!ConsumerInit
  /\ outcome = Idle
  /\ intake = [o \in OrderIds |-> "none"]
  /\ consuming = TRUE
  /\ failing \in FailSets
  /\ restarts = 0

\* EventProducer::send that succeeds, and one that returns Err: after a timeout
\* the record may be in the log all the same.
Send(event) ==
  log' = [log EXCEPT ![<<event.topic, PartitionOf[event.order]>>] = Append(@, event)]

SendFails(event) == Send(event) \/ UNCHANGED log

-----------------------------------------------------------------------------
(***************************************************************************)
(* create_order of the Portfolio Service: the row, then OrderCreated, then *)
(* the answer.                                                             *)
(***************************************************************************)
OrderCreated(o) ==
  [topic |-> "order-created", order |-> o, symbol |-> Store!Asset(o)]

PlaceOrder(o, req) ==
  /\ Store!CreateOrder(o, req)
  /\ intake' = [intake EXCEPT ![o] = "inserted"]
  /\ UNCHANGED <<log, marketVars, portfolioVars, outcome, consuming, failing, restarts>>

Accept(o) ==
  /\ intake[o] = "inserted"
  /\ Send(OrderCreated(o))
  /\ intake' = [intake EXCEPT ![o] = "accepted"]
  /\ UNCHANGED <<storeVars, marketVars, portfolioVars, outcome, consuming, failing, restarts>>

\* The send returns Err and the client gets a 500; or the client disconnects and
\* the handler is dropped.  The row stays.
IntakeFails(o) ==
  /\ "intake send" \in Faults
  /\ intake[o] = "inserted"
  /\ SendFails(OrderCreated(o))
  /\ intake' = [intake EXCEPT ![o] = "refused"]
  /\ UNCHANGED <<storeVars, marketVars, portfolioVars, outcome, consuming, failing, restarts>>

-----------------------------------------------------------------------------
(***************************************************************************)
(* The Market Service: on_order_created.                                   *)
(***************************************************************************)

\* PriceEngine::quote, and the event on_order_created makes of it.
Quotes(event) ==
  IF event.symbol \in failing THEN
    {[topic |-> "order-rejected", order |-> event.order,
      reason |-> "MARKET_UNAVAILABLE"]}
  ELSE IF event.symbol \notin Listed THEN
    {[topic |-> "order-rejected", order |-> event.order,
      reason |-> "UNKNOWN_SYMBOL"]}
  ELSE
    {[topic |-> "price-quoted", order |-> event.order, price |-> p] : p \in Prices}

MarketRecv ==
  /\ \E s \in MarketStreams : Market!Recv(s)
  /\ UNCHANGED <<storeVars, log, portfolioVars, outcome, intake, consuming, failing, restarts>>

MarketQuotes ==
  /\ mCurrent # Idle
  /\ \E event \in Quotes(Market!InHand) : Send(event)
  /\ Market!HandlerOk
  /\ UNCHANGED <<storeVars, portfolioVars, outcome, intake, consuming, failing, restarts>>

MarketFails ==
  /\ "market send" \in Faults
  /\ mCurrent # Idle
  /\ \E event \in Quotes(Market!InHand) : SendFails(event)
  /\ Market!HandlerErr
  /\ UNCHANGED <<storeVars, portfolioVars, outcome, intake, consuming, failing, restarts>>

\* Stopped or crashed and started, perhaps with another MARKET_FAIL_SYMBOLS.
MarketRestart ==
  /\ restarts < MaxRestarts
  /\ Market!Restart
  /\ failing' \in FailSets
  /\ restarts' = restarts + 1
  /\ UNCHANGED <<storeVars, log, portfolioVars, outcome, intake, consuming>>

MarketRejoin ==
  /\ restarts < MaxRestarts
  /\ Market!Rejoin
  /\ restarts' = restarts + 1
  /\ UNCHANGED <<storeVars, log, portfolioVars, outcome, intake, consuming, failing>>

-----------------------------------------------------------------------------
(***************************************************************************)
(* The Portfolio Service: dispatch, on_price_quoted, on_order_rejected.    *)
(***************************************************************************)
PortfolioRecv ==
  /\ startup = "serving" /\ consuming
  /\ \E s \in PortfolioStreams : Portfolio!Recv(s)
  /\ UNCHANGED <<storeVars, log, marketVars, outcome, intake, consuming, failing, restarts>>

\* The message in hand is of this topic and its transaction is still to come.
Dispatched(topic) ==
  /\ pCurrent # Idle
  /\ pCurrent.stream[1] = topic
  /\ outcome = Idle

EventId == <<pCurrent.stream, pCurrent.index>>

\* The event on_price_quoted makes of ExecOutcome::Executed or ::Rejected.
Outcome(o, row) ==
  IF row.status = "EXECUTED"
    THEN [topic |-> "order-executed", order |-> o, price |-> row.price]
    ELSE [topic |-> "order-rejected", order |-> o, reason |-> row.reason]

\* apply_price_quoted commits.  A skipped quote ends the handler, any other
\* leaves an outcome to publish.
ApplyQuote ==
  /\ Dispatched("price-quoted")
  /\ LET event == Portfolio!InHand
         o == event.order
     IN /\ Store!ApplyPriceQuoted(o, EventId, event.price)
        /\ IF Store!Actionable(o, EventId)
             THEN outcome' = Outcome(o, orders'[o]) /\ UNCHANGED portfolioVars
             ELSE Portfolio!HandlerOk /\ UNCHANGED outcome
  /\ UNCHANGED <<log, marketVars, intake, consuming, failing, restarts>>

\* The price makes a value no Decimal holds: the transaction is rolled back, the
\* task of the consumer ends, and the process goes on serving HTTP.  A later
\* process is delivered the same quote.
QuotePanics ==
  /\ Dispatched("price-quoted")
  /\ LET event == Portfolio!InHand
     IN /\ Store!Actionable(event.order, EventId)
        /\ ~Store!Representable(event.order, event.price)
  /\ Portfolio!HandlerPanics
  /\ consuming' = FALSE
  /\ UNCHANGED <<storeVars, log, marketVars, outcome, intake, failing, restarts>>

\* Mutant: the outcome is not cleared when it is published.
EmitOutcomeKept ==
  /\ outcome # Idle
  /\ Send(outcome)
  /\ Portfolio!HandlerOk
  /\ UNCHANGED <<storeVars, outcome, marketVars, intake, consuming, failing, restarts>>

\* Mutant: the result of the send is ignored.
EmitOutcomeUnheeded ==
  /\ outcome # Idle
  /\ SendFails(outcome)
  /\ outcome' = Idle
  /\ Portfolio!HandlerOk
  /\ UNCHANGED <<storeVars, marketVars, intake, consuming, failing, restarts>>

\* The outcome is published and the handler returns Ok.
EmitOutcome ==
  /\ outcome # Idle
  /\ Send(outcome)
  /\ outcome' = Idle
  /\ Portfolio!HandlerOk
  /\ UNCHANGED <<storeVars, marketVars, intake, consuming, failing, restarts>>

EmitFails ==
  /\ "portfolio send" \in Faults
  /\ outcome # Idle
  /\ SendFails(outcome)
  /\ outcome' = Idle
  /\ Portfolio!HandlerErr
  /\ UNCHANGED <<storeVars, marketVars, intake, consuming, failing, restarts>>

ApplyRejection ==
  /\ Dispatched("order-rejected")
  /\ LET event == Portfolio!InHand
     IN Store!ApplyOrderRejected(event.order, EventId, event.reason)
  /\ Portfolio!HandlerOk
  /\ UNCHANGED <<log, marketVars, outcome, intake, consuming, failing, restarts>>

\* A database call returns Err: the transaction is rolled back, or was committed
\* and its answer lost.
TransactionFails ==
  /\ "database" \in Faults
  /\ \/ /\ Dispatched("price-quoted") \/ Dispatched("order-rejected")
        /\ UNCHANGED storeVars
     \/ /\ Dispatched("price-quoted")
        /\ LET event == Portfolio!InHand
           IN Store!ApplyPriceQuoted(event.order, EventId, event.price)
     \/ /\ Dispatched("order-rejected")
        /\ LET event == Portfolio!InHand
           IN Store!ApplyOrderRejected(event.order, EventId, event.reason)
  /\ Portfolio!HandlerErr
  /\ UNCHANGED <<log, marketVars, outcome, intake, consuming, failing, restarts>>

\* seed_demo, before the new process serves.
PortfolioStarts ==
  /\ Store!SeedUser \/ Store!SeedPortfolio \/ Store!SeedHolding
  /\ UNCHANGED <<log, marketVars, portfolioVars, outcome, intake, consuming, failing, restarts>>

\* Requests in progress get no answer, an outcome not yet published is forgotten.
PortfolioRestart ==
  /\ restarts < MaxRestarts
  /\ Store!Restart
  /\ Portfolio!Restart
  /\ outcome' = Idle
  /\ intake' = [o \in OrderIds |->
                  IF intake[o] = "inserted" THEN "refused" ELSE intake[o]]
  /\ consuming' = TRUE
  /\ restarts' = restarts + 1
  /\ UNCHANGED <<log, marketVars, failing>>

PortfolioRejoin ==
  /\ restarts < MaxRestarts
  /\ startup = "serving" /\ consuming
  /\ Portfolio!Rejoin
  /\ restarts' = restarts + 1
  /\ UNCHANGED <<storeVars, log, marketVars, outcome, intake, consuming, failing>>

-----------------------------------------------------------------------------
Next ==
  \/ \E o \in OrderIds, req \in Requests : PlaceOrder(o, req)
  \/ \E o \in OrderIds : Accept(o) \/ IntakeFails(o)
  \/ MarketRecv \/ MarketQuotes \/ MarketFails \/ MarketRestart \/ MarketRejoin
  \/ PortfolioRecv \/ ApplyQuote \/ QuotePanics \/ EmitOutcome \/ EmitFails \/ ApplyRejection
  \/ TransactionFails \/ PortfolioStarts \/ PortfolioRestart \/ PortfolioRejoin

\* Tasks are scheduled and the calls they wait for end.  Nothing obliges anybody
\* to order, to fail or to restart.
Fairness ==
  /\ \A o \in OrderIds : WF_vars(Accept(o))
  /\ WF_vars(MarketRecv) /\ WF_vars(MarketQuotes)
  /\ WF_vars(PortfolioStarts) /\ WF_vars(PortfolioRecv)
  /\ WF_vars(ApplyQuote) /\ WF_vars(QuotePanics) /\ WF_vars(EmitOutcome) /\ WF_vars(ApplyRejection)

Spec == Init /\ [][Next]_vars /\ Fairness

-----------------------------------------------------------------------------
(***************************************************************************)
(* What must hold.                                                         *)
(***************************************************************************)
TypeOK ==
  /\ Store!TypeOK
  /\ \A s \in Streams : \A i \in DOMAIN log[s] :
       /\ log[s][i].topic = s[1]
       /\ log[s][i].order \in DOMAIN orders
       /\ PartitionOf[log[s][i].order] = s[2]
  /\ \A s \in MarketStreams : mPosition[s] \in 0..Len(log[s])
                           /\ mCommitted[s] \in 0..Len(log[s])
  /\ \A s \in PortfolioStreams : pPosition[s] \in 0..Len(log[s])
                              /\ pCommitted[s] \in 0..Len(log[s])
  /\ mCurrent # Idle => mCurrent \in Market!Unhandled
  /\ pCurrent # Idle => pCurrent \in Portfolio!Unhandled
  /\ pCurrent # Idle => consuming
  /\ outcome # Idle => pCurrent # Idle /\ outcome.order \in DOMAIN orders
  /\ \A o \in OrderIds : intake[o] = "none" <=> o \notin DOMAIN orders
  /\ restarts \in 0..MaxRestarts

\* Where the events of a topic that are about o stand in their stream, and the
\* event there.
Topic(topic, o) == log[<<topic, PartitionOf[o]>>]
Sent(topic, o) == {i \in DOMAIN Topic(topic, o) : Topic(topic, o)[i].order = o}

Status(o) == IF o \in DOMAIN orders THEN orders[o].status ELSE "NONE"

\* However often quotes are repeated and handlers run again, the topics tell at
\* most once that an order was executed, and what they tell is what the row says.
ExecutionAnnouncedOnce ==
  \A o \in OrderIds : \A i \in Sent("order-executed", o) :
    /\ Sent("order-executed", o) = {i}
    /\ Status(o) = "EXECUTED"
    /\ orders[o].price = Topic("order-executed", o)[i].price

\* A restart of the Market Service may quote an order again, at another price
\* (the jitter is drawn anew): an executed order has the price of the first quote.
FirstQuoteWins ==
  \A o \in OrderIds :
    Status(o) = "EXECUTED" =>
      \E i \in Sent("price-quoted", o) :
        /\ \A j \in Sent("price-quoted", o) : i <= j
        /\ orders[o].price = Topic("price-quoted", o)[i].price

\* The broker and the database agree: what the offsets of portfolio-service have
\* passed is in processed_events, so a restart skips no event that had no effect.
CommittedIsProcessed ==
  \A s \in PortfolioStreams : \A i \in 1..pCommitted[s] : <<s, i>> \in processed

\* A quote has decided o, and neither the topics nor the handler at work have the event
\* that tells it.
Decided(o) ==
  \/ Status(o) = "EXECUTED"
  \/ /\ Status(o) = "REJECTED"
     /\ orders[o].reason \in {"INSUFFICIENT_BALANCE", "INSUFFICIENT_ASSET"}

Told(event) ==
  \E i \in Sent(event.topic, event.order) : Topic(event.topic, event.order)[i] = event

BeingTold(event) == outcome # Idle /\ outcome = event

Untold(o) ==
  LET event == Outcome(o, orders[o])
  IN Decided(o) /\ ~Told(event) /\ ~BeingTold(event)

\* "a crash in that gap could drop an event" (README): what a quote has decided is told,
\* or about to be, unless between the transaction and the acknowledged send the process
\* stops or a call returns Err.  Nothing else ever loses an outcome.
OutcomeLostOnlyInGap ==
  [][\A o \in OrderIds :
       Untold(o)' /\ ~Untold(o) => PortfolioRestart \/ EmitFails \/ TransactionFails]_vars

\* The choreography implements the lifecycle a client is promised.
Lifecycle == INSTANCE OrderLifecycle WITH
  status <- [o \in OrderIds |-> Status(o)],
  accepted <- {o \in OrderIds : intake[o] = "accepted"},
  announced <- [o \in OrderIds |-> Cardinality(Sent("order-executed", o))]

ImplementsLifecycle == Lifecycle!Spec

\* The lifecycle without its liveness: what failing calls cannot break.
ImplementsLifecycleSafety == Lifecycle!Init /\ [][Lifecycle!Next]_(Lifecycle!lifecycleVars)

\* "the BUY/SELL result is resolved asynchronously by the saga" (create_order): no
\* order answered with 202 stays open, when no call fails and no process stops.
AcceptedIsResolved ==
  \A o \in OrderIds :
    intake[o] = "accepted" ~> Status(o) \in {"EXECUTED", "REJECTED"}

\* OrderStatus::Created, "Persisted, OrderCreated emitted": once the POST has ended,
\* an order in CREATED has its event.
CreatedIsEmitted ==
  \A o \in OrderIds :
    Status(o) = "CREATED" /\ intake[o] # "inserted" =>
      Sent("order-created", o) # {}
=============================================================================
