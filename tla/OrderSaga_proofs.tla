--------------------------- MODULE OrderSaga_proofs ---------------------------
(***************************************************************************)
(* Proofs about OrderSaga, for any orders, prices, partitions, restarts    *)
(* and failing calls.                                                      *)
(***************************************************************************)
EXTENDS OrderSaga, FiniteSetTheorems, TLAPS

\* PortfolioStore with what is proved about it.
Books == INSTANCE PortfolioLedger_proofs WITH EventIds <- Streams \X Nat

LEMMA BooksConstants == Books!StoreAssumption
BY StoreConstants
   DEF Store!StoreAssumption, Books!StoreAssumption, Store!NewOrder,
       Books!NewOrder, Store!Side, Books!Side, Store!RejectionReason,
       Books!RejectionReason

LEMMA StoreTypes == Books!TypeOK => Store!TypeOK
BY DEF Store!TypeOK, Books!TypeOK, Store!Owner, Books!Owner,
       Store!OrderRow, Books!OrderRow, Store!OrderStatus, Books!OrderStatus,
       Store!Side, Books!Side, Store!RejectionReason, Books!RejectionReason

LEMMA StoreInit == Store!Init => Books!Inv
<1>1. Store!Init => Books!Init
  BY DEF Store!Init, Books!Init
<1> QED
  BY <1>1, BooksConstants, Books!InvInit

LEMMA StoreNext ==
  ASSUME Books!Inv, Books!Next \/ UNCHANGED storeVars
  PROVE Books!Inv'
<1>1. Books!Next \/ UNCHANGED Books!vars
  BY DEF Books!vars, storeVars
<1> QED
  BY <1>1, BooksConstants, Books!InvNext


\* The two instances of PortfolioStore are the same.
LEMMA SameCreate ==
  ASSUME NEW o, NEW req, Store!CreateOrder(o, req)
  PROVE  Books!CreateOrder(o, req)
BY DEF Store!CreateOrder, Books!CreateOrder, Store!Accepts, Books!Accepts,
       Store!Validate, Books!Validate, Store!ToColumn, Books!ToColumn,
       Store!Put, Books!Put

LEMMA SameQuoted ==
  ASSUME NEW o, NEW e, NEW p, Store!ApplyPriceQuoted(o, e, p)
  PROVE  Books!ApplyPriceQuoted(o, e, p)
BY DEF Store!ApplyPriceQuoted, Books!ApplyPriceQuoted, Store!Actionable,
       Books!Actionable, Store!IsCreated, Books!IsCreated,
       Store!Representable, Books!Representable, Store!Value, Books!Value,
       Store!SkipQuote, Books!SkipQuote, Store!MarkProcessed,
       Books!MarkProcessed, Store!ExecuteBuy, Books!ExecuteBuy,
       Store!Affordable, Books!Affordable, Store!Owner, Books!Owner,
       Store!Position, Books!Position, Store!Asset, Books!Asset, Store!Held,
       Books!Held, Store!Put, Books!Put, Store!ToColumn, Books!ToColumn,
       Store!MarkExecuted, Books!MarkExecuted, Store!RejectBuy,
       Books!RejectBuy, Store!MarkRejected, Books!MarkRejected,
       Store!ExecuteSell, Books!ExecuteSell, Store!Covered, Books!Covered,
       Store!RejectSell, Books!RejectSell

LEMMA SameRejected ==
  ASSUME NEW o, NEW e, NEW r, Store!ApplyOrderRejected(o, e, r)
  PROVE  Books!ApplyOrderRejected(o, e, r)
BY DEF Store!ApplyOrderRejected, Books!ApplyOrderRejected, Store!Actionable,
       Books!Actionable, Store!IsCreated, Books!IsCreated,
       Store!MarkRejected, Books!MarkRejected, Store!MarkProcessed,
       Books!MarkProcessed

LEMMA SameStart ==
  /\ Store!SeedUser => Books!SeedUser
  /\ Store!SeedPortfolio => Books!SeedPortfolio
  /\ Store!SeedHolding => Books!SeedHolding
  /\ Store!Restart => Books!Restart
BY DEF Store!SeedUser, Books!SeedUser, Store!SeedPortfolio,
       Books!SeedPortfolio, Store!SeedHolding, Books!SeedHolding,
       Store!Restart, Books!Restart, Store!PutIfAbsent, Books!PutIfAbsent,
       Store!Put, Books!Put


-----------------------------------------------------------------------------
(***************************************************************************)
(* Topics and consumer groups.                                             *)
(***************************************************************************)

\* An event has the fields of its topic and a stream to go to.
LEMMA EventFields ==
  ASSUME NEW event \in Events
  PROVE  /\ event.topic \in Topics
         /\ event.order \in OrderIds
         /\ <<event.topic, PartitionOf[event.order]>> \in Streams
         /\ event.topic \in {"price-quoted", "order-executed"} =>
              event.price \in Prices
         /\ event.topic = "order-rejected" =>
              event.reason \in Store!RejectionReason
<1>1. event.topic \in Topics /\ event.order \in OrderIds
  BY DEF Events, Topics
<1>2. PartitionOf[event.order] \in Partitions
  BY <1>1, SagaAssumption
<1> QED
  BY <1>1, <1>2 DEF Events, Streams

\* Logs only grow, at their ends.
Extends(lg, more) ==
  \A s \in Streams :
    /\ Len(lg[s]) \in Nat /\ Len(more[s]) \in Nat
    /\ Len(lg[s]) <= Len(more[s])
    /\ \A i \in 1..Len(lg[s]) : more[s][i] = lg[s][i]

\* Every message is about a stored order, in the stream of its topic and key.
MessagesOK(lg, table) ==
  \A s \in Streams : \A i \in DOMAIN lg[s] :
    /\ lg[s][i].topic = s[1]
    /\ lg[s][i].order \in DOMAIN table
    /\ PartitionOf[lg[s][i].order] = s[2]

LogGrows ==
  \/ UNCHANGED log
  \/ \E event \in Events : event.order \in DOMAIN orders /\ Send(event)

LEMMA SendFacts ==
  ASSUME log \in [Streams -> Seq(Events)], LogGrows
  PROVE  /\ log' \in [Streams -> Seq(Events)]
         /\ Extends(log, log')
         /\ MessagesOK(log, orders) => MessagesOK(log', orders)
<1>1. CASE UNCHANGED log
  BY <1>1 DEF Extends
<1>2. ASSUME NEW event \in Events, event.order \in DOMAIN orders, Send(event)
      PROVE  /\ log' \in [Streams -> Seq(Events)]
             /\ Extends(log, log')
             /\ MessagesOK(log, orders) => MessagesOK(log', orders)
  <2>1. PICK t : t = <<event.topic, PartitionOf[event.order]>>
    OBVIOUS
  <2>2. t \in Streams /\ t[1] = event.topic /\ t[2] = PartitionOf[event.order]
    BY <2>1, EventFields
  <2>3. /\ log' = [log EXCEPT ![t] = Append(log[t], event)]
        /\ log[t] \in Seq(Events)
    BY <1>2, <2>1, <2>2 DEF Send
  <2>4. /\ Append(log[t], event) \in Seq(Events)
        /\ Len(Append(log[t], event)) = Len(log[t]) + 1
        /\ Append(log[t], event)[Len(log[t]) + 1] = event
        /\ \A i \in 1..Len(log[t]) : Append(log[t], event)[i] = log[t][i]
        /\ DOMAIN Append(log[t], event) = 1..(Len(log[t]) + 1)
    BY <2>3
  <2>5. log' \in [Streams -> Seq(Events)]
    BY <2>3, <2>4
  <2>6. Extends(log, log')
    BY <2>2, <2>3, <2>4 DEF Extends
  <2>7. ASSUME MessagesOK(log, orders), NEW s \in Streams, NEW i \in DOMAIN log'[s]
        PROVE  /\ log'[s][i].topic = s[1]
               /\ log'[s][i].order \in DOMAIN orders
               /\ PartitionOf[log'[s][i].order] = s[2]
    <3>1. CASE s = t /\ i = Len(log[t]) + 1
      BY <1>2, <2>2, <2>3, <2>4, <3>1
    <3>2. CASE s = t /\ i # Len(log[t]) + 1
      <4>1. i \in 1..Len(log[t]) /\ i \in DOMAIN log[t] /\ log'[s][i] = log[s][i]
        BY <2>3, <2>4, <2>7, <3>2
      <4> QED
        BY <2>7, <3>2, <4>1 DEF MessagesOK
    <3>3. CASE s # t
      <4>1. log'[s] = log[s]
        BY <2>3, <3>3
      <4> QED
        BY <2>7, <4>1 DEF MessagesOK
    <3> QED
      BY <3>1, <3>2, <3>3
  <2> QED
    BY <2>5, <2>6, <2>7 DEF MessagesOK
<1> QED
  BY <1>1, <1>2 DEF LogGrows

\* The positions of a group lie within the log, and so does the message in hand.
GroupOK(S, lg, position, committed, current) ==
  /\ position \in [S -> Nat] /\ committed \in [S -> Nat]
  /\ \A s \in S : position[s] <= Len(lg[s]) /\ committed[s] <= Len(lg[s])
  /\ current # Idle =>
       /\ current \in [stream: S, index: Nat \ {0}]
       /\ current.index <= Len(lg[current.stream])

\* What a consumer may do in a step.
GroupMoves(S, lg, p, c, m, p2, c2, m2) ==
  \/ p2 = p /\ c2 = c /\ m2 = m
  \/ \E s \in S : /\ m = Idle /\ p[s] < Len(lg[s])
                  /\ m2 = [stream |-> s, index |-> p[s] + 1]
                  /\ p2 = [p EXCEPT ![s] = p[s] + 1] /\ c2 = c
  \/ /\ m # Idle /\ m2 = Idle /\ p2 = p
     /\ c2 = c \/ c2 = [c EXCEPT ![m.stream] = m.index]
  \/ p2 = c /\ c2 = c /\ m2 \in {m, Idle}

LEMMA GroupKept ==
  ASSUME NEW S \in SUBSET Streams, NEW lg, NEW more, Extends(lg, more),
         NEW p, NEW c, NEW m, GroupOK(S, lg, p, c, m),
         NEW p2, NEW c2, NEW m2, GroupMoves(S, lg, p, c, m, p2, c2, m2)
  PROVE  GroupOK(S, more, p2, c2, m2)
<1>1. \A s \in S : /\ p[s] \in Nat /\ c[s] \in Nat
                   /\ Len(lg[s]) \in Nat /\ Len(more[s]) \in Nat
                   /\ p[s] <= Len(more[s]) /\ c[s] <= Len(more[s])
                   /\ Len(lg[s]) <= Len(more[s])
  BY DEF GroupOK, Extends
<1>2. m # Idle => /\ m.stream \in S /\ m.index \in Nat \ {0}
                  /\ m.index <= Len(more[m.stream])
  BY <1>1 DEF GroupOK
<1>3. CASE p2 = p /\ c2 = c /\ m2 = m
  BY <1>1, <1>2, <1>3 DEF GroupOK
<1>4. ASSUME NEW s \in S, p[s] < Len(lg[s]),
             m2 = [stream |-> s, index |-> p[s] + 1],
             p2 = [p EXCEPT ![s] = p[s] + 1], c2 = c
      PROVE  GroupOK(S, more, p2, c2, m2)
  <2>1. p[s] + 1 \in Nat \ {0} /\ p[s] + 1 <= Len(more[s])
    BY <1>1, <1>4
  <2>2. m2 \in [stream: S, index: Nat \ {0}] /\ m2.stream = s /\ m2.index = p[s] + 1
    BY <1>4, <2>1
  <2>3. /\ p2 \in [S -> Nat] /\ p2[s] = p[s] + 1
        /\ \A t \in S \ {s} : p2[t] = p[t]
    BY <1>4, <2>1 DEF GroupOK
  <2> QED
    BY <1>1, <1>4, <2>1, <2>2, <2>3 DEF GroupOK
<1>5. CASE /\ m # Idle /\ m2 = Idle /\ p2 = p
           /\ c2 = c \/ c2 = [c EXCEPT ![m.stream] = m.index]
  <2>1. c2 \in [S -> Nat] /\ \A s \in S : c2[s] <= Len(more[s])
    BY <1>1, <1>2, <1>5 DEF GroupOK
  <2> QED
    BY <1>1, <1>5, <2>1 DEF GroupOK
<1>6. CASE p2 = c /\ c2 = c /\ m2 \in {m, Idle}
  BY <1>1, <1>2, <1>6 DEF GroupOK
<1> QED
  BY <1>3, <1>4, <1>5, <1>6 DEF GroupMoves


-----------------------------------------------------------------------------
(***************************************************************************)
(* Types.                                                                  *)
(***************************************************************************)
Outcomes == {event \in Events : event.topic \in {"order-executed", "order-rejected"}}

SagaInv ==
  /\ Books!Inv
  /\ log \in [Streams -> Seq(Events)]
  /\ MessagesOK(log, orders)
  /\ GroupOK(MarketStreams, log, mPosition, mCommitted, mCurrent)
  /\ GroupOK(PortfolioStreams, log, pPosition, pCommitted, pCurrent)
  /\ pCurrent # Idle => consuming
  /\ outcome # Idle =>
       /\ outcome \in Outcomes /\ outcome.order \in DOMAIN orders
       /\ pCurrent # Idle
  /\ intake \in [OrderIds -> {"none", "inserted", "accepted", "refused"}]
  /\ \A o \in OrderIds : intake[o] = "none" <=> o \notin DOMAIN orders
  /\ restarts \in 0..MaxRestarts

StreamSubsets == MarketStreams \subseteq Streams /\ PortfolioStreams \subseteq Streams

LEMMA SubsetsHold == StreamSubsets
BY DEF StreamSubsets, MarketStreams, PortfolioStreams, Streams, Topics

LEMMA SagaTypeOK == SagaInv => TypeOK
<1> SUFFICES ASSUME SagaInv
             PROVE  TypeOK
  OBVIOUS
<1>1. Store!TypeOK
  BY StoreTypes DEF SagaInv, Books!Inv
<1>2. \A s \in Streams : Len(log[s]) \in Nat
  BY DEF SagaInv
<1>3. \A s \in MarketStreams : mPosition[s] \in 0..Len(log[s])
                            /\ mCommitted[s] \in 0..Len(log[s])
  BY <1>2, SubsetsHold DEF SagaInv, GroupOK, StreamSubsets
<1>4. \A s \in PortfolioStreams : pPosition[s] \in 0..Len(log[s])
                               /\ pCommitted[s] \in 0..Len(log[s])
  BY <1>2, SubsetsHold DEF SagaInv, GroupOK, StreamSubsets
<1>5. /\ mCurrent # Idle => mCurrent \in Market!Unhandled
      /\ pCurrent # Idle => pCurrent \in Portfolio!Unhandled
  BY DEF SagaInv, GroupOK, Market!Unhandled, Portfolio!Unhandled
<1> QED
  BY <1>1, <1>3, <1>4, <1>5 DEF SagaInv, TypeOK, MessagesOK

LEMMA SagaInit == Init => SagaInv
<1> SUFFICES ASSUME Init
             PROVE  SagaInv
  OBVIOUS
<1>1. Books!Inv
  BY StoreInit DEF Init
<1>2. DOMAIN orders = {}
  BY DEF Init, Store!Init
<1>3. log \in [Streams -> Seq(Events)] /\ \A s \in Streams : log[s] = <<>>
  BY DEF Init
<1>4. MessagesOK(log, orders)
  BY <1>3 DEF MessagesOK
<1>5. GroupOK(MarketStreams, log, mPosition, mCommitted, mCurrent)
  BY <1>3, SubsetsHold DEF Init, Market!ConsumerInit, GroupOK, StreamSubsets
<1>6. GroupOK(PortfolioStreams, log, pPosition, pCommitted, pCurrent)
  BY <1>3, SubsetsHold DEF Init, Portfolio!ConsumerInit, GroupOK, StreamSubsets
<1> QED
  BY <1>1, <1>2, <1>3, <1>4, <1>5, <1>6, SagaAssumption
     DEF Init, SagaInv, Portfolio!ConsumerInit

\* The message in hand of a service.
LEMMA MarketInHand ==
  ASSUME SagaInv, mCurrent # Idle
  PROVE  /\ Market!InHand \in Events
         /\ Market!InHand.topic = "order-created"
         /\ Market!InHand.order \in DOMAIN orders
<1>1. /\ mCurrent.stream \in MarketStreams /\ mCurrent.index \in Nat \ {0}
      /\ mCurrent.index <= Len(log[mCurrent.stream])
      /\ mCurrent.stream \in Streams
  BY SubsetsHold DEF SagaInv, GroupOK, StreamSubsets
<1>2. /\ log[mCurrent.stream] \in Seq(Events)
      /\ mCurrent.index \in DOMAIN log[mCurrent.stream]
  BY <1>1 DEF SagaInv
<1>3. /\ Market!InHand \in Events
      /\ Market!InHand.topic = mCurrent.stream[1]
      /\ Market!InHand.order \in DOMAIN orders
  BY <1>1, <1>2 DEF SagaInv, MessagesOK, Market!InHand
<1> QED
  BY <1>1, <1>3 DEF MarketStreams

LEMMA PortfolioInHand ==
  ASSUME SagaInv, pCurrent # Idle
  PROVE  /\ pCurrent.stream \in PortfolioStreams
         /\ pCurrent.stream \in Streams
         /\ pCurrent.index \in Nat \ {0}
         /\ pCurrent.index \in DOMAIN log[pCurrent.stream]
         /\ EventId \in Streams \X Nat
         /\ Portfolio!InHand = log[pCurrent.stream][pCurrent.index]
         /\ Portfolio!InHand \in Events
         /\ Portfolio!InHand.topic = pCurrent.stream[1]
         /\ Portfolio!InHand.order \in DOMAIN orders
         /\ Portfolio!InHand.order \in OrderIds
<1>1. /\ pCurrent.stream \in PortfolioStreams /\ pCurrent.index \in Nat \ {0}
      /\ pCurrent.index <= Len(log[pCurrent.stream])
      /\ pCurrent.stream \in Streams
  BY SubsetsHold DEF SagaInv, GroupOK, StreamSubsets
<1>2. /\ log[pCurrent.stream] \in Seq(Events)
      /\ pCurrent.index \in DOMAIN log[pCurrent.stream]
  BY <1>1 DEF SagaInv
<1>3. /\ Portfolio!InHand = log[pCurrent.stream][pCurrent.index]
      /\ Portfolio!InHand \in Events
      /\ Portfolio!InHand.topic = pCurrent.stream[1]
      /\ Portfolio!InHand.order \in DOMAIN orders
  BY <1>1, <1>2 DEF SagaInv, MessagesOK, Portfolio!InHand
<1>4. EventId \in Streams \X Nat /\ Portfolio!InHand.order \in OrderIds
  BY <1>1, <1>3, EventFields DEF EventId
<1> QED
  BY <1>1, <1>2, <1>3, <1>4


-----------------------------------------------------------------------------
(***************************************************************************)
(* What a step of the saga is for the database, the topics and the groups. *)
(***************************************************************************)
StoreMoves == Books!Next \/ UNCHANGED storeVars
MarketMoves ==
  GroupMoves(MarketStreams, log, mPosition, mCommitted, mCurrent,
             mPosition', mCommitted', mCurrent')
PortfolioMoves ==
  GroupMoves(PortfolioStreams, log, pPosition, pCommitted, pCurrent,
             pPosition', pCommitted', pCurrent')
SagaMoves == StoreMoves /\ LogGrows /\ MarketMoves /\ PortfolioMoves

LEMMA MarketCalls ==
  ASSUME \/ \E s \in MarketStreams : Market!Recv(s)
         \/ Market!HandlerOk \/ Market!HandlerErr
         \/ Market!Restart \/ Market!Rejoin
         \/ UNCHANGED marketVars
  PROVE  MarketMoves
BY DEF MarketMoves, GroupMoves, Market!Recv, Market!HandlerOk,
       Market!HandlerErr, Market!Restart, Market!Rejoin, marketVars

LEMMA PortfolioCalls ==
  ASSUME \/ \E s \in PortfolioStreams : Portfolio!Recv(s)
         \/ Portfolio!HandlerOk \/ Portfolio!HandlerErr \/ Portfolio!HandlerPanics
         \/ Portfolio!Restart \/ Portfolio!Rejoin
         \/ UNCHANGED portfolioVars
  PROVE  PortfolioMoves
BY DEF PortfolioMoves, GroupMoves, Portfolio!Recv, Portfolio!HandlerOk,
       Portfolio!HandlerErr, Portfolio!HandlerPanics, Portfolio!Restart,
       Portfolio!Rejoin, portfolioVars

\* The transaction of the message in hand is one of the database's.
LEMMA QuoteIsStep ==
  ASSUME SagaInv, Dispatched("price-quoted"),
         Store!ApplyPriceQuoted(Portfolio!InHand.order, EventId,
                                Portfolio!InHand.price)
  PROVE  /\ Portfolio!InHand.price \in Prices
         /\ Books!ApplyPriceQuoted(Portfolio!InHand.order, EventId,
                                   Portfolio!InHand.price)
         /\ StoreMoves
<1>1. /\ Portfolio!InHand.order \in OrderIds
      /\ EventId \in Streams \X Nat
      /\ Portfolio!InHand \in Events
      /\ Portfolio!InHand.topic = "price-quoted"
  BY PortfolioInHand DEF Dispatched
<1>2. Portfolio!InHand.price \in Prices
  BY <1>1, EventFields
<1>3. Books!ApplyPriceQuoted(Portfolio!InHand.order, EventId,
                             Portfolio!InHand.price)
  BY SameQuoted
<1> QED
  BY <1>1, <1>2, <1>3 DEF StoreMoves, Books!Next

LEMMA RejectionIsStep ==
  ASSUME SagaInv, Dispatched("order-rejected"),
         Store!ApplyOrderRejected(Portfolio!InHand.order, EventId,
                                  Portfolio!InHand.reason)
  PROVE  /\ Books!ApplyOrderRejected(Portfolio!InHand.order, EventId,
                                     Portfolio!InHand.reason)
         /\ StoreMoves
<1>1. /\ Portfolio!InHand.order \in OrderIds
      /\ EventId \in Streams \X Nat
      /\ Portfolio!InHand \in Events
      /\ Portfolio!InHand.topic = "order-rejected"
  BY PortfolioInHand DEF Dispatched
<1>2. Portfolio!InHand.reason \in Books!RejectionReason
  BY <1>1, EventFields DEF Store!RejectionReason, Books!RejectionReason
<1>3. Books!ApplyOrderRejected(Portfolio!InHand.order, EventId,
                               Portfolio!InHand.reason)
  BY SameRejected
<1> QED
  BY <1>1, <1>2, <1>3 DEF StoreMoves, Books!Next

\* An order that was answered or is about to be has a typed OrderCreated.
LEMMA CreatedEvent ==
  ASSUME SagaInv, NEW o \in DOMAIN orders
  PROVE  OrderCreated(o) \in Events /\ OrderCreated(o).order = o
<1>1. o \in OrderIds /\ orders[o] \in Books!OrderRow
  BY DEF SagaInv, Books!Inv, Books!TypeOK
<1>2. Store!Asset(o) \in RawSymbols
  BY <1>1, StoreConstants
     DEF Books!OrderRow, Store!Asset, Store!StoreAssumption
<1> QED
  BY <1>1, <1>2 DEF OrderCreated, Events

LEMMA QuoteEvents ==
  ASSUME SagaInv, mCurrent # Idle, NEW event \in Quotes(Market!InHand)
  PROVE  /\ event \in Events
         /\ event.order = Market!InHand.order /\ event.order \in DOMAIN orders
         /\ event.topic \in {"price-quoted", "order-rejected"}
<1>1. PICK o : o = Market!InHand.order /\ o \in DOMAIN orders
  BY MarketInHand
<1>2. o \in OrderIds
  BY <1>1 DEF SagaInv, Books!Inv, Books!TypeOK
<1>3. \/ event = [topic |-> "order-rejected", order |-> o,
                  reason |-> "MARKET_UNAVAILABLE"]
      \/ event = [topic |-> "order-rejected", order |-> o,
                  reason |-> "UNKNOWN_SYMBOL"]
      \/ \E p \in Prices :
           event = [topic |-> "price-quoted", order |-> o, price |-> p]
  BY <1>1 DEF Quotes
<1> QED
  BY <1>1, <1>2, <1>3 DEF Events, Store!RejectionReason

LEMMA NextMoves ==
  ASSUME SagaInv, [Next]_vars
  PROVE  SagaMoves
<1> USE DEF SagaMoves
<1>1. ASSUME NEW o \in OrderIds, NEW req \in Requests, PlaceOrder(o, req)
      PROVE  SagaMoves
  <2>1. StoreMoves
    BY <1>1, SameCreate DEF PlaceOrder, StoreMoves, Books!Next
  <2> QED
    BY <1>1, <2>1, MarketCalls, PortfolioCalls DEF PlaceOrder, LogGrows
<1>2. ASSUME NEW o \in OrderIds, Accept(o) \/ IntakeFails(o)
      PROVE  SagaMoves
  <2>1. o \in DOMAIN orders
    BY <1>2 DEF SagaInv, Accept, IntakeFails
  <2>2. LogGrows
    BY <1>2, <2>1, CreatedEvent DEF Accept, IntakeFails, SendFails, LogGrows
  <2>3. UNCHANGED <<storeVars, marketVars, portfolioVars>>
    BY <1>2 DEF Accept, IntakeFails
  <2> QED
    BY <2>2, <2>3, MarketCalls, PortfolioCalls DEF StoreMoves
<1>3. CASE MarketRecv \/ MarketRestart \/ MarketRejoin
  <2>1. UNCHANGED <<storeVars, log, portfolioVars>>
    BY <1>3 DEF MarketRecv, MarketRestart, MarketRejoin
  <2> QED
    BY <1>3, <2>1, MarketCalls, PortfolioCalls
       DEF MarketRecv, MarketRestart, MarketRejoin, LogGrows, StoreMoves
<1>4. CASE MarketQuotes \/ MarketFails
  <2>1. mCurrent # Idle /\ \E event \in Quotes(Market!InHand) : SendFails(event)
    BY <1>4 DEF MarketQuotes, MarketFails, SendFails
  <2>2. LogGrows
    BY <2>1, QuoteEvents DEF LogGrows, SendFails
  <2>3. UNCHANGED <<storeVars, portfolioVars>>
    BY <1>4 DEF MarketQuotes, MarketFails
  <2> QED
    BY <1>4, <2>2, <2>3, MarketCalls, PortfolioCalls
       DEF MarketQuotes, MarketFails, StoreMoves
<1>5. CASE PortfolioRecv \/ PortfolioRejoin \/ QuotePanics
  <2>1. UNCHANGED <<storeVars, log, marketVars>>
    BY <1>5 DEF PortfolioRecv, PortfolioRejoin, QuotePanics
  <2> QED
    BY <1>5, <2>1, MarketCalls, PortfolioCalls
       DEF PortfolioRecv, PortfolioRejoin, QuotePanics, LogGrows, StoreMoves
<1>6. CASE ApplyQuote
  <2>1. StoreMoves
    BY <1>6, QuoteIsStep DEF ApplyQuote
  <2>2. UNCHANGED <<log, marketVars>>
    BY <1>6 DEF ApplyQuote
  <2>3. Portfolio!HandlerOk \/ UNCHANGED portfolioVars
    BY <1>6 DEF ApplyQuote
  <2> QED
    BY <2>1, <2>2, <2>3, MarketCalls, PortfolioCalls DEF LogGrows
<1>7. CASE EmitOutcome \/ EmitFails
  <2>1. outcome \in Events /\ outcome.order \in DOMAIN orders
    BY <1>7 DEF EmitOutcome, EmitFails, SagaInv, Outcomes
  <2>2. LogGrows
    BY <1>7, <2>1 DEF EmitOutcome, EmitFails, SendFails, LogGrows
  <2>3. UNCHANGED <<storeVars, marketVars>>
    BY <1>7 DEF EmitOutcome, EmitFails
  <2> QED
    BY <1>7, <2>2, <2>3, MarketCalls, PortfolioCalls
       DEF EmitOutcome, EmitFails, StoreMoves
<1>8. CASE ApplyRejection
  <2>1. StoreMoves
    BY <1>8, RejectionIsStep DEF ApplyRejection
  <2> QED
    BY <1>8, <2>1, MarketCalls, PortfolioCalls DEF ApplyRejection, LogGrows
<1>9. CASE TransactionFails
  <2>1. StoreMoves
    BY <1>9, QuoteIsStep, RejectionIsStep DEF TransactionFails, StoreMoves
  <2> QED
    BY <1>9, <2>1, MarketCalls, PortfolioCalls DEF TransactionFails, LogGrows
<1>10. CASE PortfolioStarts
  <2>1. StoreMoves
    BY <1>10, SameStart DEF PortfolioStarts, StoreMoves, Books!Next
  <2> QED
    BY <1>10, <2>1, MarketCalls, PortfolioCalls DEF PortfolioStarts, LogGrows
<1>11. CASE PortfolioRestart
  <2>1. StoreMoves
    BY <1>11, SameStart DEF PortfolioRestart, StoreMoves, Books!Next
  <2> QED
    BY <1>11, <2>1, MarketCalls, PortfolioCalls DEF PortfolioRestart, LogGrows
<1>12. CASE UNCHANGED vars
  BY <1>12, MarketCalls, PortfolioCalls DEF vars, StoreMoves, LogGrows
<1> QED
  BY <1>1, <1>2, <1>3, <1>4, <1>5, <1>6, <1>7, <1>8, <1>9, <1>10, <1>11, <1>12
     DEF Next


\* Only PlaceOrder adds an order.
LEMMA SameOrders ==
  ASSUME SagaInv, [Next]_vars
  PROVE  \/ DOMAIN orders' = DOMAIN orders
         \/ \E o \in OrderIds, req \in Requests : PlaceOrder(o, req)
<1>1. CASE UNCHANGED storeVars
  BY <1>1 DEF storeVars
<1>2. CASE ApplyQuote \/ TransactionFails \/ ApplyRejection
  <2>1. CASE UNCHANGED storeVars
    BY <2>1 DEF storeVars
  <2>2. CASE ~UNCHANGED storeVars
    <3>1. \/ Books!ApplyPriceQuoted(Portfolio!InHand.order, EventId,
                                    Portfolio!InHand.price)
          \/ Books!ApplyOrderRejected(Portfolio!InHand.order, EventId,
                                      Portfolio!InHand.reason)
      BY <1>2, <2>2, QuoteIsStep, RejectionIsStep
         DEF ApplyQuote, TransactionFails, ApplyRejection
    <3> QED
      BY <3>1, BooksConstants, Books!QuoteEffect, Books!RejectionEffect
         DEF SagaInv
  <2> QED
    BY <2>1, <2>2
<1>3. CASE PortfolioStarts \/ PortfolioRestart
  BY <1>3, SameStart, BooksConstants, Books!StartEffect
     DEF PortfolioStarts, PortfolioRestart
<1>4. CASE UNCHANGED vars
  BY <1>4 DEF vars, storeVars
<1> QED
  BY <1>1, <1>2, <1>3, <1>4
     DEF Next, Accept, IntakeFails, MarketRecv, MarketQuotes, MarketFails,
         MarketRestart, MarketRejoin, PortfolioRecv, QuotePanics, EmitOutcome,
         EmitFails, PortfolioRejoin

LEMMA PlaceEffect ==
  ASSUME NEW o, NEW req, PlaceOrder(o, req)
  PROVE  /\ o \notin DOMAIN orders
         /\ DOMAIN orders' = DOMAIN orders \cup {o}
         /\ orders'[o].status = "CREATED"
         /\ \A x \in DOMAIN orders : orders'[x] = orders[x]
         /\ UNCHANGED <<processed, startup>>
<1>1. Books!CreateOrder(o, req)
  BY SameCreate DEF PlaceOrder
<1> QED
  BY <1>1, BooksConstants, Books!CreateEffect

\* The handler's own variables and the requests.
Locals ==
  /\ pCurrent # Idle => consuming
  /\ outcome # Idle =>
       /\ outcome \in Outcomes /\ outcome.order \in DOMAIN orders
       /\ pCurrent # Idle
  /\ intake \in [OrderIds -> {"none", "inserted", "accepted", "refused"}]
  /\ \A o \in OrderIds : intake[o] = "none" <=> o \notin DOMAIN orders
  /\ restarts \in 0..MaxRestarts

\* What the handler has to publish after its transaction.
LEMMA OutcomeTyped ==
  ASSUME SagaInv, ApplyQuote, Store!Actionable(Portfolio!InHand.order, EventId)
  PROVE  /\ outcome' = Outcome(Portfolio!InHand.order,
                               orders'[Portfolio!InHand.order])
         /\ outcome' \in Outcomes
         /\ outcome'.order = Portfolio!InHand.order
         /\ UNCHANGED portfolioVars
         /\ \/ /\ outcome'.topic = "order-executed"
               /\ orders'[Portfolio!InHand.order].status = "EXECUTED"
               /\ outcome'.price = orders'[Portfolio!InHand.order].price
            \/ /\ outcome'.topic = "order-rejected"
               /\ orders'[Portfolio!InHand.order].status = "REJECTED"
               /\ outcome'.reason = orders'[Portfolio!InHand.order].reason
<1> DEFINE o == Portfolio!InHand.order
           p == Portfolio!InHand.price
<1>1. /\ Dispatched("price-quoted")
      /\ Store!ApplyPriceQuoted(o, EventId, p)
      /\ outcome' = Outcome(o, orders'[o])
      /\ UNCHANGED portfolioVars
  BY DEF ApplyQuote
<1>2. Books!ApplyPriceQuoted(o, EventId, p) /\ p \in Prices
  BY <1>1, QuoteIsStep
<1>3. Books!Actionable(o, EventId) /\ o \in OrderIds
  BY <1>1, PortfolioInHand
     DEF Store!Actionable, Books!Actionable, Store!IsCreated, Books!IsCreated,
         Dispatched
<1>4. \/ orders'[o].status = "EXECUTED" /\ orders'[o].price = p
      \/ /\ orders'[o].status = "REJECTED"
         /\ orders'[o].reason \in {"INSUFFICIENT_BALANCE", "INSUFFICIENT_ASSET"}
  BY <1>2, <1>3, BooksConstants, Books!QuoteEffect DEF SagaInv
<1> HIDE DEF o, p
<1>5. CASE orders'[o].status = "EXECUTED" /\ orders'[o].price = p
  <2>1. outcome' = [topic |-> "order-executed", order |-> o, price |-> p]
    BY <1>1, <1>5 DEF Outcome
  <2> QED
    BY <1>1, <1>2, <1>3, <1>5, <2>1 DEF Outcomes, Events, o, p
<1>6. CASE /\ orders'[o].status = "REJECTED"
           /\ orders'[o].reason \in {"INSUFFICIENT_BALANCE", "INSUFFICIENT_ASSET"}
  <2>1. outcome' = [topic |-> "order-rejected", order |-> o,
                    reason |-> orders'[o].reason]
    BY <1>1, <1>6 DEF Outcome
  <2>2. outcome' \in Outcomes
    BY <1>3, <1>6, <2>1 DEF Outcomes, Events, Store!RejectionReason
  <2> QED
    BY <1>1, <1>6, <2>1, <2>2 DEF o
<1> QED
  BY <1>4, <1>5, <1>6

LEMMA LocalsKept ==
  ASSUME SagaInv, [Next]_vars
  PROVE  Locals'
<1>0. Locals
  BY DEF SagaInv, Locals
<1> USE <1>0 DEF Locals
<1>1. ASSUME NEW o \in OrderIds, NEW req \in Requests, PlaceOrder(o, req)
      PROVE  Locals'
  <2>1. /\ o \notin DOMAIN orders
        /\ DOMAIN orders' = DOMAIN orders \cup {o}
    BY <1>1, PlaceEffect
  <2>2. /\ intake' = [intake EXCEPT ![o] = "inserted"]
        /\ UNCHANGED <<pCurrent, outcome, consuming, restarts>>
    BY <1>1 DEF PlaceOrder, portfolioVars
  <2> QED
    BY <2>1, <2>2
<1>2. ASSUME DOMAIN orders' = DOMAIN orders, ~ApplyQuote,
             ~\E o \in OrderIds, req \in Requests : PlaceOrder(o, req)
      PROVE  Locals'
  <2>1. ASSUME NEW o \in OrderIds, Accept(o) \/ IntakeFails(o)
        PROVE  Locals'
    <3>1. /\ intake[o] = "inserted"
          /\ \/ intake' = [intake EXCEPT ![o] = "accepted"]
             \/ intake' = [intake EXCEPT ![o] = "refused"]
          /\ UNCHANGED <<pCurrent, outcome, consuming, restarts>>
      BY <2>1 DEF Accept, IntakeFails, portfolioVars
    <3> QED
      BY <1>2, <3>1
  <2>2. CASE MarketRecv \/ MarketQuotes \/ MarketFails \/ PortfolioStarts
    BY <1>2, <2>2
       DEF MarketRecv, MarketQuotes, MarketFails, PortfolioStarts, portfolioVars
  <2>3. CASE MarketRestart \/ MarketRejoin \/ PortfolioRejoin
    BY <1>2, <2>3, SagaAssumption
       DEF MarketRestart, MarketRejoin, PortfolioRejoin, portfolioVars,
           Portfolio!Rejoin
  <2>4. CASE PortfolioRecv
    BY <1>2, <2>4 DEF PortfolioRecv, Portfolio!Recv
  <2>5. CASE QuotePanics \/ ApplyRejection \/ TransactionFails
    BY <1>2, <2>5
       DEF QuotePanics, ApplyRejection, TransactionFails, Dispatched,
           Portfolio!HandlerPanics, Portfolio!HandlerOk, Portfolio!HandlerErr
  <2>6. CASE EmitOutcome \/ EmitFails
    BY <1>2, <2>6
       DEF EmitOutcome, EmitFails, Portfolio!HandlerOk, Portfolio!HandlerErr
  <2>7. CASE PortfolioRestart
    BY <1>2, <2>7, SagaAssumption DEF PortfolioRestart, Portfolio!Restart
  <2>8. CASE UNCHANGED vars
    BY <1>2, <2>8 DEF vars, portfolioVars
  <2> QED
    BY <1>2, <2>1, <2>2, <2>3, <2>4, <2>5, <2>6, <2>7, <2>8 DEF Next
<1>3. ASSUME DOMAIN orders' = DOMAIN orders, ApplyQuote
      PROVE  Locals'
  <2>1. CASE Store!Actionable(Portfolio!InHand.order, EventId)
    <3>1. /\ outcome' \in Outcomes
          /\ outcome'.order = Portfolio!InHand.order
          /\ UNCHANGED portfolioVars
      BY <1>3, <2>1, OutcomeTyped
    <3>2. pCurrent # Idle /\ Portfolio!InHand.order \in DOMAIN orders
      BY <1>3, PortfolioInHand DEF ApplyQuote, Dispatched
    <3>3. UNCHANGED <<intake, consuming, restarts>>
      BY <1>3 DEF ApplyQuote
    <3> QED
      BY <1>3, <3>1, <3>2, <3>3 DEF portfolioVars
  <2>2. CASE ~Store!Actionable(Portfolio!InHand.order, EventId)
    <3>1. /\ Portfolio!HandlerOk /\ UNCHANGED outcome /\ outcome = Idle
          /\ UNCHANGED <<intake, consuming, restarts>>
      BY <1>3, <2>2 DEF ApplyQuote, Dispatched
    <3> QED
      BY <1>3, <3>1 DEF Portfolio!HandlerOk
  <2> QED
    BY <2>1, <2>2
<1> QED
  BY <1>1, <1>2, <1>3, SameOrders

LEMMA SagaNext ==
  ASSUME SagaInv, [Next]_vars
  PROVE  SagaInv'
<1>1. SagaMoves
  BY NextMoves
<1>2. Books!Inv'
  BY <1>1, StoreNext DEF SagaMoves, StoreMoves, SagaInv
<1>3. /\ log' \in [Streams -> Seq(Events)]
      /\ Extends(log, log')
      /\ MessagesOK(log', orders)
  BY <1>1, SendFacts DEF SagaMoves, SagaInv
<1>4. DOMAIN orders \subseteq DOMAIN orders'
  BY SameOrders, PlaceEffect
<1>5. MessagesOK(log', orders')
  BY <1>3, <1>4 DEF MessagesOK
<1>6. GroupOK(MarketStreams, log', mPosition', mCommitted', mCurrent')
  BY <1>1, <1>3, GroupKept, SubsetsHold
     DEF SagaMoves, MarketMoves, SagaInv, StreamSubsets
<1>7. GroupOK(PortfolioStreams, log', pPosition', pCommitted', pCurrent')
  BY <1>1, <1>3, GroupKept, SubsetsHold
     DEF SagaMoves, PortfolioMoves, SagaInv, StreamSubsets
<1>8. Locals'
  BY LocalsKept
<1> QED
  BY <1>2, <1>3, <1>5, <1>6, <1>7, <1>8 DEF SagaInv, Locals

LEMMA SagaInvariance == Init /\ [][Next]_vars => []SagaInv
BY SagaInit, SagaNext, PTL

\* The database, the topics and the positions of both groups are well typed,
\* whatever fails, repeats or restarts.
THEOREM SagaTypeCorrect == Spec => []TypeOK
BY SagaInvariance, SagaTypeOK, PTL DEF Spec


-----------------------------------------------------------------------------
(***************************************************************************)
(* What a step does to the rows, and what a transaction of the handler     *)
(* does.                                                                   *)
(***************************************************************************)

\* A row appears open and never goes; once resolved it never changes.
RowsKept ==
  /\ \A o \in DOMAIN orders :
       /\ o \in DOMAIN orders'
       /\ orders[o].status # "CREATED" => orders'[o] = orders[o]
  /\ \A o \in DOMAIN orders' \ DOMAIN orders : orders'[o].status = "CREATED"

LEMMA RowsKeptNext ==
  ASSUME SagaInv, [Next]_vars
  PROVE  RowsKept
<1>1. Books!Next \/ UNCHANGED Books!vars
  BY NextMoves DEF SagaMoves, StoreMoves, storeVars, Books!vars
<1>2. \A o \in Books!Resolved : orders'[o] = orders[o]
  BY <1>1, BooksConstants, Books!FinalStep DEF SagaInv
<1>3. /\ DOMAIN orders \subseteq DOMAIN orders'
      /\ \A o \in DOMAIN orders' \ DOMAIN orders : orders'[o].status = "CREATED"
  BY SameOrders, PlaceEffect
<1> QED
  BY <1>2, <1>3 DEF RowsKept, Books!Resolved

\* The transaction of the message in hand commits: the event is in the ledger, and
\* if it was not and its order was open, the order is resolved.
Commits(o) ==
  /\ DOMAIN orders' = DOMAIN orders
  /\ \A x \in DOMAIN orders \ {o} : orders'[x] = orders[x]
  /\ processed' = processed \cup {EventId}
  /\ ~(EventId \notin processed /\ orders[o].status = "CREATED") => UNCHANGED orders
  /\ EventId \notin processed /\ orders[o].status = "CREATED" =>
       \/ /\ orders'[o].status = "EXECUTED"
          /\ pCurrent.stream[1] = "price-quoted"
          /\ orders'[o].price = Portfolio!InHand.price
       \/ orders'[o].status = "REJECTED"

LEMMA QuoteCommits ==
  ASSUME SagaInv, Dispatched("price-quoted"),
         Store!ApplyPriceQuoted(Portfolio!InHand.order, EventId,
                                Portfolio!InHand.price)
  PROVE  Commits(Portfolio!InHand.order)
<1>1. Books!ApplyPriceQuoted(Portfolio!InHand.order, EventId,
                             Portfolio!InHand.price)
  BY QuoteIsStep
<1>2. Portfolio!InHand.order \in DOMAIN orders
  BY PortfolioInHand DEF Dispatched
<1>3. Books!Actionable(Portfolio!InHand.order, EventId) <=>
        EventId \notin processed /\ orders[Portfolio!InHand.order].status = "CREATED"
  BY <1>2 DEF Books!Actionable, Books!IsCreated
<1>4. Books!Inv
  BY DEF SagaInv
<1>5. pCurrent.stream[1] = "price-quoted"
  BY DEF Dispatched
<1> QED
  BY <1>1, <1>3, <1>4, <1>5, BooksConstants, Books!QuoteEffect DEF Commits

LEMMA RejectionCommits ==
  ASSUME SagaInv, Dispatched("order-rejected"),
         Store!ApplyOrderRejected(Portfolio!InHand.order, EventId,
                                  Portfolio!InHand.reason)
  PROVE  Commits(Portfolio!InHand.order)
<1>1. Books!ApplyOrderRejected(Portfolio!InHand.order, EventId,
                               Portfolio!InHand.reason)
  BY RejectionIsStep
<1>2. Portfolio!InHand.order \in DOMAIN orders
  BY PortfolioInHand DEF Dispatched
<1>3. Books!Actionable(Portfolio!InHand.order, EventId) <=>
        EventId \notin processed /\ orders[Portfolio!InHand.order].status = "CREATED"
  BY <1>2 DEF Books!Actionable, Books!IsCreated
<1>4. Books!Inv
  BY DEF SagaInv
<1> QED
  BY <1>1, <1>3, <1>4, BooksConstants, Books!RejectionEffect DEF Commits

\* The steps that run a transaction of the handler.
LEMMA TransactionEffect ==
  ASSUME SagaInv, ApplyQuote \/ ApplyRejection \/ TransactionFails
  PROVE  /\ pCurrent # Idle /\ outcome = Idle
         /\ UNCHANGED <<log, intake, consuming>>
         /\ \/ TransactionFails /\ UNCHANGED <<orders, processed>>
            \/ Commits(Portfolio!InHand.order)
<1>1. CASE ApplyQuote
  BY <1>1, QuoteCommits DEF ApplyQuote, Dispatched
<1>2. CASE ApplyRejection
  BY <1>2, RejectionCommits DEF ApplyRejection, Dispatched
<1>3. CASE TransactionFails
  <2>1. \/ UNCHANGED storeVars
        \/ Commits(Portfolio!InHand.order)
    BY <1>3, QuoteCommits, RejectionCommits DEF TransactionFails
  <2>2. /\ Dispatched("price-quoted") \/ Dispatched("order-rejected")
        /\ UNCHANGED <<log, intake, consuming>>
    BY <1>3 DEF TransactionFails
  <2> QED
    BY <1>3, <2>1, <2>2 DEF Dispatched, storeVars
<1> QED
  BY <1>1, <1>2, <1>3

\* What only the handler of the Portfolio Service tells.
Shortage == {"INSUFFICIENT_BALANCE", "INSUFFICIENT_ASSET"}
TellsOutcome(event) ==
  \/ event.topic = "order-executed"
  \/ event.topic = "order-rejected" /\ event.reason \in Shortage

\* A step of somebody else.
Elsewhere ==
  /\ UNCHANGED <<processed, pPosition, pCommitted, pCurrent, outcome, consuming>>
  /\ \A o \in DOMAIN orders : orders'[o] = orders[o]
  /\ \/ UNCHANGED log
     \/ \E event \in Events :
          event.order \in DOMAIN orders /\ ~TellsOutcome(event) /\ Send(event)

\* A step of the portfolio consumer that leaves the database alone.
ConsumerStep ==
  \/ PortfolioRecv \/ QuotePanics \/ EmitOutcome \/ EmitFails
  \/ PortfolioRestart \/ PortfolioRejoin

LEMMA Elsewheres ==
  ASSUME SagaInv,
         \/ \E o \in OrderIds, req \in Requests : PlaceOrder(o, req)
         \/ \E o \in OrderIds : Accept(o) \/ IntakeFails(o)
         \/ MarketRecv \/ MarketQuotes \/ MarketFails
         \/ MarketRestart \/ MarketRejoin
         \/ PortfolioStarts
         \/ UNCHANGED vars
  PROVE  Elsewhere
<1>1. CASE \E o \in OrderIds, req \in Requests : PlaceOrder(o, req)
  BY <1>1, PlaceEffect DEF PlaceOrder, portfolioVars, Elsewhere
<1>2. ASSUME NEW o \in OrderIds, Accept(o) \/ IntakeFails(o)
      PROVE  Elsewhere
  <2>1. /\ intake[o] = "inserted"
        /\ SendFails(OrderCreated(o))
        /\ UNCHANGED <<storeVars, portfolioVars, outcome, consuming>>
    BY <1>2 DEF Accept, IntakeFails, SendFails
  <2>2. OrderCreated(o) \in Events /\ OrderCreated(o).order \in DOMAIN orders
    BY <2>1, CreatedEvent DEF SagaInv
  <2>3. ~TellsOutcome(OrderCreated(o))
    BY DEF TellsOutcome, OrderCreated
  <2> QED
    BY <2>1, <2>2, <2>3 DEF SendFails, Elsewhere, storeVars, portfolioVars
<1>3. CASE MarketRecv \/ MarketRestart \/ MarketRejoin
  BY <1>3 DEF MarketRecv, MarketRestart, MarketRejoin, Elsewhere, storeVars,
              portfolioVars
<1>4. CASE MarketQuotes \/ MarketFails
  <2>1. /\ mCurrent # Idle
        /\ UNCHANGED <<storeVars, portfolioVars, outcome, consuming>>
    BY <1>4 DEF MarketQuotes, MarketFails
  <2>2. PICK event \in Quotes(Market!InHand) : SendFails(event)
    BY <1>4 DEF MarketQuotes, MarketFails, SendFails
  <2>3. event \in Events /\ event.order \in DOMAIN orders
    BY <2>1, QuoteEvents
  <2>4. ~TellsOutcome(event)
    BY DEF Quotes, TellsOutcome, Shortage
  <2> QED
    BY <2>1, <2>2, <2>3, <2>4 DEF SendFails, Elsewhere, storeVars, portfolioVars
<1>5. CASE PortfolioStarts
  <2>1. UNCHANGED <<orders, processed>>
    BY <1>5, SameStart, BooksConstants, Books!StartEffect DEF PortfolioStarts
  <2> QED
    BY <1>5, <2>1 DEF PortfolioStarts, Elsewhere, portfolioVars
<1>6. CASE UNCHANGED vars
  BY <1>6 DEF vars, Elsewhere, storeVars, portfolioVars
<1> QED
  BY <1>1, <1>2, <1>3, <1>4, <1>5, <1>6

\* Every step is one of these.
LEMMA StepKinds ==
  ASSUME SagaInv, [Next]_vars
  PROVE  \/ Elsewhere
         \/ ApplyQuote \/ ApplyRejection \/ TransactionFails
         \/ ConsumerStep
BY Elsewheres DEF Next, ConsumerStep


-----------------------------------------------------------------------------
(***************************************************************************)
(* Nothing is skipped.  When the calls to the database answer, a handler   *)
(* that ends has its event in processed_events, and a consumer that cannot *)
(* handle a message ends.                                                  *)
(***************************************************************************)
Behind(s, i) == <<s, i>> \in processed

Progress ==
  /\ CommittedIsProcessed
  /\ consuming =>
       \A s \in PortfolioStreams : \A i \in 1..pPosition[s] :
         Behind(s, i) \/ (pCurrent # Idle /\ <<s, i>> = EventId)
  /\ pCurrent # Idle => \A i \in 1..(pCurrent.index - 1) : Behind(pCurrent.stream, i)
  /\ outcome # Idle => EventId \in processed

LEMMA ProgressInit == Init => Progress
BY DEF Init, Portfolio!ConsumerInit, Progress, CommittedIsProcessed

\* The handler ends: its event is in the ledger, or the consumer has ended.
LEMMA ProgressEnds ==
  ASSUME SagaInv, Progress, pCurrent # Idle, pCurrent' = Idle,
         processed \subseteq processed', UNCHANGED pPosition, outcome' = Idle,
         \/ EventId \in processed'
         \/ consuming' = FALSE /\ UNCHANGED pCommitted,
         \/ pCommitted' = [pCommitted EXCEPT ![pCurrent.stream] = pCurrent.index]
         \/ UNCHANGED pCommitted
  PROVE  Progress'
<1>1. /\ pCurrent.stream \in PortfolioStreams /\ pCurrent.index \in Nat \ {0}
      /\ consuming
  BY PortfolioInHand DEF SagaInv
<1>2. pCommitted \in [PortfolioStreams -> Nat]
  BY DEF SagaInv, GroupOK
<1>3. CommittedIsProcessed'
  <2> SUFFICES ASSUME NEW s \in PortfolioStreams, NEW i \in 1..pCommitted'[s]
               PROVE  <<s, i>> \in processed'
    BY DEF CommittedIsProcessed
  <2>1. CASE i \in 1..pCommitted[s]
    BY <2>1 DEF Progress, CommittedIsProcessed
  <2>2. CASE i \notin 1..pCommitted[s]
    <3>1. s = pCurrent.stream /\ pCommitted'[s] = pCurrent.index
      BY <1>1, <1>2, <2>2
    <3>2. EventId \in processed'
      BY <2>2
    <3>3. i \in 1..(pCurrent.index - 1) \/ <<s, i>> = EventId
      BY <1>1, <3>1 DEF EventId
    <3> QED
      BY <3>1, <3>2, <3>3 DEF Progress, Behind
  <2> QED
    BY <2>1, <2>2
<1>4. consuming' =>
        \A s \in PortfolioStreams : \A i \in 1..pPosition'[s] : <<s, i>> \in processed'
  BY <1>1 DEF Progress, Behind
<1> QED
  BY <1>3, <1>4 DEF Progress, Behind

LEMMA ProgressNext ==
  ASSUME "database" \notin Faults, SagaInv, Progress, [Next]_vars
  PROVE  Progress'
<1>1. CASE Elsewhere
  BY <1>1 DEF Elsewhere, Progress, CommittedIsProcessed, Behind, EventId
<1>2. CASE ApplyQuote \/ ApplyRejection \/ TransactionFails
  <2>1. ~TransactionFails
    BY DEF TransactionFails
  <2>2. /\ pCurrent # Idle /\ outcome = Idle
        /\ UNCHANGED consuming
        /\ processed' = processed \cup {EventId}
    BY <1>2, <2>1, TransactionEffect DEF Commits
  <2>3. CASE Portfolio!HandlerOk /\ UNCHANGED outcome
    BY <2>2, <2>3, ProgressEnds DEF Portfolio!HandlerOk
  <2>4. CASE UNCHANGED portfolioVars
    BY <2>2, <2>4
       DEF portfolioVars, Progress, CommittedIsProcessed, Behind, EventId
  <2> QED
    BY <1>2, <2>1, <2>3, <2>4 DEF ApplyQuote, ApplyRejection
<1>3. CASE PortfolioRecv
  <2>1. PICK s \in PortfolioStreams : Portfolio!Recv(s)
    BY <1>3 DEF PortfolioRecv
  <2>2. /\ pCurrent = Idle /\ pPosition[s] \in Nat
        /\ pCurrent' = [stream |-> s, index |-> pPosition[s] + 1]
        /\ pPosition' = [pPosition EXCEPT ![s] = pPosition[s] + 1]
        /\ pPosition \in [PortfolioStreams -> Nat]
        /\ UNCHANGED pCommitted
    BY <2>1 DEF Portfolio!Recv, SagaInv, GroupOK
  <2>3. /\ consuming /\ UNCHANGED <<processed, outcome, consuming>>
        /\ outcome = Idle
    BY <1>3, <2>2 DEF PortfolioRecv, storeVars, SagaInv
  <2>4. \A t \in PortfolioStreams : \A i \in 1..pPosition[t] : <<t, i>> \in processed
    BY <2>2, <2>3 DEF Progress, Behind
  <2>5. /\ pCurrent'.stream = s /\ pCurrent'.index = pPosition[s] + 1
        /\ EventId' = <<s, pPosition[s] + 1>>
        /\ pCurrent' # Idle
    <3>1. pCurrent' \in Portfolio!Unhandled
      BY <2>2 DEF Portfolio!Unhandled
    <3> QED
      BY <2>2, <3>1, IdleAssumption DEF EventId
  <2>6. \A t \in PortfolioStreams : \A i \in 1..pPosition'[t] :
          <<t, i>> \in processed \/ <<t, i>> = <<s, pPosition[s] + 1>>
    <3> SUFFICES ASSUME NEW t \in PortfolioStreams, NEW i \in 1..pPosition'[t]
                 PROVE  <<t, i>> \in processed \/ <<t, i>> = <<s, pPosition[s] + 1>>
      OBVIOUS
    <3>1. CASE t # s
      BY <2>2, <2>4, <3>1
    <3>2. CASE t = s
      <4>1. i \in 1..(pPosition[s] + 1)
        BY <2>2, <3>2
      <4>2. i \in 1..pPosition[s] \/ i = pPosition[s] + 1
        BY <2>2, <4>1
      <4> QED
        BY <2>4, <3>2, <4>2
    <3> QED
      BY <3>1, <3>2
  <2>7. \A i \in 1..(pCurrent'.index - 1) : <<pCurrent'.stream, i>> \in processed
    BY <2>2, <2>4, <2>5
  <2> QED
    BY <2>2, <2>3, <2>5, <2>6, <2>7 DEF Progress, CommittedIsProcessed, Behind
<1>4. CASE QuotePanics
  <2>1. /\ pCurrent # Idle /\ pCurrent' = Idle /\ UNCHANGED <<pPosition, pCommitted>>
        /\ outcome = Idle /\ UNCHANGED outcome
        /\ consuming' = FALSE /\ UNCHANGED processed
    BY <1>4 DEF QuotePanics, Dispatched, Portfolio!HandlerPanics, storeVars
  <2> QED
    BY <2>1, ProgressEnds
<1>5. CASE EmitOutcome \/ EmitFails
  <2>1. /\ pCurrent # Idle /\ pCurrent' = Idle /\ UNCHANGED pPosition
        /\ outcome # Idle /\ outcome' = Idle
        /\ UNCHANGED <<processed, consuming>>
        /\ \/ pCommitted' = [pCommitted EXCEPT ![pCurrent.stream] = pCurrent.index]
           \/ UNCHANGED pCommitted
    BY <1>5 DEF EmitOutcome, EmitFails, Portfolio!HandlerOk,
                Portfolio!HandlerErr, storeVars
  <2>2. EventId \in processed'
    BY <2>1 DEF Progress
  <2> QED
    BY <2>1, <2>2, ProgressEnds
<1>6. CASE PortfolioRestart
  <2>1. /\ pPosition' = pCommitted /\ UNCHANGED pCommitted
        /\ pCurrent' = Idle /\ outcome' = Idle
        /\ UNCHANGED processed
    BY <1>6, SameStart, BooksConstants, Books!StartEffect
       DEF PortfolioRestart, Portfolio!Restart
  <2> QED
    BY <2>1 DEF Progress, CommittedIsProcessed, Behind
<1>7. CASE PortfolioRejoin
  <2>1. /\ pPosition' = pCommitted
        /\ UNCHANGED <<pCommitted, pCurrent, outcome, consuming, processed>>
    BY <1>7 DEF PortfolioRejoin, Portfolio!Rejoin, storeVars
  <2> QED
    BY <2>1 DEF Progress, CommittedIsProcessed, Behind, EventId
<1> QED
  BY <1>1, <1>2, <1>3, <1>4, <1>5, <1>6, <1>7, StepKinds DEF ConsumerStep

\* The broker and the database agree: when every call to the database answers, the
\* offsets of portfolio-service pass processed events only, whatever the lost
\* commits, the failed sends, the panics, the restarts and the rejoins.
THEOREM OffsetsBehindLedger ==
  ASSUME "database" \notin Faults
  PROVE  Spec => []CommittedIsProcessed
<1>1. Progress => CommittedIsProcessed
  BY DEF Progress
<1>2. SagaInv /\ Progress /\ [Next]_vars => Progress'
  BY ProgressNext
<1> QED
  BY <1>1, <1>2, ProgressInit, SagaInvariance, PTL DEF Spec


-----------------------------------------------------------------------------
(***************************************************************************)
(* The first quote decides.                                                *)
(***************************************************************************)

\* The ledger holds events of resolved orders: what was processed resolved its
\* order, or found it resolved.
LedgerResolved ==
  \A id \in processed :
    /\ id[1] \in PortfolioStreams
    /\ id[2] \in DOMAIN log[id[1]]
    /\ orders[log[id[1]][id[2]].order].status # "CREATED"

LEMMA LogKept ==
  ASSUME SagaInv, [Next]_vars, NEW s \in Streams, NEW i \in DOMAIN log[s]
  PROVE  /\ i \in DOMAIN log'[s] /\ log'[s][i] = log[s][i]
         /\ i \in Nat \ {0}
         /\ log[s][i] \in Events
         /\ log[s][i].order \in DOMAIN orders
<1>1. /\ log \in [Streams -> Seq(Events)]
      /\ log' \in [Streams -> Seq(Events)] /\ Extends(log, log')
  BY NextMoves, SendFacts DEF SagaMoves, SagaInv
<1>2. i \in 1..Len(log[s]) /\ DOMAIN log'[s] = 1..Len(log'[s])
  BY <1>1
<1> QED
  BY <1>1, <1>2 DEF Extends, SagaInv, MessagesOK

\* Who writes the ledger and the rows.
LEMMA LedgerSteps ==
  ASSUME SagaInv, [Next]_vars
  PROVE  \/ /\ UNCHANGED processed
            /\ \A o \in DOMAIN orders : orders'[o] = orders[o]
         \/ /\ pCurrent # Idle /\ outcome = Idle /\ UNCHANGED log
            /\ Commits(Portfolio!InHand.order)
<1>1. CASE ConsumerStep
  BY <1>1, SameStart, BooksConstants, Books!StartEffect
     DEF ConsumerStep, PortfolioRecv, QuotePanics, EmitOutcome, EmitFails,
         PortfolioRestart, PortfolioRejoin, storeVars
<1>2. CASE Elsewhere
  BY <1>2 DEF Elsewhere
<1> QED
  BY <1>1, <1>2, StepKinds, TransactionEffect

LEMMA LedgerNext ==
  ASSUME SagaInv, LedgerResolved, [Next]_vars
  PROVE  LedgerResolved'
<1> SUFFICES ASSUME NEW id \in processed'
             PROVE  /\ id[1] \in PortfolioStreams
                    /\ id[2] \in DOMAIN log'[id[1]]
                    /\ orders'[log'[id[1]][id[2]].order].status # "CREATED"
  BY DEF LedgerResolved
<1>1. CASE id \in processed
  <2>1. /\ id[1] \in PortfolioStreams /\ id[1] \in Streams
        /\ id[2] \in DOMAIN log[id[1]]
        /\ orders[log[id[1]][id[2]].order].status # "CREATED"
    BY <1>1, SubsetsHold DEF LedgerResolved, StreamSubsets
  <2>2. /\ id[2] \in DOMAIN log'[id[1]]
        /\ log'[id[1]][id[2]] = log[id[1]][id[2]]
        /\ log[id[1]][id[2]].order \in DOMAIN orders
    BY <2>1, LogKept
  <2> QED
    BY <2>1, <2>2, RowsKeptNext DEF RowsKept
<1>2. CASE id \notin processed
  <2>1. /\ pCurrent # Idle /\ UNCHANGED log
        /\ Commits(Portfolio!InHand.order)
        /\ id = EventId
    BY <1>2, LedgerSteps DEF Commits
  <2>2. /\ pCurrent.stream \in PortfolioStreams
        /\ pCurrent.index \in DOMAIN log[pCurrent.stream]
        /\ Portfolio!InHand = log[pCurrent.stream][pCurrent.index]
    BY <2>1, PortfolioInHand
  <2>3. orders'[Portfolio!InHand.order].status # "CREATED"
    BY <1>2, <2>1 DEF Commits
  <2> QED
    BY <2>1, <2>2, <2>3 DEF EventId
<1> QED
  BY <1>1, <1>2

\* In what position of its stream the event that resolves an order stands.
FirstSent(topic, o, i) ==
  i \in Sent(topic, o) /\ \A j \in Sent(topic, o) : i <= j

\* An event stays the first about its order.
LEMMA FirstStays ==
  ASSUME SagaInv, [Next]_vars, NEW topic \in Topics, NEW o \in OrderIds, NEW i,
         FirstSent(topic, o, i)
  PROVE  FirstSent(topic, o, i)' /\ Topic(topic, o)'[i] = Topic(topic, o)[i]
<1>1. PICK s : s = <<topic, PartitionOf[o]>>
  OBVIOUS
<1>2. s \in Streams
  BY <1>1, SagaAssumption DEF Streams
<1>3. Topic(topic, o) = log[s] /\ Topic(topic, o)' = log'[s]
  BY <1>1 DEF Topic
<1>4. /\ log \in [Streams -> Seq(Events)]
      /\ log' \in [Streams -> Seq(Events)] /\ Extends(log, log')
  BY NextMoves, SendFacts DEF SagaMoves, SagaInv
<1>5. /\ DOMAIN log[s] = 1..Len(log[s]) /\ DOMAIN log'[s] = 1..Len(log'[s])
      /\ Len(log[s]) \in Nat /\ Len(log'[s]) \in Nat
      /\ Len(log[s]) <= Len(log'[s])
      /\ \A k \in 1..Len(log[s]) : log'[s][k] = log[s][k]
  BY <1>2, <1>4 DEF Extends
<1>6. i \in 1..Len(log[s]) /\ log[s][i].order = o
  BY <1>3, <1>5 DEF FirstSent, Sent
<1>7. ASSUME NEW j \in DOMAIN log'[s], log'[s][j].order = o
      PROVE  i <= j
  <2>1. CASE j \in 1..Len(log[s])
    BY <1>3, <1>5, <1>7, <2>1 DEF FirstSent, Sent
  <2>2. CASE j \notin 1..Len(log[s])
    BY <1>5, <1>6, <1>7, <2>2
  <2> QED
    BY <2>1, <2>2
<1> QED
  BY <1>3, <1>5, <1>6, <1>7 DEF FirstSent, Sent

\* FirstQuoteWins, put with FirstSent.
FirstDecides ==
  \A o \in OrderIds :
    Status(o) = "EXECUTED" =>
      \E i : /\ FirstSent("price-quoted", o, i)
             /\ orders[o].price = Topic("price-quoted", o)[i].price

\* A quote that resolves its order is the first about it: all before it in the
\* stream are processed, and an order they were about would be resolved.
LEMMA DecidingIsFirst ==
  ASSUME SagaInv, Progress, LedgerResolved, NEW o \in OrderIds,
         pCurrent # Idle, pCurrent.stream[1] = "price-quoted",
         o = Portfolio!InHand.order, orders[o].status = "CREATED"
  PROVE  /\ FirstSent("price-quoted", o, pCurrent.index)
         /\ Topic("price-quoted", o)[pCurrent.index] = Portfolio!InHand
<1>1. PICK s, k : s = pCurrent.stream /\ k = pCurrent.index
  OBVIOUS
<1>2. /\ s \in Streams /\ k \in DOMAIN log[s] /\ k \in Nat \ {0}
      /\ Portfolio!InHand = log[s][k] /\ log[s] \in Seq(Events)
  BY <1>1, PortfolioInHand DEF SagaInv
<1>3. s = <<"price-quoted", PartitionOf[o]>>
  BY <1>1, <1>2 DEF SagaInv, MessagesOK, Streams
<1>4. Topic("price-quoted", o) = log[s]
  BY <1>3 DEF Topic
<1>5. ASSUME NEW j \in DOMAIN log[s], log[s][j].order = o
      PROVE  k <= j
  <2>1. j \in Nat \ {0}
    BY <1>2
  <2> SUFFICES ASSUME j < k
               PROVE  FALSE
    BY <1>2, <2>1
  <2>2. j \in 1..(k - 1)
    BY <1>2, <2>1
  <2>3. <<s, j>> \in processed
    BY <1>1, <2>2 DEF Progress, Behind
  <2>4. <<s, j>>[1] = s /\ <<s, j>>[2] = j
    OBVIOUS
  <2>5. orders[log[s][j].order].status # "CREATED"
    BY <2>3, <2>4 DEF LedgerResolved
  <2> QED
    BY <1>5, <2>5
<1> QED
  BY <1>1, <1>2, <1>4, <1>5 DEF FirstSent, Sent


\* An order that a step resolves is the one of the message in hand.
LEMMA WhoResolves ==
  ASSUME SagaInv, [Next]_vars, NEW o \in OrderIds, Status(o)' # Status(o)
  PROVE  \/ Status(o) = "NONE" /\ Status(o)' = "CREATED"
         \/ /\ pCurrent # Idle /\ outcome = Idle /\ UNCHANGED log
            /\ Commits(o) /\ o = Portfolio!InHand.order
            /\ Status(o) = "CREATED" /\ EventId \notin processed
            /\ Status(o)' \in {"EXECUTED", "REJECTED"}
<1>1. CASE o \notin DOMAIN orders
  BY <1>1, RowsKeptNext DEF RowsKept, Status
<1>2. CASE o \in DOMAIN orders
  <2>1. o \in DOMAIN orders' /\ orders'[o] # orders[o]
    BY <1>2, RowsKeptNext DEF RowsKept, Status
  <2>2. /\ pCurrent # Idle /\ outcome = Idle /\ UNCHANGED log
        /\ Commits(Portfolio!InHand.order)
    BY <1>2, <2>1, LedgerSteps
  <2>3. o = Portfolio!InHand.order
    BY <1>2, <2>1, <2>2 DEF Commits
  <2> QED
    BY <1>2, <2>1, <2>2, <2>3 DEF Commits, Status
<1> QED
  BY <1>1, <1>2

LEMMA FirstNext ==
  ASSUME SagaInv, Progress, LedgerResolved, FirstDecides, [Next]_vars
  PROVE  FirstDecides'
<1> SUFFICES ASSUME NEW o \in OrderIds, Status(o)' = "EXECUTED"
             PROVE  \E i : /\ FirstSent("price-quoted", o, i)'
                           /\ orders'[o].price = Topic("price-quoted", o)'[i].price
  BY DEF FirstDecides
<1>1. "price-quoted" \in Topics
  BY DEF Topics
<1>2. CASE Status(o) = "EXECUTED"
  <2>1. PICK i : /\ FirstSent("price-quoted", o, i)
                 /\ orders[o].price = Topic("price-quoted", o)[i].price
    BY <1>2 DEF FirstDecides
  <2>2. /\ FirstSent("price-quoted", o, i)'
        /\ Topic("price-quoted", o)'[i] = Topic("price-quoted", o)[i]
    BY <1>1, <2>1, FirstStays
  <2>3. orders'[o] = orders[o]
    BY <1>2, RowsKeptNext DEF RowsKept, Status
  <2> QED
    BY <2>1, <2>2, <2>3
<1>3. CASE Status(o) # "EXECUTED"
  <2>1. /\ pCurrent # Idle /\ UNCHANGED log
        /\ Commits(o) /\ o = Portfolio!InHand.order
        /\ Status(o) = "CREATED" /\ EventId \notin processed
    BY <1>3, WhoResolves
  <2>2. o \in DOMAIN orders /\ orders[o].status = "CREATED"
    BY <2>1 DEF Status
  <2>3. orders'[o].status = "EXECUTED"
    BY <2>1, <2>2 DEF Status, Commits
  <2>4. /\ pCurrent.stream[1] = "price-quoted"
        /\ orders'[o].price = Portfolio!InHand.price
    BY <2>1, <2>2, <2>3 DEF Commits
  <2>5. /\ FirstSent("price-quoted", o, pCurrent.index)
        /\ Topic("price-quoted", o)[pCurrent.index] = Portfolio!InHand
    BY <2>1, <2>2, <2>4, DecidingIsFirst
  <2>6. PICK k : k = pCurrent.index
    OBVIOUS
  <2>7. /\ FirstSent("price-quoted", o, k)'
        /\ Topic("price-quoted", o)'[k] = Topic("price-quoted", o)[k]
    BY <1>1, <2>5, <2>6, FirstStays
  <2> QED
    BY <2>4, <2>5, <2>6, <2>7
<1> QED
  BY <1>2, <1>3

\* An executed order has the price of its first quote, however often the Market
\* Service restarts and quotes it again: when every call to the database answers.
THEOREM FirstQuoteDecides ==
  ASSUME "database" \notin Faults
  PROVE  Spec => []FirstQuoteWins
<1>1. Init => LedgerResolved /\ FirstDecides
  BY DEF Init, Store!Init, LedgerResolved, FirstDecides, Status
<1>2. FirstDecides => FirstQuoteWins
  BY DEF FirstDecides, FirstSent, FirstQuoteWins
<1>3. SagaInv /\ Progress /\ [Next]_vars => Progress'
  BY ProgressNext
<1>4. SagaInv /\ LedgerResolved /\ [Next]_vars => LedgerResolved'
  BY LedgerNext
<1>5. SagaInv /\ Progress /\ LedgerResolved /\ FirstDecides /\ [Next]_vars
        => FirstDecides'
  BY FirstNext
<1> QED
  BY <1>1, <1>2, <1>3, <1>4, <1>5, ProgressInit, SagaInvariance, PTL DEF Spec


-----------------------------------------------------------------------------
(***************************************************************************)
(* What the topics tell of an order is what its row says, and an execution *)
(* is told once: whatever fails.                                           *)
(***************************************************************************)

\* An event sent is the last of its stream, and the only new one.
LEMMA SentAfter ==
  ASSUME SagaInv, NEW event \in Events, Send(event),
         NEW topic \in Topics, NEW o \in OrderIds
  PROVE  Sent(topic, o)' = IF event.topic = topic /\ event.order = o
                             THEN Sent(topic, o) \cup {Len(Topic(topic, o)) + 1}
                             ELSE Sent(topic, o)
<1>1. PICK s, t : s = <<topic, PartitionOf[o]>> /\ t = <<event.topic, PartitionOf[event.order]>>
  OBVIOUS
<1>2. s \in Streams /\ t \in Streams
  BY <1>1, SagaAssumption, EventFields DEF Streams
<1>3. /\ log \in [Streams -> Seq(Events)]
      /\ log' = [log EXCEPT ![t] = Append(log[t], event)]
  BY <1>1 DEF Send, SagaInv
<1>4. Topic(topic, o) = log[s] /\ Topic(topic, o)' = log'[s]
  BY <1>1 DEF Topic
<1>5. CASE s # t
  <2>1. log'[s] = log[s] /\ ~(event.topic = topic /\ event.order = o)
    BY <1>1, <1>2, <1>3, <1>5
  <2> QED
    BY <1>4, <2>1 DEF Sent
<1>6. CASE s = t
  <2>1. event.topic = topic
    BY <1>1, <1>6
  <2>2. log'[s] = Append(log[s], event) /\ log[s] \in Seq(Events)
    BY <1>2, <1>3, <1>6
  <2>3. /\ DOMAIN log'[s] = 1..(Len(log[s]) + 1) /\ DOMAIN log[s] = 1..Len(log[s])
        /\ Len(log[s]) \in Nat
        /\ log'[s][Len(log[s]) + 1] = event
        /\ \A i \in 1..Len(log[s]) : log'[s][i] = log[s][i]
    BY <2>2
  <2>4. {i \in DOMAIN log'[s] : log'[s][i].order = o} =
          IF event.order = o
            THEN {i \in DOMAIN log[s] : log[s][i].order = o} \cup {Len(log[s]) + 1}
            ELSE {i \in DOMAIN log[s] : log[s][i].order = o}
    BY <2>3
  <2> QED
    BY <1>4, <2>1, <2>4 DEF Sent
<1> QED
  BY <1>5, <1>6

\* What is new in the topics after a send.
LEMMA SendAdds ==
  ASSUME SagaInv, NEW event \in Events, Send(event),
         NEW s \in Streams, NEW i \in DOMAIN log'[s], i \notin DOMAIN log[s]
  PROVE  log'[s][i] = event
<1>1. PICK t : t = <<event.topic, PartitionOf[event.order]>>
  OBVIOUS
<1>2. /\ log \in [Streams -> Seq(Events)]
      /\ log' = [log EXCEPT ![t] = Append(log[t], event)]
  BY <1>1 DEF Send, SagaInv
<1>3. s = t /\ log'[s] = Append(log[s], event) /\ log[s] \in Seq(Events)
  BY <1>2
<1> QED
  BY <1>3

\* Who writes the topics.
LEMMA LogSteps ==
  ASSUME SagaInv, [Next]_vars
  PROVE  \/ UNCHANGED log
         \/ \E event \in Events :
              /\ event.order \in DOMAIN orders /\ ~TellsOutcome(event)
              /\ Send(event)
              /\ UNCHANGED outcome
         \/ outcome # Idle /\ outcome' = Idle /\ Send(outcome)
<1>1. CASE ConsumerStep
  BY <1>1 DEF ConsumerStep, PortfolioRecv, QuotePanics, EmitOutcome, EmitFails,
              PortfolioRestart, PortfolioRejoin, SendFails
<1>2. CASE Elsewhere
  BY <1>2 DEF Elsewhere
<1> QED
  BY <1>1, <1>2, StepKinds, TransactionEffect

\* An outcome is that of the order of the message in hand, resolved in this step.
LEMMA OutcomeSteps ==
  ASSUME SagaInv, [Next]_vars, outcome' # Idle
  PROVE  \/ UNCHANGED outcome
         \/ ApplyQuote /\ Store!Actionable(Portfolio!InHand.order, EventId)
BY StepKinds
   DEF Elsewhere, ConsumerStep, PortfolioRecv, QuotePanics, EmitOutcome,
       EmitFails, PortfolioRestart, PortfolioRejoin, ApplyQuote,
       ApplyRejection, TransactionFails

\* What an event tells of its order is what the row says.  (A Market Service that
\* has no price speaks for itself only: its order may have been executed.)
Agrees(event) ==
  /\ event.topic = "order-executed" =>
       /\ Status(event.order) = "EXECUTED"
       /\ orders[event.order].price = event.price
  /\ event.topic = "order-rejected" /\ event.reason \in Shortage =>
       /\ Status(event.order) = "REJECTED"
       /\ orders[event.order].reason = event.reason

LEMMA AgreesKept ==
  ASSUME SagaInv, [Next]_vars, NEW event, Agrees(event)
  PROVE  Agrees(event)'
<1>1. Status(event.order) \in {"EXECUTED", "REJECTED"} =>
        /\ event.order \in DOMAIN orders
        /\ orders[event.order].status # "CREATED"
  BY DEF Status
<1> QED
  BY <1>1, RowsKeptNext DEF RowsKept, Agrees, Status

TopicsAgree ==
  /\ \A s \in Streams : \A i \in DOMAIN log[s] : Agrees(log[s][i])
  /\ outcome # Idle => Agrees(outcome)

LEMMA TopicsAgreeNext ==
  ASSUME SagaInv, TopicsAgree, [Next]_vars
  PROVE  TopicsAgree'
<1>1. ASSUME outcome' # Idle
      PROVE  Agrees(outcome)'
  <2>1. CASE UNCHANGED outcome
    <3>1. PICK event : event = outcome
      OBVIOUS
    <3>2. Agrees(event)'
      BY <1>1, <2>1, <3>1, AgreesKept DEF TopicsAgree
    <3> QED
      BY <2>1, <3>1, <3>2 DEF Agrees
  <2>2. CASE ApplyQuote /\ Store!Actionable(Portfolio!InHand.order, EventId)
    <3>1. /\ outcome'.order = Portfolio!InHand.order
          /\ \/ /\ outcome'.topic = "order-executed"
                /\ orders'[Portfolio!InHand.order].status = "EXECUTED"
                /\ outcome'.price = orders'[Portfolio!InHand.order].price
             \/ /\ outcome'.topic = "order-rejected"
                /\ orders'[Portfolio!InHand.order].status = "REJECTED"
                /\ outcome'.reason = orders'[Portfolio!InHand.order].reason
      BY <2>2, OutcomeTyped
    <3>2. Portfolio!InHand.order \in DOMAIN orders'
      BY <2>2, PortfolioInHand, RowsKeptNext
         DEF RowsKept, ApplyQuote, Dispatched
    <3> QED
      BY <3>1, <3>2 DEF Agrees, Status
  <2> QED
    BY <1>1, <2>1, <2>2, OutcomeSteps
<1>2. ASSUME NEW s \in Streams, NEW i \in DOMAIN log'[s]
      PROVE  Agrees(log[s][i])'
  <2>1. PICK message : message = log'[s][i]
    OBVIOUS
  <2>2. Agrees(message)
    <3>1. CASE i \in DOMAIN log[s]
      BY <2>1, <3>1, LogKept DEF TopicsAgree
    <3>2. CASE i \notin DOMAIN log[s]
      <4>1. PICK event \in Events :
               /\ Send(event)
               /\ ~TellsOutcome(event) \/ (outcome # Idle /\ event = outcome)
        BY <3>2, LogSteps DEF SagaInv, Outcomes
      <4>2. Agrees(event)
        BY <4>1 DEF Agrees, TellsOutcome, TopicsAgree
      <4>3. message = event
        BY <2>1, <3>2, <4>1, SendAdds
      <4> QED
        BY <4>2, <4>3
    <3> QED
      BY <3>1, <3>2
  <2>3. Agrees(message)'
    BY <2>2, AgreesKept
  <2> QED
    BY <2>1, <2>3 DEF Agrees
<1> QED
  BY <1>1, <1>2 DEF TopicsAgree


\* An OrderExecuted event exists of an executed order, with the price of its row.
LEMMA ExecutedOnly ==
  ASSUME SagaInv, TopicsAgree, NEW o \in OrderIds,
         NEW i \in Sent("order-executed", o)
  PROVE  /\ Status(o) = "EXECUTED"
         /\ orders[o].price = Topic("order-executed", o)[i].price
<1>1. PICK s : s = <<"order-executed", PartitionOf[o]>>
  OBVIOUS
<1>2. s \in Streams
  BY <1>1, SagaAssumption DEF Streams, Topics
<1>3. Topic("order-executed", o) = log[s]
  BY <1>1 DEF Topic
<1>4. i \in DOMAIN log[s] /\ log[s][i].order = o
  BY <1>3 DEF Sent
<1>5. log[s][i].topic = "order-executed" /\ Agrees(log[s][i])
  BY <1>1, <1>2, <1>4 DEF SagaInv, MessagesOK, TopicsAgree
<1> QED
  BY <1>3, <1>4, <1>5 DEF Agrees

ToldOnce ==
  /\ \A o \in OrderIds : \A i, j \in Sent("order-executed", o) : i = j
  /\ outcome # Idle /\ outcome.topic = "order-executed" =>
       Sent("order-executed", outcome.order) = {}

LEMMA ToldOnceNext ==
  ASSUME SagaInv, TopicsAgree, ToldOnce, [Next]_vars
  PROVE  ToldOnce'
<1>1. "order-executed" \in Topics
  BY DEF Topics
<1>2. ASSUME NEW o \in OrderIds
      PROVE  \A i, j \in Sent("order-executed", o)' : i = j
  <2>1. CASE UNCHANGED log
    BY <2>1 DEF ToldOnce, Sent, Topic
  <2>2. ASSUME NEW event \in Events, ~TellsOutcome(event), Send(event)
        PROVE  Sent("order-executed", o)' = Sent("order-executed", o)
    BY <1>1, <2>2, SentAfter DEF TellsOutcome
  <2>3. CASE outcome # Idle /\ Send(outcome)
    <3>1. outcome \in Events
      BY <2>3 DEF SagaInv, Outcomes
    <3> QED
      BY <1>1, <2>3, <3>1, SentAfter DEF ToldOnce
  <2> QED
    BY <2>1, <2>2, <2>3, LogSteps DEF ToldOnce
<1>3. ASSUME outcome' # Idle, outcome'.topic = "order-executed"
      PROVE  Sent("order-executed", outcome.order)' = {}
  <2>1. CASE UNCHANGED outcome
    <3>1. PICK o : o = outcome.order
      OBVIOUS
    <3>2. o \in OrderIds /\ Sent("order-executed", o) = {}
      BY <1>3, <2>1, <3>1, EventFields DEF ToldOnce, SagaInv, Outcomes
    <3>3. ASSUME NEW event \in Events, ~TellsOutcome(event), Send(event)
          PROVE  Sent("order-executed", o)' = Sent("order-executed", o)
      BY <1>1, <3>2, <3>3, SentAfter DEF TellsOutcome
    <3>4. UNCHANGED log => Sent("order-executed", o)' = Sent("order-executed", o)
      BY DEF Sent, Topic
    <3>5. Sent("order-executed", o)' = {}
      BY <1>3, <3>2, <3>3, <3>4, LogSteps
    <3> QED
      BY <2>1, <3>1, <3>5 DEF Sent, Topic
  <2>2. CASE ApplyQuote /\ Store!Actionable(Portfolio!InHand.order, EventId)
    <3>1. PICK o : o = Portfolio!InHand.order
      OBVIOUS
    <3>2. outcome'.order = o
      BY <2>2, <3>1, OutcomeTyped
    <3>3. /\ o \in OrderIds
          /\ Status(o) = "CREATED"
          /\ UNCHANGED log
      BY <2>2, <3>1, PortfolioInHand
         DEF ApplyQuote, Dispatched, Store!Actionable, Store!IsCreated, Status
    <3>4. Sent("order-executed", o) = {}
      BY <3>3, ExecutedOnly
    <3>5. Sent("order-executed", o)' = {}
      BY <3>3, <3>4 DEF Sent, Topic
    <3> QED
      BY <3>2, <3>5 DEF Sent, Topic
  <2> QED
    BY <1>3, <2>1, <2>2, OutcomeSteps
<1> QED
  BY <1>2, <1>3 DEF ToldOnce

SagaTells == SagaInv /\ TopicsAgree /\ ToldOnce

LEMMA SagaTellsInvariance == Init /\ [][Next]_vars => []SagaTells
<1>1. Init => TopicsAgree /\ ToldOnce
  <2> SUFFICES ASSUME Init
               PROVE  TopicsAgree /\ ToldOnce
    OBVIOUS
  <2>1. outcome = Idle /\ \A s \in Streams : log[s] = <<>>
    BY DEF Init
  <2>2. \A o \in OrderIds : <<"order-executed", PartitionOf[o]>> \in Streams
    BY SagaAssumption DEF Streams, Topics
  <2>3. \A o \in OrderIds : Sent("order-executed", o) = {}
    BY <2>1, <2>2 DEF Sent, Topic
  <2> QED
    BY <2>1, <2>3 DEF TopicsAgree, ToldOnce
<1>2. SagaTells /\ [Next]_vars => SagaTells'
  BY SagaNext, TopicsAgreeNext, ToldOnceNext DEF SagaTells
<1> QED
  BY <1>1, <1>2, SagaInit, PTL DEF SagaTells

\* An execution is told once, and truly: however often quotes and handlers repeat,
\* whatever sends and database calls fail, and wherever the services stop.
THEOREM ExecutionToldOnce == Spec => []ExecutionAnnouncedOnce
<1>1. SagaTells => ExecutionAnnouncedOnce
  <2> SUFFICES ASSUME SagaTells, NEW o \in OrderIds,
                      NEW i \in Sent("order-executed", o)
               PROVE  /\ Sent("order-executed", o) = {i}
                      /\ Status(o) = "EXECUTED"
                      /\ orders[o].price = Topic("order-executed", o)[i].price
    BY DEF ExecutionAnnouncedOnce
  <2>1. Sent("order-executed", o) = {i}
    BY DEF SagaTells, ToldOnce
  <2> QED
    BY <2>1, ExecutedOnly DEF SagaTells
<1> QED
  BY <1>1, SagaTellsInvariance, PTL DEF Spec


-----------------------------------------------------------------------------
(***************************************************************************)
(* An outcome is lost in the gap between the transaction and the           *)
(* acknowledged send, and nowhere else.                                    *)
(***************************************************************************)

\* An event is where the topics have it.
InTopics == \A s \in Streams : \A i \in DOMAIN log[s] :
              \A event : event = log[s][i] => Told(event)

LEMMA TopicsTell == SagaInv => InTopics
<1> SUFFICES ASSUME SagaInv, NEW s \in Streams, NEW i \in DOMAIN log[s]
             PROVE  Told(log[s][i])
  BY DEF InTopics
<1>1. PICK event : event = log[s][i]
  OBVIOUS
<1>2. event.topic = s[1] /\ PartitionOf[event.order] = s[2]
  BY <1>1 DEF SagaInv, MessagesOK
<1>3. s = <<event.topic, PartitionOf[event.order]>>
  BY <1>2 DEF Streams
<1>4. Topic(event.topic, event.order) = log[s]
  BY <1>3 DEF Topic
<1>5. i \in Sent(event.topic, event.order)
  BY <1>1, <1>4 DEF Sent
<1> QED
  BY <1>1, <1>4, <1>5 DEF Told

\* What the topics tell they tell for good.
LEMMA ToldKept ==
  ASSUME SagaInv, SagaInv', [Next]_vars,
         NEW event, event.topic \in Topics, event.order \in OrderIds, Told(event)
  PROVE  Told(event)'
<1>1. PICK s : s = <<event.topic, PartitionOf[event.order]>>
  OBVIOUS
<1>2. s \in Streams
  BY <1>1, SagaAssumption DEF Streams
<1>3. PICK i \in DOMAIN log[s] : log[s][i] = event
  BY <1>1 DEF Told, Sent, Topic
<1>4. i \in DOMAIN log'[s] /\ log'[s][i] = event
  BY <1>2, <1>3, LogKept
<1>5. InTopics'
  BY TopicsTell, PTL
<1> QED
  BY <1>2, <1>4, <1>5 DEF InTopics

\* What a send has appended is told.
LEMMA SendTells ==
  ASSUME SagaInv, SagaInv', NEW event \in Events, Send(event)
  PROVE  Told(event)'
<1>1. PICK s : s = <<event.topic, PartitionOf[event.order]>>
  OBVIOUS
<1>2. s \in Streams /\ log[s] \in Seq(Events)
  BY <1>1, EventFields DEF SagaInv
<1>3. log'[s] = Append(log[s], event)
  BY <1>1, <1>2 DEF Send, SagaInv
<1>4. Len(log[s]) + 1 \in DOMAIN log'[s] /\ log'[s][Len(log[s]) + 1] = event
  BY <1>2, <1>3
<1>5. InTopics'
  BY TopicsTell, PTL
<1> QED
  BY <1>2, <1>4, <1>5 DEF InTopics

\* A quote that decides has its outcome ready, a rejection that is itself such an
\* outcome lies in its topic.
LEMMA DecidingTells ==
  ASSUME SagaInv, SagaInv', [Next]_vars, NEW o \in OrderIds,
         Decided(o)', ~Decided(o), ~TransactionFails
  PROVE  Told(Outcome(o, orders[o]))' \/ BeingTold(Outcome(o, orders[o]))'
<1>1. PICK event : event = Outcome(o, orders'[o])
  OBVIOUS
<1>2. Status(o)' # Status(o)
  <2> SUFFICES ASSUME Status(o)' = Status(o)
               PROVE  FALSE
    OBVIOUS
  <2>1. Status(o) \in {"EXECUTED", "REJECTED"}
    BY DEF Decided
  <2>2. orders'[o] = orders[o]
    BY <2>1, RowsKeptNext DEF RowsKept, Status
  <2> QED
    BY <2>2 DEF Decided
<1>3. /\ pCurrent # Idle /\ outcome = Idle /\ UNCHANGED log
      /\ o = Portfolio!InHand.order
      /\ Status(o) = "CREATED" /\ EventId \notin processed
  BY <1>2, WhoResolves DEF Decided
<1>4. Store!Actionable(o, EventId) /\ Books!Actionable(o, EventId)
  BY <1>3 DEF Store!Actionable, Store!IsCreated, Books!Actionable,
              Books!IsCreated, Status
<1>5. ApplyQuote \/ ApplyRejection
  <2>1. o \in DOMAIN orders
    BY <1>3 DEF Status
  <2>2. CASE Elsewhere
    <3>1. orders'[o] = orders[o] /\ o \in DOMAIN orders'
      BY <2>1, <2>2, RowsKeptNext DEF Elsewhere, RowsKept
    <3> QED
      BY <1>2, <2>1, <3>1 DEF Status
  <2>3. CASE ConsumerStep
    <3>1. UNCHANGED orders
      BY <2>3, SameStart, BooksConstants, Books!StartEffect
         DEF ConsumerStep, PortfolioRecv, QuotePanics, EmitOutcome, EmitFails,
             PortfolioRestart, PortfolioRejoin, storeVars
    <3> QED
      BY <1>2, <3>1 DEF Status
  <2> QED
    BY <2>2, <2>3, StepKinds
<1>6. CASE ApplyQuote
  <2>1. outcome' = event /\ outcome' \in Outcomes
    BY <1>1, <1>3, <1>4, <1>6, OutcomeTyped
  <2>2. outcome' # Idle
    BY <2>1, IdleAssumption DEF Outcomes
  <2> QED
    BY <1>1, <2>1, <2>2 DEF BeingTold
<1>7. CASE ApplyRejection
  <2>1. /\ Dispatched("order-rejected")
        /\ Store!ApplyOrderRejected(o, EventId, Portfolio!InHand.reason)
    BY <1>3, <1>7 DEF ApplyRejection
  <2>2. Books!ApplyOrderRejected(o, EventId, Portfolio!InHand.reason)
    BY <1>3, <2>1, RejectionIsStep
  <2>3. orders'[o].status = "REJECTED" /\ orders'[o].reason = Portfolio!InHand.reason
    BY <1>4, <2>2, BooksConstants, Books!RejectionEffect DEF SagaInv
  <2>4. /\ pCurrent.stream \in Streams
        /\ pCurrent.index \in DOMAIN log[pCurrent.stream]
        /\ Portfolio!InHand = log[pCurrent.stream][pCurrent.index]
        /\ Portfolio!InHand \in Events
        /\ Portfolio!InHand.topic = "order-rejected"
    BY <1>3, <2>1, PortfolioInHand DEF Dispatched
  <2>5. Portfolio!InHand = [topic |-> "order-rejected", order |-> o,
                            reason |-> Portfolio!InHand.reason]
    BY <1>3, <2>4 DEF Events
  <2>6. event = Portfolio!InHand
    BY <1>1, <2>3, <2>5 DEF Outcome
  <2>7. PICK s, i : s = pCurrent.stream /\ i = pCurrent.index
    OBVIOUS
  <2>8. s \in Streams /\ i \in DOMAIN log'[s] /\ log'[s][i] = event
    BY <1>3, <2>4, <2>6, <2>7
  <2>9. InTopics'
    BY TopicsTell, PTL
  <2>10. Told(event)'
    BY <2>8, <2>9 DEF InTopics
  <2> QED
    BY <1>1, <2>10 DEF Told, Sent, Topic
<1> QED
  BY <1>5, <1>6, <1>7

\* A handler that was about to publish has published, unless it failed or died.
LEMMA BeingToldNext ==
  ASSUME SagaInv, SagaInv', [Next]_vars, NEW event, BeingTold(event),
         ~PortfolioRestart, ~EmitFails
  PROVE  Told(event)' \/ BeingTold(event)'
<1>1. outcome # Idle /\ outcome = event /\ event \in Events
  BY DEF BeingTold, SagaInv, Outcomes
<1>2. CASE UNCHANGED outcome
  BY <1>1, <1>2 DEF BeingTold
<1>3. CASE EmitOutcome
  <2>1. Send(event)
    BY <1>1, <1>3 DEF EmitOutcome
  <2> QED
    BY <1>1, <2>1, SendTells
<1>4. CASE ApplyQuote \/ ApplyRejection \/ TransactionFails
  BY <1>1, <1>4, TransactionEffect
<1> QED
  BY <1>2, <1>3, <1>4, StepKinds
     DEF Elsewhere, ConsumerStep, PortfolioRecv, QuotePanics, PortfolioRejoin

LEMMA UntoldNext ==
  ASSUME SagaInv, SagaInv', [Next]_vars, NEW o \in OrderIds, Untold(o)', ~Untold(o),
         ~PortfolioRestart, ~EmitFails, ~TransactionFails
  PROVE  FALSE
<1>1. PICK event : event = Outcome(o, orders'[o])
  OBVIOUS
<1>2. event.topic \in Topics /\ event.order \in OrderIds
  BY <1>1 DEF Outcome, Topics
<1>3. Decided(o)' /\ ~Told(event)' /\ ~BeingTold(event)'
  BY <1>1 DEF Untold, Told, BeingTold, Sent, Topic
<1>4. CASE Decided(o)
  <2>1. orders'[o] = orders[o]
    BY <1>4, RowsKeptNext DEF RowsKept, Decided, Status
  <2>2. Told(event) \/ BeingTold(event)
    BY <1>1, <1>4, <2>1 DEF Untold
  <2> QED
    BY <1>2, <1>3, <2>2, ToldKept, BeingToldNext
<1>5. CASE ~Decided(o)
  <2>1. Told(Outcome(o, orders[o]))' \/ BeingTold(Outcome(o, orders[o]))'
    BY <1>3, <1>5, DecidingTells
  <2>2. Told(event)' \/ BeingTold(event)'
    BY <1>1, <2>1 DEF Told, BeingTold, Sent, Topic
  <2> QED
    BY <1>3, <2>2
<1> QED
  BY <1>4, <1>5

\* Whatever a quote has decided is told or about to be, unless the process stopped or a
\* call returned Err between the transaction and the acknowledged send.
THEOREM LostOnlyInGap == Spec => OutcomeLostOnlyInGap
<1>1. SagaInv /\ SagaInv' /\ [Next]_vars =>
        [\A o \in OrderIds :
           Untold(o)' /\ ~Untold(o) =>
             PortfolioRestart \/ EmitFails \/ TransactionFails]_vars
  BY UntoldNext
<1> QED
  BY <1>1, SagaInvariance, PTL DEF Spec, OutcomeLostOnlyInGap


-----------------------------------------------------------------------------
(***************************************************************************)
(* The saga implements the safety of OrderLifecycle, step by step.         *)
(***************************************************************************)

\* The refinement mapping.
Statuses == [o \in OrderIds |-> Status(o)]
Accepted == {o \in OrderIds : intake[o] = "accepted"}
Announced == [o \in OrderIds |-> Cardinality(Sent("order-executed", o))]

LEMMA MappedSteps ==
  ASSUME NEW o \in OrderIds,
         \/ /\ Statuses[o] = "NONE"
            /\ Statuses' = [Statuses EXCEPT ![o] = "CREATED"]
            /\ UNCHANGED <<Accepted, Announced>>
         \/ /\ Statuses[o] # "NONE" /\ o \notin Accepted
            /\ Accepted' = Accepted \cup {o}
            /\ UNCHANGED <<Statuses, Announced>>
         \/ /\ Statuses[o] = "CREATED"
            /\ \E result \in {"EXECUTED", "REJECTED"} :
                 Statuses' = [Statuses EXCEPT ![o] = result]
            /\ UNCHANGED <<Accepted, Announced>>
         \/ /\ Statuses[o] = "EXECUTED" /\ Announced[o] = 0
            /\ Announced' = [Announced EXCEPT ![o] = 1]
            /\ UNCHANGED <<Statuses, Accepted>>
  PROVE  Lifecycle!Next
BY DEF Lifecycle!Next, Lifecycle!Create, Lifecycle!Accept, Lifecycle!Resolve,
       Lifecycle!Announce, Statuses, Accepted, Announced

LEMMA MappedStutter ==
  ASSUME UNCHANGED <<Statuses, Accepted, Announced>>
  PROVE  UNCHANGED Lifecycle!lifecycleVars
BY DEF Lifecycle!lifecycleVars, Statuses, Accepted, Announced

LEMMA MappedInit == Init => Lifecycle!Init
<1> SUFFICES ASSUME Init
             PROVE  Lifecycle!Init
  OBVIOUS
<1>1. \A o \in OrderIds : Status(o) = "NONE" /\ intake[o] # "accepted"
  BY DEF Init, Store!Init, Status
<1>2. \A o \in OrderIds : <<"order-executed", PartitionOf[o]>> \in Streams
  BY SagaAssumption DEF Streams, Topics
<1>3. \A o \in OrderIds : Sent("order-executed", o) = {}
  BY <1>2 DEF Init, Sent, Topic
<1>4. \A o \in OrderIds : Cardinality(Sent("order-executed", o)) = 0
  BY <1>3, FS_EmptySet
<1> QED
  BY <1>1, <1>4 DEF Lifecycle!Init

\* The rows do not change, or stay as they are but for new columns.
LEMMA StatusesKept ==
  ASSUME UNCHANGED orders
  PROVE  UNCHANGED Statuses
BY DEF Statuses, Status

LEMMA AnnouncedKept ==
  ASSUME UNCHANGED log
  PROVE  UNCHANGED Announced
BY DEF Announced, Sent, Topic

LEMMA NotAnnounced ==
  ASSUME SagaInv, NEW event \in Events, Send(event), event.topic # "order-executed"
  PROVE  UNCHANGED Announced
<1>1. "order-executed" \in Topics
  BY DEF Topics
<1>2. \A o \in OrderIds : Sent("order-executed", o)' = Sent("order-executed", o)
  BY <1>1, SentAfter
<1> QED
  BY <1>2 DEF Announced

\* An order appears.
LEMMA MappedPlace ==
  ASSUME SagaInv, NEW o \in OrderIds, NEW req \in Requests, PlaceOrder(o, req)
  PROVE  Lifecycle!Next
<1>1. /\ o \notin DOMAIN orders
      /\ DOMAIN orders' = DOMAIN orders \cup {o}
      /\ orders'[o].status = "CREATED"
      /\ \A x \in DOMAIN orders : orders'[x] = orders[x]
  BY PlaceEffect
<1>2. /\ \A x \in OrderIds \ {o} : Status(x)' = Status(x)
      /\ Status(o) = "NONE" /\ Status(o)' = "CREATED"
  BY <1>1 DEF Status
<1>3. /\ Statuses[o] = "NONE"
      /\ Statuses' = [Statuses EXCEPT ![o] = "CREATED"]
  BY <1>2 DEF Statuses
<1>4. /\ intake' = [intake EXCEPT ![o] = "inserted"] /\ UNCHANGED log
      /\ intake \in [OrderIds -> {"none", "inserted", "accepted", "refused"}]
      /\ intake[o] = "none"
  BY <1>1 DEF PlaceOrder, SagaInv
<1>5. UNCHANGED Accepted
  BY <1>4 DEF Accepted
<1> QED
  BY <1>3, <1>4, <1>5, AnnouncedKept, MappedSteps

\* The POST is answered, or fails.
LEMMA MappedAccept ==
  ASSUME SagaInv, NEW o \in OrderIds, Accept(o)
  PROVE  Lifecycle!Next
<1>1. /\ intake \in [OrderIds -> {"none", "inserted", "accepted", "refused"}]
      /\ intake[o] = "inserted" /\ o \in DOMAIN orders
      /\ orders[o] \in Books!OrderRow
  BY DEF SagaInv, Accept, Books!Inv, Books!TypeOK
<1>2. /\ intake' = [intake EXCEPT ![o] = "accepted"]
      /\ Send(OrderCreated(o)) /\ UNCHANGED orders
  BY DEF Accept, storeVars
<1>3. OrderCreated(o) \in Events /\ OrderCreated(o).topic # "order-executed"
  BY <1>1, CreatedEvent DEF OrderCreated
<1>4. UNCHANGED <<Statuses, Announced>>
  BY <1>2, <1>3, StatusesKept, NotAnnounced
<1>5. Statuses[o] # "NONE"
  BY <1>1 DEF Statuses, Status, Books!OrderRow, Books!OrderStatus
<1>6. o \notin Accepted /\ Accepted' = Accepted \cup {o}
  BY <1>1, <1>2 DEF Accepted
<1> QED
  BY <1>4, <1>5, <1>6, MappedSteps

\* A transaction resolves the order of the message in hand, or nothing.
LEMMA MappedTransaction ==
  ASSUME SagaInv, ApplyQuote \/ ApplyRejection \/ TransactionFails
  PROVE  Lifecycle!Next \/ UNCHANGED Lifecycle!lifecycleVars
<1>1. /\ pCurrent # Idle
      /\ UNCHANGED <<log, intake>>
      /\ \/ UNCHANGED orders
         \/ Commits(Portfolio!InHand.order)
  BY TransactionEffect
<1>2. UNCHANGED <<Accepted, Announced>>
  BY <1>1, AnnouncedKept DEF Accepted
<1>3. CASE UNCHANGED orders
  BY <1>2, <1>3, StatusesKept, MappedStutter
<1>4. CASE ~UNCHANGED orders
  <2>1. PICK o : o = Portfolio!InHand.order
    OBVIOUS
  <2>2. o \in OrderIds /\ o \in DOMAIN orders
    BY <1>1, <2>1, PortfolioInHand
  <2>3. /\ orders[o].status = "CREATED"
        /\ orders'[o].status \in {"EXECUTED", "REJECTED"}
        /\ DOMAIN orders' = DOMAIN orders
        /\ \A x \in DOMAIN orders \ {o} : orders'[x] = orders[x]
    BY <1>1, <1>4, <2>1 DEF Commits
  <2>4. /\ Statuses[o] = "CREATED"
        /\ Statuses' = [Statuses EXCEPT ![o] = orders'[o].status]
    BY <2>2, <2>3 DEF Statuses, Status
  <2> QED
    BY <1>2, <2>2, <2>3, <2>4, MappedSteps
<1> QED
  BY <1>3, <1>4

\* An outcome is published: an execution that nobody has heard of, or a rejection.
LEMMA MappedEmit ==
  ASSUME SagaTells, EmitOutcome \/ EmitFails
  PROVE  Lifecycle!Next \/ UNCHANGED Lifecycle!lifecycleVars
<1>1. /\ outcome # Idle /\ SendFails(outcome)
      /\ UNCHANGED <<orders, intake>>
  BY DEF EmitOutcome, EmitFails, SendFails, storeVars
<1>2. /\ SagaInv /\ outcome \in Events
      /\ Agrees(outcome)
      /\ outcome.topic = "order-executed" =>
           Sent("order-executed", outcome.order) = {}
  BY <1>1 DEF SagaTells, SagaInv, Outcomes, TopicsAgree, ToldOnce
<1>3. UNCHANGED <<Statuses, Accepted>>
  BY <1>1, StatusesKept DEF Accepted
<1>4. CASE UNCHANGED log
  BY <1>3, <1>4, AnnouncedKept, MappedStutter
<1>5. CASE Send(outcome) /\ outcome.topic # "order-executed"
  BY <1>2, <1>3, <1>5, NotAnnounced, MappedStutter
<1>6. CASE Send(outcome) /\ outcome.topic = "order-executed"
  <2>1. PICK o, n : o = outcome.order /\ n = Len(Topic("order-executed", outcome.order)) + 1
    OBVIOUS
  <2>2. o \in OrderIds /\ "order-executed" \in Topics
    BY <1>2, <2>1, EventFields DEF Topics
  <2>3. Sent("order-executed", o) = {} /\ Status(o) = "EXECUTED"
    BY <1>2, <1>6, <2>1 DEF Agrees
  <2>4. /\ Sent("order-executed", o)' = {n}
        /\ \A x \in OrderIds \ {o} :
             Sent("order-executed", x)' = Sent("order-executed", x)
    BY <1>2, <1>6, <2>1, <2>2, <2>3, SentAfter
  <2>5. /\ Cardinality(Sent("order-executed", o)) = 0
        /\ Cardinality(Sent("order-executed", o)') = 1
    BY <2>3, <2>4, FS_EmptySet, FS_Singleton
  <2>6. /\ Statuses[o] = "EXECUTED" /\ Announced[o] = 0
        /\ Announced' = [Announced EXCEPT ![o] = 1]
    BY <2>2, <2>3, <2>4, <2>5 DEF Statuses, Announced
  <2> QED
    BY <1>3, <2>2, <2>6, MappedSteps
<1> QED
  BY <1>1, <1>4, <1>5, <1>6 DEF SendFails

LEMMA MappedQuiet ==
  ASSUME SagaInv,
         \/ \E o \in OrderIds : IntakeFails(o)
         \/ MarketRecv \/ MarketQuotes \/ MarketFails
         \/ MarketRestart \/ MarketRejoin
         \/ PortfolioRecv \/ QuotePanics \/ PortfolioStarts
         \/ PortfolioRestart \/ PortfolioRejoin
         \/ UNCHANGED vars
  PROVE  UNCHANGED Lifecycle!lifecycleVars
<1>1. UNCHANGED orders
  <2>1. CASE PortfolioStarts \/ PortfolioRestart
    BY <2>1, SameStart, BooksConstants, Books!StartEffect
       DEF PortfolioStarts, PortfolioRestart
  <2> QED
    BY <2>1 DEF IntakeFails, MarketRecv, MarketQuotes, MarketFails,
                MarketRestart, MarketRejoin, PortfolioRecv, QuotePanics,
                PortfolioRejoin, vars, storeVars
<1>2. UNCHANGED Accepted
  <2>1. CASE \E o \in OrderIds : IntakeFails(o)
    BY <2>1 DEF IntakeFails, SagaInv, Accepted
  <2>2. CASE PortfolioRestart
    BY <2>2 DEF PortfolioRestart, Accepted
  <2>3. CASE UNCHANGED intake
    BY <2>3 DEF Accepted
  <2> QED
    BY <2>1, <2>2, <2>3
       DEF MarketRecv, MarketQuotes, MarketFails, MarketRestart, MarketRejoin,
           PortfolioRecv, QuotePanics, PortfolioStarts, PortfolioRejoin, vars
<1>3. UNCHANGED Announced
  <2>1. CASE UNCHANGED log
    BY <2>1, AnnouncedKept
  <2>2. CASE ~UNCHANGED log
    <3>1. \/ \E o \in OrderIds : IntakeFails(o)
          \/ MarketQuotes \/ MarketFails
      BY <2>2 DEF MarketRecv, MarketRestart, MarketRejoin, PortfolioRecv,
                  QuotePanics, PortfolioStarts, PortfolioRestart,
                  PortfolioRejoin, vars
    <3>2. Elsewhere
      BY <3>1, Elsewheres
    <3> QED
      BY <2>2, <3>2, NotAnnounced DEF Elsewhere, TellsOutcome
  <2> QED
    BY <2>1, <2>2
<1> QED
  BY <1>1, <1>2, <1>3, StatusesKept, MappedStutter

LEMMA MappedNext ==
  ASSUME SagaTells, [Next]_vars
  PROVE  [Lifecycle!Next]_(Lifecycle!lifecycleVars)
<1>1. SagaInv
  BY DEF SagaTells
<1> QED
  BY <1>1, MappedPlace, MappedAccept, MappedTransaction, MappedEmit, MappedQuiet
     DEF Next

\* Whatever fails, an order only goes from nothing to CREATED and from there, once,
\* to EXECUTED or REJECTED; a client is answered once and only about a stored
\* order; an execution is announced after it and once.
THEOREM LifecycleKept == Spec => ImplementsLifecycleSafety
BY MappedInit, MappedNext, SagaTellsInvariance, PTL
   DEF Spec, ImplementsLifecycleSafety


-----------------------------------------------------------------------------
(***************************************************************************)
(* The saga drives the database by its own operations: what is proved of   *)
(* PortfolioStore for arbitrary events holds of the events the topics hold.*)
(***************************************************************************)
THEOREM SagaUsesStore == Spec => Books!Spec
<1>1. Init => Books!Init
  BY DEF Init, Store!Init, Books!Init
<1>2. SagaInv /\ [Next]_vars => [Books!Next]_(Books!vars)
  BY NextMoves DEF SagaMoves, StoreMoves, storeVars, Books!vars
<1> QED
  BY <1>1, <1>2, SagaInvariance, PTL DEF Spec, Books!Spec

\* Under the choreography no balance or position goes below zero, both follow from
\* what was seeded and traded, and a resolved row never changes.
THEOREM SagaKeepsBooks ==
  Spec => /\ []Books!Solvent
          /\ []Books!HoldingsMatchTrades
          /\ []Books!CashTracksTrades
          /\ Books!TerminalIsFinal
BY SagaUsesStore, BooksConstants, Books!NeverOverdrawn, Books!PositionsMatch,
   Books!BalancesMatch, Books!Finality, PTL
===============================================================================
