--------------------------- MODULE AuditTrail_proofs ---------------------------
(***************************************************************************)
(* Proofs about AuditTrail, for any orders, partitions, errors and         *)
(* disruptions, of the Audit Service and of the services it observes.      *)
(***************************************************************************)
EXTENDS AuditTrail, OrderSaga_proofs

\* EventDelivery with what is proved about it.
Consumer == INSTANCE EventDelivery_proofs WITH
  position <- aPosition, committed <- aCommitted, current <- aCurrent

LEMMA ConsumerConstants == Consumer!DeliveryAssumption
BY DeliveryConstants
   DEF Delivery!DeliveryAssumption, Consumer!DeliveryAssumption,
       Delivery!Unhandled, Consumer!Unhandled

\* The two instances of EventDelivery are the same.
LEMMA SameConsumer ==
  /\ Delivery!ConsumerInit => Consumer!ConsumerInit
  /\ \A s \in Streams : Delivery!Deliver(s) => Consumer!Deliver(s)
  /\ Delivery!Succeed => Consumer!Succeed
  /\ Delivery!Fail => Consumer!Fail
  /\ Delivery!Disrupt => Consumer!Disrupt
BY DEF Delivery!ConsumerInit, Consumer!ConsumerInit, Delivery!Deliver,
       Consumer!Deliver, Delivery!Recv, Consumer!Recv, Delivery!Succeed,
       Consumer!Succeed, Delivery!HandlerOk, Consumer!HandlerOk,
       Delivery!Fail, Consumer!Fail, Delivery!HandlerErr,
       Consumer!HandlerErr, Delivery!Disrupt, Consumer!Disrupt,
       Delivery!Restart, Consumer!Restart, Delivery!Rejoin, Consumer!Rejoin

-----------------------------------------------------------------------------
(***************************************************************************)
(* Rows.                                                                   *)
(***************************************************************************)
Ids == Streams \X Nat
EventNames == {"ORDER_CREATED", "PRICE_QUOTED", "ORDER_EXECUTED", "ORDER_REJECTED"}
RowType == [event_id: Ids, order_id: OrderIds, event_type: EventNames, payload: Events]

\* There is a message of this id.
Stored(id) == id \in Ids /\ id[2] \in DOMAIN log[id[1]]

LEMMA EventTypes ==
  /\ \A t \in Topics : EventType[t] \in EventNames
  /\ \A t \in Topics : EventType[t] = "ORDER_EXECUTED" => t = "order-executed"
  /\ \A t \in Topics : EventType[t] = "ORDER_REJECTED" => t = "order-rejected"
BY DEF EventType, EventNames, Topics

LEMMA RowTyped ==
  ASSUME SagaInv, NEW id, Stored(id)
  PROVE  Row(id) \in RowType /\ Row(id).event_id = id
<1>1. /\ id \in Ids /\ id[1] \in Streams /\ id[1][1] \in Topics
      /\ id[2] \in DOMAIN log[id[1]]
      /\ log[id[1]] \in Seq(Events)
  BY DEF Stored, Ids, SagaInv, Streams
<1>2. log[id[1]][id[2]] \in Events
  BY <1>1
<1>3. log[id[1]][id[2]].order \in OrderIds
  BY <1>2, EventFields
<1> QED
  BY <1>1, <1>2, <1>3, EventTypes DEF Row, RowType

LEMMA RowKept ==
  ASSUME SagaInv, [Next]_vars, NEW id, Stored(id)
  PROVE  Stored(id)' /\ Row(id)' = Row(id)
<1>1. id \in Ids /\ id[1] \in Streams /\ id[2] \in DOMAIN log[id[1]]
  BY DEF Stored, Ids
<1> QED
  BY <1>1, LogKept DEF Stored, Row

TrailInv ==
  /\ trail \in Seq(RowType)
  /\ \A i \in DOMAIN trail : /\ Stored(trail[i].event_id)
                             /\ trail[i] = Row(trail[i].event_id)
  /\ \A i, j \in DOMAIN trail : trail[i].event_id = trail[j].event_id => i = j

\* The trail as the topics grow.
LEMMA TrailKept ==
  ASSUME SagaInv, [Next]_vars, TrailInv, UNCHANGED trail
  PROVE  TrailInv' /\ UNCHANGED Recorded
<1>1. ASSUME NEW i \in DOMAIN trail
      PROVE  Stored(trail[i].event_id)' /\ Row(trail[i].event_id)' = trail[i]
  <2>1. PICK id : id = trail[i].event_id
    OBVIOUS
  <2>2. Stored(id) /\ trail[i] = Row(id)
    BY <2>1 DEF TrailInv
  <2>3. Stored(id)' /\ Row(id)' = Row(id)
    BY <2>2, RowKept
  <2> QED
    BY <2>1, <2>2, <2>3 DEF Stored, Row
<1> QED
  BY <1>1 DEF TrailInv, Recorded, Rows

\* A row is appended for a message that has none.
LEMMA TrailGrows ==
  ASSUME SagaInv, TrailInv, NEW id, Stored(id), id \notin Recorded,
         trail' = Append(trail, Row(id)), UNCHANGED log
  PROVE  /\ TrailInv'
         /\ Recorded' = Recorded \cup {id}
         /\ \A i \in DOMAIN trail' :
              \/ i \in DOMAIN trail /\ trail'[i] = trail[i]
              \/ /\ trail'[i].event_id = id
                 /\ \A j \in DOMAIN trail' : j <= i
<1>1. Row(id) \in RowType /\ Row(id).event_id = id /\ Row(id)' = Row(id)
  BY RowTyped DEF Row
<1>2. /\ trail \in Seq(RowType) /\ Len(trail) \in Nat
      /\ DOMAIN trail = 1..Len(trail)
  BY DEF TrailInv
<1>3. /\ trail' \in Seq(RowType)
      /\ DOMAIN trail' = 1..(Len(trail) + 1)
      /\ trail'[Len(trail) + 1] = Row(id)
      /\ \A i \in 1..Len(trail) : trail'[i] = trail[i]
  BY <1>1, <1>2
<1>4. \A i \in 1..Len(trail) : trail[i].event_id # id
  BY <1>2 DEF Recorded, Rows
<1>5. \A i \in DOMAIN trail' : i \in 1..Len(trail) \/ i = Len(trail) + 1
  BY <1>2, <1>3
<1>6. ASSUME NEW i \in DOMAIN trail'
      PROVE  (Stored(trail[i].event_id) /\ trail[i] = Row(trail[i].event_id))'
  <2>1. PICK key : key = trail'[i].event_id
    OBVIOUS
  <2>2. Stored(key) /\ trail'[i] = Row(key)
    BY <1>1, <1>2, <1>3, <1>5, <2>1 DEF TrailInv
  <2> QED
    BY <2>1, <2>2 DEF Stored, Row
<1>7. \A i, j \in DOMAIN trail' : trail'[i].event_id = trail'[j].event_id => i = j
  BY <1>1, <1>2, <1>3, <1>4, <1>5 DEF TrailInv
<1>8. Recorded' = Recorded \cup {id}
  <2>1. Recorded = {trail[i].event_id : i \in 1..Len(trail)}
    BY <1>2 DEF Recorded, Rows
  <2>2. Recorded' = {trail'[i].event_id : i \in 1..(Len(trail) + 1)}
    BY <1>3 DEF Recorded, Rows
  <2>3. \A i \in 1..Len(trail) : i \in 1..(Len(trail) + 1)
    BY <1>2
  <2>4. Len(trail) + 1 \in 1..(Len(trail) + 1)
    BY <1>2
  <2> QED
    BY <1>1, <1>3, <1>5, <2>1, <2>2, <2>3, <2>4
<1>9. \A j \in DOMAIN trail' : j <= Len(trail) + 1
  BY <1>2, <1>3
<1> QED
  BY <1>1, <1>2, <1>3, <1>5, <1>6, <1>7, <1>8, <1>9 DEF TrailInv


-----------------------------------------------------------------------------
(***************************************************************************)
(* The trail and the consumer that writes it.                              *)
(***************************************************************************)
Tried == handled \cup failed

\* What was inserted was tried, and what was handled was inserted: a commit lost
\* or an answer lost makes the insertion run again, on the same event_id.
AuditInv ==
  /\ SagaInv
  /\ Consumer!Inv
  /\ Consumer!Ordered
  /\ TrailInv
  /\ handled \subseteq Recorded
  /\ Recorded \subseteq Tried
  /\ \A id \in Tried : Stored(id)
  /\ TopicOrderKept

LEMMA AuditInitial == AuditInit => AuditInv
<1> SUFFICES ASSUME AuditInit
             PROVE  AuditInv
  OBVIOUS
<1>1. SagaInv
  BY SagaInit DEF AuditInit
<1>2. Consumer!Init
  BY SameConsumer DEF AuditInit, Init, Consumer!Init
<1>3. Consumer!Inv
  BY <1>2, ConsumerConstants, Consumer!InvInit
<1>4. Consumer!Ordered
  BY <1>2 DEF Consumer!Init, Consumer!Ordered, Consumer!Tried
<1>5. /\ trail = <<>> /\ handled = {} /\ failed = {}
      /\ trail \in Seq(RowType) /\ DOMAIN trail = {}
  BY DEF AuditInit
<1>6. TrailInv /\ Recorded = {} /\ TopicOrderKept
  BY <1>5 DEF TrailInv, Recorded, Rows, TopicOrderKept
<1> QED
  BY <1>1, <1>3, <1>4, <1>5, <1>6 DEF AuditInv, Tried

\* The saga moves: the logs grow under the consumer.
LEMMA AuditObserves ==
  ASSUME AuditInv, [Next]_vars, UNCHANGED <<trail, deliveryVars>>
  PROVE  AuditInv'
<1>1. SagaInv' /\ TrailInv' /\ UNCHANGED Recorded
  BY SagaNext, TrailKept DEF AuditInv
<1>2. /\ log' \in [Streams -> Seq(Events)]
      /\ \A s \in Streams : Len(log[s]) <= Len(log'[s])
  BY NextMoves, SendFacts DEF SagaMoves, AuditInv, SagaInv, Extends
<1>3. UNCHANGED <<aPosition, aCommitted, aCurrent, handled, failed, disruptions,
                  errors, trail>>
  BY DEF deliveryVars
<1>4. Consumer!LogsGrow
  BY <1>2, <1>3 DEF Consumer!LogsGrow
<1>5. Consumer!Inv' /\ Consumer!Ordered'
  BY <1>4, ConsumerConstants, Consumer!InvGrow, Consumer!OrderedGrow DEF AuditInv
<1>6. \A id \in Tried : Stored(id)'
  BY RowKept DEF AuditInv
<1>7. UNCHANGED Tried
  BY <1>3 DEF Tried
<1>8. TopicOrderKept'
  BY <1>3 DEF AuditInv, TopicOrderKept
<1> QED
  BY <1>1, <1>3, <1>5, <1>6, <1>7, <1>8 DEF AuditInv

\* The consumer moves: the topics and the tables of the other services do not.
LEMMA AuditConsumes ==
  ASSUME AuditInv, UNCHANGED vars,
         \/ \E s \in Streams : Delivery!Deliver(s)
         \/ Delivery!Succeed \/ Delivery!Fail \/ Delivery!Disrupt
  PROVE  Consumer!Inv' /\ Consumer!Ordered' /\ SagaInv'
<1>1. Consumer!Next
  BY SameConsumer DEF Consumer!Next
<1>2. Consumer!Inv'
  BY <1>1, ConsumerConstants, Consumer!InvNext DEF AuditInv
<1>3. Consumer!Ordered'
  BY <1>1, ConsumerConstants, Consumer!OrderedNext DEF AuditInv
<1>4. SagaInv'
  BY SagaNext DEF AuditInv
<1> QED
  BY <1>2, <1>3, <1>4

\* The message in hand of the Audit Service.
LEMMA AuditInHand ==
  ASSUME AuditInv, aCurrent # Idle
  PROVE  /\ Stored(InHandId)
         /\ aCurrent.stream \in Streams /\ aCurrent.index \in Nat \ {0}
         /\ InHandId[1] = aCurrent.stream /\ InHandId[2] = aCurrent.index
<1>1. /\ aCurrent.stream \in Streams /\ aCurrent.index \in Nat \ {0}
      /\ aCurrent.index <= Len(log[aCurrent.stream])
  BY DEF AuditInv, Consumer!Inv, Consumer!TypeOK, Consumer!Unhandled
<1>2. aCurrent.index \in DOMAIN log[aCurrent.stream]
  BY <1>1 DEF AuditInv, SagaInv
<1> QED
  BY <1>1, <1>2 DEF Stored, Ids, InHandId

\* An insertion leaves one row for the message in hand.  If it comes late, after a
\* successor of its topic, it failed before: the handler sees a stream in order.
LEMMA InsertEffect ==
  ASSUME AuditInv, aCurrent # Idle, Insert, UNCHANGED log,
         failed \subseteq failed'
  PROVE  /\ TrailInv'
         /\ Recorded' = Recorded \cup {InHandId}
         /\ TopicOrderKept'
<1>1. PICK id : id = InHandId
  OBVIOUS
<1>2. Stored(id) /\ id = <<aCurrent.stream, aCurrent.index>>
  BY <1>1, AuditInHand DEF InHandId
<1>3. CASE id \in Recorded
  <2>1. UNCHANGED <<trail, log>>
    BY <1>1, <1>3 DEF Insert
  <2>2. TrailInv' /\ UNCHANGED Recorded
    BY <2>1 DEF AuditInv, TrailInv, Stored, Row, Recorded, Rows
  <2>3. TopicOrderKept'
    BY <2>1 DEF AuditInv, TopicOrderKept
  <2> QED
    BY <1>1, <1>3, <2>2, <2>3
<1>4. CASE id \notin Recorded
  <2>1. trail' = Append(trail, Row(id))
    BY <1>1, <1>4 DEF Insert
  <2>2. /\ TrailInv'
        /\ Recorded' = Recorded \cup {id}
        /\ \A i \in DOMAIN trail' :
             \/ i \in DOMAIN trail /\ trail'[i] = trail[i]
             \/ /\ trail'[i].event_id = id
                /\ \A j \in DOMAIN trail' : j <= i
    BY <1>2, <1>4, <2>1, TrailGrows DEF AuditInv
  <2>3. DOMAIN trail' \subseteq Nat
    BY <2>2 DEF TrailInv
  <2>4. ASSUME NEW first \in Recorded, first[1] = id[1], id[2] < first[2]
        PROVE  id \in failed
    <3>1. first \in Tried /\ Stored(first)
      BY <2>4 DEF AuditInv
    <3>2. PICK s, k : s = first[1] /\ k = first[2]
      OBVIOUS
    <3>3. /\ first = <<s, k>> /\ s \in Streams /\ k \in Nat
          /\ s = aCurrent.stream
      BY <1>2, <2>4, <3>1, <3>2 DEF Stored, Ids
    <3>4. aCurrent.index \in Nat \ {0} /\ aCurrent.index < k
      BY <1>2, <2>4, <3>2, AuditInHand
    <3>5. k \in Nat \ {0} /\ aCurrent.index \in 1..k
      BY <3>3, <3>4
    <3>6. <<s, aCurrent.index>> \in Tried
      BY <3>1, <3>3, <3>5 DEF AuditInv, Consumer!Ordered, Consumer!Tried, Tried
    <3> QED
      BY <1>2, <1>4, <3>3, <3>6 DEF AuditInv, Tried
  <2>5. TopicOrderKept'
    <3> SUFFICES ASSUME NEW i \in DOMAIN trail', NEW j \in DOMAIN trail', i < j,
                        trail'[i].event_id[1] = trail'[j].event_id[1],
                        trail'[j].event_id[2] < trail'[i].event_id[2]
                 PROVE  trail'[j].event_id \in failed'
      BY DEF TopicOrderKept
    <3>1. i \in DOMAIN trail /\ trail'[i] = trail[i]
      BY <2>2, <2>3
    <3>2. CASE j \in DOMAIN trail /\ trail'[j] = trail[j]
      BY <3>1, <3>2 DEF AuditInv, TopicOrderKept
    <3>3. CASE trail'[j].event_id = id
      <4>1. trail'[i].event_id \in Recorded
        BY <3>1 DEF Recorded, Rows
      <4> QED
        BY <2>4, <3>3, <4>1
    <3> QED
      BY <2>2, <3>2, <3>3
  <2> QED
    BY <1>1, <2>2, <2>5
<1> QED
  BY <1>3, <1>4

LEMMA AuditConsistent ==
  ASSUME AuditInv, [AuditNext]_auditVars
  PROVE  AuditInv'
<1>1. CASE Observed
  BY <1>1, AuditObserves DEF Observed
<1>2. CASE AuditRecv \/ AuditDisrupted
  <2>1. /\ UNCHANGED <<vars, trail, handled, failed>>
        /\ \/ \E s \in Streams : Delivery!Deliver(s)
           \/ Delivery!Disrupt
    BY <1>2 DEF AuditRecv, AuditDisrupted, Delivery!Deliver, Delivery!Disrupt
  <2>2. Consumer!Inv' /\ Consumer!Ordered' /\ SagaInv'
    BY <2>1, AuditConsumes
  <2>3. UNCHANGED log
    BY <2>1 DEF vars
  <2>4. TrailInv' /\ UNCHANGED Recorded /\ UNCHANGED Tried
    BY <2>1, <2>3 DEF AuditInv, TrailInv, Stored, Row, Recorded, Rows, Tried
  <2>5. TopicOrderKept'
    BY <2>1 DEF AuditInv, TopicOrderKept
  <2> QED
    BY <2>1, <2>2, <2>3, <2>4, <2>5 DEF AuditInv, Stored
<1>3. CASE Record
  <2>1. /\ UNCHANGED <<vars, failed>> /\ Delivery!Succeed /\ Insert
        /\ aCurrent # Idle /\ handled' = handled \cup {InHandId}
    BY <1>3 DEF Record, Delivery!Succeed, Delivery!HandlerOk, InHandId
  <2>2. Consumer!Inv' /\ Consumer!Ordered' /\ SagaInv'
    BY <2>1, AuditConsumes
  <2>3. UNCHANGED log
    BY <2>1 DEF vars
  <2>4. /\ TrailInv'
        /\ Recorded' = Recorded \cup {InHandId}
        /\ TopicOrderKept'
    BY <2>1, <2>3, InsertEffect
  <2>5. Tried' = Tried \cup {InHandId}
    BY <2>1 DEF Tried
  <2>6. \A id \in Tried' : Stored(id)'
    BY <2>1, <2>3, <2>5, AuditInHand DEF AuditInv, Stored
  <2> QED
    BY <2>1, <2>2, <2>4, <2>5, <2>6 DEF AuditInv
<1>4. CASE RecordFails
  <2>1. /\ UNCHANGED <<vars, handled>> /\ Delivery!Fail
        /\ Insert \/ UNCHANGED trail
        /\ aCurrent # Idle /\ failed' = failed \cup {InHandId}
    BY <1>4 DEF RecordFails, Delivery!Fail, Delivery!HandlerErr, InHandId
  <2>2. Consumer!Inv' /\ Consumer!Ordered' /\ SagaInv'
    BY <2>1, AuditConsumes
  <2>3. UNCHANGED log
    BY <2>1 DEF vars
  <2>4. Tried' = Tried \cup {InHandId}
    BY <2>1 DEF Tried
  <2>5. \A id \in Tried' : Stored(id)'
    BY <2>1, <2>3, <2>4, AuditInHand DEF AuditInv, Stored
  <2>6. CASE Insert
    <3>1. /\ TrailInv'
          /\ Recorded' = Recorded \cup {InHandId}
          /\ TopicOrderKept'
      BY <2>1, <2>3, <2>6, InsertEffect
    <3> QED
      BY <2>1, <2>2, <2>4, <2>5, <3>1 DEF AuditInv
  <2>7. CASE UNCHANGED trail
    <3>1. TrailInv' /\ UNCHANGED Recorded
      BY <2>3, <2>7 DEF AuditInv, TrailInv, Stored, Row, Recorded, Rows
    <3>2. TopicOrderKept'
      BY <2>1, <2>7 DEF AuditInv, TopicOrderKept
    <3> QED
      BY <2>1, <2>2, <2>4, <2>5, <3>1, <3>2 DEF AuditInv
  <2> QED
    BY <2>1, <2>6, <2>7
<1>5. CASE UNCHANGED auditVars
  BY <1>5, AuditObserves DEF auditVars
<1> QED
  BY <1>1, <1>2, <1>3, <1>4, <1>5 DEF AuditNext

LEMMA AuditInvariance == AuditSpec => []AuditInv
BY AuditInitial, AuditConsistent, PTL DEF AuditSpec


-----------------------------------------------------------------------------
\* The consumer, its history and the bounds are well typed, and every id that it
\* tried or recorded is of a message of a topic.
THEOREM AuditTypeCorrect == AuditSpec => []AuditTypeOK
<1>1. AuditInv => AuditTypeOK
  <2> SUFFICES ASSUME AuditInv
               PROVE  AuditTypeOK
    OBVIOUS
  <2>1. \A s \in Streams : log[s] \in Seq(Events) /\ Len(log[s]) \in Nat
    BY DEF AuditInv, SagaInv
  <2>2. \A s \in Streams : \A i \in DOMAIN log[s] : log[s][i] \in Events
    BY <2>1
  <2>3. \A s \in Streams : aPosition[s] \in 0..Len(log[s]) /\ aCommitted[s] \in 0..Len(log[s])
    BY <2>1 DEF AuditInv, Consumer!Inv, Consumer!TypeOK
  <2>4. aCurrent # Idle => aCurrent \in Delivery!Unhandled
    BY DEF AuditInv, Consumer!Inv, Consumer!TypeOK, Consumer!Unhandled,
           Delivery!Unhandled
  <2>5. disruptions \in 0..MaxDisruptions /\ errors \in 0..MaxErrors
    BY DEF AuditInv, Consumer!Inv, Consumer!TypeOK
  <2>6. \A id \in handled \cup failed \cup Recorded : id[2] \in DOMAIN log[id[1]]
    BY DEF AuditInv, Tried, Stored
  <2> QED
    BY <2>2, <2>3, <2>4, <2>5, <2>6 DEF AuditTypeOK
<1> QED
  BY <1>1, AuditInvariance, PTL

\* One row for an event, and the row is the event: however often it is delivered.
THEOREM RowsAreEvents == AuditSpec => []TrailIsFaithful
<1>1. AuditInv => TrailIsFaithful
  BY DEF AuditInv, TrailInv, TrailIsFaithful, Rows
<1> QED
  BY <1>1, AuditInvariance, PTL

\* No event is passed over without a row or an error.
THEOREM NothingUnrecorded == AuditSpec => []PassedIsRecorded
<1>1. AuditInv => PassedIsRecorded
  <2> SUFFICES ASSUME AuditInv, NEW s \in Streams, NEW i \in 1..aCommitted[s]
               PROVE  <<s, i>> \in Recorded \cup failed
    BY DEF PassedIsRecorded
  <2>1. <<s, i>> \in handled \cup failed
    BY DEF AuditInv, Consumer!Inv, Consumer!CommittedImpliesTried, Consumer!Tried
  <2> QED
    BY <2>1 DEF AuditInv
<1> QED
  BY <1>1, AuditInvariance, PTL

\* The trail lists a topic in the order it was sent, errors apart.
THEOREM TrailInOrder == AuditSpec => []TopicOrderKept
BY AuditInvariance, PTL DEF AuditInv

\* The trail tells of an order what its row says.
THEOREM TrailIsTrue == AuditSpec => []TrailAgreesWithOrders
<1>1. AuditSpec => Init /\ [][Next]_vars
  <2>1. AuditInit => Init
    BY DEF AuditInit
  <2>2. [AuditNext]_auditVars => [Next]_vars
    BY DEF AuditNext, Observed, AuditRecv, Record, RecordFails, AuditDisrupted,
           auditVars
  <2> QED
    BY <2>1, <2>2, PTL DEF AuditSpec
<1>2. AuditInv /\ SagaTells => TrailAgreesWithOrders
  <2> SUFFICES ASSUME AuditInv, SagaTells, NEW i \in DOMAIN trail
               PROVE  /\ trail[i].event_type = "ORDER_EXECUTED" =>
                           /\ Status(trail[i].order_id) = "EXECUTED"
                           /\ orders[trail[i].order_id].price = trail[i].payload.price
                      /\ trail[i].event_type = "ORDER_REJECTED"
                           /\ trail[i].payload.reason \in Shortage =>
                             /\ Status(trail[i].order_id) = "REJECTED"
                             /\ orders[trail[i].order_id].reason
                                  = trail[i].payload.reason
    BY DEF TrailAgreesWithOrders, Rows, Shortage
  <2>1. PICK id : id = trail[i].event_id
    OBVIOUS
  <2>2. Stored(id) /\ trail[i] = Row(id)
    BY <2>1 DEF AuditInv, TrailInv
  <2>3. /\ id[1] \in Streams /\ id[1][1] \in Topics
        /\ id[2] \in DOMAIN log[id[1]]
    BY <2>2 DEF Stored, Ids, Streams
  <2>4. PICK message : message = log[id[1]][id[2]]
    OBVIOUS
  <2>5. Agrees(message) /\ message.topic = id[1][1]
    BY <2>3, <2>4 DEF SagaTells, TopicsAgree, SagaInv, MessagesOK
  <2>6. /\ trail[i].payload = message
        /\ trail[i].order_id = message.order
        /\ trail[i].event_type = EventType[id[1][1]]
    BY <2>2, <2>4 DEF Row
  <2> QED
    BY <2>3, <2>5, <2>6, EventTypes DEF Agrees
<1> QED
  BY <1>1, <1>2, AuditInvariance, SagaTellsInvariance, PTL
===============================================================================
