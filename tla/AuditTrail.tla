------------------------------ MODULE AuditTrail ------------------------------
(***************************************************************************)
(* The Audit Service beside the saga it observes: one consumer of the four *)
(* topics, whose handler inserts each event into audit_events.  OrderSaga  *)
(* writes the topics, EventDelivery is the consumer with its errors and    *)
(* disruptions; nothing here changes a variable of OrderSaga.              *)
(***************************************************************************)
EXTENDS OrderSaga

CONSTANTS
  MaxDisruptions,   \* bound: restarts and rejoins of the Audit Service
  MaxErrors         \* bound: insertions that return Err

ASSUME AuditAssumption == MaxDisruptions \in Nat /\ MaxErrors \in Nat

VARIABLES
  trail,                              \* table audit_events, ordered by id
  aPosition, aCommitted, aCurrent,    \* group audit-service
  handled, failed, disruptions, errors   \* see EventDelivery

deliveryVars == <<aPosition, aCommitted, aCurrent, handled, failed, disruptions, errors>>
auditVars == <<vars, trail, deliveryVars>>

\* A stream gets an event from an order or from the handling of another event,
\* which MaxRestarts may repeat.
MaxLog == (MaxRestarts + 1) * Cardinality(OrderIds)

Delivery == INSTANCE EventDelivery WITH
  position <- aPosition, committed <- aCommitted, current <- aCurrent

ASSUME DeliveryConstants == Delivery!DeliveryAssumption

EventType ==
  [t \in Topics |->
     CASE t = "order-created" -> "ORDER_CREATED"
       [] t = "price-quoted" -> "PRICE_QUOTED"
       [] t = "order-executed" -> "ORDER_EXECUTED"
       [] t = "order-rejected" -> "ORDER_REJECTED"]

\* The row that repo::record makes of the message stored at id = <<stream, index>>.
Row(id) ==
  LET message == log[id[1]][id[2]] IN
  [event_id |-> id, order_id |-> message.order,
   event_type |-> EventType[id[1][1]], payload |-> message]

Rows == {trail[i] : i \in DOMAIN trail}
Recorded == {row.event_id : row \in Rows}

InHandId == <<aCurrent.stream, aCurrent.index>>

\* Mutant: the column event_id is not UNIQUE.
InsertAgain == trail' = Append(trail, Row(InHandId))

\* Mutant: a duplicate replaces its row.
InsertAnew ==
  trail' = Append(SelectSeq(trail, LAMBDA row : row.event_id # InHandId), Row(InHandId))

\* INSERT ... ON CONFLICT (event_id) DO NOTHING.
Insert ==
  trail' = IF InHandId \in Recorded THEN trail ELSE Append(trail, Row(InHandId))

AuditInit ==
  /\ Init
  /\ trail = <<>>
  /\ Delivery!ConsumerInit
  /\ handled = {} /\ failed = {}
  /\ disruptions = 0 /\ errors = 0

AuditRecv ==
  /\ \E s \in Streams : Delivery!Deliver(s)
  /\ UNCHANGED <<vars, trail>>

\* Mutant: record_event swallows the error, and the message is committed.
RecordSwallows ==
  /\ Delivery!Succeed
  /\ Insert \/ UNCHANGED trail
  /\ UNCHANGED vars

\* record_event inserts the event, or finds it there.
Record ==
  /\ Delivery!Succeed
  /\ Insert
  /\ UNCHANGED vars

\* The insertion returns Err: nothing is inserted, or the answer is lost.
RecordFails ==
  /\ Delivery!Fail
  /\ Insert \/ UNCHANGED trail
  /\ UNCHANGED vars

AuditDisrupted ==
  /\ Delivery!Disrupt
  /\ UNCHANGED <<vars, trail>>

Observed ==
  /\ Next
  /\ UNCHANGED <<trail, deliveryVars>>

AuditNext == Observed \/ AuditRecv \/ Record \/ RecordFails \/ AuditDisrupted

AuditSpec == AuditInit /\ [][AuditNext]_auditVars

-----------------------------------------------------------------------------
(***************************************************************************)
(* What must hold.                                                         *)
(***************************************************************************)

\* The topics hold their contracts, the consumer stays within them, and what it
\* did is in the log.
AuditTypeOK ==
  /\ \A s \in Streams : \A i \in DOMAIN log[s] : log[s][i] \in Events
  /\ \A s \in Streams : aPosition[s] \in 0..Len(log[s]) /\ aCommitted[s] \in 0..Len(log[s])
  /\ aCurrent # Idle => aCurrent \in Delivery!Unhandled
  /\ \A id \in handled \cup failed \cup Recorded : id[2] \in DOMAIN log[id[1]]
  /\ disruptions \in 0..MaxDisruptions /\ errors \in 0..MaxErrors

\* "recorded at most once": the trail has one row for an event however often it is
\* delivered, and the row is what the topic holds under that id.
TrailIsFaithful ==
  /\ \A i, j \in DOMAIN trail : trail[i].event_id = trail[j].event_id => i = j
  /\ \A row \in Rows : row = Row(row.event_id)

\* "records every saga event": what the offsets of audit-service have passed is in
\* the trail, unless its insertion returned an error.
PassedIsRecorded ==
  \A s \in Streams : \A i \in 1..aCommitted[s] : <<s, i>> \in Recorded \cup failed

\* The events of a topic are listed in the order they were sent; only one whose
\* insertion failed may come after its successors.
TopicOrderKept ==
  \A i, j \in DOMAIN trail :
    LET first == trail[i].event_id
        second == trail[j].event_id
    IN i < j /\ first[1] = second[1] /\ second[2] < first[2] => second \in failed

\* The trail never contradicts the database: an ORDER_EXECUTED tells the price of an
\* executed order, and a shortage is told of orders rejected for it only, although
\* quotes and handlers repeat.  (A MARKET_UNAVAILABLE may be told of an executed
\* order whose OrderCreated was handled twice.)
TrailAgreesWithOrders ==
  \A row \in Rows :
    /\ row.event_type = "ORDER_EXECUTED" =>
         /\ Status(row.order_id) = "EXECUTED"
         /\ orders[row.order_id].price = row.payload.price
    /\ row.event_type = "ORDER_REJECTED"
         /\ row.payload.reason \in {"INSUFFICIENT_BALANCE", "INSUFFICIENT_ASSET"} =>
           /\ Status(row.order_id) = "REJECTED"
           /\ orders[row.order_id].reason = row.payload.reason

\* "all events for one order share a partition and stay ordered" (events.rs),
\* "all recorded events for an order, in order" (GET /audit/orders): the trail of an
\* order begins with its ORDER_CREATED.
CreationComesFirst ==
  \A i \in DOMAIN trail :
    \E j \in 1..i : /\ trail[j].order_id = trail[i].order_id
                    /\ trail[j].event_type = "ORDER_CREATED"
=============================================================================
