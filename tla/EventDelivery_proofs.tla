------------------------- MODULE EventDelivery_proofs -------------------------
(***************************************************************************)
(* Proofs about EventDelivery, for any streams, events and bounds.         *)
(***************************************************************************)
EXTENDS EventDelivery, TLAPS

HasInHand(s, i) == current # Idle /\ current.stream = s /\ current.index = i

\* Everything delivered was tried or is in hand, everything before the message in
\* hand was tried.  The second is what a commit relies on: it names the message in
\* hand and by that all before it, even after a rejoin has set the positions back.
Inv ==
  /\ TypeOK
  /\ \A s \in Streams : \A i \in 1..position[s] : <<s, i>> \in Tried \/ HasInHand(s, i)
  /\ current # Idle =>
       \A i \in 1..(current.index - 1) : <<current.stream, i>> \in Tried
  /\ CommittedImpliesTried

LEMMA InvInit == Init => Inv
BY DeliveryAssumption
   DEF Init, ConsumerInit, Inv, TypeOK, CommittedImpliesTried

\* The logs grow, by whatever the producers do.
LogsGrow ==
  /\ log' \in [Streams -> Seq(Events)]
  /\ \A s \in Streams : Len(log[s]) <= Len(log'[s])
  /\ UNCHANGED <<position, committed, current, handled, failed, disruptions, errors>>

LEMMA InvGrow ==
  ASSUME Inv, LogsGrow
  PROVE  Inv'
<1>1. \A s \in Streams : Len(log[s]) \in Nat /\ Len(log'[s]) \in Nat
                      /\ Len(log'[s]) >= Len(log[s])
  BY DEF Inv, TypeOK, LogsGrow
<1>2. TypeOK'
  BY <1>1 DEF Inv, TypeOK, LogsGrow, Unhandled
<1> QED
  BY <1>2 DEF Inv, LogsGrow, Tried, HasInHand, CommittedImpliesTried

LEMMA ProduceGrows ==
  ASSUME Inv, NEW s \in Streams, NEW m \in Events, Produce(s, m)
  PROVE  LogsGrow
BY DEF Inv, TypeOK, Produce, LogsGrow

LEMMA InvDeliver ==
  ASSUME Inv, NEW s \in Streams, Deliver(s)
  PROVE  Inv'
<1>1. /\ current = Idle /\ position[s] \in Nat /\ position[s] < Len(log[s])
      /\ current' = [stream |-> s, index |-> position[s] + 1]
      /\ position' = [position EXCEPT ![s] = @ + 1]
      /\ UNCHANGED <<committed, log, handled, failed, disruptions, errors>>
  BY DEF Inv, TypeOK, Deliver, Recv
<1>2. current' \in Unhandled /\ current'.stream = s /\ current'.index = position[s] + 1
  BY <1>1 DEF Unhandled
<1>3. current' # Idle
  BY <1>2, DeliveryAssumption
<1>4. TypeOK'
  BY <1>1, <1>2 DEF Inv, TypeOK
<1>5. \A t \in Streams : \A i \in 1..position[t] : <<t, i>> \in Tried
  BY <1>1 DEF Inv, HasInHand
<1>6. \A t \in Streams : \A i \in 1..position'[t] :
        <<t, i>> \in Tried' \/ HasInHand(t, i)'
  <2> SUFFICES ASSUME NEW t \in Streams, NEW i \in 1..position'[t]
               PROVE  <<t, i>> \in Tried' \/ HasInHand(t, i)'
    OBVIOUS
  <2>1. CASE t = s /\ i = position[s] + 1
    BY <1>2, <1>3, <2>1 DEF HasInHand
  <2>2. CASE ~(t = s /\ i = position[s] + 1)
    <3>1. i \in 1..position[t]
      BY <1>1, <2>2 DEF Inv, TypeOK
    <3> QED
      BY <1>1, <1>5, <3>1 DEF Tried
  <2> QED
    BY <2>1, <2>2
<1>7. \A i \in 1..(current'.index - 1) : <<current'.stream, i>> \in Tried'
  BY <1>1, <1>2, <1>5 DEF Tried
<1> QED
  BY <1>1, <1>4, <1>6, <1>7 DEF Inv, Tried, CommittedImpliesTried

\* The handler ended, one way or the other, and the offset may now name its message.
LEMMA InvHandlerEnds ==
  ASSUME Inv, current # Idle, current' = Idle,
         UNCHANGED <<log, position, disruptions>>,
         errors' \in 0..MaxErrors,
         Tried' = Tried \cup {<<current.stream, current.index>>},
         \/ committed' = [committed EXCEPT ![current.stream] = current.index]
         \/ UNCHANGED committed
  PROVE  Inv'
<1>1. /\ current.stream \in Streams /\ current.index \in Nat \ {0}
      /\ current.index <= Len(log[current.stream])
  BY DEF Inv, TypeOK, Unhandled
<1>2. \A s \in Streams : committed[s] \in Nat
  BY DEF Inv, TypeOK
<1>3. TypeOK'
  BY <1>1 DEF Inv, TypeOK
<1>4. \A s \in Streams : \A i \in 1..position'[s] : <<s, i>> \in Tried'
  BY DEF Inv, HasInHand
<1>5. CommittedImpliesTried'
  <2> SUFFICES ASSUME NEW s \in Streams, NEW i \in 1..committed'[s]
               PROVE  <<s, i>> \in Tried'
    BY DEF CommittedImpliesTried, Tried
  <2>1. CASE i \in 1..committed[s]
    BY <2>1 DEF Inv, CommittedImpliesTried, Tried
  <2>2. CASE i \notin 1..committed[s]
    <3>1. s = current.stream /\ committed'[s] = current.index
      BY <1>1, <1>2, <2>2 DEF Inv, TypeOK
    <3>2. i \in 1..(current.index - 1) \/ i = current.index
      BY <1>1, <3>1
    <3> QED
      BY <3>1, <3>2 DEF Inv
  <2> QED
    BY <2>1, <2>2
<1> QED
  BY <1>3, <1>4, <1>5 DEF Inv

LEMMA InvDisrupt ==
  ASSUME Inv, Disrupt
  PROVE  Inv'
<1>1. /\ position' = committed
      /\ current' = Idle \/ UNCHANGED current
      /\ UNCHANGED <<log, committed, handled, failed, errors>>
      /\ disruptions' = disruptions + 1 /\ disruptions < MaxDisruptions
  BY DEF Disrupt, Restart, Rejoin
<1>2. TypeOK'
  BY <1>1, DeliveryAssumption DEF Inv, TypeOK
<1>3. \A s \in Streams : \A i \in 1..position'[s] : <<s, i>> \in Tried'
  BY <1>1 DEF Inv, CommittedImpliesTried, Tried
<1> QED
  BY <1>1, <1>2, <1>3 DEF Inv, CommittedImpliesTried, Tried

LEMMA InvNext ==
  ASSUME Inv, [Next]_vars
  PROVE  Inv'
<1>1. CASE \E s \in Streams, m \in Events : Produce(s, m)
  BY <1>1, ProduceGrows, InvGrow
<1>2. CASE \E s \in Streams : Deliver(s)
  BY <1>2, InvDeliver
<1>3. CASE Succeed
  <2>1. Tried' = Tried \cup {<<current.stream, current.index>>}
    BY <1>3 DEF Succeed, Tried
  <2>2. errors' \in 0..MaxErrors
    BY <1>3 DEF Succeed, Inv, TypeOK
  <2> QED
    BY <1>3, <2>1, <2>2, InvHandlerEnds DEF Succeed, HandlerOk
<1>4. CASE Fail
  <2>1. Tried' = Tried \cup {<<current.stream, current.index>>}
    BY <1>4 DEF Fail, Tried
  <2>2. errors' \in 0..MaxErrors
    BY <1>4, DeliveryAssumption DEF Fail, Inv, TypeOK
  <2> QED
    BY <1>4, <2>1, <2>2, InvHandlerEnds DEF Fail, HandlerErr
<1>5. CASE Disrupt
  BY <1>5, InvDisrupt
<1>6. CASE UNCHANGED vars
  BY <1>6 DEF vars, Inv, TypeOK, Tried, HasInHand, CommittedImpliesTried
<1> QED
  BY <1>1, <1>2, <1>3, <1>4, <1>5, <1>6 DEF Next

THEOREM Invariance == Spec => []Inv
BY InvInit, InvNext, PTL DEF Spec

\* Positions and offsets stay within the logs.
THEOREM TypeCorrect == Spec => []TypeOK
BY Invariance, PTL DEF Inv

\* A crash alone loses no message: the offset of the group passes only messages
\* whose handler ran to its end, even with lost commits and positions set back.
THEOREM NothingSkippedUntried == Spec => []CommittedImpliesTried
BY Invariance, PTL DEF Inv

-----------------------------------------------------------------------------
\* TriedInOrder for all indices, the ones not in the log yet included: what an
\* append must not find tried already.
Ordered ==
  \A s \in Streams : \A i \in Nat \ {0} :
    <<s, i>> \in Tried =>
      i <= Len(log[s]) /\ \A j \in 1..i : <<s, j>> \in Tried

\* The end of a handler adds the message in hand, whose predecessors were tried.
LEMMA OrderedHandlerEnds ==
  ASSUME Inv, Ordered, current # Idle, UNCHANGED log,
         Tried' = Tried \cup {<<current.stream, current.index>>}
  PROVE  Ordered'
<1>1. current \in Unhandled /\ current.index <= Len(log[current.stream])
  BY DEF Inv, TypeOK
<1>2. \A j \in 1..current.index : <<current.stream, j>> \in Tried'
  BY <1>1 DEF Inv, Unhandled
<1> SUFFICES ASSUME NEW s \in Streams, NEW i \in Nat \ {0}, <<s, i>> \in Tried'
             PROVE  /\ i <= Len(log'[s])
                    /\ \A j \in 1..i : <<s, j>> \in Tried'
  BY DEF Ordered
<1>3. CASE <<s, i>> \in Tried
  BY <1>3 DEF Ordered
<1>4. CASE s = current.stream /\ i = current.index
  BY <1>1, <1>2, <1>4
<1> QED
  BY <1>3, <1>4

LEMMA OrderedGrow ==
  ASSUME Inv, Ordered, LogsGrow
  PROVE  Ordered'
<1>1. \A t \in Streams : Len(log[t]) \in Nat /\ Len(log'[t]) \in Nat
                      /\ Len(log'[t]) >= Len(log[t])
  BY DEF Inv, TypeOK, LogsGrow
<1>2. Tried' = Tried
  BY DEF LogsGrow, Tried
<1> QED
  BY <1>1, <1>2 DEF Ordered

LEMMA OrderedNext ==
  ASSUME Inv, Ordered, [Next]_vars
  PROVE  Ordered'
<1>1. ASSUME NEW s \in Streams, NEW m \in Events, Produce(s, m)
      PROVE  Ordered'
  BY <1>1, ProduceGrows, OrderedGrow
<1>2. CASE UNCHANGED <<log, handled, failed>>
  BY <1>2 DEF Ordered, Tried
<1>3. CASE Succeed \/ Fail
  <2>1. /\ Tried' = Tried \cup {<<current.stream, current.index>>}
        /\ current # Idle /\ UNCHANGED log
    BY <1>3 DEF Succeed, Fail, HandlerOk, HandlerErr, Tried
  <2> QED
    BY <2>1, OrderedHandlerEnds
<1> QED
  BY <1>1, <1>2, <1>3 DEF Next, vars, Deliver, Disrupt

\* A handler ends on the messages of a stream in their order.
THEOREM InOrder == Spec => []TriedInOrder
<1>1. Init => Ordered
  BY DEF Init, Ordered, Tried
<1>2. Inv /\ Ordered => TriedInOrder
  BY DEF Ordered, TriedInOrder, Inv, TypeOK
<1> QED
  BY <1>1, <1>2, OrderedNext, Invariance, PTL DEF Spec

-----------------------------------------------------------------------------
(***************************************************************************)
(* Handlers that always succeed: what was tried was handled, and the doc   *)
(* comment of EventConsumer::run holds.                                    *)
(***************************************************************************)
NoFailure == errors = 0 /\ failed = {}

LEMMA NoFailureInvariant ==
  ASSUME MaxErrors = 0
  PROVE  Spec => []NoFailure
<1>1. Init => NoFailure
  BY DEF Init, NoFailure
<1>2. ASSUME NoFailure, [Next]_vars
      PROVE  NoFailure'
  BY <1>2 DEF NoFailure, Next, vars, Produce, Deliver, Succeed, Fail, Disrupt
<1> QED
  BY <1>1, <1>2, PTL DEF Spec

\* When no handler fails, the offset of the group passes only handled messages.
THEOREM AtLeastOnce ==
  ASSUME MaxErrors = 0
  PROVE  Spec => []CommittedImpliesHandled
<1>1. NoFailure /\ Inv => CommittedImpliesHandled
  BY DEF NoFailure, Inv, Tried, CommittedImpliesTried, CommittedImpliesHandled
<1> QED
  BY <1>1, Invariance, NoFailureInvariant, PTL
=============================================================================
