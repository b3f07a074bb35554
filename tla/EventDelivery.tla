---------------------------- MODULE EventDelivery ----------------------------
(***************************************************************************)
(* What EventConsumer::run delivers to a handler that only returns Ok or   *)
(* Err: producers append, the process restarts and rejoins its group.      *)
(***************************************************************************)
EXTENDS EventConsumer

CONSTANTS
  Events,          \* what is produced
  MaxLog,          \* bound: messages per stream
  MaxDisruptions,  \* bound: restarts and rejoins
  MaxErrors        \* bound: times the handler returns Err

ASSUME DeliveryAssumption ==
  /\ Events # {}
  /\ MaxLog \in Nat /\ MaxDisruptions \in Nat /\ MaxErrors \in Nat
  /\ Idle \notin Unhandled

VARIABLES
  handled,      \* history: messages the handler returned Ok for, <<stream, index>>
  failed,       \* history: messages the handler returned Err for
  disruptions,  \* restarts and rejoins so far
  errors        \* Errs so far

vars == <<log, position, committed, current, handled, failed, disruptions, errors>>

Init ==
  /\ ConsumerInit
  /\ log = [s \in Streams |-> <<>>]
  /\ handled = {}
  /\ failed = {}
  /\ disruptions = 0
  /\ errors = 0

\* Some producer appends to a stream.
Produce(s, m) ==
  /\ Len(log[s]) < MaxLog
  /\ log' = [log EXCEPT ![s] = Append(@, m)]
  /\ UNCHANGED <<position, committed, current, handled, failed, disruptions, errors>>

Deliver(s) ==
  /\ Recv(s)
  /\ UNCHANGED <<log, handled, failed, disruptions, errors>>

Succeed ==
  /\ HandlerOk
  /\ handled' = handled \cup {<<current.stream, current.index>>}
  /\ UNCHANGED <<log, failed, disruptions, errors>>

Fail ==
  /\ errors < MaxErrors
  /\ HandlerErr
  /\ errors' = errors + 1
  /\ failed' = failed \cup {<<current.stream, current.index>>}
  /\ UNCHANGED <<log, handled, disruptions>>

Disrupt ==
  /\ disruptions < MaxDisruptions
  /\ Restart \/ Rejoin
  /\ disruptions' = disruptions + 1
  /\ UNCHANGED <<log, handled, failed, errors>>

Next ==
  \/ \E s \in Streams, m \in Events : Produce(s, m)
  \/ \E s \in Streams : Deliver(s)
  \/ Succeed
  \/ Fail
  \/ Disrupt

\* The consumer task is scheduled, and a handler ends: its database calls and
\* sends have time limits.
Fairness ==
  /\ WF_vars(\E s \in Streams : Deliver(s))
  /\ WF_vars(Succeed)

Spec == Init /\ [][Next]_vars /\ Fairness

-----------------------------------------------------------------------------
\* Counters within the log; the message in hand exists.
TypeOK ==
  /\ log \in [Streams -> Seq(Events)]
  /\ position \in [Streams -> Nat]
  /\ committed \in [Streams -> Nat]
  /\ \A s \in Streams : position[s] <= Len(log[s]) /\ committed[s] <= Len(log[s])
  /\ current # Idle =>
       current \in Unhandled /\ current.index <= Len(log[current.stream])
  /\ disruptions \in 0..MaxDisruptions
  /\ errors \in 0..MaxErrors

Tried == handled \cup failed

\* The offset of the group passes only messages whose handler ran to its end,
\* whatever the errors, lost commits, restarts and rejoins: a crash alone loses no
\* message.  A message below the offset need not be delivered again.
CommittedImpliesTried ==
  \A s \in Streams : \A i \in 1..committed[s] : <<s, i>> \in Tried

\* A handler sees the messages of a stream in order: none is done before its
\* predecessors, though delivery goes back after every disruption.
TriedInOrder ==
  \A s \in Streams : \A i \in 1..Len(log[s]) : \A j \in 1..i :
    <<s, i>> \in Tried => <<s, j>> \in Tried

\* No failure, restart or rejoin keeps the handler from being run to its end on
\* every message: at-least-once, and no message that fails blocks those behind it.
EventuallyTried ==
  \A s \in Streams : \A i \in 1..MaxLog : Len(log[s]) >= i ~> <<s, i>> \in Tried

\* "commit the offset only when it returns Ok - on Err the message is left
\* uncommitted and will be redelivered" (EventConsumer::run): the offset of the
\* group never passes a message whose handling did not succeed.
CommittedImpliesHandled ==
  \A s \in Streams : \A i \in 1..committed[s] : <<s, i>> \in handled
=============================================================================
