---------------------------- MODULE EventConsumer ----------------------------
(***************************************************************************)
(* One consumer group of shared/src/kafka.rs, served by one process: the   *)
(* loop EventConsumer::run over the topic partitions assigned to it.  A    *)
(* stream is one partition of one topic; a log is never truncated.         *)
(*                                                                         *)
(* position lives in the memory of the consumer (librdkafka), committed at *)
(* the broker.  Both count messages: position[s] of them were delivered,   *)
(* committed[s] of them will not be delivered to the next process.         *)
(*                                                                         *)
(* What is produced to the logs is up to the module that composes this one.*)
(***************************************************************************)
EXTENDS Integers, Sequences

CONSTANTS
  Streams,    \* topic partitions of the group
  Idle        \* no message in hand

VARIABLES
  log,        \* what each stream holds
  position,   \* messages of each stream delivered to this process
  committed,  \* the group's offset of each stream, at the broker
  current     \* the message handed to the handler: [stream, index], or Idle

consumerVars == <<position, committed, current>>

Unhandled == [stream: Streams, index: Nat \ {0}]

\* auto.offset.reset = earliest: a new group starts at the first message.
ConsumerInit ==
  /\ position = [s \in Streams |-> 0]
  /\ committed = [s \in Streams |-> 0]
  /\ current = Idle

InHand == log[current.stream][current.index]

\* Mutant: the offset is committed when the message is delivered.
RecvAndCommit(s) ==
  /\ current = Idle
  /\ position[s] < Len(log[s])
  /\ current' = [stream |-> s, index |-> position[s] + 1]
  /\ position' = [position EXCEPT ![s] = @ + 1]
  /\ committed' = [committed EXCEPT ![s] = position[s] + 1]

\* recv().await returns the next message of some stream.
Recv(s) ==
  /\ current = Idle
  /\ position[s] < Len(log[s])
  /\ current' = [stream |-> s, index |-> position[s] + 1]
  /\ position' = [position EXCEPT ![s] = @ + 1]
  /\ UNCHANGED committed

\* Mutant: the commit names the message after the one to be read next.
HandlerOkPastNext ==
  /\ current # Idle
  /\ \/ committed' = [committed EXCEPT ![current.stream] = current.index + 1]
     \/ UNCHANGED committed
  /\ current' = Idle
  /\ UNCHANGED position

\* The handler returned Ok and commit_message(.., Async) was called.  The commit
\* names the message in hand, whatever came before it; the request may be lost.
HandlerOk ==
  /\ current # Idle
  /\ \/ committed' = [committed EXCEPT ![current.stream] = current.index]
     \/ UNCHANGED committed
  /\ current' = Idle
  /\ UNCHANGED position

\* The handler returned Err: logged, not committed, and the loop goes on with
\* the next message.  Nothing seeks back.
HandlerErr ==
  /\ current # Idle
  /\ current' = Idle
  /\ UNCHANGED <<position, committed>>

\* The handler panics: the task of the consumer unwinds and the consumer is
\* dropped with it.  Whoever composes this must stop receiving.
HandlerPanics ==
  /\ current # Idle
  /\ current' = Idle
  /\ UNCHANGED <<position, committed>>

\* Mutant: auto.offset.reset = latest.
RestartAtLatest ==
  /\ position' = [s \in Streams |->
                    IF committed[s] = 0 THEN Len(log[s]) ELSE committed[s]]
  /\ current' = Idle
  /\ UNCHANGED committed

\* The process stops (crash, or the shutdown branch of the select) and a new one
\* subscribes: it starts at the committed offsets.
Restart ==
  /\ position' = committed
  /\ current' = Idle
  /\ UNCHANGED committed

\* The broker drops the consumer from its group (session.timeout.ms) and takes it
\* back: the positions are fetched again while the handler is still running.
Rejoin ==
  /\ position' = committed
  /\ UNCHANGED <<committed, current>>
=============================================================================
