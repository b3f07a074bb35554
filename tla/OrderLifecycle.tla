---------------------------- MODULE OrderLifecycle ----------------------------
(***************************************************************************)
(* What the choreography promises a client, without services, topics or    *)
(* consumers: README, "Order lifecycle".  An order is created, and then    *)
(* executed or rejected for good; an order answered with 202 Accepted is   *)
(* resolved eventually; an OrderExecuted event exists only of an executed  *)
(* order and is published once.                                            *)
(***************************************************************************)
CONSTANT OrderIds

VARIABLES
  status,     \* of each order, "NONE" before it exists
  accepted,   \* orders answered with 202
  announced   \* number of OrderExecuted events of each order: 0 or 1

lifecycleVars == <<status, accepted, announced>>

Init ==
  /\ status = [o \in OrderIds |-> "NONE"]
  /\ accepted = {}
  /\ announced = [o \in OrderIds |-> 0]

Create(o) ==
  /\ status[o] = "NONE"
  /\ status' = [status EXCEPT ![o] = "CREATED"]
  /\ UNCHANGED <<accepted, announced>>

Accept(o) ==
  /\ status[o] # "NONE"
  /\ o \notin accepted
  /\ accepted' = accepted \cup {o}
  /\ UNCHANGED <<status, announced>>

Resolve(o) ==
  /\ status[o] = "CREATED"
  /\ \E outcome \in {"EXECUTED", "REJECTED"} :
       status' = [status EXCEPT ![o] = outcome]
  /\ UNCHANGED <<accepted, announced>>

Announce(o) ==
  /\ status[o] = "EXECUTED"
  /\ announced[o] = 0
  /\ announced' = [announced EXCEPT ![o] = 1]
  /\ UNCHANGED <<status, accepted>>

Next == \E o \in OrderIds : Create(o) \/ Accept(o) \/ Resolve(o) \/ Announce(o)

Resolved(o) == status[o] \in {"EXECUTED", "REJECTED"}

Spec ==
  /\ Init
  /\ [][Next]_lifecycleVars
  /\ \A o \in OrderIds : o \in accepted ~> Resolved(o)
=============================================================================
