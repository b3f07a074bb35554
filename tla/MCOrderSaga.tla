----------------------------- MODULE MCOrderSaga -----------------------------
(***************************************************************************)
(* An instance of OrderSaga for TLC: the seeded user, who can afford one   *)
(* unit at price 1, not two, and none at price 2, so that a quote decides  *)
(* between execution and rejection; a listed symbol and one that is not.   *)
(***************************************************************************)
EXTENDS OrderSaga, TLC

CONSTANTS demo, o1, o2

MCSymbols == {"BTC", "ZZZ", ""}
MCNormalize == [r \in MCSymbols |-> r]

Request(side, s) == [user |-> demo, symbol |-> s, side |-> side, quantity |-> 1]

Buys == {Request("BUY", "BTC")}
BuysListedOrNot == {Request("BUY", "BTC"), Request("BUY", "ZZZ")}

MCPartitionOf == [o \in OrderIds |-> CHOOSE k \in Partitions : TRUE]
TwoPartitions == [o \in OrderIds |-> IF o = o1 THEN 1 ELSE 2]

NeverFails == {{}}
MayFail == {{}, {"BTC"}}

Symmetry == Permutations(OrderIds)
=============================================================================
