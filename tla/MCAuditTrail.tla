----------------------------- MODULE MCAuditTrail -----------------------------
(***************************************************************************)
(* An instance of AuditTrail for TLC: one order of the seeded user, of a   *)
(* quantity that her cash pays for or of one that it does not.             *)
(***************************************************************************)
EXTENDS AuditTrail, TLC

CONSTANTS demo, o1

MCSymbols == {"BTC", ""}
MCNormalize == [r \in MCSymbols |-> r]
MCPartitionOf == [o \in OrderIds |-> 1]

Buys == {[user |-> demo, symbol |-> "BTC", side |-> "BUY", quantity |-> q] : q \in {1, 2}}

NeverFails == {{}}
=============================================================================
