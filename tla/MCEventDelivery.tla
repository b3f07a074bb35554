--------------------------- MODULE MCEventDelivery ---------------------------
(***************************************************************************)
(* Two streams: the two topics of the portfolio-service group, or two      *)
(* partitions of the market-service group.                                 *)
(***************************************************************************)
EXTENDS EventDelivery
=============================================================================
