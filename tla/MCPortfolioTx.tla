----------------------------- MODULE MCPortfolioTx -----------------------------
(***************************************************************************)
(* An instance of PortfolioTx for TLC: the seeded user buys or sells one   *)
(* unit of the seeded symbol or buys the other one; o1 is quoted twice, at *)
(* a price she can pay and at one whose value is no Decimal; o2 is quoted  *)
(* once, at all her cash, and rejected once.                               *)
(***************************************************************************)
EXTENDS PortfolioTx, TLC

CONSTANTS demo, o1, o2, q1, q2, q3, r2

MCSymbols == {"BTC", "ETH", ""}
MCNormalize == [r \in MCSymbols |-> r]

Request(side, s) == [user |-> demo, symbol |-> s, side |-> side, quantity |-> 1]
MCRequests == {Request("BUY", "BTC"), Request("SELL", "BTC"), Request("SELL", "ETH"),
               Request("BUY", "ETH")}

MCOrderOf == (q1 :> o1) @@ (q2 :> o1) @@ (q3 :> o2) @@ (r2 :> o2)
MCPriceOf == (q1 :> 1) @@ (q2 :> 3) @@ (q3 :> 2) @@ (r2 :> Null)
MCReasonOf == (q1 :> Null) @@ (q2 :> Null) @@ (q3 :> Null) @@ (r2 :> "UNKNOWN_SYMBOL")
=============================================================================
