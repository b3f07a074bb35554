--------------------------- MODULE MCPortfolioStore ---------------------------
(***************************************************************************)
(* An instance of PortfolioStore for TLC: the seeded user, a user with a   *)
(* hand-made portfolio and one with none; a column unit of three fine      *)
(* units, so that quantities and cash are rounded both ways; requests that *)
(* pass, that are refused by each check and that spell a symbol oddly.     *)
(***************************************************************************)
EXTENDS PortfolioStore, TLC

CONSTANTS demo, alice, bob

MCUsers == {demo, alice, bob}
MCAccounts == {alice}
MCRawSymbols == {"BTC", "btc", " ", ""}
MCNormalize == [r \in MCRawSymbols |->
                  CASE r \in {"BTC", "btc"} -> "BTC" [] OTHER -> ""]

Request(u, s, side, q) == [user |-> u, symbol |-> s, side |-> side, quantity |-> q]

MCRequests == {
  Request(demo, "btc", "SELL", 3),
  Request(demo, "BTC", "BUY", 6),       \* two units
  Request(alice, "btc", "BUY", 2),      \* rounded up to one unit
  Request(alice, "BTC", "SELL", 3),
  Request(alice, " ", "BUY", 3),        \* normalizes to the empty symbol
  Request(alice, "", "BUY", 3),         \* refused: empty symbol
  Request(alice, "BTC", "BUY", 1),      \* refused: rounds to zero
  Request(alice, "BTC", "BUY", 0),      \* refused: not positive
  Request(bob, "BTC", "BUY", 3)}        \* refused: no portfolio

Symmetry == Permutations(OrderIds) \cup Permutations(EventIds)
=============================================================================
