---------------------------- MODULE PortfolioStore ----------------------------
(***************************************************************************)
(* The `portfolio` database and the operations of repo.rs on it, each      *)
(* transaction taken as one step.  OrderSaga drives it with the events     *)
(* that Kafka delivers.                                                    *)
(*                                                                         *)
(* Units.  A NUMERIC(38,10) column counts units of 10^-10.  The quantity   *)
(* of a request is finer (a Decimal has up to 28 decimals), and so is a    *)
(* product price * quantity, a price being a whole number of cents: Scale  *)
(* fine units make one unit of the column (100 for the product).           *)
(***************************************************************************)
EXTENDS Integers, FiniteSetsExt

CONSTANTS
  Users,            \* user ids that appear in requests
  DemoUser,         \* DEMO_USER_ID, seeded by the service itself
  Accounts,         \* users given a portfolio row by hand (psql, test set-up)
  RawSymbols,       \* symbols as a client may spell them
  Normalize,        \* Symbol::new, trim and upper-case: [RawSymbols -> RawSymbols]
  EmptySymbol,      \* the symbol ""
  DemoSymbol,       \* DEMO_HOLDING_SYMBOL
  Requests,         \* the POST /orders bodies clients send
  OrderIds,         \* ids Uuid::new_v4 may give to orders
  EventIds,         \* event_ids of the envelopes that reach this service
  Prices,           \* quoted prices
  Scale,
  StartingCash,     \* cash of a new portfolio row, in units of the column
  StartingHolding,  \* DEMO_HOLDING_QTY
  MaxDecimal,       \* Decimal::MAX, in fine units
  Null              \* SQL NULL

Side == {"BUY", "SELL"}

\* The status 'PRICED' of the schema and of domain.rs is written by no code.
OrderStatus == {"CREATED", "EXECUTED", "REJECTED"}

RejectionReason == {"UNKNOWN_SYMBOL", "MARKET_UNAVAILABLE",
                    "INSUFFICIENT_BALANCE", "INSUFFICIENT_ASSET"}

NewOrder == [user: Users, symbol: RawSymbols, side: Side, quantity: Nat]

ASSUME StoreAssumption ==
  /\ DemoUser \in Users
  /\ Accounts \subseteq Users \ {DemoUser}
  /\ EmptySymbol \in RawSymbols
  /\ DemoSymbol \in RawSymbols
  /\ Normalize \in [RawSymbols -> RawSymbols]
  /\ \A r \in RawSymbols : Normalize[Normalize[r]] = Normalize[r]
  /\ Normalize[DemoSymbol] = DemoSymbol
  /\ Requests \subseteq NewOrder
  /\ Prices \subseteq Nat
  /\ Scale \in Nat \ {0}
  /\ StartingCash \in Nat
  /\ StartingHolding \in Nat
  /\ MaxDecimal \in Nat
  /\ Null \notin Prices
  /\ Null \notin RejectionReason

VARIABLES
  users,      \* table users: ids present
  cash,       \* table portfolios: cash_balance of each row present
  holdings,   \* table holdings: quantity, keyed by <<user, symbol>>
  orders,     \* table orders, keyed by id
  processed,  \* table processed_events
  startup     \* how far main() has come: the seeding statement due, or "serving"

vars == <<users, cash, holdings, orders, processed, startup>>

\* A row of the table orders.
OrderRow == [user: Users, symbol: RawSymbols, side: Side,
             quantity: Nat \ {0}, status: OrderStatus,
             price: Prices \cup {Null}, reason: RejectionReason \cup {Null}]

\* INSERT or overwrite one row of a table.
Put(table, key, row) ==
  [k \in DOMAIN table \cup {key} |-> IF k = key THEN row ELSE table[k]]

\* INSERT ... ON CONFLICT DO NOTHING.
PutIfAbsent(table, key, row) ==
  IF key \in DOMAIN table THEN table ELSE Put(table, key, row)

\* Assignment to a NUMERIC column rounds half away from zero (x is not negative).
ToColumn(x) == (2 * x + Scale) \div (2 * Scale)

Init ==
  /\ users = Accounts
  /\ cash = [u \in Accounts |-> StartingCash]
  /\ holdings = [k \in {} |-> 0]
  /\ orders = [o \in {} |-> Null]
  /\ processed = {}
  /\ startup = "users"

-----------------------------------------------------------------------------
(***************************************************************************)
(* seed_demo: three statements, each committed on its own, before the      *)
(* consumer and the HTTP server start.                                     *)
(***************************************************************************)
SeedUser ==
  /\ startup = "users"
  /\ users' = users \cup {DemoUser}
  /\ startup' = "portfolios"
  /\ UNCHANGED <<cash, holdings, orders, processed>>

SeedPortfolio ==
  /\ startup = "portfolios"
  /\ cash' = PutIfAbsent(cash, DemoUser, StartingCash)
  /\ startup' = "holdings"
  /\ UNCHANGED <<users, holdings, orders, processed>>

\* Mutant: the seed overwrites the demo holding (DO UPDATE).
SeedHoldingAgain ==
  /\ startup = "holdings"
  /\ holdings' = Put(holdings, <<DemoUser, DemoSymbol>>, StartingHolding)
  /\ startup' = "serving"
  /\ UNCHANGED <<users, cash, orders, processed>>

SeedHolding ==
  /\ startup = "holdings"
  /\ holdings' = PutIfAbsent(holdings, <<DemoUser, DemoSymbol>>, StartingHolding)
  /\ startup' = "serving"
  /\ UNCHANGED <<users, cash, orders, processed>>

\* The process dies, at any point, and is started again.
Restart ==
  /\ startup' = "users"
  /\ UNCHANGED <<users, cash, holdings, orders, processed>>

-----------------------------------------------------------------------------
(***************************************************************************)
(* POST /orders: NewOrder::validate, portfolio_exists, create_order.  The  *)
(* derived Deserialize of Symbol does not go through Symbol::new, so both  *)
(* the validation and the row see the symbol as the client spelt it.       *)
(***************************************************************************)
Validate(req) ==
  /\ req.symbol # EmptySymbol
  /\ req.quantity > 0

\* Mutant: create_order does not look for the portfolio.
AcceptsAnyUser(req) ==
  /\ startup = "serving"
  /\ Validate(req)
  /\ ToColumn(req.quantity) > 0

Accepts(req) ==
  /\ startup = "serving"
  /\ Validate(req)
  /\ req.user \in DOMAIN cash
  /\ ToColumn(req.quantity) > 0      \* CHECK (quantity > 0)

CreateOrder(o, req) ==
  /\ Accepts(req)
  /\ o \notin DOMAIN orders
  /\ orders' = Put(orders, o,
                   [user |-> req.user, symbol |-> req.symbol, side |-> req.side,
                    quantity |-> ToColumn(req.quantity), status |-> "CREATED",
                    price |-> Null, reason |-> Null])
  /\ UNCHANGED <<users, cash, holdings, processed, startup>>

-----------------------------------------------------------------------------
(***************************************************************************)
(* apply_price_quoted and apply_order_rejected.                            *)
(***************************************************************************)

\* OrderRow::into_domain: a row read back carries the normalized symbol.
Asset(o) == Normalize[orders[o].symbol]
Owner(o) == orders[o].user
Position(o) == <<Owner(o), Asset(o)>>

\* fetch_optional(..).unwrap_or(ZERO).
Held(key) == IF key \in DOMAIN holdings THEN holdings[key] ELSE 0

\* value = price * qty, in units finer than the column by Scale.
Value(o, p) == p * orders[o].quantity

\* The product is a Decimal; `price * qty` panics when it is not.
Representable(o, p) == Value(o, p) <= MaxDecimal

\* Mutant: the ledger is read but not written.
MarkNothing(e) == UNCHANGED processed

MarkProcessed(e) == processed' = processed \cup {e}

MarkExecuted(o, p) ==
  orders' = [orders EXCEPT ![o].status = "EXECUTED", ![o].price = p]

MarkRejected(o, r) ==
  orders' = [orders EXCEPT ![o].status = "REJECTED", ![o].reason = r]

\* Mutant: apply_price_quoted does not look at the status.
IsKnown(o) == o \in DOMAIN orders

IsCreated(o) == o \in DOMAIN orders /\ orders[o].status = "CREATED"

\* The event is new and its order is still open.
Actionable(o, e) == e \notin processed /\ IsCreated(o)

\* Mutant: the check is made against the price of one unit.
AffordableUnit(o, p) == Scale * cash[Owner(o)] >= p

Affordable(o, p) == Scale * cash[Owner(o)] >= Value(o, p)
Covered(o) == Held(Position(o)) >= orders[o].quantity

\* ExecOutcome::Skipped: duplicate event, unknown order, or order terminal.
SkipQuote(o, e) ==
  /\ ~Actionable(o, e)
  /\ MarkProcessed(e)
  /\ UNCHANGED <<users, cash, holdings, orders, startup>>

\* Mutant: the settlement moves cash and asset and leaves the order open.
ExecuteBuyUnmarked(o, e, p) ==
  /\ Actionable(o, e)
  /\ orders[o].side = "BUY"
  /\ Affordable(o, p)
  /\ cash' = [cash EXCEPT ![Owner(o)] = ToColumn(Scale * @ - Value(o, p))]
  /\ holdings' = Put(holdings, Position(o),
                     Held(Position(o)) + orders[o].quantity)
  /\ MarkProcessed(e)
  /\ UNCHANGED <<users, orders, startup>>

ExecuteBuy(o, e, p) ==
  /\ Actionable(o, e)
  /\ orders[o].side = "BUY"
  /\ Affordable(o, p)
  /\ cash' = [cash EXCEPT ![Owner(o)] = ToColumn(Scale * @ - Value(o, p))]
  /\ holdings' = Put(holdings, Position(o),
                     Held(Position(o)) + orders[o].quantity)
  /\ MarkExecuted(o, p)
  /\ MarkProcessed(e)
  /\ UNCHANGED <<users, startup>>

RejectBuy(o, e, p) ==
  /\ Actionable(o, e)
  /\ orders[o].side = "BUY"
  /\ ~Affordable(o, p)
  /\ MarkRejected(o, "INSUFFICIENT_BALANCE")
  /\ MarkProcessed(e)
  /\ UNCHANGED <<users, cash, holdings, startup>>

ExecuteSell(o, e, p) ==
  /\ Actionable(o, e)
  /\ orders[o].side = "SELL"
  /\ Covered(o)
  /\ holdings' = [holdings EXCEPT ![Position(o)] = @ - orders[o].quantity]
  /\ cash' = [cash EXCEPT ![Owner(o)] = ToColumn(Scale * @ + Value(o, p))]
  /\ MarkExecuted(o, p)
  /\ MarkProcessed(e)
  /\ UNCHANGED <<users, startup>>

RejectSell(o, e) ==
  /\ Actionable(o, e)
  /\ orders[o].side = "SELL"
  /\ ~Covered(o)
  /\ MarkRejected(o, "INSUFFICIENT_ASSET")
  /\ MarkProcessed(e)
  /\ UNCHANGED <<users, cash, holdings, startup>>

ApplyPriceQuoted(o, e, p) ==
  /\ startup = "serving"
  /\ Actionable(o, e) => Representable(o, p)   \* the panic rolls back
  /\ \/ SkipQuote(o, e)
     \/ ExecuteBuy(o, e, p)
     \/ RejectBuy(o, e, p)
     \/ ExecuteSell(o, e, p)
     \/ RejectSell(o, e)

\* Mutant: a rejection closes the order whatever its status.
ApplyOrderRejectedBlindly(o, e, r) ==
  /\ startup = "serving"
  /\ IF e \notin processed /\ o \in DOMAIN orders
       THEN MarkRejected(o, r) ELSE UNCHANGED orders
  /\ MarkProcessed(e)
  /\ UNCHANGED <<users, cash, holdings, startup>>

\* apply_order_rejected: a still open order is closed, anything else is a no-op.
ApplyOrderRejected(o, e, r) ==
  /\ startup = "serving"
  /\ IF Actionable(o, e) THEN MarkRejected(o, r) ELSE UNCHANGED orders
  /\ MarkProcessed(e)
  /\ UNCHANGED <<users, cash, holdings, startup>>

-----------------------------------------------------------------------------
Next ==
  \/ SeedUser
  \/ SeedPortfolio
  \/ SeedHolding
  \/ Restart
  \/ \E o \in OrderIds, req \in Requests : CreateOrder(o, req)
  \/ \E o \in OrderIds, e \in EventIds, p \in Prices : ApplyPriceQuoted(o, e, p)
  \/ \E o \in OrderIds, e \in EventIds, r \in RejectionReason :
       ApplyOrderRejected(o, e, r)

Spec == Init /\ [][Next]_vars

-----------------------------------------------------------------------------
(***************************************************************************)
(* What must hold.                                                         *)
(***************************************************************************)

\* Every row has its columns' types and refers to rows that exist: portfolios
\* and holdings to users, orders to the portfolio create_order looked for.
TypeOK ==
  /\ users \subseteq Users
  /\ DOMAIN cash \subseteq users
  /\ cash \in [DOMAIN cash -> Int]
  /\ DOMAIN holdings \subseteq users \X RawSymbols
  /\ holdings \in [DOMAIN holdings -> Int]
  /\ DOMAIN orders \subseteq OrderIds
  /\ orders \in [DOMAIN orders -> OrderRow]
  /\ \A o \in DOMAIN orders : Owner(o) \in DOMAIN cash
  /\ processed \subseteq EventIds
  /\ startup \in {"users", "portfolios", "holdings", "serving"}
  /\ startup \notin {"users", "portfolios"} => DemoUser \in DOMAIN cash
  /\ startup # "users" => DemoUser \in users

\* No sequence of orders and quotes drives a balance or a position below zero:
\* the checks of apply_price_quoted suffice although nothing is reserved when
\* the order is accepted, and the CHECK constraints of the tables never fire.
Solvent ==
  /\ \A u \in DOMAIN cash : cash[u] >= 0
  /\ \A k \in DOMAIN holdings : holdings[k] >= 0

Executed == {o \in DOMAIN orders : orders[o].status = "EXECUTED"}
Resolved == {o \in DOMAIN orders : orders[o].status # "CREATED"}

\* Quantity that executed orders of one side moved in a position.
Traded(side, key) ==
  MapThenSumSet(LAMBDA o : orders[o].quantity,
                {o \in Executed : orders[o].side = side /\ Position(o) = key})

\* Cash that executed orders of one side moved for a user, in fine units.
Exchanged(side, u) ==
  MapThenSumSet(LAMBDA o : Value(o, orders[o].price),
                {o \in Executed : orders[o].side = side /\ Owner(o) = u})

Seeded(key) == IF key = <<DemoUser, DemoSymbol>> THEN StartingHolding ELSE 0

\* A position is what was seeded plus what its owner bought minus what its
\* owner sold, however often the service restarts and seeds again, however
\* events repeat and however the symbol was spelt in the request.
HoldingsMatchTrades ==
  \A k \in DOMAIN holdings :
    holdings[k] = Seeded(k) + Traded("BUY", k) - Traded("SELL", k)

\* A balance is the starting cash minus what the user paid plus what the user
\* received, up to half a unit of the column for each trade.
CashTracksTrades ==
  \A u \in DOMAIN cash :
    LET exact == Scale * StartingCash + Exchanged("SELL", u) - Exchanged("BUY", u)
        error == Scale * cash[u] - exact
        trades == Cardinality({o \in Executed : Owner(o) = u})
    IN 2 * (IF error < 0 THEN -error ELSE error) <= trades * Scale

\* "symbol must not be empty" (NewOrder::validate): no stored order is for the
\* empty symbol once its symbol is normalized as the type promises.
OrdersHaveSymbols ==
  \A o \in DOMAIN orders : Asset(o) # EmptySymbol

\* Each resolved order used up an event of its own: the idempotency ledger
\* grows at least as fast as orders leave CREATED.
EveryResolutionLogged == Cardinality(Resolved) <= Cardinality(processed)

\* EXECUTED and REJECTED are final: no later quote, rejection, redelivery or
\* restart changes anything of the row, its price and its reason included.
TerminalIsFinal ==
  [][\A o \in Resolved : o \in DOMAIN orders' /\ orders'[o] = orders[o]]_vars

\* Order o settles in this step, in favour of or at the expense of its owner only.
Settles(o) ==
  /\ IsCreated(o)
  /\ orders'[o].status = "EXECUTED"
  /\ \A other \in DOMAIN orders \ {o} : orders'[other] = orders[other]
  /\ \A u \in DOMAIN cash \ {Owner(o)} : cash'[u] = cash[u]
  /\ \A k \in DOMAIN holdings \ {Position(o)} : holdings'[k] = holdings[k]
  /\ DOMAIN holdings' \subseteq DOMAIN holdings \cup {Position(o)}

\* While the service is up, money and assets move only in the step that takes
\* one order from CREATED to EXECUTED, and only its owner's balance and position;
\* an order is never executed without its position moving.
MoneyMovesOnlyBySettlement ==
  [][startup = "serving" =>
       /\ cash' # cash \/ holdings' # holdings =>
            \E o \in DOMAIN orders : Settles(o)
       /\ \A o \in DOMAIN orders :
            IsCreated(o) /\ orders'[o].status = "EXECUTED" =>
              holdings' # holdings]_vars
=============================================================================
