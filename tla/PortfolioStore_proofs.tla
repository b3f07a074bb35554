------------------------- MODULE PortfolioStore_proofs -------------------------
(***************************************************************************)
(* Proofs about PortfolioStore, for any users, symbols, requests, prices,  *)
(* orders, events and rounding scale.                                      *)
(***************************************************************************)
EXTENDS PortfolioStore, TLAPS

\* What a NUMERIC column stores for a non-negative value is not negative.
LEMMA ToColumnNat ==
  ASSUME NEW x \in Nat
  PROVE  ToColumn(x) \in Nat
<1>1. Scale \in Nat /\ Scale > 0
  BY StoreAssumption
<1>2. 2 * x + Scale \in Nat /\ 2 * Scale \in Nat \ {0}
  BY <1>1
<1>3. \A n \in Nat, d \in Nat \ {0} : n \div d \in Nat
  OBVIOUS
<1> QED
  BY <1>2, <1>3 DEF ToColumn

\* A product of naturals is a natural.
LEMMA ProductNat ==
  ASSUME NEW x \in Nat, NEW y \in Nat
  PROVE  x * y \in Nat
OBVIOUS

\* Updating a balance or position to a natural number keeps the table one of
\* non-negative integers.
LEMMA UpdateNat ==
  ASSUME NEW D, NEW table \in [D -> Int], \A k \in D : table[k] >= 0,
         NEW key, NEW n \in Nat
  PROVE  /\ [table EXCEPT ![key] = n] \in [D -> Int]
         /\ \A k \in D : [table EXCEPT ![key] = n][k] >= 0
<1>1. n \in Int /\ n >= 0
  OBVIOUS
<1>2. [table EXCEPT ![key] = n] \in [D -> Int]
  BY <1>1
<1>3. ASSUME NEW k \in D
      PROVE  [table EXCEPT ![key] = n][k] >= 0
  <2>1. CASE k = key
    BY <1>1, <2>1
  <2>2. CASE k # key
    BY <2>2
  <2> QED
    BY <2>1, <2>2
<1> QED
  BY <1>2, <1>3

-----------------------------------------------------------------------------
(***************************************************************************)
(* Types and solvency, together: a balance stays an integer because the    *)
(* rounding of what a purchase leaves is taken of a value that is not      *)
(* negative, and a sale finds a row to decrement because it is covered.    *)
(***************************************************************************)
Inv == TypeOK /\ Solvent

LEMMA InvInit == Init => Inv
BY StoreAssumption DEF Init, Inv, TypeOK, Solvent, Owner

\* The value of a typed order is a natural number, its position a key.
LEMMA OrderFacts ==
  ASSUME Inv, NEW o \in DOMAIN orders
  PROVE  /\ o \in OrderIds
         /\ orders[o] \in OrderRow
         /\ orders[o].quantity \in Nat /\ orders[o].quantity > 0
         /\ Owner(o) \in DOMAIN cash
         /\ Owner(o) \in users
         /\ Asset(o) \in RawSymbols
         /\ Position(o) \in users \X RawSymbols
         /\ cash[Owner(o)] \in Nat
         /\ Scale * cash[Owner(o)] \in Nat
         /\ \A p \in Prices : Value(o, p) \in Nat
         /\ Held(Position(o)) \in Nat
<1>1. /\ o \in OrderIds
      /\ orders[o] \in OrderRow
      /\ Owner(o) \in DOMAIN cash
      /\ Owner(o) \in users
      /\ cash[Owner(o)] \in Nat
  BY DEF Inv, TypeOK, Solvent
<1>2. orders[o].quantity \in Nat /\ orders[o].quantity > 0
  BY <1>1 DEF OrderRow
<1>3. Asset(o) \in RawSymbols /\ Position(o) \in users \X RawSymbols
  BY <1>1, StoreAssumption DEF OrderRow, Asset, Position
<1>4. \A p \in Prices : Value(o, p) \in Nat
  BY <1>2, ProductNat, StoreAssumption DEF Value
<1>5. Scale * cash[Owner(o)] \in Nat
  BY <1>1, ProductNat, StoreAssumption
<1>6. Held(Position(o)) \in Nat
  BY DEF Inv, TypeOK, Solvent, Held
<1> QED
  BY <1>1, <1>2, <1>3, <1>4, <1>5, <1>6

\* Marking an order executed or rejected keeps the table's type and its owners.
LEMMA MarkFacts ==
  ASSUME Inv, NEW o \in DOMAIN orders,
         \/ \E p \in Prices : MarkExecuted(o, p)
         \/ \E r \in RejectionReason : MarkRejected(o, r)
  PROVE  /\ DOMAIN orders' = DOMAIN orders
         /\ orders' \in [DOMAIN orders -> OrderRow]
         /\ \A x \in DOMAIN orders : Owner(x)' = Owner(x)
<1>1. orders \in [DOMAIN orders -> OrderRow]
  BY DEF Inv, TypeOK
<1>2. orders[o] \in OrderRow
  BY <1>1
<1>3. ASSUME NEW p \in Prices, MarkExecuted(o, p)
      PROVE  \E row \in OrderRow :
               /\ orders' = [orders EXCEPT ![o] = row]
               /\ row.user = orders[o].user
  <2> DEFINE row == [orders[o] EXCEPT !.status = "EXECUTED", !.price = p]
  <2>1. row \in OrderRow /\ row.user = orders[o].user
    BY <1>2 DEF OrderRow, OrderStatus
  <2>2. orders' = [orders EXCEPT ![o] = row]
    BY <1>1, <1>3 DEF MarkExecuted
  <2> QED
    BY <2>1, <2>2
<1>4. ASSUME NEW r \in RejectionReason, MarkRejected(o, r)
      PROVE  \E row \in OrderRow :
               /\ orders' = [orders EXCEPT ![o] = row]
               /\ row.user = orders[o].user
  <2> DEFINE row == [orders[o] EXCEPT !.status = "REJECTED", !.reason = r]
  <2>1. row \in OrderRow /\ row.user = orders[o].user
    BY <1>2 DEF OrderRow, OrderStatus
  <2>2. orders' = [orders EXCEPT ![o] = row]
    BY <1>1, <1>4 DEF MarkRejected
  <2> QED
    BY <2>1, <2>2
<1>5. PICK row \in OrderRow : /\ orders' = [orders EXCEPT ![o] = row]
                             /\ row.user = orders[o].user
  BY <1>3, <1>4
<1> QED
  BY <1>1, <1>5 DEF Owner

LEMMA InvCreate ==
  ASSUME Inv, NEW o \in OrderIds, NEW req \in Requests, CreateOrder(o, req)
  PROVE  Inv'
<1> DEFINE q == ToColumn(req.quantity)
           row == [user |-> req.user, symbol |-> req.symbol, side |-> req.side,
                   quantity |-> q, status |-> "CREATED",
                   price |-> Null, reason |-> Null]
<1>1. req \in NewOrder
  BY StoreAssumption
<1>2. q \in Nat \ {0}
  BY <1>1, ToColumnNat DEF NewOrder, CreateOrder, Accepts
<1>3. row \in OrderRow
  BY <1>1, <1>2 DEF NewOrder, OrderRow, OrderStatus
<1>4. orders \in [DOMAIN orders -> OrderRow] /\ o \notin DOMAIN orders
  BY DEF Inv, TypeOK, CreateOrder
<1>5. orders' = Put(orders, o, row)
  BY DEF CreateOrder
<1> HIDE DEF q, row
<1>6. /\ DOMAIN orders' = DOMAIN orders \cup {o}
      /\ orders' \in [DOMAIN orders' -> OrderRow]
      /\ orders'[o] = row
      /\ \A x \in DOMAIN orders : orders'[x] = orders[x]
  <2>1. /\ DOMAIN Put(orders, o, row) = DOMAIN orders \cup {o}
        /\ Put(orders, o, row) \in [DOMAIN orders \cup {o} -> OrderRow]
        /\ Put(orders, o, row)[o] = row
        /\ \A x \in DOMAIN orders \ {o} : Put(orders, o, row)[x] = orders[x]
    BY <1>3, <1>4 DEF Put
  <2> QED
    BY <2>1, <1>4, <1>5
<1>7. row.user \in DOMAIN cash
  BY DEF CreateOrder, Accepts, row
<1>8. \A x \in DOMAIN orders' : Owner(x)' \in DOMAIN cash
  BY <1>6, <1>7 DEF Inv, TypeOK, Owner
<1> QED
  BY <1>6, <1>8 DEF CreateOrder, Inv, TypeOK, Solvent

\* A purchase: what is left is rounded to the column, and was not negative.
LEMMA InvExecuteBuy ==
  ASSUME Inv, NEW o \in OrderIds, NEW e \in EventIds, NEW p \in Prices,
         ExecuteBuy(o, e, p)
  PROVE  Inv'
<1> DEFINE left == ToColumn(Scale * cash[Owner(o)] - Value(o, p))
           key == Position(o)
           held == Held(key) + orders[o].quantity
<1>1. o \in DOMAIN orders
  BY DEF ExecuteBuy, Actionable, IsCreated
<1>2. left \in Nat
  <2>1. Scale * cash[Owner(o)] - Value(o, p) \in Nat
    BY <1>1, OrderFacts DEF ExecuteBuy, Affordable
  <2> QED
    BY <2>1, ToColumnNat
<1>3. held \in Nat /\ key \in users \X RawSymbols
  BY <1>1, OrderFacts
<1>4. /\ DOMAIN orders' = DOMAIN orders
      /\ orders' \in [DOMAIN orders -> OrderRow]
      /\ \A x \in DOMAIN orders : Owner(x)' = Owner(x)
  BY <1>1, MarkFacts DEF ExecuteBuy
<1>5. /\ cash \in [DOMAIN cash -> Int] /\ holdings \in [DOMAIN holdings -> Int]
      /\ cash' = [cash EXCEPT ![Owner(o)] = left]
      /\ holdings' = Put(holdings, key, held)
  BY DEF Inv, TypeOK, ExecuteBuy
<1> HIDE DEF left, key, held
<1>6. /\ DOMAIN cash' = DOMAIN cash
      /\ cash' \in [DOMAIN cash -> Int]
      /\ \A u \in DOMAIN cash : cash'[u] >= 0
  <2>1. \A u \in DOMAIN cash : cash[u] \in Int /\ cash[u] >= 0
    BY <1>5 DEF Inv, Solvent
  <2> QED
    BY <1>2, <1>5, <2>1, UpdateNat
<1>7. /\ DOMAIN holdings' = DOMAIN holdings \cup {key}
      /\ holdings' \in [DOMAIN holdings' -> Int]
      /\ \A k \in DOMAIN holdings' : holdings'[k] >= 0
  <2>1. held \in Int
    BY <1>3
  <2>2. /\ DOMAIN Put(holdings, key, held) = DOMAIN holdings \cup {key}
        /\ Put(holdings, key, held) \in [DOMAIN holdings \cup {key} -> Int]
        /\ Put(holdings, key, held)[key] = held
        /\ \A k \in DOMAIN holdings \ {key} :
             Put(holdings, key, held)[k] = holdings[k]
    BY <1>5, <2>1 DEF Put
  <2> QED
    BY <1>3, <1>5, <2>2 DEF Inv, Solvent
<1> QED
  BY <1>3, <1>4, <1>6, <1>7 DEF ExecuteBuy, MarkProcessed, Inv, TypeOK, Solvent

\* A sale: covered by a row that exists, and paid with a value not negative.
LEMMA InvExecuteSell ==
  ASSUME Inv, NEW o \in OrderIds, NEW e \in EventIds, NEW p \in Prices,
         ExecuteSell(o, e, p)
  PROVE  Inv'
<1> DEFINE paid == ToColumn(Scale * cash[Owner(o)] + Value(o, p))
           key == Position(o)
           rest == holdings[key] - orders[o].quantity
<1>1. o \in DOMAIN orders
  BY DEF ExecuteSell, Actionable, IsCreated
<1>2. paid \in Nat
  <2>1. Scale * cash[Owner(o)] + Value(o, p) \in Nat
    BY <1>1, OrderFacts
  <2> QED
    BY <2>1, ToColumnNat
<1>3. key \in DOMAIN holdings /\ rest \in Nat
  BY <1>1, OrderFacts DEF ExecuteSell, Covered, Held, Inv, TypeOK
<1>4. /\ DOMAIN orders' = DOMAIN orders
      /\ orders' \in [DOMAIN orders -> OrderRow]
      /\ \A x \in DOMAIN orders : Owner(x)' = Owner(x)
  BY <1>1, MarkFacts DEF ExecuteSell
<1>5. /\ cash \in [DOMAIN cash -> Int] /\ holdings \in [DOMAIN holdings -> Int]
      /\ cash' = [cash EXCEPT ![Owner(o)] = paid]
      /\ holdings' = [holdings EXCEPT ![key] = rest]
  BY DEF Inv, TypeOK, ExecuteSell
<1> HIDE DEF paid, key, rest
<1>6. /\ DOMAIN cash' = DOMAIN cash
      /\ cash' \in [DOMAIN cash -> Int]
      /\ \A u \in DOMAIN cash : cash'[u] >= 0
  <2>1. \A u \in DOMAIN cash : cash[u] \in Int /\ cash[u] >= 0
    BY <1>5 DEF Inv, Solvent
  <2> QED
    BY <1>2, <1>5, <2>1, UpdateNat
<1>7. /\ DOMAIN holdings' = DOMAIN holdings
      /\ holdings' \in [DOMAIN holdings -> Int]
      /\ \A k \in DOMAIN holdings' : holdings'[k] >= 0
  BY <1>3, <1>5 DEF Inv, Solvent
<1> QED
  BY <1>4, <1>6, <1>7 DEF ExecuteSell, MarkProcessed, Inv, TypeOK, Solvent

\* A step that closes an order without a trade, or leaves all orders alone.
LEMMA InvNoTrade ==
  ASSUME Inv, NEW o \in OrderIds, NEW e \in EventIds,
         MarkProcessed(e),
         UNCHANGED <<users, cash, holdings, startup>>,
         \/ UNCHANGED orders
         \/ o \in DOMAIN orders /\ \E r \in RejectionReason : MarkRejected(o, r)
  PROVE  Inv'
<1>1. /\ DOMAIN orders' = DOMAIN orders
      /\ orders' \in [DOMAIN orders -> OrderRow]
      /\ \A x \in DOMAIN orders : Owner(x)' = Owner(x)
  <2>1. CASE UNCHANGED orders
    BY <2>1 DEF Inv, TypeOK, Owner
  <2>2. CASE o \in DOMAIN orders /\ \E r \in RejectionReason : MarkRejected(o, r)
    BY <2>2, MarkFacts
  <2> QED
    BY <2>1, <2>2
<1> QED
  BY <1>1 DEF MarkProcessed, Inv, TypeOK, Solvent

LEMMA InvApplyPriceQuoted ==
  ASSUME Inv, NEW o \in OrderIds, NEW e \in EventIds, NEW p \in Prices,
         ApplyPriceQuoted(o, e, p)
  PROVE  Inv'
<1>1. CASE SkipQuote(o, e)
  BY <1>1, InvNoTrade DEF SkipQuote
<1>2. CASE ExecuteBuy(o, e, p)
  BY <1>2, InvExecuteBuy
<1>3. CASE RejectBuy(o, e, p)
  BY <1>3, InvNoTrade DEF RejectBuy, Actionable, IsCreated, RejectionReason
<1>4. CASE ExecuteSell(o, e, p)
  BY <1>4, InvExecuteSell
<1>5. CASE RejectSell(o, e)
  BY <1>5, InvNoTrade DEF RejectSell, Actionable, IsCreated, RejectionReason
<1> QED
  BY <1>1, <1>2, <1>3, <1>4, <1>5 DEF ApplyPriceQuoted

LEMMA InvApplyOrderRejected ==
  ASSUME Inv, NEW o \in OrderIds, NEW e \in EventIds, NEW r \in RejectionReason,
         ApplyOrderRejected(o, e, r)
  PROVE  Inv'
BY InvNoTrade DEF ApplyOrderRejected, Actionable, IsCreated

\* The seed statements and a restart.
LEMMA InvStartup ==
  ASSUME Inv, SeedUser \/ SeedPortfolio \/ SeedHolding \/ Restart
  PROVE  Inv'
<1> USE StoreAssumption DEF Inv, TypeOK, Solvent, Owner, PutIfAbsent
<1>1. CASE SeedUser
  BY <1>1 DEF SeedUser
<1>2. CASE SeedPortfolio
  BY <1>2 DEF SeedPortfolio, Put
<1>3. CASE SeedHolding
  BY <1>3 DEF SeedHolding, Put
<1>4. CASE Restart
  BY <1>4 DEF Restart
<1> QED
  BY <1>1, <1>2, <1>3, <1>4

LEMMA InvNext ==
  ASSUME Inv, [Next]_vars
  PROVE  Inv'
<1>1. CASE SeedUser \/ SeedPortfolio \/ SeedHolding \/ Restart
  BY <1>1, InvStartup
<1>2. CASE \E o \in OrderIds, req \in Requests : CreateOrder(o, req)
  BY <1>2, InvCreate
<1>3. CASE \E o \in OrderIds, e \in EventIds, p \in Prices :
             ApplyPriceQuoted(o, e, p)
  BY <1>3, InvApplyPriceQuoted
<1>4. CASE \E o \in OrderIds, e \in EventIds, r \in RejectionReason :
             ApplyOrderRejected(o, e, r)
  BY <1>4, InvApplyOrderRejected
<1>5. CASE UNCHANGED vars
  BY <1>5 DEF vars, Inv, TypeOK, Solvent, Owner
<1> QED
  BY <1>1, <1>2, <1>3, <1>4, <1>5 DEF Next

THEOREM Invariance == Spec => []Inv
BY InvInit, InvNext, PTL DEF Spec

\* Every reachable database is well typed and its references resolve.
THEOREM TypeCorrect == Spec => []TypeOK
BY Invariance, PTL DEF Inv

\* No balance and no position is ever negative, whatever the orders, quotes,
\* duplicates and restarts: the CHECK constraints never abort a settlement.
THEOREM NeverOverdrawn == Spec => []Solvent
BY Invariance, PTL DEF Inv

-----------------------------------------------------------------------------
(***************************************************************************)
(* Action properties.  Only CreateOrder, MarkExecuted and MarkRejected     *)
(* write orders: the first adds a row, the others need an open order.      *)
(***************************************************************************)

\* Every other row is left alone when one order is marked.
LEMMA OthersUntouched ==
  ASSUME NEW o, NEW p, NEW r, MarkExecuted(o, p) \/ MarkRejected(o, r)
  PROVE  /\ DOMAIN orders' = DOMAIN orders
         /\ \A x \in DOMAIN orders \ {o} : orders'[x] = orders[x]
BY DEF MarkExecuted, MarkRejected

\* Resolved orders survive every step unchanged.
LEMMA FinalStep ==
  ASSUME Inv, [Next]_vars, NEW x \in Resolved
  PROVE  x \in DOMAIN orders' /\ orders'[x] = orders[x]
<1>1. x \in DOMAIN orders /\ orders[x].status # "CREATED"
  BY DEF Resolved
<1>2. CASE UNCHANGED orders
  BY <1>1, <1>2
<1>3. ASSUME NEW o \in OrderIds, NEW req \in Requests, CreateOrder(o, req)
      PROVE  x \in DOMAIN orders' /\ orders'[x] = orders[x]
  BY <1>1, <1>3 DEF CreateOrder, Put
<1>4. ASSUME NEW o, NEW p, NEW r, IsCreated(o),
             MarkExecuted(o, p) \/ MarkRejected(o, r)
      PROVE  x \in DOMAIN orders' /\ orders'[x] = orders[x]
  <2>1. x # o
    BY <1>1, <1>4 DEF IsCreated
  <2>2. /\ DOMAIN orders' = DOMAIN orders
        /\ \A y \in DOMAIN orders \ {o} : orders'[y] = orders[y]
    BY <1>4, OthersUntouched
  <2> QED
    BY <1>1, <2>1, <2>2
<1>5. ASSUME NEW o \in OrderIds, NEW e \in EventIds, NEW p \in Prices,
             ApplyPriceQuoted(o, e, p)
      PROVE  x \in DOMAIN orders' /\ orders'[x] = orders[x]
  <2>1. CASE SkipQuote(o, e)
    BY <1>2, <2>1 DEF SkipQuote
  <2>2. CASE ExecuteBuy(o, e, p) \/ ExecuteSell(o, e, p)
    <3>1. IsCreated(o) /\ MarkExecuted(o, p)
      BY <2>2 DEF ExecuteBuy, ExecuteSell, Actionable
    <3> QED
      BY <1>4, <3>1
  <2>3. CASE RejectBuy(o, e, p) \/ RejectSell(o, e)
    <3>1. IsCreated(o) /\ \E r : MarkRejected(o, r)
      BY <2>3 DEF RejectBuy, RejectSell, Actionable
    <3> QED
      BY <1>4, <3>1
  <2> QED
    BY <1>5, <2>1, <2>2, <2>3 DEF ApplyPriceQuoted
<1>6. ASSUME NEW o \in OrderIds, NEW e \in EventIds, NEW r \in RejectionReason,
             ApplyOrderRejected(o, e, r)
      PROVE  x \in DOMAIN orders' /\ orders'[x] = orders[x]
  BY <1>2, <1>4, <1>6 DEF ApplyOrderRejected, Actionable
<1> QED
  BY <1>2, <1>3, <1>5, <1>6
     DEF Next, vars, SeedUser, SeedPortfolio, SeedHolding, Restart

\* An order that left CREATED never changes again.
THEOREM Finality == Spec => TerminalIsFinal
<1>1. ASSUME Inv, [Next]_vars
      PROVE  \A o \in Resolved : o \in DOMAIN orders' /\ orders'[o] = orders[o]
  BY <1>1, FinalStep
<1> QED
  BY <1>1, Invariance, PTL DEF Spec, TerminalIsFinal

\* What MoneyMovesOnlyBySettlement asks of a step.
MoneyRule ==
  startup = "serving" =>
    /\ cash' # cash \/ holdings' # holdings =>
         \E o \in DOMAIN orders : Settles(o)
    /\ \A o \in DOMAIN orders :
         IsCreated(o) /\ orders'[o].status = "EXECUTED" =>
           holdings' # holdings

\* Marking writes the status of the order it names.
LEMMA MarkStatus ==
  ASSUME Inv, NEW o \in DOMAIN orders, NEW p, NEW r
  PROVE  /\ MarkExecuted(o, p) => orders'[o].status = "EXECUTED"
         /\ MarkRejected(o, r) => orders'[o].status = "REJECTED"
<1>1. orders \in [DOMAIN orders -> OrderRow] /\ orders[o] \in OrderRow
  BY DEF Inv, TypeOK
<1> QED
  BY <1>1 DEF MarkExecuted, MarkRejected, OrderRow

\* A step that moves nothing and executes no open order.
LEMMA QuietStep ==
  ASSUME UNCHANGED <<cash, holdings>>,
         \A o \in DOMAIN orders : IsCreated(o) => orders'[o].status # "EXECUTED"
  PROVE  MoneyRule
BY DEF MoneyRule

\* A rejection leaves no open order executed.
LEMMA RejectionQuiet ==
  ASSUME Inv, UNCHANGED <<cash, holdings>>,
         NEW o \in DOMAIN orders, NEW r, MarkRejected(o, r)
  PROVE  MoneyRule
<1>1. \A x \in DOMAIN orders \ {o} : orders'[x] = orders[x]
  BY DEF MarkRejected
<1>2. orders'[o].status = "REJECTED"
  BY MarkStatus
<1>3. \A x \in DOMAIN orders : IsCreated(x) => orders'[x].status # "EXECUTED"
  BY <1>1, <1>2 DEF IsCreated
<1> QED
  BY <1>3, QuietStep

\* The owner's own row and position are the only ones a purchase writes, and
\* the position does change because no order is for a zero quantity.
LEMMA BuySettles ==
  ASSUME Inv, NEW o \in OrderIds, NEW e \in EventIds, NEW p \in Prices,
         ExecuteBuy(o, e, p)
  PROVE  MoneyRule
<1>1. o \in DOMAIN orders /\ IsCreated(o)
  BY DEF ExecuteBuy, Actionable, IsCreated
<1>2. orders[o].quantity > 0 /\ orders[o].quantity \in Nat
  BY <1>1, OrderFacts
<1>3. /\ \A x \in DOMAIN orders \ {o} : orders'[x] = orders[x]
      /\ orders'[o].status = "EXECUTED"
  <2>1. orders'[o].status = "EXECUTED"
    BY <1>1, MarkStatus DEF ExecuteBuy
  <2>2. \A x \in DOMAIN orders \ {o} : orders'[x] = orders[x]
    BY DEF ExecuteBuy, MarkExecuted
  <2> QED
    BY <2>1, <2>2
<1>4. \A u \in DOMAIN cash \ {Owner(o)} : cash'[u] = cash[u]
  BY DEF ExecuteBuy
<1>5. /\ DOMAIN holdings' = DOMAIN holdings \cup {Position(o)}
      /\ \A k \in DOMAIN holdings \ {Position(o)} : holdings'[k] = holdings[k]
      /\ holdings'[Position(o)] = Held(Position(o)) + orders[o].quantity
  BY DEF ExecuteBuy, Put
<1>6. holdings' # holdings
  <2>1. Held(Position(o)) + orders[o].quantity # Held(Position(o))
    BY <1>1, <1>2, OrderFacts
  <2> QED
    BY <1>5, <2>1 DEF Held
<1>7. Settles(o)
  BY <1>1, <1>3, <1>4, <1>5 DEF Settles
<1> QED
  BY <1>1, <1>6, <1>7 DEF MoneyRule

\* The same of a sale.
LEMMA SellSettles ==
  ASSUME Inv, NEW o \in OrderIds, NEW e \in EventIds, NEW p \in Prices,
         ExecuteSell(o, e, p)
  PROVE  MoneyRule
<1>1. o \in DOMAIN orders /\ IsCreated(o)
  BY DEF ExecuteSell, Actionable, IsCreated
<1>2. orders[o].quantity > 0 /\ orders[o].quantity \in Nat
  BY <1>1, OrderFacts
<1>3. /\ \A x \in DOMAIN orders \ {o} : orders'[x] = orders[x]
      /\ orders'[o].status = "EXECUTED"
  <2>1. orders'[o].status = "EXECUTED"
    BY <1>1, MarkStatus DEF ExecuteSell
  <2>2. \A x \in DOMAIN orders \ {o} : orders'[x] = orders[x]
    BY DEF ExecuteSell, MarkExecuted
  <2> QED
    BY <2>1, <2>2
<1>4. \A u \in DOMAIN cash \ {Owner(o)} : cash'[u] = cash[u]
  BY DEF ExecuteSell
<1>5. /\ DOMAIN holdings' = DOMAIN holdings
      /\ \A k \in DOMAIN holdings \ {Position(o)} : holdings'[k] = holdings[k]
  BY DEF ExecuteSell
<1>6. holdings' # holdings
  <2>1. Position(o) \in DOMAIN holdings /\ holdings[Position(o)] \in Int
    BY <1>1, <1>2, OrderFacts DEF ExecuteSell, Covered, Held, Inv, TypeOK
  <2>2. holdings'[Position(o)] = holdings[Position(o)] - orders[o].quantity
    BY <2>1 DEF ExecuteSell
  <2> QED
    BY <1>2, <2>1, <2>2
<1>7. Settles(o)
  BY <1>1, <1>3, <1>4, <1>5 DEF Settles
<1> QED
  BY <1>1, <1>6, <1>7 DEF MoneyRule

LEMMA MoneyStep ==
  ASSUME Inv, [Next]_vars
  PROVE  MoneyRule
<1>1. ASSUME UNCHANGED <<cash, holdings, orders>>
      PROVE  MoneyRule
  BY <1>1, QuietStep DEF IsCreated
<1>2. ASSUME NEW o \in OrderIds, NEW req \in Requests, CreateOrder(o, req)
      PROVE  MoneyRule
  <2>1. \A x \in DOMAIN orders : orders'[x] = orders[x]
    BY <1>2 DEF CreateOrder, Put
  <2>2. UNCHANGED <<cash, holdings>>
    BY <1>2 DEF CreateOrder
  <2> QED
    BY <2>1, <2>2, QuietStep DEF IsCreated
<1>3. ASSUME NEW o \in OrderIds, NEW e \in EventIds, NEW p \in Prices,
             ApplyPriceQuoted(o, e, p)
      PROVE  MoneyRule
  <2>1. CASE SkipQuote(o, e)
    BY <1>1, <2>1 DEF SkipQuote
  <2>2. CASE ExecuteBuy(o, e, p)
    BY <2>2, BuySettles
  <2>3. CASE ExecuteSell(o, e, p)
    BY <2>3, SellSettles
  <2>4. CASE RejectBuy(o, e, p)
    BY <2>4, RejectionQuiet DEF RejectBuy, Actionable, IsCreated
  <2>5. CASE RejectSell(o, e)
    BY <2>5, RejectionQuiet DEF RejectSell, Actionable, IsCreated
  <2> QED
    BY <1>3, <2>1, <2>2, <2>3, <2>4, <2>5 DEF ApplyPriceQuoted
<1>4. ASSUME NEW o \in OrderIds, NEW e \in EventIds, NEW r \in RejectionReason,
             ApplyOrderRejected(o, e, r)
      PROVE  MoneyRule
  <2>1. CASE Actionable(o, e)
    BY <1>4, <2>1, RejectionQuiet DEF ApplyOrderRejected, Actionable, IsCreated
  <2>2. CASE ~Actionable(o, e)
    BY <1>1, <1>4, <2>2 DEF ApplyOrderRejected
  <2> QED
    BY <2>1, <2>2
<1>5. CASE SeedUser \/ SeedPortfolio \/ SeedHolding
  BY <1>5 DEF SeedUser, SeedPortfolio, SeedHolding, MoneyRule
<1>6. CASE Restart
  BY <1>1, <1>6 DEF Restart
<1>7. CASE UNCHANGED vars
  BY <1>1, <1>7 DEF vars
<1> QED
  BY <1>2, <1>3, <1>4, <1>5, <1>6, <1>7 DEF Next

\* Cash and assets move only when one open order is executed, and only its
\* owner's balance and position.
THEOREM SettlementOnly == Spec => MoneyMovesOnlyBySettlement
<1>1. ASSUME Inv, [Next]_vars
      PROVE  MoneyRule
  BY <1>1, MoneyStep
<1> QED
  BY <1>1, Invariance, PTL DEF Spec, MoneyMovesOnlyBySettlement, MoneyRule


-----------------------------------------------------------------------------
(***************************************************************************)
(* What each operation does to the orders and the event ledger.            *)
(***************************************************************************)

\* A new order is open.
LEMMA CreateEffect ==
  ASSUME NEW o, NEW req, CreateOrder(o, req)
  PROVE  /\ o \notin DOMAIN orders
         /\ DOMAIN orders' = DOMAIN orders \cup {o}
         /\ orders'[o].status = "CREATED"
         /\ \A x \in DOMAIN orders : orders'[x] = orders[x]
         /\ UNCHANGED <<processed, startup>>
BY DEF CreateOrder, Put

\* An order that is marked has its outcome.
LEMMA MarkOutcome ==
  ASSUME Inv, NEW o \in DOMAIN orders, NEW p, NEW r
  PROVE  /\ MarkExecuted(o, p) => orders'[o].price = p
         /\ MarkRejected(o, r) => orders'[o].reason = r
<1>1. orders[o] \in OrderRow
  BY DEF Inv, TypeOK
<1> QED
  BY <1>1 DEF MarkExecuted, MarkRejected, OrderRow

\* A quote resolves an order that is open when its event is new, and is a no-op
\* otherwise; its event is in the ledger afterwards.
LEMMA QuoteEffect ==
  ASSUME Inv, NEW o, NEW e, NEW p, ApplyPriceQuoted(o, e, p)
  PROVE  /\ DOMAIN orders' = DOMAIN orders
         /\ \A x \in DOMAIN orders \ {o} : orders'[x] = orders[x]
         /\ ~Actionable(o, e) => UNCHANGED orders
         /\ Actionable(o, e) =>
              \/ orders'[o].status = "EXECUTED" /\ orders'[o].price = p
              \/ /\ orders'[o].status = "REJECTED"
                 /\ orders'[o].reason \in {"INSUFFICIENT_BALANCE",
                                           "INSUFFICIENT_ASSET"}
         /\ processed' = processed \cup {e}
         /\ UNCHANGED startup
<1>1. CASE SkipQuote(o, e)
  BY <1>1 DEF SkipQuote, MarkProcessed
<1>2. CASE ExecuteBuy(o, e, p) \/ ExecuteSell(o, e, p)
  <2>1. /\ Actionable(o, e) /\ o \in DOMAIN orders
        /\ MarkExecuted(o, p) /\ MarkProcessed(e) /\ UNCHANGED startup
    BY <1>2 DEF ExecuteBuy, ExecuteSell, Actionable, IsCreated
  <2>2. orders'[o].status = "EXECUTED" /\ orders'[o].price = p
    BY <2>1, MarkStatus, MarkOutcome
  <2>3. /\ DOMAIN orders' = DOMAIN orders
        /\ \A x \in DOMAIN orders \ {o} : orders'[x] = orders[x]
    BY <2>1, OthersUntouched
  <2> QED
    BY <2>1, <2>2, <2>3 DEF MarkProcessed
<1>3. CASE RejectBuy(o, e, p) \/ RejectSell(o, e)
  <2>1. /\ Actionable(o, e) /\ o \in DOMAIN orders
        /\ MarkProcessed(e) /\ UNCHANGED startup
    BY <1>3 DEF RejectBuy, RejectSell, Actionable, IsCreated
  <2>2. PICK r \in {"INSUFFICIENT_BALANCE", "INSUFFICIENT_ASSET"} :
          MarkRejected(o, r)
    BY <1>3 DEF RejectBuy, RejectSell
  <2>3. orders'[o].status = "REJECTED" /\ orders'[o].reason = r
    BY <2>1, <2>2, MarkStatus, MarkOutcome
  <2>4. /\ DOMAIN orders' = DOMAIN orders
        /\ \A x \in DOMAIN orders \ {o} : orders'[x] = orders[x]
    BY <2>2, OthersUntouched
  <2> QED
    BY <2>1, <2>3, <2>4 DEF MarkProcessed
<1> QED
  BY <1>1, <1>2, <1>3 DEF ApplyPriceQuoted

\* A rejection likewise.
LEMMA RejectionEffect ==
  ASSUME Inv, NEW o, NEW e, NEW r, ApplyOrderRejected(o, e, r)
  PROVE  /\ DOMAIN orders' = DOMAIN orders
         /\ \A x \in DOMAIN orders \ {o} : orders'[x] = orders[x]
         /\ ~Actionable(o, e) => UNCHANGED orders
         /\ Actionable(o, e) =>
              orders'[o].status = "REJECTED" /\ orders'[o].reason = r
         /\ processed' = processed \cup {e}
         /\ UNCHANGED startup
<1>1. CASE Actionable(o, e)
  <2>1. o \in DOMAIN orders /\ MarkRejected(o, r)
    BY <1>1 DEF ApplyOrderRejected, Actionable, IsCreated
  <2>2. orders'[o].status = "REJECTED" /\ orders'[o].reason = r
    BY <2>1, MarkStatus, MarkOutcome
  <2>3. /\ DOMAIN orders' = DOMAIN orders
        /\ \A x \in DOMAIN orders \ {o} : orders'[x] = orders[x]
    BY <2>1, OthersUntouched
  <2> QED
    BY <1>1, <2>2, <2>3 DEF ApplyOrderRejected, MarkProcessed
<1>2. CASE ~Actionable(o, e)
  BY <1>2 DEF ApplyOrderRejected, MarkProcessed
<1> QED
  BY <1>1, <1>2

\* The seed statements and a restart touch neither.
LEMMA StartEffect ==
  ASSUME SeedUser \/ SeedPortfolio \/ SeedHolding \/ Restart
  PROVE  UNCHANGED <<orders, processed>>
BY DEF SeedUser, SeedPortfolio, SeedHolding, Restart
===============================================================================
