------------------------ MODULE PortfolioLedger_proofs ------------------------
(***************************************************************************)
(* Proofs that the database of PortfolioStore keeps its books: positions   *)
(* and balances agree with the orders that were executed, and the event    *)
(* ledger has an entry for each order that was resolved.                   *)
(***************************************************************************)
EXTENDS PortfolioStore_proofs, SetSums

\* The executed orders behind Traded, Exchanged and the trades of a user.
TradedSet(side, key) ==
  {o \in Executed : orders[o].side = side /\ Position(o) = key}
ExchangedSet(side, u) ==
  {o \in Executed : orders[o].side = side /\ Owner(o) = u}
TradesOf(u) == {o \in Executed : Owner(o) = u}

\* What each order adds to those sums.
Quantities == [o \in DOMAIN orders |-> orders[o].quantity]
Amounts == [o \in DOMAIN orders |-> Value(o, orders[o].price)]

\* What orders S move in assets and in cash.
Moved(S) == MapThenSumSet(LAMBDA o : orders[o].quantity, S)
Paid(S) == MapThenSumSet(LAMBDA o : Value(o, orders[o].price), S)

\* They are the sums of the quantities and of the amounts.
LEMMA MovedSum ==
  ASSUME NEW S
  PROVE  IsFiniteSet(S) /\ S \subseteq DOMAIN orders =>
           HasSum(Quantities, S, Moved(S))
<1> SUFFICES ASSUME IsFiniteSet(S), S \subseteq DOMAIN orders
             PROVE  HasSum(Quantities, S, Moved(S))
  OBVIOUS
<1> DEFINE Fold(g) == g = [s \in SUBSET S |->
             IF s = {} THEN 0
             ELSE orders[CHOOSE x \in s : TRUE].quantity
                    + g[s \ {CHOOSE x \in s : TRUE}]]
<1>1. Moved(S) = (CHOOSE g : Fold(g))[S]
  BY DEF Moved, MapThenSumSet, MapThenFoldSet
<1>2. \A s \in SUBSET S : s # {} => Quantities[Pick(s)] = orders[Pick(s)].quantity
  BY PickIn DEF Quantities
<1>3. \A g : Fold(g) <=> IsFold(Quantities, S, g)
  BY <1>2 DEF IsFold, Pick
<1>4. \E g : IsFold(Quantities, S, g)
  BY FoldExists
<1> HIDE DEF Fold
<1>5. Fold(CHOOSE g : Fold(g))
  BY <1>3, <1>4
<1> QED
  BY <1>1, <1>3, <1>5 DEF HasSum

LEMMA PaidSum ==
  ASSUME NEW S
  PROVE  IsFiniteSet(S) /\ S \subseteq DOMAIN orders => HasSum(Amounts, S, Paid(S))
<1> SUFFICES ASSUME IsFiniteSet(S), S \subseteq DOMAIN orders
             PROVE  HasSum(Amounts, S, Paid(S))
  OBVIOUS
<1> DEFINE Fold(g) == g = [s \in SUBSET S |->
             IF s = {} THEN 0
             ELSE Value(CHOOSE x \in s : TRUE, orders[CHOOSE x \in s : TRUE].price)
                    + g[s \ {CHOOSE x \in s : TRUE}]]
<1>1. Paid(S) = (CHOOSE g : Fold(g))[S]
  BY DEF Paid, MapThenSumSet, MapThenFoldSet
<1>2. \A s \in SUBSET S :
        s # {} => Amounts[Pick(s)] = Value(Pick(s), orders[Pick(s)].price)
  BY PickIn DEF Amounts
<1>3. \A g : Fold(g) <=> IsFold(Amounts, S, g)
  BY <1>2 DEF IsFold, Pick
<1>4. \E g : IsFold(Amounts, S, g)
  BY FoldExists
<1> HIDE DEF Fold
<1>5. Fold(CHOOSE g : Fold(g))
  BY <1>3, <1>4
<1> QED
  BY <1>1, <1>3, <1>5 DEF HasSum

\* Traded is the sum of the quantities.
LEMMA TradedSum ==
  ASSUME NEW side, NEW key
  PROVE  IsFiniteSet(DOMAIN orders) =>
           HasSum(Quantities, TradedSet(side, key), Traded(side, key))
<1> SUFFICES ASSUME IsFiniteSet(DOMAIN orders)
             PROVE  HasSum(Quantities, TradedSet(side, key), Traded(side, key))
  OBVIOUS
<1>1. TradedSet(side, key) \subseteq DOMAIN orders
  BY DEF TradedSet, Executed
<1>2. IsFiniteSet(TradedSet(side, key))
  BY <1>1, FS_Subset
<1>3. HasSum(Quantities, TradedSet(side, key), Moved(TradedSet(side, key)))
  BY <1>1, <1>2, MovedSum
<1> QED
  BY <1>3 DEF Traded, TradedSet, Moved

\* Exchanged is the sum of the amounts.
LEMMA ExchangedSum ==
  ASSUME NEW side, NEW u
  PROVE  IsFiniteSet(DOMAIN orders) =>
           HasSum(Amounts, ExchangedSet(side, u), Exchanged(side, u))
<1> SUFFICES ASSUME IsFiniteSet(DOMAIN orders)
             PROVE  HasSum(Amounts, ExchangedSet(side, u), Exchanged(side, u))
  OBVIOUS
<1>1. ExchangedSet(side, u) \subseteq DOMAIN orders
  BY DEF ExchangedSet, Executed
<1>2. IsFiniteSet(ExchangedSet(side, u))
  BY <1>1, FS_Subset
<1>3. HasSum(Amounts, ExchangedSet(side, u), Paid(ExchangedSet(side, u)))
  BY <1>1, <1>2, PaidSum
<1> QED
  BY <1>3 DEF Exchanged, ExchangedSet, Paid

\* The same of the next state.
LEMMA TradedSumNext ==
  ASSUME NEW side, NEW key
  PROVE  IsFiniteSet(DOMAIN orders)' =>
           HasSum(Quantities, TradedSet(side, key), Traded(side, key))'
BY TradedSum, PTL

LEMMA ExchangedSumNext ==
  ASSUME NEW side, NEW u
  PROVE  IsFiniteSet(DOMAIN orders)' =>
           HasSum(Amounts, ExchangedSet(side, u), Exchanged(side, u))'
BY ExchangedSum, PTL

LEMMA MovedSumNext ==
  ASSUME NEW S
  PROVE  (IsFiniteSet(S) /\ S \subseteq DOMAIN orders =>
            HasSum(Quantities, S, Moved(S)))'
BY MovedSum, PTL

LEMMA PaidSumNext ==
  ASSUME NEW S
  PROVE  (IsFiniteSet(S) /\ S \subseteq DOMAIN orders => HasSum(Amounts, S, Paid(S)))'
BY PaidSum, PTL

\* Rows that stay as they are move what they did.
LEMMA SumsKept ==
  ASSUME NEW S, IsFiniteSet(S), S \subseteq DOMAIN orders,
         S \subseteq DOMAIN orders', \A o \in S : orders'[o] = orders[o]
  PROVE  Moved(S)' = Moved(S) /\ Paid(S)' = Paid(S)
<1>1. /\ \A o \in S : Quantities'[o] = Quantities[o]
      /\ \A o \in S : Amounts'[o] = Amounts[o]
  BY DEF Quantities, Amounts, Value
<1>2. HasSum(Quantities, S, Moved(S)) /\ HasSum(Quantities', S, Moved(S)')
  BY MovedSum, MovedSumNext
<1>3. HasSum(Amounts, S, Paid(S)) /\ HasSum(Amounts', S, Paid(S)')
  BY PaidSum, PaidSumNext
<1> QED
  BY <1>1, <1>2, <1>3, SumUnique

-----------------------------------------------------------------------------
(***************************************************************************)
(* How a step changes the executed orders.                                 *)
(***************************************************************************)

\* Not at all.
NoTrade ==
  /\ Executed' = Executed
  /\ \A x \in Executed : orders'[x] = orders[x]

\* By order o, at price p.
TradeOf(o, p) ==
  /\ IsCreated(o)
  /\ MarkExecuted(o, p)

\* The types and the sizes that the sums rest on.
SumsReady ==
  /\ Inv
  /\ IsFiniteSet(DOMAIN orders)
  /\ \A o \in Executed : orders[o].price \in Prices

\* An executed order's quantity and amount are natural numbers.
LEMMA ExecutedFacts ==
  ASSUME SumsReady, NEW o \in Executed
  PROVE  /\ o \in DOMAIN orders
         /\ orders[o].quantity \in Nat
         /\ Value(o, orders[o].price) \in Nat
         /\ Owner(o) \in DOMAIN cash
<1>1. o \in DOMAIN orders
  BY DEF Executed
<1> QED
  BY <1>1, OrderFacts DEF SumsReady

\* Without a trade every sum and every count is what it was.
LEMMA SameSums ==
  ASSUME SumsReady, SumsReady', NoTrade
  PROVE  /\ \A side, key : Traded(side, key)' = Traded(side, key)
         /\ \A side, u : Exchanged(side, u)' = Exchanged(side, u)
         /\ \A u : TradesOf(u)' = TradesOf(u)
<1>1. ASSUME NEW side, NEW key
      PROVE  Traded(side, key)' = Traded(side, key)
  <2>1. TradedSet(side, key)' = TradedSet(side, key)
    BY DEF TradedSet, NoTrade, Position, Owner, Asset
  <2>2. \A x \in TradedSet(side, key) : Quantities'[x] = Quantities[x]
    BY DEF TradedSet, NoTrade, Quantities, Executed
  <2>3. IsFiniteSet(TradedSet(side, key))
    BY FS_Subset DEF TradedSet, Executed, SumsReady
  <2>4. HasSum(Quantities, TradedSet(side, key), Traded(side, key))
    BY TradedSum DEF SumsReady
  <2>5. HasSum(Quantities', TradedSet(side, key), Traded(side, key)')
    BY <2>1, TradedSumNext DEF SumsReady
  <2> QED
    BY <2>2, <2>3, <2>4, <2>5, SumUnique
<1>2. ASSUME NEW side, NEW u
      PROVE  Exchanged(side, u)' = Exchanged(side, u)
  <2>1. ExchangedSet(side, u)' = ExchangedSet(side, u)
    BY DEF ExchangedSet, NoTrade, Owner
  <2>2. \A x \in ExchangedSet(side, u) : Amounts'[x] = Amounts[x]
    BY DEF ExchangedSet, NoTrade, Amounts, Executed, Value
  <2>3. IsFiniteSet(ExchangedSet(side, u))
    BY FS_Subset DEF ExchangedSet, Executed, SumsReady
  <2>4. HasSum(Amounts, ExchangedSet(side, u), Exchanged(side, u))
    BY ExchangedSum DEF SumsReady
  <2>5. HasSum(Amounts', ExchangedSet(side, u), Exchanged(side, u)')
    BY <2>1, ExchangedSumNext DEF SumsReady
  <2> QED
    BY <2>2, <2>3, <2>4, <2>5, SumUnique
<1>3. ASSUME NEW u
      PROVE  TradesOf(u)' = TradesOf(u)
  BY DEF TradesOf, NoTrade, Owner
<1> QED
  BY <1>1, <1>2, <1>3


\* What a trade does to the orders: o joins the executed ones with its price,
\* and every other row and field is left alone.
LEMMA TradeRows ==
  ASSUME SumsReady, NEW o, NEW p \in Prices, TradeOf(o, p)
  PROVE  /\ o \in DOMAIN orders /\ o \notin Executed
         /\ Executed' = Executed \cup {o}
         /\ DOMAIN orders' = DOMAIN orders
         /\ orders'[o].user = orders[o].user
         /\ orders'[o].symbol = orders[o].symbol
         /\ orders'[o].side = orders[o].side
         /\ orders'[o].quantity = orders[o].quantity
         /\ orders'[o].price = p
         /\ \A x \in Executed : orders'[x] = orders[x]
<1>1. /\ o \in DOMAIN orders
      /\ orders[o].status = "CREATED"
      /\ orders[o] \in OrderRow
  BY DEF TradeOf, IsCreated, SumsReady, Inv, TypeOK
<1>2. DOMAIN orders' = DOMAIN orders /\ orders'[o].status = "EXECUTED"
  BY <1>1, MarkStatus, OthersUntouched DEF TradeOf, SumsReady
<1>3. \A x \in DOMAIN orders \ {o} : orders'[x] = orders[x]
  BY OthersUntouched DEF TradeOf
<1>4. o \notin Executed
  BY <1>1 DEF Executed
<1>5. Executed' = Executed \cup {o}
  BY <1>1, <1>2, <1>3 DEF Executed
<1>6. /\ orders'[o].user = orders[o].user
      /\ orders'[o].symbol = orders[o].symbol
      /\ orders'[o].side = orders[o].side
      /\ orders'[o].quantity = orders[o].quantity
      /\ orders'[o].price = p
  BY <1>1 DEF TradeOf, MarkExecuted, OrderRow
<1>7. \A x \in Executed : orders'[x] = orders[x]
  BY <1>3, <1>4 DEF Executed
<1> QED
  BY <1>1, <1>2, <1>4, <1>5, <1>6, <1>7

\* A trade adds the quantity to the sum of its side and position, and nothing
\* to the others.
LEMMA MoreTraded ==
  ASSUME SumsReady, SumsReady', NEW o, NEW p \in Prices, TradeOf(o, p),
         NEW side, NEW key
  PROVE  Traded(side, key)' =
           Traded(side, key)
             + IF side = orders[o].side /\ key = Position(o)
                 THEN orders[o].quantity ELSE 0
<1> DEFINE S == TradedSet(side, key)
<1>1. /\ o \in DOMAIN orders /\ o \notin Executed
      /\ Executed' = Executed \cup {o}
      /\ orders'[o].user = orders[o].user
      /\ orders'[o].symbol = orders[o].symbol
      /\ orders'[o].side = orders[o].side
      /\ orders'[o].quantity = orders[o].quantity
      /\ \A x \in Executed : orders'[x] = orders[x]
  BY TradeRows
<1>2. IsFiniteSet(S) /\ o \notin S
  BY <1>1, FS_Subset DEF TradedSet, Executed, SumsReady
<1>3. S' = IF side = orders[o].side /\ key = Position(o) THEN S \cup {o} ELSE S
  BY <1>1 DEF TradedSet, Position, Owner, Asset
<1>4. /\ \A x \in S : Quantities[x] = Quantities'[x]
      /\ Quantities'[o] = orders[o].quantity
  BY <1>1 DEF TradedSet, Quantities, Executed
<1>5. HasSum(Quantities, S, Traded(side, key))
  BY TradedSum DEF SumsReady
<1>6. HasSum(Quantities', S', Traded(side, key)')
  BY TradedSumNext DEF SumsReady
<1>7. /\ \A x \in S : Quantities[x] \in Int
      /\ orders[o].quantity \in Int
  <2>1. \A x \in S : x \in Executed /\ x \in DOMAIN orders
    BY DEF TradedSet, Executed
  <2>2. \A x \in S : Quantities[x] \in Int
    BY <2>1, ExecutedFacts DEF Quantities
  <2> QED
    BY <1>1, <2>2, OrderFacts DEF SumsReady
<1> HIDE DEF S
<1>8. Traded(side, key) \in Int
  BY <1>2, <1>5, <1>7, SumInt
<1>9. CASE side = orders[o].side /\ key = Position(o)
  <2>1. HasSum(Quantities', S \cup {o}, Traded(side, key)')
    BY <1>3, <1>6, <1>9
  <2>2. \A x \in S \cup {o} : Quantities'[x] \in Int
    BY <1>4, <1>7
  <2>3. Traded(side, key)' = Traded(side, key) + Quantities'[o]
    BY <1>2, <1>4, <1>5, <2>1, <2>2, SumAdd
  <2> QED
    BY <1>4, <1>9, <2>3
<1>10. CASE ~(side = orders[o].side /\ key = Position(o))
  <2>1. HasSum(Quantities', S, Traded(side, key)')
    BY <1>3, <1>6, <1>10
  <2>2. Traded(side, key)' = Traded(side, key)
    BY <1>2, <1>4, <1>5, <2>1, SumUnique
  <2> QED
    BY <1>8, <1>10, <2>2
<1> QED
  BY <1>9, <1>10

\* The same of the amounts, by side and owner.
LEMMA MoreExchanged ==
  ASSUME SumsReady, SumsReady', NEW o, NEW p \in Prices, TradeOf(o, p),
         NEW side, NEW u
  PROVE  Exchanged(side, u)' =
           Exchanged(side, u)
             + IF side = orders[o].side /\ u = Owner(o) THEN Value(o, p) ELSE 0
<1> DEFINE S == ExchangedSet(side, u)
<1>1. /\ o \in DOMAIN orders /\ o \notin Executed
      /\ Executed' = Executed \cup {o}
      /\ DOMAIN orders' = DOMAIN orders
      /\ orders'[o].user = orders[o].user
      /\ orders'[o].side = orders[o].side
      /\ orders'[o].quantity = orders[o].quantity
      /\ orders'[o].price = p
      /\ \A x \in Executed : orders'[x] = orders[x]
  BY TradeRows
<1>2. IsFiniteSet(S) /\ o \notin S
  BY <1>1, FS_Subset DEF ExchangedSet, Executed, SumsReady
<1>3. S' = IF side = orders[o].side /\ u = Owner(o) THEN S \cup {o} ELSE S
  BY <1>1 DEF ExchangedSet, Owner
<1>4. /\ \A x \in S : Amounts[x] = Amounts'[x]
      /\ Amounts'[o] = Value(o, p)
  BY <1>1 DEF ExchangedSet, Amounts, Executed, Value
<1>5. HasSum(Amounts, S, Exchanged(side, u))
  BY ExchangedSum DEF SumsReady
<1>6. HasSum(Amounts', S', Exchanged(side, u)')
  BY ExchangedSumNext DEF SumsReady
<1>7. /\ \A x \in S : Amounts[x] \in Int
      /\ Value(o, p) \in Int
  <2>1. \A x \in S : x \in Executed /\ x \in DOMAIN orders
    BY DEF ExchangedSet, Executed
  <2>2. \A x \in S : Amounts[x] \in Int
    BY <2>1, ExecutedFacts DEF Amounts
  <2> QED
    BY <1>1, <2>2, OrderFacts DEF SumsReady
<1> HIDE DEF S
<1>8. Exchanged(side, u) \in Int
  BY <1>2, <1>5, <1>7, SumInt
<1>9. CASE side = orders[o].side /\ u = Owner(o)
  <2>1. HasSum(Amounts', S \cup {o}, Exchanged(side, u)')
    BY <1>3, <1>6, <1>9
  <2>2. \A x \in S \cup {o} : Amounts'[x] \in Int
    BY <1>4, <1>7
  <2>3. Exchanged(side, u)' = Exchanged(side, u) + Amounts'[o]
    BY <1>2, <1>4, <1>5, <2>1, <2>2, SumAdd
  <2> QED
    BY <1>4, <1>9, <2>3
<1>10. CASE ~(side = orders[o].side /\ u = Owner(o))
  <2>1. HasSum(Amounts', S, Exchanged(side, u)')
    BY <1>3, <1>6, <1>10
  <2>2. Exchanged(side, u)' = Exchanged(side, u)
    BY <1>2, <1>4, <1>5, <2>1, SumUnique
  <2> QED
    BY <1>8, <1>10, <2>2
<1> QED
  BY <1>9, <1>10

\* A trade is one more of its owner's.
LEMMA MoreTrades ==
  ASSUME SumsReady, NEW o, NEW p \in Prices, TradeOf(o, p), NEW u
  PROVE  /\ IsFiniteSet(TradesOf(u))
         /\ Cardinality(TradesOf(u)) \in Nat
         /\ Cardinality(TradesOf(u)') =
              Cardinality(TradesOf(u)) + IF u = Owner(o) THEN 1 ELSE 0
<1>1. /\ o \in DOMAIN orders /\ o \notin Executed
      /\ Executed' = Executed \cup {o}
      /\ orders'[o].user = orders[o].user
      /\ \A x \in Executed : orders'[x] = orders[x]
  BY TradeRows
<1>2. IsFiniteSet(TradesOf(u)) /\ o \notin TradesOf(u)
  BY <1>1, FS_Subset DEF TradesOf, Executed, SumsReady
<1>3. Cardinality(TradesOf(u)) \in Nat
  BY <1>2, FS_CardinalityType
<1>4. TradesOf(u)' = IF u = Owner(o) THEN TradesOf(u) \cup {o} ELSE TradesOf(u)
  BY <1>1 DEF TradesOf, Owner
<1>5. Cardinality(TradesOf(u) \cup {o}) = Cardinality(TradesOf(u)) + 1
  BY <1>2, FS_AddElement
<1> QED
  BY <1>2, <1>3, <1>4, <1>5

\* Sums are integers.
LEMMA SumsInt ==
  ASSUME SumsReady
  PROVE  /\ \A side, key : Traded(side, key) \in Int
         /\ \A side, u : Exchanged(side, u) \in Int
         /\ \A u : Cardinality(TradesOf(u)) \in Nat
<1>1. ASSUME NEW side, NEW key
      PROVE  Traded(side, key) \in Int
  <2>1. IsFiniteSet(TradedSet(side, key))
    BY FS_Subset DEF TradedSet, Executed, SumsReady
  <2>2. \A x \in TradedSet(side, key) : x \in Executed /\ x \in DOMAIN orders
    BY DEF TradedSet, Executed
  <2>3. \A x \in TradedSet(side, key) : Quantities[x] \in Int
    BY <2>2, ExecutedFacts DEF Quantities
  <2>4. HasSum(Quantities, TradedSet(side, key), Traded(side, key))
    BY TradedSum DEF SumsReady
  <2> QED
    BY <2>1, <2>3, <2>4, SumInt
<1>2. ASSUME NEW side, NEW u
      PROVE  Exchanged(side, u) \in Int
  <2>1. IsFiniteSet(ExchangedSet(side, u))
    BY FS_Subset DEF ExchangedSet, Executed, SumsReady
  <2>2. \A x \in ExchangedSet(side, u) : x \in Executed /\ x \in DOMAIN orders
    BY DEF ExchangedSet, Executed
  <2>3. \A x \in ExchangedSet(side, u) : Amounts[x] \in Int
    BY <2>2, ExecutedFacts DEF Amounts
  <2>4. HasSum(Amounts, ExchangedSet(side, u), Exchanged(side, u))
    BY ExchangedSum DEF SumsReady
  <2> QED
    BY <2>1, <2>3, <2>4, SumInt
<1>3. ASSUME NEW u
      PROVE  Cardinality(TradesOf(u)) \in Nat
  <2>1. IsFiniteSet(TradesOf(u))
    BY FS_Subset DEF TradesOf, Executed, SumsReady
  <2> QED
    BY <2>1, FS_CardinalityType
<1> QED
  BY <1>1, <1>2, <1>3

\* An order nobody executed for a key or a user leaves no sum behind.
LEMMA NoSums ==
  ASSUME SumsReady
  PROVE  /\ \A side, key : (\A x \in Executed : Position(x) # key) =>
              Traded(side, key) = 0
         /\ \A side, u : u \notin DOMAIN cash =>
              Exchanged(side, u) = 0 /\ Cardinality(TradesOf(u)) = 0
<1>1. ASSUME NEW side, NEW key, \A x \in Executed : Position(x) # key
      PROVE  Traded(side, key) = 0
  <2>1. TradedSet(side, key) = {}
    BY <1>1 DEF TradedSet
  <2>2. HasSum(Quantities, {}, Traded(side, key))
    BY <2>1, TradedSum DEF SumsReady
  <2> QED
    BY <2>2, SumEmpty
<1>2. ASSUME NEW side, NEW u, u \notin DOMAIN cash
      PROVE  Exchanged(side, u) = 0 /\ Cardinality(TradesOf(u)) = 0
  <2>1. \A x \in Executed : Owner(x) # u
    BY <1>2, ExecutedFacts
  <2>2. ExchangedSet(side, u) = {} /\ TradesOf(u) = {}
    BY <2>1 DEF ExchangedSet, TradesOf
  <2>3. HasSum(Amounts, {}, Exchanged(side, u))
    BY <2>2, ExchangedSum DEF SumsReady
  <2> QED
    BY <2>2, <2>3, SumEmpty, FS_EmptySet
<1> QED
  BY <1>1, <1>2


-----------------------------------------------------------------------------
(***************************************************************************)
(* The kinds of steps there are for the books.                             *)
(***************************************************************************)

\* Nothing but the event ledger, the user ids or the start-up moves.
NoEntry ==
  /\ UNCHANGED <<cash, holdings, orders>>
  /\ UNCHANGED processed \/ \E e : MarkProcessed(e)
  /\ startup' = "serving" => startup = "serving"

Entering == \E o \in OrderIds, req \in Requests : CreateOrder(o, req)

\* An open order is rejected.
Closing ==
  \E o, e, r :
    /\ Actionable(o, e)
    /\ MarkProcessed(e)
    /\ MarkRejected(o, r)
    /\ UNCHANGED <<cash, holdings, startup>>

Settling ==
  \E o \in OrderIds, e \in EventIds, p \in Prices :
    /\ startup = "serving"
    /\ ExecuteBuy(o, e, p) \/ ExecuteSell(o, e, p)

\* What any step is that keeps the books.
BookStep ==
  NoEntry \/ SeedPortfolio \/ SeedHolding \/ Entering \/ Closing \/ Settling

\* Every step of the database is one of these.
LEMMA StepKinds ==
  ASSUME [Next]_vars
  PROVE  BookStep
<1>1. CASE SeedUser \/ Restart \/ UNCHANGED vars
  BY <1>1 DEF SeedUser, Restart, vars, NoEntry, BookStep
<1>2. ASSUME NEW o \in OrderIds, NEW e \in EventIds, NEW p \in Prices,
             ApplyPriceQuoted(o, e, p)
      PROVE  NoEntry \/ Closing \/ Settling
  <2>1. CASE SkipQuote(o, e)
    BY <2>1 DEF SkipQuote, NoEntry
  <2>2. CASE RejectBuy(o, e, p) \/ RejectSell(o, e)
    BY <2>2 DEF RejectBuy, RejectSell, Closing
  <2>3. CASE ExecuteBuy(o, e, p) \/ ExecuteSell(o, e, p)
    BY <1>2, <2>3 DEF ApplyPriceQuoted, Settling
  <2> QED
    BY <1>2, <2>1, <2>2, <2>3 DEF ApplyPriceQuoted
<1>3. ASSUME NEW o \in OrderIds, NEW e \in EventIds, NEW r \in RejectionReason,
             ApplyOrderRejected(o, e, r)
      PROVE  NoEntry \/ Closing
  <2>1. CASE Actionable(o, e)
    BY <1>3, <2>1 DEF ApplyOrderRejected, Closing
  <2>2. CASE ~Actionable(o, e)
    BY <1>3, <2>2 DEF ApplyOrderRejected, NoEntry
  <2> QED
    BY <2>1, <2>2
<1> QED
  BY <1>1, <1>2, <1>3 DEF Next, Entering, BookStep

\* The orders executed so far stay as they are in every step, and only a
\* settlement adds one.
LEMMA QuietTrades ==
  ASSUME Inv, NoEntry \/ SeedPortfolio \/ SeedHolding \/ Entering \/ Closing
  PROVE  NoTrade
<1>1. CASE UNCHANGED orders
  BY <1>1 DEF NoTrade, Executed
<1>2. CASE Entering
  <2>1. PICK o \in OrderIds, req \in Requests : CreateOrder(o, req)
    BY <1>2 DEF Entering
  <2>2. /\ o \notin DOMAIN orders
        /\ DOMAIN orders' = DOMAIN orders \cup {o}
        /\ orders'[o].status = "CREATED"
        /\ \A x \in DOMAIN orders : orders'[x] = orders[x]
    BY <2>1 DEF CreateOrder, Put
  <2> QED
    BY <2>2 DEF NoTrade, Executed
<1>3. CASE Closing
  <2>1. PICK o, r : IsCreated(o) /\ MarkRejected(o, r)
    BY <1>3 DEF Closing, Actionable
  <2>2. o \in DOMAIN orders /\ orders[o].status = "CREATED"
    BY <2>1 DEF IsCreated
  <2>3. orders'[o].status = "REJECTED"
    BY <2>1, <2>2, MarkStatus
  <2>4. /\ DOMAIN orders' = DOMAIN orders
        /\ \A x \in DOMAIN orders \ {o} : orders'[x] = orders[x]
    BY <2>1, OthersUntouched
  <2> QED
    BY <2>2, <2>3, <2>4 DEF NoTrade, Executed
<1> QED
  BY <1>1, <1>2, <1>3 DEF NoEntry, SeedPortfolio, SeedHolding

LEMMA SettleTrades ==
  ASSUME NEW o, NEW e, NEW p, ExecuteBuy(o, e, p) \/ ExecuteSell(o, e, p)
  PROVE  TradeOf(o, p)
BY DEF ExecuteBuy, ExecuteSell, Actionable, TradeOf

\* The database stays finite, and an executed order has the price it was quoted.
LEMMA SumsReadyStep ==
  ASSUME SumsReady, Inv', BookStep
  PROVE  SumsReady'
<1>1. Inv'
  OBVIOUS
<1>2. IsFiniteSet(DOMAIN orders')
  <2>1. \E o : DOMAIN orders' \subseteq DOMAIN orders \cup {o}
    <3>1. CASE NoEntry \/ SeedPortfolio \/ SeedHolding
      BY <3>1 DEF NoEntry, SeedPortfolio, SeedHolding
    <3>2. CASE Entering
      BY <3>2 DEF Entering, CreateOrder, Put
    <3>3. CASE Closing
      BY <3>3, OthersUntouched DEF Closing
    <3>4. CASE Settling
      BY <3>4, OthersUntouched DEF Settling, ExecuteBuy, ExecuteSell
    <3> QED
      BY <3>1, <3>2, <3>3, <3>4 DEF BookStep
  <2>2. \A o : IsFiniteSet(DOMAIN orders \cup {o})
    BY FS_AddElement DEF SumsReady
  <2> QED
    BY <2>1, <2>2, FS_Subset
<1>3. \A x \in Executed' : orders'[x].price \in Prices
  <2>1. CASE NoEntry \/ SeedPortfolio \/ SeedHolding \/ Entering \/ Closing
    BY <2>1, QuietTrades DEF SumsReady, NoTrade
  <2>2. CASE Settling
    <3>1. PICK o \in OrderIds, p \in Prices : TradeOf(o, p)
      BY <2>2, SettleTrades DEF Settling
    <3> QED
      BY <3>1, TradeRows DEF SumsReady
  <2> QED
    BY <2>1, <2>2 DEF BookStep
<1> QED
  BY <1>1, <1>2, <1>3 DEF SumsReady

-----------------------------------------------------------------------------
(***************************************************************************)
(* The event ledger.  An order leaves CREATED only in the transaction of   *)
(* an event that was not in the ledger before and is afterwards.           *)
(***************************************************************************)
LogInv ==
  /\ IsFiniteSet(DOMAIN orders)
  /\ IsFiniteSet(processed)
  /\ EveryResolutionLogged

LEMMA LogStep ==
  ASSUME SumsReady, SumsReady', LogInv, BookStep
  PROVE  LogInv'
<1> DEFINE n == Cardinality(Resolved)
           m == Cardinality(processed)
<1>1. IsFiniteSet(Resolved) /\ n \in Nat /\ m \in Nat /\ n <= m
  BY FS_Subset, FS_CardinalityType DEF Resolved, LogInv, EveryResolutionLogged
<1>2. ASSUME Resolved' = Resolved,
             UNCHANGED processed \/ \E e : MarkProcessed(e)
      PROVE  LogInv'
  <2>1. IsFiniteSet(processed')
    BY <1>2, FS_AddElement DEF MarkProcessed, LogInv
  <2>2. processed \subseteq processed'
    BY <1>2 DEF MarkProcessed
  <2>3. m <= Cardinality(processed') /\ Cardinality(processed') \in Nat
    BY <2>1, <2>2, FS_Subset, FS_CardinalityType
  <2>4. Cardinality(Resolved') = n
    BY <1>2
  <2> HIDE DEF n, m
  <2> QED
    BY <1>1, <2>1, <2>3, <2>4 DEF LogInv, EveryResolutionLogged, SumsReady
<1>3. ASSUME NEW o, NEW e, Actionable(o, e), MarkProcessed(e),
             Resolved' = Resolved \cup {o}
      PROVE  LogInv'
  <2>1. o \notin Resolved /\ e \notin processed
    BY <1>3 DEF Actionable, IsCreated, Resolved
  <2>2. IsFiniteSet(processed') /\ Cardinality(processed') = m + 1
    BY <1>3, <2>1, FS_AddElement DEF MarkProcessed, LogInv
  <2>3. Cardinality(Resolved') = n + 1
    BY <1>1, <1>3, <2>1, FS_AddElement
  <2> HIDE DEF n, m
  <2> QED
    BY <1>1, <2>2, <2>3 DEF LogInv, EveryResolutionLogged, SumsReady
<1>4. CASE NoEntry \/ SeedPortfolio \/ SeedHolding
  BY <1>2, <1>4 DEF NoEntry, SeedPortfolio, SeedHolding, Resolved
<1>5. CASE Entering
  <2>1. PICK o \in OrderIds, req \in Requests : CreateOrder(o, req)
    BY <1>5 DEF Entering
  <2>2. /\ o \notin DOMAIN orders
        /\ DOMAIN orders' = DOMAIN orders \cup {o}
        /\ orders'[o].status = "CREATED"
        /\ \A x \in DOMAIN orders : orders'[x] = orders[x]
    BY <2>1 DEF CreateOrder, Put
  <2>3. Resolved' = Resolved
    BY <2>2 DEF Resolved
  <2> QED
    BY <1>2, <2>1, <2>3 DEF CreateOrder
<1>6. ASSUME NEW o, NEW e, Actionable(o, e), MarkProcessed(e),
             \E p, r : MarkExecuted(o, p) \/ MarkRejected(o, r)
      PROVE  LogInv'
  <2>1. o \in DOMAIN orders /\ orders[o].status = "CREATED"
    BY <1>6 DEF Actionable, IsCreated
  <2>2. orders'[o].status # "CREATED"
    BY <1>6, <2>1, MarkStatus DEF SumsReady
  <2>3. /\ DOMAIN orders' = DOMAIN orders
        /\ \A x \in DOMAIN orders \ {o} : orders'[x] = orders[x]
    BY <1>6, OthersUntouched
  <2>4. Resolved' = Resolved \cup {o}
    BY <2>1, <2>2, <2>3 DEF Resolved
  <2> QED
    BY <1>3, <1>6, <2>4
<1>7. CASE Closing
  BY <1>6, <1>7 DEF Closing
<1>8. CASE Settling
  BY <1>6, <1>8 DEF Settling, ExecuteBuy, ExecuteSell
<1> QED
  BY <1>4, <1>5, <1>7, <1>8 DEF BookStep


-----------------------------------------------------------------------------
(***************************************************************************)
(* Positions.                                                              *)
(***************************************************************************)
PositionInv ==
  /\ \A o \in Executed : Position(o) \in DOMAIN holdings
  /\ startup = "serving" => <<DemoUser, DemoSymbol>> \in DOMAIN holdings
  /\ HoldingsMatchTrades

\* The equation of HoldingsMatchTrades at one position.
Balanced(k) == holdings[k] = Seeded(k) + Traded("BUY", k) - Traded("SELL", k)

\* Executed orders keep their positions in a step without a trade.
LEMMA SamePositions ==
  ASSUME NoTrade
  PROVE  \A x \in Executed : Position(x)' = Position(x)
BY DEF NoTrade, Position, Owner, Asset

LEMMA PositionQuiet ==
  ASSUME SumsReady, SumsReady', PositionInv, NoEntry \/ SeedPortfolio \/ Entering \/ Closing
  PROVE  PositionInv'
<1>1. NoTrade
  BY QuietTrades DEF SumsReady
<1>2. UNCHANGED holdings /\ (startup' = "serving" => startup = "serving")
  BY DEF NoEntry, SeedPortfolio, Entering, CreateOrder, Closing
<1>3. \A side, k : Traded(side, k)' = Traded(side, k)
  BY <1>1, SameSums
<1>4. HoldingsMatchTrades'
  BY <1>2, <1>3 DEF PositionInv, HoldingsMatchTrades, Seeded
<1>5. \A x \in Executed' : Position(x)' \in DOMAIN holdings'
  BY <1>1, <1>2, SamePositions DEF PositionInv, NoTrade
<1> QED
  BY <1>2, <1>4, <1>5 DEF PositionInv

\* The seeded row is new only while nobody traded in it.
LEMMA PositionSeed ==
  ASSUME SumsReady, SumsReady', PositionInv, SeedHolding
  PROVE  PositionInv'
<1> DEFINE demo == <<DemoUser, DemoSymbol>>
<1>1. NoTrade
  BY QuietTrades DEF SumsReady
<1>2. \A side, k : Traded(side, k)' = Traded(side, k)
  BY <1>1, SameSums
<1>3. /\ DOMAIN holdings' = DOMAIN holdings \cup {demo}
      /\ \A k \in DOMAIN holdings : holdings'[k] = holdings[k]
      /\ demo \notin DOMAIN holdings => holdings'[demo] = StartingHolding
  BY DEF SeedHolding, PutIfAbsent, Put, SumsReady, Inv, TypeOK
<1>4. ASSUME demo \notin DOMAIN holdings
      PROVE  Balanced(demo)'
  <2>1. \A x \in Executed : Position(x) # demo
    BY <1>4 DEF PositionInv
  <2>2. Traded("BUY", demo) = 0 /\ Traded("SELL", demo) = 0
    BY <2>1, NoSums
  <2>3. Traded("BUY", demo)' = 0 /\ Traded("SELL", demo)' = 0
    BY <1>2, <2>2
  <2>4. Seeded(demo) = StartingHolding /\ StartingHolding \in Int
    BY StoreAssumption DEF Seeded
  <2>5. holdings'[demo] = StartingHolding
    BY <1>3, <1>4
  <2> QED
    BY <2>3, <2>4, <2>5 DEF Balanced, Seeded
<1>5. ASSUME NEW k \in DOMAIN holdings
      PROVE  Balanced(k)'
  BY <1>2, <1>3 DEF Balanced, PositionInv, HoldingsMatchTrades, Seeded
<1>6. \A k \in DOMAIN holdings' : Balanced(k)'
  BY <1>3, <1>4, <1>5
<1>7. HoldingsMatchTrades'
  BY <1>6 DEF HoldingsMatchTrades, Balanced
<1>8. \A x \in Executed' : Position(x)' \in DOMAIN holdings'
  BY <1>1, <1>3, SamePositions DEF PositionInv, NoTrade
<1> QED
  BY <1>3, <1>7, <1>8 DEF PositionInv

\* A settlement moves the position by the quantity that the sums move by.
LEMMA PositionSettle ==
  ASSUME SumsReady, SumsReady', PositionInv, Settling
  PROVE  PositionInv'
<1>1. PICK o \in OrderIds, e \in EventIds, p \in Prices :
        /\ startup = "serving"
        /\ ExecuteBuy(o, e, p) \/ ExecuteSell(o, e, p)
  BY DEF Settling
<1>2. TradeOf(o, p)
  BY <1>1, SettleTrades
<1>3. PICK key : key = Position(o)
  OBVIOUS
<1>4. /\ o \in DOMAIN orders
      /\ Executed' = Executed \cup {o}
      /\ orders'[o].user = orders[o].user
      /\ orders'[o].symbol = orders[o].symbol
      /\ \A x \in Executed : orders'[x] = orders[x]
  BY <1>2, TradeRows
<1>5. \A side, k : Traded(side, k)' =
        Traded(side, k)
          + IF side = orders[o].side /\ k = key THEN orders[o].quantity ELSE 0
  BY <1>2, <1>3, MoreTraded
<1>6. \A side, k : Traded(side, k) \in Int
  BY SumsInt
<1>7. orders[o].quantity \in Int
  BY <1>4, OrderFacts DEF SumsReady
<1>8. Held(key) = Seeded(key) + Traded("BUY", key) - Traded("SELL", key)
  <2>1. CASE key \in DOMAIN holdings
    BY <2>1 DEF Held, PositionInv, HoldingsMatchTrades
  <2>2. CASE key \notin DOMAIN holdings
    <3>1. \A x \in Executed : Position(x) # key
      BY <2>2 DEF PositionInv
    <3>2. Traded("BUY", key) = 0 /\ Traded("SELL", key) = 0
      BY <3>1, NoSums
    <3>3. Seeded(key) = 0
      BY <1>1, <2>2 DEF PositionInv, Seeded
    <3> QED
      BY <2>2, <3>2, <3>3 DEF Held
  <2> QED
    BY <2>1, <2>2
<1>9. Seeded(key) \in Int
  BY StoreAssumption DEF Seeded
<1>10. /\ DOMAIN holdings' = DOMAIN holdings \cup {key}
       /\ \A k \in DOMAIN holdings \ {key} : holdings'[k] = holdings[k]
       /\ holdings'[key] = IF orders[o].side = "BUY"
                             THEN Held(key) + orders[o].quantity
                             ELSE Held(key) - orders[o].quantity
  <2>1. CASE ExecuteBuy(o, e, p)
    BY <1>3, <2>1 DEF ExecuteBuy, Put
  <2>2. CASE ExecuteSell(o, e, p)
    <3>1. key \in DOMAIN holdings
      BY <1>3, <1>4, <2>2, OrderFacts DEF ExecuteSell, Covered, Held, SumsReady
    <3> QED
      BY <1>3, <2>2, <3>1 DEF ExecuteSell, Held, SumsReady, Inv, TypeOK
  <2> QED
    BY <1>1, <2>1, <2>2
<1>11. orders[o].side \in {"BUY", "SELL"}
  BY <1>4, OrderFacts DEF SumsReady, OrderRow, Side
<1>12. Balanced(key)'
  <2>1. CASE orders[o].side = "BUY"
    <3>1. /\ Traded("BUY", key)' = Traded("BUY", key) + orders[o].quantity
          /\ Traded("SELL", key)' = Traded("SELL", key)
      BY <1>5, <1>6, <2>1
    <3>2. holdings'[key] = Held(key) + orders[o].quantity
      BY <1>10, <2>1
    <3> QED
      BY <1>6, <1>7, <1>8, <1>9, <3>1, <3>2 DEF Balanced, Seeded
  <2>2. CASE orders[o].side = "SELL"
    <3>1. /\ Traded("SELL", key)' = Traded("SELL", key) + orders[o].quantity
          /\ Traded("BUY", key)' = Traded("BUY", key)
      BY <1>5, <1>6, <2>2
    <3>2. holdings'[key] = Held(key) - orders[o].quantity
      BY <1>10, <2>2
    <3> QED
      BY <1>6, <1>7, <1>8, <1>9, <3>1, <3>2 DEF Balanced, Seeded
  <2> QED
    BY <1>11, <2>1, <2>2
<1>13. ASSUME NEW k \in DOMAIN holdings \ {key}
       PROVE  Balanced(k)'
  <2>1. /\ Traded("BUY", k)' = Traded("BUY", k)
        /\ Traded("SELL", k)' = Traded("SELL", k)
    BY <1>5, <1>6, <1>13
  <2>2. Balanced(k)
    BY <1>13 DEF PositionInv, HoldingsMatchTrades, Balanced
  <2> QED
    BY <1>10, <1>13, <2>1, <2>2 DEF Balanced, Seeded
<1>14. HoldingsMatchTrades'
  BY <1>10, <1>12, <1>13 DEF HoldingsMatchTrades, Balanced
<1>15. \A x \in Executed' : Position(x)' \in DOMAIN holdings'
  BY <1>3, <1>4, <1>10 DEF PositionInv, Position, Owner, Asset
<1> QED
  BY <1>1, <1>10, <1>14, <1>15 DEF PositionInv

LEMMA PositionStep ==
  ASSUME SumsReady, SumsReady', PositionInv, BookStep
  PROVE  PositionInv'
BY PositionQuiet, PositionSeed, PositionSettle DEF BookStep


-----------------------------------------------------------------------------
(***************************************************************************)
(* Balances.                                                               *)
(***************************************************************************)

\* What a NUMERIC column stores is at most half a unit away.
LEMMA ToColumnNear ==
  ASSUME NEW x \in Nat
  PROVE  /\ ToColumn(x) \in Nat
         /\ Scale * ToColumn(x) \in Int
         /\ 2 * (Scale * ToColumn(x) - x) <= Scale
         /\ 2 * (x - Scale * ToColumn(x)) <= Scale
<1> DEFINE c == ToColumn(x)
           d == 2 * Scale
           y == 2 * x + Scale
           z == Scale * c
<1>1. Scale \in Nat /\ Scale > 0
  BY StoreAssumption
<1>2. c \in Nat
  BY ToColumnNat
<1>3. c = y \div d
  BY DEF ToColumn
<1>4. y \in Nat /\ d \in Nat \ {0}
  BY <1>1
<1>5. \A n \in Nat, m \in Nat \ {0} :
        m * (n \div m) <= n /\ n < m * (n \div m) + m
  OBVIOUS
<1>6. d * c <= y /\ y < d * c + d
  <2> HIDE DEF d, y, c
  <2> QED
    BY <1>3, <1>4, <1>5
<1>7. d * c = 2 * z
  BY <1>1, <1>2
<1>8. z \in Int
  BY <1>1, <1>2
<1>9. 2 * z <= 2 * x + Scale /\ 2 * x + Scale < 2 * z + 2 * Scale
  <2>1. d * c <= 2 * x + Scale /\ 2 * x + Scale < d * c + 2 * Scale
    BY <1>6
  <2> HIDE DEF c, d, z
  <2> QED
    BY <1>7, <2>1
<1> HIDE DEF c, z
<1>10. 2 * (z - x) <= Scale /\ 2 * (x - z) <= Scale
  BY <1>1, <1>8, <1>9
<1> QED
  BY <1>2, <1>8, <1>10 DEF c, z

\* The balance that the trades of u account for, in fine units, and how far
\* the stored balance is from it.
ExactCash(u) ==
  Scale * StartingCash + Exchanged("SELL", u) - Exchanged("BUY", u)
Drift(u) == Scale * cash[u] - ExactCash(u)

\* n trades explain a drift of e: half a unit of the column for each.
Explains(n, e) == 2 * e <= n * Scale /\ -(2 * e) <= n * Scale

LEMMA Tracked ==
  ASSUME SumsReady
  PROVE  /\ \A u \in DOMAIN cash : ExactCash(u) \in Int /\ Drift(u) \in Int
         /\ CashTracksTrades <=>
              \A u \in DOMAIN cash :
                Explains(Cardinality(TradesOf(u)), Drift(u))
<1>1. \A u : ExactCash(u) \in Int
  <2>1. Scale * StartingCash \in Int
    BY StoreAssumption
  <2> QED
    BY <2>1, SumsInt DEF ExactCash
<1>2. \A u \in DOMAIN cash : Scale * cash[u] \in Int
  BY StoreAssumption DEF SumsReady, Inv, TypeOK
<1>3. \A u \in DOMAIN cash : Drift(u) \in Int
  BY <1>1, <1>2 DEF Drift
<1>4. \A u : Cardinality(TradesOf(u)) * Scale \in Int
  BY SumsInt, StoreAssumption
<1>5. CashTracksTrades <=>
        \A u \in DOMAIN cash :
          2 * (IF Drift(u) < 0 THEN -Drift(u) ELSE Drift(u))
            <= Cardinality(TradesOf(u)) * Scale
  BY DEF CashTracksTrades, Drift, ExactCash, TradesOf
<1>6. ASSUME NEW u \in DOMAIN cash
      PROVE  2 * (IF Drift(u) < 0 THEN -Drift(u) ELSE Drift(u))
               <= Cardinality(TradesOf(u)) * Scale
             <=> Explains(Cardinality(TradesOf(u)), Drift(u))
  <2>1. PICK e \in Int : e = Drift(u)
    BY <1>3, <1>6
  <2>2. PICK n \in Nat : n = Cardinality(TradesOf(u))
    BY SumsInt
  <2>3. PICK b \in Int : b = n * Scale
    BY <1>4, <2>2
  <2>4. n * Scale >= 0
    BY <2>2, StoreAssumption
  <2>5. 2 * (IF e < 0 THEN -e ELSE e) <= b <=> 2 * e <= b /\ -(2 * e) <= b
    BY <2>3, <2>4
  <2> QED
    BY <2>1, <2>2, <2>3, <2>5 DEF Explains
<1> QED
  BY <1>1, <1>3, <1>5, <1>6

CashExplained ==
  \A u \in DOMAIN cash : Explains(Cardinality(TradesOf(u)), Drift(u))

LEMMA TrackedIff == SumsReady => (CashTracksTrades <=> CashExplained)
BY Tracked DEF CashExplained

\* The same of the next state.
LEMMA TrackedNext == SumsReady' => (CashTracksTrades' <=> CashExplained')
BY TrackedIff, PTL

LEMMA CashQuiet ==
  ASSUME SumsReady, SumsReady', CashTracksTrades,
         NoEntry \/ SeedHolding \/ Entering \/ Closing
  PROVE  CashTracksTrades'
<1>1. NoTrade
  BY QuietTrades DEF SumsReady
<1>2. UNCHANGED cash
  BY DEF NoEntry, SeedHolding, Entering, CreateOrder, Closing
<1>3. /\ \A side, u : Exchanged(side, u)' = Exchanged(side, u)
      /\ \A u : TradesOf(u)' = TradesOf(u)
  BY <1>1, SameSums
<1> QED
  BY <1>2, <1>3 DEF CashTracksTrades, TradesOf

\* Nobody trades for a user without a row.
LEMMA DriftSeed ==
  ASSUME SumsReady, SumsReady', SeedPortfolio
  PROVE  /\ DOMAIN cash' = DOMAIN cash \cup {DemoUser}
         /\ \A u \in DOMAIN cash : Drift(u)' = Drift(u)
         /\ DemoUser \notin DOMAIN cash => Drift(DemoUser)' = 0
<1>1. NoTrade
  BY QuietTrades DEF SumsReady
<1>2. \A side, u : Exchanged(side, u)' = Exchanged(side, u)
  BY <1>1, SameSums
<1>3. /\ DOMAIN cash' = DOMAIN cash \cup {DemoUser}
      /\ \A u \in DOMAIN cash : cash'[u] = cash[u]
      /\ DemoUser \notin DOMAIN cash => cash'[DemoUser] = StartingCash
  BY DEF SeedPortfolio, PutIfAbsent, Put
<1>4. \A u \in DOMAIN cash : Drift(u)' = Drift(u)
  BY <1>2, <1>3 DEF Drift, ExactCash
<1>5. ASSUME DemoUser \notin DOMAIN cash
      PROVE  Drift(DemoUser)' = 0
  <2>1. Exchanged("BUY", DemoUser)' = 0 /\ Exchanged("SELL", DemoUser)' = 0
    BY <1>2, <1>5, NoSums
  <2>2. PICK b \in Int : b = Scale * StartingCash
    BY StoreAssumption
  <2>3. Scale * cash'[DemoUser] = b
    BY <1>3, <1>5, <2>2
  <2>4. ExactCash(DemoUser)' = b
    BY <2>1, <2>2 DEF ExactCash
  <2> QED
    BY <2>3, <2>4 DEF Drift
<1> QED
  BY <1>3, <1>4, <1>5

LEMMA CashSeed ==
  ASSUME SumsReady, SumsReady', CashTracksTrades, SeedPortfolio
  PROVE  CashTracksTrades'
<1>1. NoTrade
  BY QuietTrades DEF SumsReady
<1>2. \A u : TradesOf(u)' = TradesOf(u)
  BY <1>1, SameSums
<1>3. ASSUME NEW u \in DOMAIN cash
      PROVE  Explains(Cardinality(TradesOf(u)), Drift(u))'
  <2>1. Explains(Cardinality(TradesOf(u)), Drift(u))
    BY <1>3, Tracked
  <2> QED
    BY <1>2, <1>3, <2>1, DriftSeed DEF Explains
<1>4. ASSUME DemoUser \notin DOMAIN cash
      PROVE  Explains(Cardinality(TradesOf(DemoUser)), Drift(DemoUser))'
  <2>1. Cardinality(TradesOf(DemoUser)') = 0 /\ Drift(DemoUser)' = 0
    BY <1>2, <1>4, NoSums, DriftSeed
  <2> QED
    BY <2>1, StoreAssumption DEF Explains
<1>5. \A u \in DOMAIN cash' : Explains(Cardinality(TradesOf(u)), Drift(u))'
  BY <1>3, <1>4, DriftSeed
<1> QED
  BY <1>5, TrackedNext DEF CashExplained

\* A trade more explains the rounding of that trade.
LEMMA OneMore ==
  ASSUME NEW n \in Nat, NEW e \in Int, NEW r \in Int, Explains(n, e),
         2 * r <= Scale, -(2 * r) <= Scale
  PROVE  Explains(n + 1, e + r)
<1>1. PICK b \in Int : b = n * Scale
  BY StoreAssumption
<1>2. (n + 1) * Scale = b + Scale
  BY <1>1, StoreAssumption
<1> QED
  BY <1>1, <1>2, StoreAssumption DEF Explains

\* A settlement moves the balance by the amount, and rounds once.
LEMMA DriftSettle ==
  ASSUME SumsReady, SumsReady', NEW o, NEW e, NEW p \in Prices,
         ExecuteBuy(o, e, p) \/ ExecuteSell(o, e, p), NEW w, w = Owner(o)
  PROVE  /\ w \in DOMAIN cash /\ DOMAIN cash' = DOMAIN cash
         /\ \E r \in Int : /\ Drift(w)' = Drift(w) + r
                         /\ 2 * r <= Scale /\ -(2 * r) <= Scale
         /\ \A u \in DOMAIN cash \ {w} : Drift(u)' = Drift(u)
<1>1. ExecuteBuy(o, e, p) \/ ExecuteSell(o, e, p)
  OBVIOUS
<1>2. TradeOf(o, p)
  BY <1>1, SettleTrades
<1>3. w = Owner(o)
  OBVIOUS
<1>4. o \in DOMAIN orders /\ w \in DOMAIN cash /\ w \in users
  BY <1>2, <1>3, TradeRows, OrderFacts DEF SumsReady
<1>5. PICK v \in Nat : v = Value(o, p)
  BY <1>4, OrderFacts DEF SumsReady
<1>6. \A side, u : Exchanged(side, u)' =
        Exchanged(side, u)
          + IF side = orders[o].side /\ u = w THEN v ELSE 0
  BY <1>2, <1>3, <1>5, MoreExchanged
<1>7. \A side, u : Exchanged(side, u) \in Int
  BY SumsInt
<1>10. PICK b \in Nat : b = Scale * cash[w]
  BY <1>3, <1>4, OrderFacts DEF SumsReady
<1>11. \/ orders[o].side = "BUY" /\ b - v \in Nat
          /\ cash' = [cash EXCEPT ![w] = ToColumn(b - v)]
       \/ orders[o].side = "SELL" /\ b + v \in Nat
          /\ cash' = [cash EXCEPT ![w] = ToColumn(b + v)]
  <2>1. CASE ExecuteBuy(o, e, p)
    BY <1>3, <1>4, <1>5, <1>10, <2>1 DEF ExecuteBuy, Affordable
  <2>2. CASE ExecuteSell(o, e, p)
    BY <1>3, <1>4, <1>5, <1>10, <2>2 DEF ExecuteSell
  <2> QED
    BY <1>1, <2>1, <2>2
<1>12. /\ DOMAIN cash' = DOMAIN cash
       /\ \A u \in DOMAIN cash \ {w} : cash'[u] = cash[u]
  BY <1>11
<1>13. PICK a \in Int : a = ExactCash(w)
  BY <1>4, Tracked
<1>14. \E r \in Int : /\ Drift(w)' = Drift(w) + r
                      /\ 2 * r <= Scale /\ -(2 * r) <= Scale
  <2>1. ASSUME NEW x \in Nat, cash' = [cash EXCEPT ![w] = ToColumn(x)],
               ExactCash(w)' = a + (x - b)
        PROVE  \E r \in Int : /\ Drift(w)' = Drift(w) + r
                              /\ 2 * r <= Scale /\ -(2 * r) <= Scale
    <3>1. PICK s \in Int : s = Scale * ToColumn(x)
      BY ToColumnNear
    <3>2. 2 * (s - x) <= Scale /\ 2 * (x - s) <= Scale
      BY <3>1, ToColumnNear
    <3>3. Scale * cash'[w] = s
      BY <1>4, <2>1, <3>1
    <3>4. Drift(w)' = s - (a + (x - b)) /\ Drift(w) = b - a
      BY <1>10, <1>13, <2>1, <3>3 DEF Drift
    <3>5. Drift(w)' = Drift(w) + (s - x)
      BY <3>4
    <3>6. s - x \in Int /\ -(2 * (s - x)) <= Scale
      BY <3>2, StoreAssumption
    <3> QED
      BY <3>2, <3>5, <3>6
  <2>2. PICK k \in Int : k = Scale * StartingCash
    BY StoreAssumption
  <2>3. CASE orders[o].side = "BUY"
    <3>1. /\ Exchanged("BUY", w)' = Exchanged("BUY", w) + v
          /\ Exchanged("SELL", w)' = Exchanged("SELL", w)
      BY <1>6, <1>7, <2>3
    <3>2. ExactCash(w)' = a + ((b - v) - b)
      BY <1>7, <1>13, <2>2, <3>1 DEF ExactCash
    <3> QED
      BY <1>11, <2>1, <2>3, <3>2
  <2>4. CASE orders[o].side = "SELL"
    <3>1. /\ Exchanged("SELL", w)' = Exchanged("SELL", w) + v
          /\ Exchanged("BUY", w)' = Exchanged("BUY", w)
      BY <1>6, <1>7, <2>4
    <3>2. ExactCash(w)' = a + ((b + v) - b)
      BY <1>7, <1>13, <2>2, <3>1 DEF ExactCash
    <3> QED
      BY <1>11, <2>1, <2>4, <3>2
  <2> QED
    BY <1>11, <2>3, <2>4
<1>15. ASSUME NEW u \in DOMAIN cash \ {w}
       PROVE  Drift(u)' = Drift(u)
  <2>1. /\ \A side : Exchanged(side, u)' = Exchanged(side, u)
        /\ cash'[u] = cash[u]
    BY <1>6, <1>7, <1>12, <1>15
  <2> QED
    BY <2>1 DEF Drift, ExactCash
<1> QED
  BY <1>4, <1>12, <1>14, <1>15

LEMMA CashSettle ==
  ASSUME SumsReady, SumsReady', CashTracksTrades, Settling
  PROVE  CashTracksTrades'
<1>1. PICK o \in OrderIds, e \in EventIds, p \in Prices :
        ExecuteBuy(o, e, p) \/ ExecuteSell(o, e, p)
  BY DEF Settling
<1>2. PICK w : w = Owner(o)
  OBVIOUS
<1>3. /\ w \in DOMAIN cash /\ DOMAIN cash' = DOMAIN cash
      /\ \E r \in Int : /\ Drift(w)' = Drift(w) + r
                      /\ 2 * r <= Scale /\ -(2 * r) <= Scale
      /\ \A u \in DOMAIN cash \ {w} : Drift(u)' = Drift(u)
  BY <1>1, <1>2, DriftSettle
<1>4. \A u : /\ Cardinality(TradesOf(u)) \in Nat
            /\ Cardinality(TradesOf(u)') =
                 Cardinality(TradesOf(u)) + IF u = w THEN 1 ELSE 0
  <2>1. TradeOf(o, p)
    BY <1>1, SettleTrades
  <2> QED
    BY <1>2, <2>1, MoreTrades
<1>5. Explains(Cardinality(TradesOf(w)), Drift(w))'
  <2>1. PICK r \in Int : /\ Drift(w)' = Drift(w) + r
                         /\ 2 * r <= Scale /\ -(2 * r) <= Scale
    BY <1>3
  <2>2. Explains(Cardinality(TradesOf(w)), Drift(w)) /\ Drift(w) \in Int
    BY <1>3, Tracked
  <2>3. Explains(Cardinality(TradesOf(w)) + 1, Drift(w) + r)
    BY <1>4, <2>1, <2>2, OneMore
  <2>4. Cardinality(TradesOf(w)') = Cardinality(TradesOf(w)) + 1
    BY <1>4
  <2> QED
    BY <2>1, <2>3, <2>4 DEF Explains
<1>6. ASSUME NEW u \in DOMAIN cash \ {w}
      PROVE  Explains(Cardinality(TradesOf(u)), Drift(u))'
  <2>1. Explains(Cardinality(TradesOf(u)), Drift(u))
    BY <1>6, Tracked
  <2>2. Cardinality(TradesOf(u)') = Cardinality(TradesOf(u))
    BY <1>4, <1>6
  <2> QED
    BY <1>3, <1>6, <2>1, <2>2 DEF Explains
<1>7. \A u \in DOMAIN cash' : Explains(Cardinality(TradesOf(u)), Drift(u))'
  BY <1>3, <1>5, <1>6
<1> QED
  BY <1>7, TrackedNext DEF CashExplained

LEMMA CashStep ==
  ASSUME SumsReady, SumsReady', CashTracksTrades, BookStep
  PROVE  CashTracksTrades'
BY CashQuiet, CashSeed, CashSettle DEF BookStep

\* Where amounts are whole units of the column nothing is rounded, and balances
\* are exact.
CashExact == \A u \in DOMAIN cash : Drift(u) = 0

LEMMA ExactStep ==
  ASSUME Scale = 1, SumsReady, SumsReady', CashExact, BookStep
  PROVE  CashExact'
<1>1. CASE NoEntry \/ SeedHolding \/ Entering \/ Closing
  <2>1. NoTrade /\ UNCHANGED cash
    BY <1>1, QuietTrades
       DEF SumsReady, NoEntry, SeedHolding, Entering, CreateOrder, Closing
  <2>2. \A side, u : Exchanged(side, u)' = Exchanged(side, u)
    BY <2>1, SameSums
  <2> QED
    BY <2>1, <2>2 DEF CashExact, Drift, ExactCash
<1>2. CASE SeedPortfolio
  BY <1>2, DriftSeed DEF CashExact
<1>3. CASE Settling
  <2>1. PICK o \in OrderIds, e \in EventIds, p \in Prices :
          ExecuteBuy(o, e, p) \/ ExecuteSell(o, e, p)
    BY <1>3 DEF Settling
  <2>2. PICK w : w = Owner(o)
    OBVIOUS
  <2>3. /\ w \in DOMAIN cash /\ DOMAIN cash' = DOMAIN cash
        /\ \E r \in Int : /\ Drift(w)' = Drift(w) + r
                        /\ 2 * r <= Scale /\ -(2 * r) <= Scale
        /\ \A u \in DOMAIN cash \ {w} : Drift(u)' = Drift(u)
    BY <2>1, <2>2, DriftSettle
  <2>4. PICK r \in Int : /\ Drift(w)' = Drift(w) + r
                         /\ 2 * r <= 1 /\ -(2 * r) <= 1
    BY <2>3
  <2>5. r = 0
    BY <2>4
  <2>6. Drift(w)' = 0
    BY <2>3, <2>4, <2>5 DEF CashExact
  <2> QED
    BY <2>3, <2>6 DEF CashExact
<1> QED
  BY <1>1, <1>2, <1>3 DEF BookStep

-----------------------------------------------------------------------------
(***************************************************************************)
(* The books, together.                                                    *)
(***************************************************************************)
BooksInv == SumsReady /\ LogInv /\ PositionInv /\ CashTracksTrades

\* A database without orders, holding what was seeded.
Opening ==
  /\ DOMAIN orders = {} /\ processed = {}
  /\ \A u \in DOMAIN cash : cash[u] = StartingCash
  /\ \A k \in DOMAIN holdings : holdings[k] = Seeded(k)
  /\ startup = "serving" => <<DemoUser, DemoSymbol>> \in DOMAIN holdings

LEMMA BooksOpen ==
  ASSUME Inv, Opening
  PROVE  BooksInv /\ CashExact
<1>1. Executed = {} /\ Resolved = {} /\ DOMAIN orders = {} /\ processed = {}
  BY DEF Opening, Executed, Resolved
<1>2. SumsReady
  BY <1>1, FS_EmptySet DEF SumsReady
<1>3. LogInv
  BY <1>1, FS_EmptySet DEF LogInv, EveryResolutionLogged
<1>4. PositionInv
  <2>1. \A k : Traded("BUY", k) = 0 /\ Traded("SELL", k) = 0
    BY <1>1, <1>2, NoSums
  <2>2. \A k : Seeded(k) \in Int
    BY StoreAssumption DEF Seeded
  <2> QED
    BY <1>1, <2>1, <2>2 DEF Opening, PositionInv, HoldingsMatchTrades
<1>5. ASSUME NEW u \in DOMAIN cash
      PROVE  Drift(u) = 0 /\ Cardinality(TradesOf(u)) = 0
  <2>1. TradesOf(u) = {} /\ ExchangedSet("BUY", u) = {} /\ ExchangedSet("SELL", u) = {}
    BY <1>1 DEF TradesOf, ExchangedSet
  <2>2. Exchanged("BUY", u) = 0 /\ Exchanged("SELL", u) = 0
    BY <1>2, <2>1, ExchangedSum, SumEmpty DEF SumsReady
  <2>3. Cardinality(TradesOf(u)) = 0
    BY <2>1, FS_EmptySet
  <2>4. PICK b \in Int : b = Scale * StartingCash
    BY StoreAssumption
  <2>5. Drift(u) = 0
    BY <1>5, <2>2, <2>4 DEF Drift, ExactCash, Opening
  <2> QED
    BY <2>3, <2>5
<1>6. CashTracksTrades
  <2>1. \A u \in DOMAIN cash : Explains(Cardinality(TradesOf(u)), Drift(u))
    BY <1>5, StoreAssumption DEF Explains
  <2> QED
    BY <1>2, <2>1, Tracked
<1> QED
  BY <1>2, <1>3, <1>4, <1>5, <1>6 DEF BooksInv, CashExact

LEMMA BooksInit == Init => BooksInv
BY InvInit, BooksOpen DEF Init, Opening

LEMMA BooksNext ==
  ASSUME BooksInv, Inv', BookStep
  PROVE  BooksInv'
<1>1. SumsReady'
  BY SumsReadyStep DEF BooksInv
<1> QED
  BY <1>1, LogStep, PositionStep, CashStep DEF BooksInv

THEOREM BooksInvariance == Spec => []BooksInv
<1>1. ASSUME BooksInv, [Next]_vars
      PROVE  BooksInv'
  BY <1>1, InvNext, StepKinds, BooksNext DEF BooksInv, SumsReady
<1> QED
  BY <1>1, BooksInit, PTL DEF Spec

\* Every resolved order used up an event of its own.
THEOREM ResolutionLogged == Spec => []EveryResolutionLogged
BY BooksInvariance, PTL DEF BooksInv, LogInv

\* Every position is what was seeded and traded, whatever the duplicates,
\* restarts and spellings of the symbol.
THEOREM PositionsMatch == Spec => []HoldingsMatchTrades
BY BooksInvariance, PTL DEF BooksInv, PositionInv

\* Every balance is what was traded, to half a unit of the column a trade.
THEOREM BalancesMatch == Spec => []CashTracksTrades
BY BooksInvariance, PTL DEF BooksInv

\* Where amounts are whole units of the column, money is exact: a balance is the
\* starting cash minus what was paid plus what was received.
THEOREM BalancesExact == Scale = 1 => (Spec => []CashExact)
<1> SUFFICES ASSUME Scale = 1
             PROVE  Spec => []CashExact
  OBVIOUS
<1>1. Init => CashExact
  BY InvInit, BooksOpen DEF Init, Opening
<1>2. ASSUME BooksInv, BooksInv', CashExact, [Next]_vars
      PROVE  CashExact'
  BY <1>2, StepKinds, ExactStep DEF BooksInv
<1> QED
  BY <1>1, <1>2, BooksInvariance, PTL DEF Spec
===============================================================================
