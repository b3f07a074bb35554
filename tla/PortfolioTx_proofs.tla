-------------------------- MODULE PortfolioTx_proofs --------------------------
(***************************************************************************)
(* Proofs about PortfolioTx, for any number of transactions, events and    *)
(* orders: the rows a transaction has locked keep what it found out true,  *)
(* and so the statements amount to the atomic steps of PortfolioStore.     *)
(***************************************************************************)
EXTENDS PortfolioTx, PortfolioLedger_proofs

\* No two transactions have the same row.
LocksExclusive ==
  \A v, w \in Workers : v # w => locks[v] \cap locks[w] = {}

\* What w will write at the end of a settlement comes from rows it has locked.
SettlementReady(w) ==
  /\ PortfolioEntry(Owner(Order(w))) \in locks[w]
  /\ HoldingEntry(Position(Order(w))) \in locks[w]
  /\ written[w] = Settlement(Order(w), PriceOf[event[w]])

\* What w knows of its event, its order and the rows it has locked, statement by
\* statement.  A rejection for lack of an asset may rest on a row that was not there.
Progress(w) ==
  /\ step[w] # "idle" => Order(w) \in DOMAIN orders
  /\ step[w] \in {"order", "check", "settle", "commit"} =>
       LedgerEntry(event[w]) \in locks[w]
  /\ step[w] = "check" \/ verdict[w] \notin {Null, "skip"} =>
       OrderEntry(Order(w)) \in locks[w]
  /\ step[w] = "check" \/ verdict[w] = "execute" =>
       IsQuote(event[w]) /\ Representable(Order(w), PriceOf[event[w]])
  /\ verdict[w] = "execute" => CheckedRow(w) \in locks[w]
  /\ step[w] = "commit" /\ verdict[w] = "execute" => SettlementReady(w)
  /\ verdict[w] \notin {Null, "skip", "execute"} =>
       IF IsQuote(event[w])
         THEN /\ Representable(Order(w), PriceOf[event[w]])
              /\ IF orders[Order(w)].side = "BUY"
                   THEN /\ verdict[w] = "INSUFFICIENT_BALANCE"
                        /\ CheckedRow(w) \in locks[w]
                   ELSE /\ verdict[w] = "INSUFFICIENT_ASSET"
                        /\ CheckedRow(w) \in locks[w] => ~Covered(Order(w))
         ELSE verdict[w] = ReasonOf[event[w]]

\* The domains of the functions of PortfolioTx and the fields of the client, which
\* TxTypeOK leaves out.
TxDomains ==
  /\ event \in [Workers -> EventIds \cup {Null}]
  /\ verdict \in [Workers -> RejectionReason \cup {"execute", "skip", Null}]
  /\ DOMAIN written = Workers
  /\ DOMAIN locks = Workers

ClientFields ==
  client = [asked |-> client.asked, told |-> client.told,
            cash |-> client.cash, answer |-> client.answer]

TxInv ==
  /\ TxTypeOK
  /\ Solvent
  /\ startup = "serving"
  /\ TxDomains
  /\ ClientFields
  /\ LocksExclusive
  /\ FindingsHold
  /\ \A w \in Workers : Progress(w)

-----------------------------------------------------------------------------
(***************************************************************************)
(* What a locked row is good for.                                          *)
(***************************************************************************)
OwnVars(w) == <<step[w], event[w], verdict[w], written[w], locks[w]>>

\* A step of somebody else, as w sees it: the columns of an order that say what was
\* ordered never change, a resolved order is not opened again, and what w has locked
\* is left alone.
RowsKept(w) ==
  /\ LedgerEntry(event[w]) \in locks[w] /\ event[w] \notin processed =>
       event[w] \notin processed'
  /\ \A o \in DOMAIN orders :
       /\ o \in DOMAIN orders'
       /\ orders'[o].user = orders[o].user
       /\ orders'[o].symbol = orders[o].symbol
       /\ orders'[o].side = orders[o].side
       /\ orders'[o].quantity = orders[o].quantity
       /\ OrderEntry(o) \in locks[w] => orders'[o].status = orders[o].status
       /\ orders[o].status # "CREATED" => orders'[o].status # "CREATED"
  /\ \A u \in DOMAIN cash : PortfolioEntry(u) \in locks[w] => cash'[u] = cash[u]
  /\ \A k \in Users \X RawSymbols :
       HoldingEntry(k) \in locks[w] => Held(k)' = Held(k)

LEMMA TxInvStore == TxInv => Inv
BY DEF TxInv, TxTypeOK, Inv

\* What the handler computes from rows that are kept, it would compute again.
LEMMA KeptOrder ==
  ASSUME TxInv, NEW w \in Workers, RowsKept(w), NEW o \in DOMAIN orders, NEW p
  PROVE  /\ o \in DOMAIN orders'
         /\ orders'[o].side = orders[o].side
         /\ Owner(o)' = Owner(o)
         /\ Position(o)' = Position(o)
         /\ Value(o, p)' = Value(o, p)
         /\ ~IsCreated(o) => ~IsCreated(o)'
         /\ OrderEntry(o) \in locks[w] /\ IsCreated(o) => IsCreated(o)'
         /\ PortfolioEntry(Owner(o)) \in locks[w] =>
              cash'[Owner(o)] = cash[Owner(o)]
         /\ HoldingEntry(Position(o)) \in locks[w] =>
              Held(Position(o))' = Held(Position(o))
<1>1. /\ o \in DOMAIN orders'
      /\ orders'[o].user = orders[o].user
      /\ orders'[o].symbol = orders[o].symbol
      /\ orders'[o].side = orders[o].side
      /\ orders'[o].quantity = orders[o].quantity
      /\ OrderEntry(o) \in locks[w] => orders'[o].status = orders[o].status
      /\ orders[o].status # "CREATED" => orders'[o].status # "CREATED"
  BY DEF RowsKept
<1>2. /\ Owner(o)' = Owner(o)
      /\ Position(o)' = Position(o)
      /\ Value(o, p)' = Value(o, p)
  BY <1>1 DEF Owner, Position, Asset, Value
<1>3. Owner(o) \in DOMAIN cash /\ Position(o) \in Users \X RawSymbols
  BY TxInvStore, OrderFacts DEF Inv, TypeOK
<1>4. PortfolioEntry(Owner(o)) \in locks[w] => cash'[Owner(o)] = cash[Owner(o)]
  BY <1>3 DEF RowsKept
<1>5. ASSUME HoldingEntry(Position(o)) \in locks[w]
      PROVE  Held(Position(o))' = Held(Position(o))
  <2>1. \A k \in Users \X RawSymbols :
          HoldingEntry(k) \in locks[w] => Held(k)' = Held(k)
    BY DEF RowsKept
  <2>2. PICK k \in Users \X RawSymbols : k = Position(o)
    BY <1>3
  <2>3. Held(k)' = Held(k)
    BY <1>5, <2>1, <2>2
  <2> QED
    BY <1>2, <2>2, <2>3 DEF Held
<1> QED
  BY <1>1, <1>2, <1>4, <1>5 DEF IsCreated

\* Null says that there is no verdict yet.
LEMMA NullIsNoVerdict ==
  /\ Null \notin {"execute", "skip", "INSUFFICIENT_BALANCE", "INSUFFICIENT_ASSET"}
  /\ Null \notin RejectionReason
BY StoreAssumption, TxAssumption DEF RejectionReason

\* So what w has found out and how far it has come survive a step of another.
LEMMA OtherStep ==
  ASSUME TxInv, NEW w \in Workers, UNCHANGED OwnVars(w), RowsKept(w)
  PROVE  Found(w)' /\ Progress(w)'
<1>1. /\ step'[w] = step[w] /\ event'[w] = event[w] /\ verdict'[w] = verdict[w]
      /\ written'[w] = written[w] /\ locks'[w] = locks[w]
  BY DEF OwnVars
<1>2. Found(w) /\ Progress(w)
  BY DEF TxInv, FindingsHold
<1>3. CASE step[w] = "idle"
  <2>1. verdict[w] = Null
    BY <1>3 DEF TxInv, TxTypeOK
  <2> QED
    BY <1>1, <1>3, <2>1, NullIsNoVerdict DEF Found, Progress
<1>4. CASE step[w] # "idle"
  <2>1. PICK o, p, e : o = Order(w) /\ p = PriceOf[event[w]] /\ e = event[w]
    OBVIOUS
  <2>2. /\ Order(w)' = o /\ PriceOf[event'[w]] = p /\ event'[w] = e
        /\ IsQuote(e)' <=> IsQuote(e)
    BY <1>1, <2>1 DEF Order, IsQuote
  <2>3. o \in DOMAIN orders
    BY <1>2, <1>4, <2>1 DEF Progress
  <2>4. /\ o \in DOMAIN orders'
        /\ orders'[o].side = orders[o].side
        /\ Owner(o)' = Owner(o)
        /\ Position(o)' = Position(o)
        /\ Value(o, p)' = Value(o, p)
        /\ ~IsCreated(o) => ~IsCreated(o)'
        /\ OrderEntry(o) \in locks[w] /\ IsCreated(o) => IsCreated(o)'
        /\ PortfolioEntry(Owner(o)) \in locks[w] =>
             cash'[Owner(o)] = cash[Owner(o)]
        /\ HoldingEntry(Position(o)) \in locks[w] =>
             Held(Position(o))' = Held(Position(o))
    BY <2>3, KeptOrder
  <2>5. orders'[o].quantity = orders[o].quantity
    BY <2>3 DEF RowsKept
  <2>6. Representable(o, p)' <=> Representable(o, p)
    BY <2>4 DEF Representable
  <2>7. PortfolioEntry(Owner(o)) \in locks[w] =>
          (Affordable(o, p)' <=> Affordable(o, p))
    BY <2>4 DEF Affordable
  <2>8. HoldingEntry(Position(o)) \in locks[w] => (Covered(o)' <=> Covered(o))
    BY <2>4, <2>5 DEF Covered
  <2>9. /\ PortfolioEntry(Owner(o)) \in locks[w]
        /\ HoldingEntry(Position(o)) \in locks[w]
        => Settlement(o, p)' = Settlement(o, p)
    BY <2>4, <2>5 DEF Settlement
  <2>10. PortfolioEntry(Owner(o))' = PortfolioEntry(Owner(o))
         /\ HoldingEntry(Position(o))' = HoldingEntry(Position(o))
         /\ CheckedRow(w)' = CheckedRow(w)
    BY <2>1, <2>2, <2>4 DEF PortfolioEntry, HoldingEntry, CheckedRow
  <2>11. Found(w)'
    <3>1. step[w] \in {"order", "check", "settle", "commit"} => e \notin processed'
      BY <1>1, <1>2, <2>1 DEF Found, Progress, RowsKept
    <3>2. verdict[w] = "skip" => ~IsCreated(o)'
      BY <1>2, <2>1, <2>4 DEF Found
    <3>3. step[w] = "check" \/ verdict[w] \notin {Null, "skip"} => IsCreated(o)'
      BY <1>2, <2>1, <2>4 DEF Found, Progress
    <3>4. verdict[w] = "execute" =>
            IF orders'[o].side = "BUY" THEN Affordable(o, p)' ELSE Covered(o)'
      BY <1>2, <2>1, <2>4, <2>7, <2>8 DEF Found, Progress, CheckedRow
    <3>5. verdict[w] = "INSUFFICIENT_BALANCE" /\ IsQuote(e) => ~Affordable(o, p)'
      BY <1>2, <2>1, <2>7, NullIsNoVerdict DEF Found, Progress, CheckedRow
    <3> QED
      BY <1>1, <2>1, <2>2, <3>1, <3>2, <3>3, <3>4, <3>5
         DEF Found, Order, Affordable, Covered, IsCreated, IsQuote
  <2>12. Progress(w)'
    BY <1>1, <1>2, <2>1, <2>2, <2>4, <2>6, <2>8, <2>9, <2>10
       DEF Progress, CheckedRow, SettlementReady, OrderEntry, LedgerEntry, Order,
           IsQuote, Representable, Covered
  <2> QED
    BY <2>11, <2>12
<1> QED
  BY <1>3, <1>4

-----------------------------------------------------------------------------
(***************************************************************************)
(* Which steps leave w and its rows alone: all those of others.            *)
(***************************************************************************)
LEMMA QuietKeepsRows ==
  ASSUME UNCHANGED vars, NEW w \in Workers
  PROVE  RowsKept(w)
BY DEF vars, RowsKept, Held

LEMMA PlaceKeepsRows ==
  ASSUME NEW w \in Workers, NEW o \in OrderIds, NEW req \in Requests, Place(o, req)
  PROVE  RowsKept(w)
BY DEF Place, CreateOrder, Put, RowsKept, Held

\* The end of a transaction touches the rows of others in no variable of PortfolioTx.
LEMMA EndLeavesOthers ==
  ASSUME TxInv, NEW v \in Workers, NEW w \in Workers, v # w, End(v)
  PROVE  UNCHANGED OwnVars(w)
BY DEF TxInv, TxTypeOK, TxDomains, End, OwnVars

\* A transaction that marks its order has it locked, and the order is open.
LEMMA CommitMarksOwn ==
  ASSUME TxInv, NEW v \in Workers, Commit(v), verdict[v] # "skip"
  PROVE  /\ Order(v) \in DOMAIN orders
         /\ OrderEntry(Order(v)) \in locks[v]
         /\ IsCreated(Order(v))
         /\ event[v] \in EventIds
         /\ event[v] \notin processed
         /\ LedgerEntry(event[v]) \in locks[v]
<1>1. step[v] = "commit" /\ verdict[v] # Null
  BY DEF Commit, TxInv, TxTypeOK
<1>2. Found(v) /\ Progress(v)
  BY DEF TxInv, FindingsHold
<1>3. event[v] \in EventIds
  BY <1>1 DEF TxInv, TxTypeOK
<1> QED
  BY <1>1, <1>2, <1>3 DEF Found, Progress

LEMMA CommitKeepsRows ==
  ASSUME TxInv, NEW v \in Workers, NEW w \in Workers, v # w, Commit(v)
  PROVE  RowsKept(w)
<1>1. locks[v] \cap locks[w] = {}
  BY DEF TxInv, LocksExclusive
<1>2. Found(v) /\ Progress(v) /\ step[v] = "commit"
  BY DEF TxInv, FindingsHold, Commit
<1>3. LedgerEntry(event[w]) \in locks[w] /\ event[w] \notin processed =>
        event[w] \notin processed'
  <2>1. LedgerEntry(event[v]) \in locks[v] /\ processed' = processed \cup {event[v]}
    BY <1>2 DEF Progress, Commit, MarkProcessed
  <2> QED
    BY <1>1, <2>1
<1>4. CASE verdict[v] = "skip"
  <2>1. UNCHANGED <<cash, holdings, orders>>
    BY <1>4 DEF Commit, RejectionReason
  <2> QED
    BY <1>3, <2>1 DEF RowsKept, Held
<1>5. CASE verdict[v] # "skip"
  <2>1. PICK o : o = Order(v)
    OBVIOUS
  <2>2. o \in DOMAIN orders /\ OrderEntry(o) \in locks[v] /\ IsCreated(o)
    BY <1>5, <2>1, CommitMarksOwn
  <2>3. PICK p, r : MarkExecuted(o, p) \/ MarkRejected(o, r)
    BY <1>5, <2>1 DEF Commit
  <2>4. /\ DOMAIN orders' = DOMAIN orders
        /\ \A x \in DOMAIN orders \ {o} : orders'[x] = orders[x]
    BY <2>3, OthersUntouched
  <2>5. /\ orders'[o].user = orders[o].user
        /\ orders'[o].symbol = orders[o].symbol
        /\ orders'[o].side = orders[o].side
        /\ orders'[o].quantity = orders[o].quantity
    BY <2>2, <2>3, TxInvStore DEF Inv, TypeOK, OrderRow, MarkExecuted, MarkRejected
  <2>6. OrderEntry(o) \notin locks[w]
    BY <1>1, <2>2
  <2>7. ASSUME NEW x \in DOMAIN orders
        PROVE  /\ x \in DOMAIN orders'
               /\ orders'[x].user = orders[x].user
               /\ orders'[x].symbol = orders[x].symbol
               /\ orders'[x].side = orders[x].side
               /\ orders'[x].quantity = orders[x].quantity
               /\ OrderEntry(x) \in locks[w] => orders'[x].status = orders[x].status
               /\ orders[x].status # "CREATED" => orders'[x].status # "CREATED"
    <3>1. CASE x = o
      BY <2>2, <2>4, <2>5, <2>6, <3>1 DEF IsCreated
    <3>2. CASE x # o
      BY <2>4, <3>2
    <3> QED
      BY <3>1, <3>2
  <2>8. CASE verdict[v] # "execute"
    <3>1. UNCHANGED <<cash, holdings>>
      BY <1>5, <2>8 DEF Commit
    <3> QED
      BY <1>3, <2>7, <3>1 DEF RowsKept, Held
  <2>9. CASE verdict[v] = "execute"
    <3>1. /\ PortfolioEntry(Owner(o)) \in locks[v]
          /\ HoldingEntry(Position(o)) \in locks[v]
      BY <1>2, <2>1, <2>9 DEF Progress, SettlementReady
    <3>2. /\ cash' = [cash EXCEPT ![Owner(o)] = written[v].cash]
          /\ holdings' = Put(holdings, Position(o), written[v].quantity)
      BY <2>1, <2>9 DEF Commit, RejectionReason
    <3>3. \A u \in DOMAIN cash : PortfolioEntry(u) \in locks[w] => cash'[u] = cash[u]
      BY <1>1, <3>1, <3>2
    <3>4. \A k \in Users \X RawSymbols :
            HoldingEntry(k) \in locks[w] => Held(k)' = Held(k)
      <4>1. \A k : k # Position(o) => Held(k)' = Held(k)
        BY <3>2 DEF Held, Put
      <4> QED
        BY <1>1, <3>1, <4>1
    <3> QED
      BY <1>3, <2>7, <3>3, <3>4 DEF RowsKept
  <2> QED
    BY <2>8, <2>9
<1> QED
  BY <1>4, <1>5

-----------------------------------------------------------------------------
(***************************************************************************)
(* The steps of w itself.                                                  *)
(***************************************************************************)

\* A transaction takes only rows that no other has.
LEMMA AcquireExclusive ==
  ASSUME TxInv, NEW w \in Workers, Acquire(w)
  PROVE  /\ LocksExclusive'
         /\ DOMAIN locks' = Workers
         /\ locks'[w] = locks[w] \cup Wanted(w)
         /\ \A x \in Workers \ {w} : locks'[x] = locks[x]
<1>1. /\ DOMAIN locks' = Workers
      /\ locks'[w] = locks[w] \cup Wanted(w)
      /\ \A x \in Workers \ {w} : locks'[x] = locks[x]
  BY DEF Acquire, TxInv, TxDomains
<1>2. \A v \in Workers \ {w} : locks[v] \cap Wanted(w) = {}
  BY DEF Acquire, Granted, Blocks
<1>3. \A u, v \in Workers : u # v => locks[u] \cap locks[v] = {}
  BY DEF TxInv, LocksExclusive
<1>4. ASSUME NEW u \in Workers, NEW v \in Workers, u # v
      PROVE  locks'[u] \cap locks'[v] = {}
  <2>1. locks[u] \cap locks[v] = {}
    BY <1>3, <1>4
  <2>2. CASE u = w
    BY <1>1, <1>2, <1>4, <2>1, <2>2
  <2>3. CASE v = w
    BY <1>1, <1>2, <1>4, <2>1, <2>3
  <2>4. CASE u # w /\ v # w
    BY <1>1, <2>1, <2>4
  <2> QED
    BY <2>2, <2>3, <2>4
<1> QED
  BY <1>1, <1>4 DEF LocksExclusive

\* A transaction that has ended holds nothing and knows nothing.
LEMMA EndFacts ==
  ASSUME TxInv, NEW w \in Workers, End(w)
  PROVE  /\ LocksExclusive'
         /\ TxDomains'
         /\ Found(w)' /\ Progress(w)'
<1>1. /\ DOMAIN step = Workers /\ DOMAIN event = Workers /\ DOMAIN verdict = Workers
      /\ DOMAIN written = Workers /\ DOMAIN locks = Workers
  BY DEF TxInv, TxTypeOK, TxDomains
<1>2. /\ step'[w] = "idle" /\ event'[w] = Null /\ verdict'[w] = Null
      /\ locks' = [locks EXCEPT ![w] = {}]
  BY <1>1 DEF End
<1>3. LocksExclusive'
  BY <1>1, <1>2 DEF TxInv, LocksExclusive
<1>4. TxDomains'
  BY <1>1 DEF TxInv, TxDomains, End
<1>5. Found(w)' /\ Progress(w)'
  BY <1>2, NullIsNoVerdict DEF Found, Progress
<1> QED
  BY <1>3, <1>4, <1>5

LEMMA BeginFacts ==
  ASSUME TxInv, NEW w \in Workers, NEW e \in EventIds, Begin(w, e)
  PROVE  Found(w)' /\ Progress(w)'
<1>1. /\ step'[w] = "ledger" /\ event'[w] = e /\ verdict'[w] = Null
      /\ OrderOf[e] \in DOMAIN orders /\ UNCHANGED orders
  BY DEF Begin, TxInv, TxTypeOK, TxDomains, vars
<1> QED
  BY <1>1, NullIsNoVerdict DEF Found, Progress, Order

LEMMA MarkEventFacts ==
  ASSUME TxInv, NEW w \in Workers, MarkEvent(w)
  PROVE  Found(w)' /\ Progress(w)'
<1>1. /\ step[w] = "ledger" /\ step'[w] = "order" /\ event'[w] = event[w]
      /\ verdict'[w] = Null /\ verdict[w] = Null
      /\ UNCHANGED <<orders, processed>> /\ event[w] \notin processed
  BY DEF MarkEvent, TxInv, TxTypeOK, TxDomains, vars
<1>2. LedgerEntry(event[w]) \in locks'[w]
  <2>1. locks'[w] = locks[w] \cup Wanted(w)
    BY AcquireExclusive DEF MarkEvent
  <2> QED
    BY <1>1, <2>1 DEF Wanted
<1>3. Order(w) \in DOMAIN orders
  BY <1>1 DEF TxInv, Progress
<1> QED
  BY <1>1, <1>2, <1>3, NullIsNoVerdict DEF Found, Progress, Order, LedgerEntry

\* The order was found and locked, or needs no lock because it is resolved for good.
LEMMA OrderStatementFacts ==
  ASSUME TxInv, NEW w \in Workers, LockOrder(w) \/ SkipOrder(w)
  PROVE  Found(w)' /\ Progress(w)'
<1>1. /\ step[w] = "order" /\ event'[w] = event[w] /\ verdict[w] = Null
      /\ UNCHANGED <<orders, processed, cash>>
      /\ event[w] \in EventIds
  BY DEF LockOrder, SkipOrder, TxInv, TxTypeOK, vars
<1>2. locks'[w] = locks[w] \cup Wanted(w)
  BY AcquireExclusive DEF LockOrder, SkipOrder
<1>3. PICK o, e : o = Order(w) /\ e = event[w]
  OBVIOUS
<1>4. o \in DOMAIN orders /\ Order(w)' = o /\ o = OrderOf[e]
      /\ e \notin processed /\ LedgerEntry(e) \in locks[w]
  BY <1>1, <1>3 DEF TxInv, Progress, FindingsHold, Found, Order
<1>5. OrderEntry(o) \in locks'[w] /\ LedgerEntry(e) \in locks'[w]
  BY <1>1, <1>2, <1>3, <1>4 DEF Wanted
<1>6. DOMAIN step = Workers /\ DOMAIN verdict = Workers
  BY DEF TxInv, TxTypeOK, TxDomains
<1>7. CASE SkipOrder(w)
  <2>1. step'[w] = "commit" /\ verdict'[w] = "skip" /\ ~IsCreated(o)
    BY <1>3, <1>6, <1>7 DEF SkipOrder, Decide
  <2> QED
    BY <1>1, <1>3, <1>4, <1>5, <2>1, NullIsNoVerdict
       DEF Found, Progress, Order, IsCreated, LedgerEntry, OrderEntry
<1>8. CASE LockOrder(w) /\ IsQuote(e)
  <2>1. /\ step'[w] = "check" /\ verdict'[w] = Null /\ IsCreated(o)
        /\ Representable(o, PriceOf[e])
    BY <1>1, <1>3, <1>6, <1>8 DEF LockOrder
  <2> QED
    BY <1>1, <1>3, <1>4, <1>5, <1>8, <2>1, NullIsNoVerdict
       DEF Found, Progress, Order, IsCreated, LedgerEntry, OrderEntry, IsQuote,
           Representable, Value
<1>9. CASE LockOrder(w) /\ ~IsQuote(e)
  <2>1. ReasonOf[e] \in RejectionReason
    BY <1>1, <1>3, <1>9, TxAssumption DEF IsQuote
  <2>2. ReasonOf[e] \notin {Null, "skip", "execute"}
    BY <2>1, NullIsNoVerdict DEF RejectionReason
  <2>3. step'[w] = "commit" /\ verdict'[w] = ReasonOf[e] /\ IsCreated(o)
    BY <1>3, <1>6, <1>9, <2>2 DEF LockOrder, Decide
  <2> QED
    BY <1>1, <1>3, <1>4, <1>5, <1>9, <2>2, <2>3
       DEF Found, Progress, Order, IsCreated, LedgerEntry, OrderEntry, IsQuote
<1> QED
  BY <1>7, <1>8, <1>9

\* The row was read and locked, and the comparison made; a position that covers
\* an order has a row.
LEMMA CheckFacts ==
  ASSUME TxInv, NEW w \in Workers, Check(w)
  PROVE  Found(w)' /\ Progress(w)'
<1>1. /\ step[w] = "check" /\ event'[w] = event[w] /\ verdict[w] = Null
      /\ UNCHANGED <<cash, holdings, orders, processed>>
      /\ event[w] \in EventIds
  BY DEF Check, TxInv, TxTypeOK, vars
<1>2. locks'[w] = locks[w] \cup Wanted(w)
  BY AcquireExclusive DEF Check
<1>3. PICK o, e, p : o = Order(w) /\ e = event[w] /\ p = PriceOf[e]
  OBVIOUS
<1>4. /\ o \in DOMAIN orders /\ Order(w)' = o
      /\ e \notin processed /\ LedgerEntry(e) \in locks'[w]
      /\ OrderEntry(o) \in locks'[w] /\ IsCreated(o)
      /\ IsQuote(e) /\ Representable(o, p)
  BY <1>1, <1>2, <1>3 DEF TxInv, Progress, FindingsHold, Found, Order
<1>5. \A v : Decide(w, v) =>
        verdict'[w] = v /\ step'[w] = (IF v = "execute" THEN "settle" ELSE "commit")
  BY DEF Decide, TxInv, TxTypeOK, TxDomains
<1>6. CASE orders[o].side = "BUY"
  <2>1. PortfolioEntry(Owner(o)) \in locks'[w]
    BY <1>1, <1>2, <1>3, <1>6 DEF Wanted
  <2>2. Decide(w, IF Affordable(o, p) THEN "execute" ELSE "INSUFFICIENT_BALANCE")
    BY <1>3, <1>6 DEF Check
  <2>3. \/ /\ step'[w] = "settle" /\ verdict'[w] = "execute" /\ Affordable(o, p)
        \/ /\ step'[w] = "commit" /\ verdict'[w] = "INSUFFICIENT_BALANCE"
           /\ ~Affordable(o, p)
    BY <1>5, <2>2
  <2> QED
    BY <1>1, <1>3, <1>4, <1>6, <2>1, <2>3, NullIsNoVerdict
       DEF Found, Progress, Order, IsCreated, LedgerEntry, OrderEntry, IsQuote,
           Representable, Value, Affordable, CheckedRow, PortfolioEntry, Owner
<1>7. CASE orders[o].side # "BUY"
  <2>1. Position(o) \in DOMAIN holdings => HoldingEntry(Position(o)) \in locks'[w]
    BY <1>1, <1>2, <1>3, <1>7 DEF Wanted
  <2>2. Covered(o) => Position(o) \in DOMAIN holdings
    BY <1>4, TxInvStore, OrderFacts DEF Covered, Held
  <2>3. Decide(w, IF Covered(o) THEN "execute" ELSE "INSUFFICIENT_ASSET")
    BY <1>3, <1>7 DEF Check
  <2>4. \/ /\ step'[w] = "settle" /\ verdict'[w] = "execute" /\ Covered(o)
        \/ /\ step'[w] = "commit" /\ verdict'[w] = "INSUFFICIENT_ASSET"
           /\ ~Covered(o)
    BY <1>5, <2>3
  <2> QED
    BY <1>1, <1>3, <1>4, <1>7, <2>1, <2>2, <2>4, NullIsNoVerdict
       DEF Found, Progress, Order, IsCreated, LedgerEntry, OrderEntry, IsQuote,
           Representable, Value, Covered, Held, CheckedRow, HoldingEntry, Position,
           Owner, Asset
<1> QED
  BY <1>6, <1>7

\* Both rows are locked, and what is written comes from them.
LEMMA SettleFacts ==
  ASSUME TxInv, NEW w \in Workers, Settle(w)
  PROVE  Found(w)' /\ Progress(w)'
<1>1. /\ step[w] = "settle" /\ step'[w] = "commit" /\ event'[w] = event[w]
      /\ verdict[w] = "execute" /\ verdict'[w] = "execute"
      /\ UNCHANGED <<cash, holdings, orders, processed>>
      /\ event[w] \in EventIds
  BY DEF Settle, TxInv, TxTypeOK, vars
<1>2. locks'[w] = locks[w] \cup Wanted(w)
  BY AcquireExclusive DEF Settle
<1>3. PICK o, e, p : o = Order(w) /\ e = event[w] /\ p = PriceOf[e]
  OBVIOUS
<1>4. /\ o \in DOMAIN orders /\ Order(w)' = o
      /\ e \notin processed /\ LedgerEntry(e) \in locks'[w]
      /\ OrderEntry(o) \in locks'[w] /\ IsCreated(o)
      /\ IsQuote(e) /\ Representable(o, p)
      /\ IF orders[o].side = "BUY" THEN Affordable(o, p) ELSE Covered(o)
  BY <1>1, <1>2, <1>3, NullIsNoVerdict
     DEF TxInv, Progress, FindingsHold, Found, Order
<1>5. PortfolioEntry(Owner(o)) \in locks'[w] /\ HoldingEntry(Position(o)) \in locks'[w]
  BY <1>1, <1>2, <1>3 DEF Wanted
<1>6. written'[w] = Settlement(o, p)
  BY <1>3 DEF Settle, TxInv, TxDomains
<1>7. Settlement(o, p)' = Settlement(o, p)
  BY <1>1 DEF Settlement, Owner, Position, Asset, Value, Held
<1>8. Found(w)'
  BY <1>1, <1>3, <1>4, NullIsNoVerdict
     DEF Found, Order, IsCreated, Affordable, Covered, Owner, Value, Held, Position, Asset
<1>9. SettlementReady(w)' /\ CheckedRow(w)' \in locks'[w]
  BY <1>1, <1>3, <1>4, <1>5, <1>6, <1>7
     DEF SettlementReady, CheckedRow, PortfolioEntry, HoldingEntry, Owner, Position, Asset, Order
<1> QED
  BY <1>1, <1>3, <1>4, <1>8, <1>9, NullIsNoVerdict
     DEF Progress, Order, LedgerEntry, OrderEntry, IsQuote, Representable, Value

-----------------------------------------------------------------------------
(***************************************************************************)
(* The refinement: a commit is a step of PortfolioStore, every other       *)
(* statement leaves the database alone.                                    *)
(***************************************************************************)
\* The atomic step of PortfolioStore that applies the event of w.
AppliesEvent(w) ==
  IF IsQuote(event[w])
    THEN ApplyPriceQuoted(Order(w), event[w], PriceOf[event[w]])
    ELSE ApplyOrderRejected(Order(w), event[w], ReasonOf[event[w]])

LEMMA PutPresent ==
  ASSUME NEW D, NEW table \in [D -> Int], NEW key \in D, NEW row
  PROVE  Put(table, key, row) = [table EXCEPT ![key] = row]
BY DEF Put

\* The settlement that was written is what the atomic step would write.
LEMMA CommitExecutes ==
  ASSUME TxInv, NEW w \in Workers, Commit(w), verdict[w] = "execute"
  PROVE  AppliesEvent(w)
<1>1. PICK o, e, p : o = Order(w) /\ e = event[w] /\ p = PriceOf[e]
  OBVIOUS
<1>2. step[w] = "commit" /\ Found(w) /\ Progress(w)
  BY DEF Commit, TxInv, FindingsHold
<1>3. /\ o \in DOMAIN orders /\ Actionable(o, e) /\ Representable(o, p)
      /\ written[w] = Settlement(o, p) /\ IsQuote(e)
      /\ IF orders[o].side = "BUY" THEN Affordable(o, p) ELSE Covered(o)
  BY <1>1, <1>2, NullIsNoVerdict DEF Found, Progress, SettlementReady, Actionable
<1>4. /\ cash' = [cash EXCEPT ![Owner(o)] = written[w].cash]
      /\ holdings' = Put(holdings, Position(o), written[w].quantity)
      /\ MarkExecuted(o, p) /\ MarkProcessed(e)
      /\ UNCHANGED <<users, startup>> /\ startup = "serving"
  BY <1>1 DEF Commit, RejectionReason, TxInv
<1>5. CASE orders[o].side = "BUY"
  <2>1. ExecuteBuy(o, e, p)
    BY <1>3, <1>4, <1>5 DEF ExecuteBuy, Settlement
  <2> QED
    BY <1>1, <1>3, <1>4, <2>1 DEF ApplyPriceQuoted, AppliesEvent
<1>6. CASE orders[o].side # "BUY"
  <2>1. orders[o].side = "SELL"
    BY <1>3, <1>6, TxInvStore, OrderFacts DEF OrderRow, Side
  <2>2. Position(o) \in DOMAIN holdings
    BY <1>3, <1>6, TxInvStore, OrderFacts DEF Covered, Held
  <2>3. /\ holdings \in [DOMAIN holdings -> Int]
        /\ written[w].quantity = holdings[Position(o)] - orders[o].quantity
        /\ written[w].cash = ToColumn(Scale * cash[Owner(o)] + Value(o, p))
    BY <1>3, <1>6, <2>2, TxInvStore DEF Settlement, Held, Inv, TypeOK
  <2>4. holdings' = [holdings EXCEPT ![Position(o)] = written[w].quantity]
    BY <1>4, <2>2, <2>3, PutPresent
  <2>5. ExecuteSell(o, e, p)
    BY <1>3, <1>4, <1>6, <2>1, <2>3, <2>4 DEF ExecuteSell
  <2> QED
    BY <1>1, <1>3, <1>4, <2>5 DEF ApplyPriceQuoted, AppliesEvent
<1> QED
  BY <1>5, <1>6

\* A rejection is that of the comparison, that of the Market Service, or the one
\* of a sale that found no row.
LEMMA CommitRejects ==
  ASSUME TxInv, NEW w \in Workers, Commit(w), verdict[w] \in RejectionReason
  PROVE  AppliesEvent(w) \/ RejectPhantomSell(w)
<1>1. PICK o, e, p : o = Order(w) /\ e = event[w] /\ p = PriceOf[e]
  OBVIOUS
<1>2. step[w] = "commit" /\ Found(w) /\ Progress(w)
  BY DEF Commit, TxInv, FindingsHold
<1>3. verdict[w] \notin {Null, "skip", "execute"}
  BY NullIsNoVerdict DEF RejectionReason
<1>4. o \in DOMAIN orders /\ Actionable(o, e)
  BY <1>1, <1>2, <1>3 DEF Found, Progress, Actionable
<1>5. /\ MarkRejected(o, verdict[w]) /\ MarkProcessed(e)
      /\ UNCHANGED <<users, cash, holdings, startup>> /\ startup = "serving"
  BY <1>1, <1>3 DEF Commit, TxInv
<1>6. CASE ~IsQuote(e)
  <2>1. verdict[w] = ReasonOf[e]
    BY <1>1, <1>2, <1>3, <1>6 DEF Progress
  <2> QED
    BY <1>1, <1>4, <1>5, <1>6, <2>1 DEF ApplyOrderRejected, AppliesEvent
<1>7. CASE IsQuote(e) /\ orders[o].side = "BUY"
  <2>1. verdict[w] = "INSUFFICIENT_BALANCE" /\ ~Affordable(o, p) /\ Representable(o, p)
    BY <1>1, <1>2, <1>3, <1>7 DEF Found, Progress
  <2>2. RejectBuy(o, e, p)
    BY <1>4, <1>5, <1>7, <2>1 DEF RejectBuy
  <2> QED
    BY <1>1, <1>5, <1>7, <2>1, <2>2 DEF ApplyPriceQuoted, AppliesEvent
<1>8. CASE IsQuote(e) /\ orders[o].side # "BUY"
  <2>1. orders[o].side = "SELL"
    BY <1>4, <1>8, TxInvStore, OrderFacts DEF OrderRow, Side
  <2>2. /\ verdict[w] = "INSUFFICIENT_ASSET" /\ Representable(o, p)
        /\ HoldingEntry(Position(o)) \in locks[w] => ~Covered(o)
    BY <1>1, <1>2, <1>3, <1>8 DEF Progress, CheckedRow
  <2>3. CASE ~Covered(o)
    <3>1. RejectSell(o, e)
      BY <1>4, <1>5, <2>1, <2>2, <2>3 DEF RejectSell
    <3> QED
      BY <1>1, <1>5, <1>8, <2>2, <3>1 DEF ApplyPriceQuoted, AppliesEvent
  <2>4. CASE HoldingEntry(Position(o)) \notin locks[w]
    BY <1>1, <1>2, <1>4, <1>5, <2>1, <2>2, <2>4 DEF RejectPhantomSell
  <2> QED
    BY <2>2, <2>3, <2>4
<1> QED
  BY <1>6, <1>7, <1>8

\* A transaction that skips only logs its event.
LEMMA CommitSkips ==
  ASSUME TxInv, NEW w \in Workers, Commit(w), verdict[w] = "skip"
  PROVE  AppliesEvent(w)
<1>1. ~Actionable(Order(w), event[w])
  BY DEF TxInv, FindingsHold, Found, Actionable
<1>2. /\ MarkProcessed(event[w])
      /\ UNCHANGED <<users, cash, holdings, orders, startup>> /\ startup = "serving"
  BY DEF Commit, RejectionReason, TxInv
<1> QED
  BY <1>1, <1>2 DEF ApplyPriceQuoted, SkipQuote, ApplyOrderRejected, AppliesEvent

LEMMA CommitImplements ==
  ASSUME TxInv, NEW w \in Workers, Commit(w)
  PROVE  Next \/ RejectPhantomSell(w)
<1>1. /\ event[w] \in EventIds /\ Order(w) \in OrderIds
      /\ IsQuote(event[w]) => PriceOf[event[w]] \in Prices
      /\ ~IsQuote(event[w]) => ReasonOf[event[w]] \in RejectionReason
  BY TxAssumption DEF Commit, TxInv, TxTypeOK, Order, IsQuote
<1>2. AppliesEvent(w) \/ RejectPhantomSell(w)
  BY CommitSkips, CommitExecutes, CommitRejects DEF Commit
<1> QED
  BY <1>1, <1>2 DEF Next, AppliesEvent

\* The step of w that leaves the database alone.
QuietStatement(w) ==
  \/ SkipDuplicate(w) \/ MarkEvent(w) \/ LockOrder(w) \/ SkipOrder(w) \/ Panic(w)
  \/ Check(w) \/ Settle(w) \/ Rollback(w) \/ DeadlockVictim(w)
  \/ \E e \in EventIds : Begin(w, e)

\* One of the two reads of a client.
ClientReads ==
  \/ \E o \in OrderIds : GetOrder(o)
  \/ \E u \in Users : ReadBalance(u)
  \/ ReadHoldings

LEMMA TxNextCases ==
  ASSUME [TxNext]_allVars
  PROVE  \/ \E o \in OrderIds, req \in Requests : Place(o, req)
         \/ \E w \in Workers : Commit(w)
         \/ \E w \in Workers : QuietStatement(w)
         \/ ClientReads
         \/ UNCHANGED allVars
BY DEF TxNext, Statement, QuietStatement, ClientReads

LEMMA QuietStatementFacts ==
  ASSUME NEW w \in Workers, QuietStatement(w)
  PROVE  UNCHANGED vars /\ UNCHANGED client
BY DEF QuietStatement, SkipDuplicate, MarkEvent, LockOrder, SkipOrder, Panic, Check,
       Settle, Rollback, DeadlockVictim, Begin

\* Every step is one of PortfolioStore, the late rejection of a sale, or a stutter.
StoreStep == [Next \/ \E w \in Workers : RejectPhantomSell(w)]_vars

LEMMA StepImplements ==
  ASSUME TxInv, [TxNext]_allVars
  PROVE  StoreStep
<1>1. CASE \E o \in OrderIds, req \in Requests : Place(o, req)
  BY <1>1 DEF Place, Next, StoreStep
<1>2. CASE \E w \in Workers : Commit(w)
  BY <1>2, CommitImplements DEF StoreStep
<1>3. CASE \E w \in Workers : QuietStatement(w)
  BY <1>3, QuietStatementFacts DEF StoreStep
<1>4. CASE ClientReads
  BY <1>4 DEF ClientReads, GetOrder, ReadBalance, ReadHoldings, StoreStep
<1>5. CASE UNCHANGED allVars
  BY <1>5 DEF allVars, StoreStep
<1> QED
  BY <1>1, <1>2, <1>3, <1>4, <1>5, TxNextCases

-----------------------------------------------------------------------------
(***************************************************************************)
(* TxInv is inductive.                                                     *)
(***************************************************************************)
LEMMA TxInvInit == TxInit => TxInv
<1> SUFFICES ASSUME TxInit PROVE TxInv
  OBVIOUS
<1>1. TypeOK /\ Solvent
  BY StoreAssumption DEF TxInit, TypeOK, Solvent, Owner
<1>2. /\ \A w \in Workers : step[w] = "idle" /\ event[w] = Null /\ verdict[w] = Null
                         /\ locks[w] = {}
      /\ step \in [Workers -> Steps]
      /\ client.told \subseteq OrderIds
  BY DEF TxInit, Steps, NewClient
<1>3. TxTypeOK
  BY <1>1, <1>2 DEF TxTypeOK
<1>4. TxDomains /\ ClientFields
  BY DEF TxInit, TxDomains, ClientFields, NewClient
<1>5. FindingsHold /\ \A w \in Workers : Progress(w)
  BY <1>2, NullIsNoVerdict DEF FindingsHold, Found, Progress
<1> QED
  BY <1>1, <1>2, <1>3, <1>4, <1>5 DEF TxInit, TxInv, LocksExclusive

\* The database stays typed and solvent, because every step is one of PortfolioStore.
LEMMA StoreKept ==
  ASSUME TxInv, [TxNext]_allVars
  PROVE  TypeOK' /\ Solvent' /\ startup' = "serving"
<1>1. startup' = "serving"
  <2>1. startup = "serving"
    BY DEF TxInv
  <2>2. UNCHANGED startup
    <3>1. ASSUME NEW o \in OrderIds, NEW req \in Requests, Place(o, req)
          PROVE  UNCHANGED startup
      BY <3>1 DEF Place, CreateOrder
    <3>2. ASSUME NEW w \in Workers, Commit(w)
          PROVE  UNCHANGED startup
      BY <3>2 DEF Commit
    <3>3. ASSUME NEW w \in Workers, QuietStatement(w)
          PROVE  UNCHANGED startup
      BY <3>3, QuietStatementFacts DEF vars
    <3>4. CASE ClientReads \/ UNCHANGED allVars
      BY <3>4 DEF ClientReads, GetOrder, ReadBalance, ReadHoldings, allVars, vars
    <3> QED
      BY <3>1, <3>2, <3>3, <3>4, TxNextCases
  <2> QED
    BY <2>1, <2>2
<1>2. Inv'
  <2>1. Inv /\ StoreStep
    BY TxInvStore, StepImplements
  <2>2. CASE [Next]_vars
    BY <2>1, <2>2, InvNext
  <2>3. ASSUME NEW w \in Workers, RejectPhantomSell(w)
        PROVE  Inv'
    <3>1. Order(w) \in DOMAIN orders /\ Order(w) \in OrderIds /\ event[w] \in EventIds
      BY <2>1, <2>3 DEF RejectPhantomSell, Actionable, IsCreated, Inv, TypeOK, TxInv, TxTypeOK
    <3>2. MarkRejected(Order(w), "INSUFFICIENT_ASSET") /\ MarkProcessed(event[w])
          /\ UNCHANGED <<users, cash, holdings, startup>>
      BY <2>3 DEF RejectPhantomSell
    <3> QED
      BY <2>1, <3>1, <3>2, InvNoTrade DEF RejectionReason
  <2> QED
    BY <2>1, <2>2, <2>3 DEF StoreStep
<1> QED
  BY <1>1, <1>2 DEF Inv

\* What TxTypeOK says of one transaction.
WorkerTypes(w) ==
  /\ step[w] = "idle" <=> event[w] = Null
  /\ step[w] # "idle" => event[w] \in EventIds
  /\ step[w] \in {"settle", "commit"} <=> verdict[w] # Null
  /\ step[w] = "settle" => verdict[w] = "execute"
  /\ step[w] \in {"idle", "ledger"} => locks[w] = {}

\* A statement of v writes the variables of v, and leaves them well typed.
LEMMA EndTypes ==
  ASSUME TxInv, NEW v \in Workers, End(v)
  PROVE  /\ step' \in [Workers -> Steps]
         /\ WorkerTypes(v)'
BY DEF TxInv, TxTypeOK, TxDomains, End, Steps, WorkerTypes

LEMMA BeginTypes ==
  ASSUME TxInv, NEW v \in Workers, NEW e \in EventIds, Begin(v, e)
  PROVE  /\ step' \in [Workers -> Steps]
         /\ TxDomains'
         /\ WorkerTypes(v)'
         /\ LocksExclusive'
         /\ \A w \in Workers \ {v} : UNCHANGED OwnVars(w)
BY TxAssumption DEF TxInv, TxTypeOK, TxDomains, Begin, Steps, WorkerTypes, OwnVars, LocksExclusive

\* v goes on to statement s, with verdict d once it has decided.
Advances(v, s, d) ==
  /\ step' = [step EXCEPT ![v] = s]
  /\ verdict' = [verdict EXCEPT ![v] = d]
  /\ s \in {"order", "check", "settle", "commit"}
  /\ d \in RejectionReason \cup {"execute", "skip", Null}
  /\ s \in {"settle", "commit"} <=> d # Null
  /\ s = "settle" => d = "execute"

LEMMA StatementTypes ==
  ASSUME TxInv, NEW v \in Workers,
         MarkEvent(v) \/ LockOrder(v) \/ SkipOrder(v) \/ Check(v) \/ Settle(v)
  PROVE  /\ step' \in [Workers -> Steps]
         /\ TxDomains'
         /\ WorkerTypes(v)'
         /\ LocksExclusive'
         /\ \A w \in Workers \ {v} : UNCHANGED OwnVars(w)
<1>1. /\ LocksExclusive'
      /\ DOMAIN locks' = Workers
      /\ \A x \in Workers \ {v} : locks'[x] = locks[x]
  BY AcquireExclusive DEF MarkEvent, LockOrder, SkipOrder, Check, Settle
<1>2. /\ UNCHANGED <<event, client>>
      /\ step[v] # "idle"
  BY DEF MarkEvent, LockOrder, SkipOrder, Check, Settle
<1>3. event[v] \in EventIds /\ event[v] # Null
  BY <1>2 DEF TxInv, TxTypeOK
<1>4. PICK s, d : Advances(v, s, d)
  <2>1. /\ step \in [Workers -> Steps]
        /\ verdict \in [Workers -> RejectionReason \cup {"execute", "skip", Null}]
        /\ step[v] \in {"ledger", "order", "check"} => verdict[v] = Null
    BY DEF TxInv, TxTypeOK, TxDomains
  <2>2. ASSUME NEW d \in RejectionReason \cup {"execute", "skip"}, Decide(v, d)
        PROVE  \E s : Advances(v, s, d)
    <3>1. Advances(v, IF d = "execute" THEN "settle" ELSE "commit", d)
      BY <2>2, NullIsNoVerdict DEF Decide, Advances
    <3> QED
      BY <3>1
  <2>3. CASE MarkEvent(v)
    <3>1. Advances(v, "order", Null)
      BY <2>1, <2>3 DEF MarkEvent, Advances
    <3> QED
      BY <3>1
  <2>4. CASE LockOrder(v) /\ IsQuote(event[v])
    <3>1. Advances(v, "check", Null)
      BY <2>1, <2>4 DEF LockOrder, Advances
    <3> QED
      BY <3>1
  <2>5. CASE LockOrder(v) /\ ~IsQuote(event[v])
    <3>1. ReasonOf[event[v]] \in RejectionReason /\ Decide(v, ReasonOf[event[v]])
      BY <1>3, <2>5, TxAssumption DEF LockOrder, IsQuote
    <3> QED
      BY <2>2, <3>1
  <2>6. CASE SkipOrder(v)
    BY <2>2, <2>6 DEF SkipOrder
  <2>7. CASE Check(v)
    <3>1. \E d \in {"execute", "INSUFFICIENT_BALANCE", "INSUFFICIENT_ASSET"} :
            Decide(v, d)
      BY <2>7 DEF Check
    <3> QED
      BY <2>2, <3>1 DEF RejectionReason
  <2>8. CASE Settle(v)
    <3>1. verdict[v] = "execute"
      BY <2>8 DEF Settle, TxInv, TxTypeOK
    <3>2. Advances(v, "commit", "execute")
      BY <2>1, <2>8, <3>1, NullIsNoVerdict DEF Settle, Advances
    <3> QED
      BY <3>2
  <2> QED
    BY <2>3, <2>4, <2>5, <2>6, <2>7, <2>8
<1>5. /\ DOMAIN written' = Workers
      /\ \A x \in Workers \ {v} : written'[x] = written[x]
  BY DEF MarkEvent, LockOrder, SkipOrder, Check, Settle, TxInv, TxDomains
<1>6. /\ step' = [step EXCEPT ![v] = s]
      /\ verdict' = [verdict EXCEPT ![v] = d]
      /\ s \in {"order", "check", "settle", "commit"}
      /\ d \in RejectionReason \cup {"execute", "skip", Null}
      /\ s \in {"settle", "commit"} <=> d # Null
      /\ s = "settle" => d = "execute"
  BY <1>4 DEF Advances
<1>7. /\ step \in [Workers -> Steps]
      /\ event \in [Workers -> EventIds \cup {Null}]
      /\ verdict \in [Workers -> RejectionReason \cup {"execute", "skip", Null}]
  BY DEF TxInv, TxTypeOK, TxDomains
<1>8. step' \in [Workers -> Steps] /\ TxDomains'
  BY <1>1, <1>2, <1>5, <1>6, <1>7 DEF TxDomains, Steps
<1>9. WorkerTypes(v)'
  <2>1. step'[v] = s /\ verdict'[v] = d
    BY <1>6, <1>7
  <2> QED
    BY <1>2, <1>3, <1>6, <2>1 DEF WorkerTypes
<1>10. \A w \in Workers \ {v} : UNCHANGED OwnVars(w)
  BY <1>1, <1>2, <1>5, <1>6, <1>7 DEF OwnVars
<1> QED
  BY <1>1, <1>8, <1>9, <1>10

\* A statement of v that leaves the database alone, from all sides.
LEMMA QuietStatementKeeps ==
  ASSUME TxInv, NEW v \in Workers, QuietStatement(v)
  PROVE  /\ step' \in [Workers -> Steps]
         /\ TxDomains'
         /\ LocksExclusive'
         /\ WorkerTypes(v)' /\ Found(v)' /\ Progress(v)'
         /\ \A w \in Workers \ {v} : UNCHANGED OwnVars(w)
<1>1. CASE End(v)
  BY <1>1, EndTypes, EndFacts, EndLeavesOthers
<1>2. CASE \E e \in EventIds : Begin(v, e)
  BY <1>2, BeginTypes, BeginFacts
<1>3. CASE MarkEvent(v) \/ LockOrder(v) \/ SkipOrder(v) \/ Check(v) \/ Settle(v)
  <2>1. Found(v)' /\ Progress(v)'
    BY <1>3, MarkEventFacts, OrderStatementFacts, CheckFacts, SettleFacts
  <2> QED
    BY <1>3, <2>1, StatementTypes
<1> QED
  BY <1>1, <1>2, <1>3 DEF QuietStatement, SkipDuplicate, Panic, Rollback, DeadlockVictim

\* What one transaction does, the others do not notice.
LEMMA TxInvWorkers ==
  ASSUME TxInv, [TxNext]_allVars
  PROVE  /\ step' \in [Workers -> Steps]
         /\ TxDomains'
         /\ LocksExclusive'
         /\ \A w \in Workers : WorkerTypes(w)' /\ Found(w)' /\ Progress(w)'
<1>1. ASSUME NEW w \in Workers, UNCHANGED OwnVars(w), RowsKept(w)
      PROVE  WorkerTypes(w)' /\ Found(w)' /\ Progress(w)'
  <2>1. WorkerTypes(w)'
    BY <1>1 DEF TxInv, TxTypeOK, WorkerTypes, OwnVars
  <2> QED
    BY <1>1, <2>1, OtherStep
<1>2. ASSUME UNCHANGED txVars
      PROVE  /\ step' \in [Workers -> Steps]
             /\ TxDomains'
             /\ LocksExclusive'
             /\ \A w \in Workers : UNCHANGED OwnVars(w)
  BY <1>2 DEF txVars, OwnVars, TxInv, TxTypeOK, TxDomains, LocksExclusive
<1>3. ASSUME NEW o \in OrderIds, NEW req \in Requests, Place(o, req)
      PROVE  /\ step' \in [Workers -> Steps]
             /\ TxDomains'
             /\ LocksExclusive'
             /\ \A w \in Workers : WorkerTypes(w)' /\ Found(w)' /\ Progress(w)'
  <2>1. UNCHANGED txVars
    BY <1>3 DEF Place
  <2>2. \A w \in Workers : RowsKept(w)
    BY <1>3, PlaceKeepsRows
  <2> QED
    BY <1>1, <1>2, <2>1, <2>2
<1>4. ASSUME NEW v \in Workers, Commit(v)
      PROVE  /\ step' \in [Workers -> Steps]
             /\ TxDomains'
             /\ LocksExclusive'
             /\ \A w \in Workers : WorkerTypes(w)' /\ Found(w)' /\ Progress(w)'
  <2>1. End(v)
    BY <1>4 DEF Commit
  <2>2. \A w \in Workers \ {v} : UNCHANGED OwnVars(w) /\ RowsKept(w)
    BY <1>4, <2>1, EndLeavesOthers, CommitKeepsRows
  <2> QED
    BY <1>1, <2>1, <2>2, EndTypes, EndFacts
<1>5. ASSUME NEW v \in Workers, QuietStatement(v)
      PROVE  /\ step' \in [Workers -> Steps]
             /\ TxDomains'
             /\ LocksExclusive'
             /\ \A w \in Workers : WorkerTypes(w)' /\ Found(w)' /\ Progress(w)'
  <2>1. \A w \in Workers : RowsKept(w)
    BY <1>5, QuietStatementFacts, QuietKeepsRows
  <2> QED
    BY <1>1, <1>5, <2>1, QuietStatementKeeps
<1>6. CASE ClientReads \/ UNCHANGED allVars
  <2>1. UNCHANGED vars /\ UNCHANGED txVars
    BY <1>6 DEF ClientReads, GetOrder, ReadBalance, ReadHoldings, allVars
  <2> QED
    BY <1>1, <1>2, <2>1, QuietKeepsRows
<1> QED
  BY <1>3, <1>4, <1>5, <1>6, TxNextCases

LEMMA ClientKept ==
  ASSUME TxInv, [TxNext]_allVars
  PROVE  client'.told \subseteq OrderIds /\ ClientFields'
<1>1. client.told \subseteq OrderIds /\ ClientFields
  BY DEF TxInv, TxTypeOK
<1>2. CASE UNCHANGED client
  BY <1>1, <1>2 DEF ClientFields
<1>3. ASSUME NEW o \in OrderIds, GetOrder(o)
      PROVE  client'.told \subseteq OrderIds /\ ClientFields'
  <2>1. client' = [client EXCEPT !.told = @ \cup {o}]
    BY <1>3 DEF GetOrder
  <2> QED
    BY <1>1, <2>1 DEF ClientFields
<1>4. ASSUME NEW u \in Users, ReadBalance(u)
      PROVE  client'.told \subseteq OrderIds /\ ClientFields'
  <2>1. client' = [client EXCEPT !.asked = u, !.cash = cash[u]]
    BY <1>4 DEF ReadBalance
  <2> QED
    BY <1>1, <2>1 DEF ClientFields
<1>5. ASSUME ReadHoldings
      PROVE  client'.told \subseteq OrderIds /\ ClientFields'
  <2>1. \E answer : client' = [client EXCEPT !.answer = answer]
    BY <1>5 DEF ReadHoldings
  <2> QED
    BY <1>1, <2>1 DEF ClientFields
<1>6. CASE \E w \in Workers : QuietStatement(w)
  BY <1>2, <1>6, QuietStatementFacts
<1> QED
  BY <1>2, <1>3, <1>4, <1>5, <1>6, TxNextCases DEF Place, Commit, allVars, ClientReads

LEMMA TxInvNext ==
  ASSUME TxInv, [TxNext]_allVars
  PROVE  TxInv'
<1>1. TypeOK' /\ Solvent' /\ startup' = "serving"
  BY StoreKept
<1>2. /\ step' \in [Workers -> Steps]
      /\ TxDomains'
      /\ LocksExclusive'
      /\ \A w \in Workers : WorkerTypes(w)' /\ Found(w)' /\ Progress(w)'
  BY TxInvWorkers
<1>3. TxTypeOK'
  BY <1>1, <1>2, ClientKept DEF TxTypeOK, WorkerTypes
<1> QED
  BY <1>1, <1>2, <1>3, ClientKept DEF TxInv, FindingsHold

THEOREM TxInvariance == TxSpec => []TxInv
BY TxInvInit, TxInvNext, PTL DEF TxSpec

\* The database, the progress and the locks of the transactions are well typed.
THEOREM TxTypeCorrect == TxSpec => []TxTypeOK
BY TxInvariance, PTL DEF TxInv

\* What a handler found out holds until it commits, however many others commit
\* meanwhile: FOR UPDATE on the rows it reads is enough.
THEOREM NoStaleDecision == TxSpec => []FindingsHold
BY TxInvariance, PTL DEF TxInv

\* Whoever has decided to execute has the row it compared locked, from the comparison
\* to the commit: of two transactions only one spends from a balance or a position.
THEOREM OneSpender == TxSpec => []NoDoubleSpend
<1>1. TxInv => NoDoubleSpend
  <2> SUFFICES ASSUME TxInv, NEW v \in Workers, NEW w \in Workers, v # w,
                      verdict[v] = "execute", verdict[w] = "execute"
               PROVE  CheckedRow(v) # CheckedRow(w)
    BY DEF NoDoubleSpend
  <2>1. CheckedRow(v) \in locks[v] /\ CheckedRow(w) \in locks[w]
    BY DEF TxInv, Progress
  <2>2. locks[v] \cap locks[w] = {}
    BY DEF TxInv, LocksExclusive
  <2> QED
    BY <2>1, <2>2
<1> QED
  BY <1>1, TxInvariance, PTL

\* Statement by statement, with rollbacks and deadlock victims, no balance and no
\* position goes below zero.
THEOREM TxNeverOverdrawn == TxSpec => []Solvent
BY TxInvariance, PTL DEF TxInv

\* The statements of concurrent transactions amount to atomic steps of
\* PortfolioStore, but for the late rejection of a sale that found no row.
THEOREM Serializable == TxSpec => ImplementsStore
<1>1. ASSUME TxInv, [TxNext]_allVars
      PROVE  StoreStep
  BY <1>1, StepImplements
<1> QED
  BY <1>1, TxInvariance, PTL DEF TxSpec, ImplementsStore, StoreStep

-----------------------------------------------------------------------------
(***************************************************************************)
(* So what PortfolioStore promises of its steps, concurrent transactions   *)
(* promise too.                                                            *)
(***************************************************************************)

\* A sale rejected late was open, and nothing else is touched.
LEMMA PhantomFacts ==
  ASSUME TxInv, NEW w \in Workers, RejectPhantomSell(w)
  PROVE  /\ Order(w) \in DOMAIN orders /\ IsCreated(Order(w))
         /\ MarkRejected(Order(w), "INSUFFICIENT_ASSET")
         /\ UNCHANGED <<cash, holdings>>
BY DEF RejectPhantomSell, Actionable, IsCreated

LEMMA TxFinalStep ==
  ASSUME TxInv, [TxNext]_allVars
  PROVE  \A o \in Resolved : o \in DOMAIN orders' /\ orders'[o] = orders[o]
<1>1. StoreStep /\ Inv
  BY StepImplements, TxInvStore
<1>2. CASE [Next]_vars
  BY <1>1, <1>2, FinalStep
<1>3. ASSUME NEW w \in Workers, RejectPhantomSell(w)
      PROVE  \A o \in Resolved : o \in DOMAIN orders' /\ orders'[o] = orders[o]
  <2>1. PICK x : /\ x \in DOMAIN orders /\ IsCreated(x)
                 /\ MarkRejected(x, "INSUFFICIENT_ASSET")
    BY <1>3, PhantomFacts
  <2> QED
    BY <2>1 DEF MarkRejected, IsCreated, Resolved
<1> QED
  BY <1>1, <1>2, <1>3 DEF StoreStep

\* EXECUTED and REJECTED are final, also between concurrent transactions.
THEOREM TxFinality == TxSpec => TerminalIsFinal
<1>1. ASSUME TxInv, [TxNext]_allVars
      PROVE  \A o \in Resolved : o \in DOMAIN orders' /\ orders'[o] = orders[o]
  BY <1>1, TxFinalStep
<1> QED
  BY <1>1, TxInvariance, PTL DEF TxSpec, TerminalIsFinal

\* Money and assets move only in the commit of one settlement, and only its owner's.
THEOREM TxSettlementOnly == TxSpec => MoneyMovesOnlyBySettlement
<1>1. ASSUME TxInv, [TxNext]_allVars
      PROVE  MoneyRule
  <2>1. StoreStep /\ Inv
    BY <1>1, StepImplements, TxInvStore
  <2>2. CASE [Next]_vars
    BY <2>1, <2>2, MoneyStep
  <2>3. ASSUME NEW w \in Workers, RejectPhantomSell(w)
        PROVE  MoneyRule
    <3>1. PICK x : /\ x \in DOMAIN orders
                   /\ MarkRejected(x, "INSUFFICIENT_ASSET")
                   /\ UNCHANGED <<cash, holdings>>
      BY <1>1, <2>3, PhantomFacts
    <3> QED
      BY <2>1, <3>1, RejectionQuiet
  <2> QED
    BY <2>1, <2>2, <2>3 DEF StoreStep
<1> QED
  BY <1>1, TxInvariance, PTL DEF TxSpec, MoneyMovesOnlyBySettlement, MoneyRule


-----------------------------------------------------------------------------
(***************************************************************************)
(* The books.                                                              *)
(***************************************************************************)
LEMMA TxBooksInit == TxInit => BooksInv
<1> SUFFICES ASSUME TxInit
             PROVE  BooksInv
  OBVIOUS
<1>1. Inv
  BY TxInvInit, TxInvStore
<1>2. Opening
  BY DEF TxInit, Opening, Seeded
<1> QED
  BY <1>1, <1>2, BooksOpen

\* A sale rejected late closes an open order like any other rejection.
LEMMA TxBookStep ==
  ASSUME TxInv, [TxNext]_allVars
  PROVE  BookStep
<1>1. StoreStep
  BY StepImplements
<1>2. CASE [Next]_vars
  BY <1>2, StepKinds
<1>3. ASSUME NEW w \in Workers, RejectPhantomSell(w)
      PROVE  BookStep
  BY <1>3 DEF RejectPhantomSell, BookStep, Closing
<1> QED
  BY <1>1, <1>2, <1>3 DEF StoreStep

LEMMA TxBooksNext ==
  ASSUME TxInv, TxInv', BooksInv, [TxNext]_allVars
  PROVE  BooksInv'
<1>1. Inv'
  BY DEF TxInv, Inv, TxTypeOK
<1> QED
  BY <1>1, TxBookStep, BooksNext

LEMMA TxBooks == TxSpec => []BooksInv
<1>1. TxInit /\ [][TxNext]_allVars /\ []TxInv => []BooksInv
  BY TxBooksInit, TxBooksNext, PTL
<1> QED
  BY <1>1, TxInvariance, PTL DEF TxSpec

\* Concurrent transactions keep the books: each event counts once, each position
\* is what was seeded and traded, each balance what was traded to half a unit of
\* the column a trade.
THEOREM TxBooksKept ==
  TxSpec => [](EveryResolutionLogged /\ HoldingsMatchTrades /\ CashTracksTrades)
BY TxBooks, PTL DEF BooksInv, LogInv, PositionInv
-----------------------------------------------------------------------------
(***************************************************************************)
(* What GET /portfolio shows, between two reads of which others commit.    *)
(***************************************************************************)

\* The sums of BalanceAfter and HoldingAfter.
Bought(S) == {o \in S : orders[o].side = "BUY"}
Sold(S) == {o \in S : orders[o].side = "SELL"}
In(S, k) == {o \in S : Position(o) = k}

LEMMA AfterSums ==
  ASSUME NEW S
  PROVE  /\ BalanceAfter(S) = StartingCash - (Paid(Bought(S)) - Paid(Sold(S)))
         /\ \A k : HoldingAfter(S, k) =
              Seeded(k) + (Moved(Bought(In(S, k))) - Moved(Sold(In(S, k))))
BY DEF BalanceAfter, HoldingAfter, Net, Paid, Moved, Bought, Sold, In

LEMMA AfterSumsNext ==
  ASSUME NEW S
  PROVE  (/\ BalanceAfter(S) = StartingCash - (Paid(Bought(S)) - Paid(Sold(S)))
          /\ \A k : HoldingAfter(S, k) =
               Seeded(k) + (Moved(Bought(In(S, k))) - Moved(Sold(In(S, k)))))'
BY AfterSums, PTL

\* They depend on the rows of those orders only.
LEMMA AfterKept ==
  ASSUME SumsReady, NEW S \in SUBSET Executed,
         \A o \in S : o \in DOMAIN orders' /\ orders'[o] = orders[o]
  PROVE  /\ BalanceAfter(S)' = BalanceAfter(S)
         /\ \A k : HoldingAfter(S, k)' = HoldingAfter(S, k)
<1>1. /\ IsFiniteSet(S) /\ S \subseteq DOMAIN orders
  BY FS_Subset DEF SumsReady, Executed
<1>2. ASSUME NEW B \in SUBSET S
      PROVE  Moved(B)' = Moved(B) /\ Paid(B)' = Paid(B)
  <2>1. IsFiniteSet(B)
    BY <1>1, FS_Subset
  <2> QED
    BY <1>1, <2>1, SumsKept
<1>3. BalanceAfter(S)' = BalanceAfter(S)
  <2>1. PICK B, C : B = Bought(S) /\ C = Sold(S)
    OBVIOUS
  <2>2. B \in SUBSET S /\ C \in SUBSET S /\ Bought(S)' = B /\ Sold(S)' = C
    BY <2>1 DEF Bought, Sold
  <2>3. BalanceAfter(S)' = StartingCash - (Paid(B)' - Paid(C)')
    BY <2>2, AfterSumsNext
  <2> QED
    BY <1>2, <2>1, <2>2, <2>3, AfterSums
<1>4. ASSUME NEW k
      PROVE  HoldingAfter(S, k)' = HoldingAfter(S, k)
  <2>1. PICK B, C : B = Bought(In(S, k)) /\ C = Sold(In(S, k))
    OBVIOUS
  <2>2. /\ B \in SUBSET S /\ C \in SUBSET S
        /\ Bought(In(S, k))' = B /\ Sold(In(S, k))' = C
    BY <2>1 DEF Bought, Sold, In, Position, Owner, Asset
  <2>3. HoldingAfter(S, k)' = Seeded(k) + (Moved(B)' - Moved(C)')
    BY <2>2, AfterSumsNext
  <2> QED
    BY <1>2, <2>1, <2>2, <2>3, AfterSums
<1> QED
  BY <1>3, <1>4

\* All trades of a user give the balance and the positions of the tables.
LEMMA AllTrades ==
  ASSUME Scale = 1, BooksInv, CashExact, startup = "serving", NEW u
  PROVE  /\ u \in DOMAIN cash => BalanceAfter(TradesOf(u)) = cash[u]
         /\ \A s : HoldingAfter(TradesOf(u), <<u, s>>) = Held(<<u, s>>)
<1>1. SumsReady /\ PositionInv
  BY DEF BooksInv
<1>2. ASSUME u \in DOMAIN cash
      PROVE  BalanceAfter(TradesOf(u)) = cash[u]
  <2>1. /\ Bought(TradesOf(u)) = ExchangedSet("BUY", u)
        /\ Sold(TradesOf(u)) = ExchangedSet("SELL", u)
    BY DEF Bought, Sold, TradesOf, ExchangedSet
  <2>2. PICK b, c : b = Exchanged("BUY", u) /\ c = Exchanged("SELL", u)
    OBVIOUS
  <2>3. Paid(ExchangedSet("BUY", u)) = b /\ Paid(ExchangedSet("SELL", u)) = c
    BY <2>2 DEF Paid, Exchanged, ExchangedSet
  <2>4. BalanceAfter(TradesOf(u)) = StartingCash - (b - c)
    BY <2>1, <2>3, AfterSums
  <2>5. Scale * cash[u] - (Scale * StartingCash + c - b) = 0
    BY <1>2, <2>2 DEF CashExact, Drift, ExactCash
  <2>6. b \in Int /\ c \in Int /\ cash[u] \in Int /\ StartingCash \in Int
    BY <1>1, <1>2, <2>2, SumsInt, StoreAssumption DEF SumsReady, Inv, TypeOK
  <2> QED
    BY <2>4, <2>5, <2>6
<1>3. ASSUME NEW s
      PROVE  HoldingAfter(TradesOf(u), <<u, s>>) = Held(<<u, s>>)
  <2>1. PICK k : k = <<u, s>>
    OBVIOUS
  <2>2. /\ Bought(In(TradesOf(u), k)) = TradedSet("BUY", k)
        /\ Sold(In(TradesOf(u), k)) = TradedSet("SELL", k)
    BY <2>1 DEF Bought, Sold, In, TradesOf, TradedSet, Position
  <2>3. PICK b, c : b = Traded("BUY", k) /\ c = Traded("SELL", k)
    OBVIOUS
  <2>4. Moved(TradedSet("BUY", k)) = b /\ Moved(TradedSet("SELL", k)) = c
    BY <2>3 DEF Moved, Traded, TradedSet
  <2>5. HoldingAfter(TradesOf(u), k) = Seeded(k) + (b - c)
    BY <2>2, <2>4, AfterSums
  <2>6. b \in Int /\ c \in Int /\ Seeded(k) \in Int
    BY <1>1, <2>3, SumsInt, StoreAssumption DEF Seeded
  <2>7. CASE k \in DOMAIN holdings
    BY <1>1, <2>1, <2>3, <2>5, <2>6, <2>7 DEF PositionInv, HoldingsMatchTrades, Held
  <2>8. CASE k \notin DOMAIN holdings
    <3>1. Seeded(k) = 0
      BY <1>1, <2>8 DEF PositionInv, Seeded
    <3>2. b = 0 /\ c = 0
      BY <1>1, <2>3, <2>8, NoSums DEF PositionInv
    <3> QED
      BY <2>1, <2>5, <2>8, <3>1, <3>2 DEF Held
  <2> QED
    BY <2>7, <2>8
<1> QED
  BY <1>2, <1>3

\* The holdings that the client got are those of the seed and the trades T.
Answered(T) ==
  \A k \in {client.asked} \X RawSymbols :
    HoldingAfter(T, k) = IF k \in DOMAIN client.answer THEN client.answer[k] ELSE 0

\* Between the reads the client has the balance of a moment: that of trades which
\* include all it was told of, and which nothing takes back.
ClientKnows ==
  /\ client.told \subseteq Executed
  /\ client.answer # Null => client.asked # Null
  /\ client.asked # Null =>
       \E S \in SUBSET TradesOf(client.asked) :
         /\ client.told \cap TradesOf(client.asked) \subseteq S
         /\ client.cash = BalanceAfter(S)
         /\ client.answer # Null =>
              \E T \in SUBSET TradesOf(client.asked) : S \subseteq T /\ Answered(T)

\* A trade stays a trade of its owner.
LEMMA TradesFinal ==
  ASSUME TxInv, [TxNext]_allVars, NEW o \in Executed
  PROVE  /\ o \in Executed' /\ o \in DOMAIN orders' /\ orders'[o] = orders[o]
         /\ \A u : o \in TradesOf(u)' <=> o \in TradesOf(u)
<1>1. o \in Resolved /\ o \in DOMAIN orders /\ orders[o].status = "EXECUTED"
  BY DEF Executed, Resolved
<1>2. o \in DOMAIN orders' /\ orders'[o] = orders[o]
  BY <1>1, TxFinalStep
<1> QED
  BY <1>1, <1>2 DEF Executed, TradesOf, Owner

\* Others commit: what the client knows stays true of the same trades.
LEMMA KnownKept ==
  ASSUME TxInv, SumsReady, SumsReady', ClientKnows, [TxNext]_allVars, UNCHANGED client
  PROVE  ClientKnows'
<1>1. client'.told \subseteq Executed'
  BY TradesFinal DEF ClientKnows
<1>2. ASSUME client.asked # Null
      PROVE  \E S \in SUBSET TradesOf(client.asked)' :
               /\ client.told \cap TradesOf(client.asked)' \subseteq S
               /\ client.cash = BalanceAfter(S)'
               /\ client.answer # Null =>
                    \E T \in SUBSET TradesOf(client.asked)' :
                      S \subseteq T /\ Answered(T)'
  <2>1. PICK u : u = client.asked
    OBVIOUS
  <2>2. PICK S \in SUBSET TradesOf(u) :
          /\ client.told \cap TradesOf(u) \subseteq S
          /\ client.cash = BalanceAfter(S)
          /\ client.answer # Null =>
               \E T \in SUBSET TradesOf(u) : S \subseteq T /\ Answered(T)
    BY <1>2, <2>1 DEF ClientKnows
  <2>3. TradesOf(u) \subseteq Executed /\ TradesOf(u) \subseteq TradesOf(u)'
    BY TradesFinal DEF TradesOf
  <2>4. client.told \cap TradesOf(u)' \subseteq S
    BY <2>2, TradesFinal DEF ClientKnows
  <2>5. ASSUME NEW T \in SUBSET TradesOf(u)
        PROVE  /\ BalanceAfter(T)' = BalanceAfter(T)
               /\ \A k : HoldingAfter(T, k)' = HoldingAfter(T, k)
    <3>1. \A o \in T : o \in DOMAIN orders' /\ orders'[o] = orders[o]
      BY <2>3, TradesFinal
    <3> QED
      BY <2>3, <3>1, AfterKept
  <2>6. ASSUME client.answer # Null
        PROVE  \E T \in SUBSET TradesOf(u)' : S \subseteq T /\ Answered(T)'
    <3>1. PICK T \in SUBSET TradesOf(u) : S \subseteq T /\ Answered(T)
      BY <2>2, <2>6
    <3>2. \A k : HoldingAfter(T, k)' = HoldingAfter(T, k)
      BY <2>5
    <3>3. Answered(T)'
      BY <3>1, <3>2 DEF Answered
    <3> QED
      BY <2>3, <3>1, <3>3
  <2>7. client.cash = BalanceAfter(S)'
    BY <2>2, <2>5
  <2> QED
    BY <2>1, <2>2, <2>3, <2>4, <2>6, <2>7
<1> QED
  BY <1>1, <1>2 DEF ClientKnows

\* The reads.
LEMMA KnownRead ==
  ASSUME Scale = 1, TxInv, BooksInv, CashExact, ClientKnows, ClientReads
  PROVE  ClientKnows'
<1>1. UNCHANGED vars
  BY DEF ClientReads, GetOrder, ReadBalance, ReadHoldings
<1>2. /\ UNCHANGED Executed
      /\ \A u : UNCHANGED TradesOf(u)
      /\ \A u : \A S \in SUBSET TradesOf(u) : /\ UNCHANGED BalanceAfter(S)
                                             /\ \A k : UNCHANGED HoldingAfter(S, k)
  <2>1. UNCHANGED Executed /\ \A u : UNCHANGED TradesOf(u)
    BY <1>1 DEF vars, Executed, TradesOf, Owner
  <2>2. ASSUME NEW S \in SUBSET Executed
        PROVE  UNCHANGED BalanceAfter(S) /\ \A k : UNCHANGED HoldingAfter(S, k)
    BY <1>1, AfterKept DEF vars, BooksInv, Executed
  <2> QED
    BY <2>1, <2>2 DEF TradesOf
<1>3. client = [asked |-> client.asked, told |-> client.told,
                cash |-> client.cash, answer |-> client.answer]
  BY DEF TxInv, ClientFields
<1>4. startup = "serving"
  BY DEF TxInv
<1>5. ASSUME NEW o \in OrderIds, GetOrder(o)
      PROVE  ClientKnows'
  <2>1. /\ client' = [client EXCEPT !.told = @ \cup {o}]
        /\ client.asked = Null /\ o \in Executed
    BY <1>5 DEF GetOrder, Executed
  <2>2. /\ client'.told = client.told \cup {o}
        /\ client'.asked = Null /\ client'.answer = client.answer
    BY <1>3, <2>1
  <2> QED
    BY <1>2, <2>1, <2>2 DEF ClientKnows
<1>6. ASSUME NEW u \in Users, ReadBalance(u)
      PROVE  ClientKnows'
  <2>1. /\ client' = [client EXCEPT !.asked = u, !.cash = cash[u]]
        /\ client.asked = Null /\ u \in DOMAIN cash
    BY <1>6 DEF ReadBalance
  <2>2. client.answer = Null
    BY <2>1 DEF ClientKnows
  <2>3. /\ client'.asked = u /\ client'.cash = cash[u]
        /\ client'.told = client.told /\ client'.answer = Null
    BY <1>3, <2>1, <2>2
  <2>4. client'.cash = BalanceAfter(TradesOf(u))
    BY <1>4, <2>1, <2>3, AllTrades
  <2>5. PICK S : S = TradesOf(u)
    OBVIOUS
  <2>6. /\ S = TradesOf(u)' /\ client'.told \cap S \subseteq S
        /\ client'.cash = BalanceAfter(S)'
    BY <1>2, <2>4, <2>5
  <2>7. client'.told \subseteq Executed'
    BY <1>2, <2>3 DEF ClientKnows
  <2> QED
    BY <2>3, <2>6, <2>7 DEF ClientKnows
<1>7. ASSUME ReadHoldings
      PROVE  ClientKnows'
  <2>1. PICK answer :
          /\ client' = [client EXCEPT !.answer = answer]
          /\ answer = [k \in {k \in DOMAIN holdings :
                                k[1] = client.asked /\ holdings[k] > 0} |-> holdings[k]]
          /\ client.asked # Null
    BY <1>7 DEF ReadHoldings
  <2>2. /\ client'.asked = client.asked /\ client'.cash = client.cash
        /\ client'.told = client.told /\ client'.answer = answer
    BY <1>3, <2>1
  <2>3. PICK u : u = client.asked
    OBVIOUS
  <2>4. PICK S \in SUBSET TradesOf(u) :
          /\ client.told \cap TradesOf(u) \subseteq S
          /\ client.cash = BalanceAfter(S)
    BY <2>1, <2>3 DEF ClientKnows
  <2>5. PICK T : T = TradesOf(u)
    OBVIOUS
  <2>6. ASSUME NEW k \in {u} \X RawSymbols
        PROVE  HoldingAfter(T, k) = IF k \in DOMAIN answer THEN answer[k] ELSE 0
    <3>1. PICK s \in RawSymbols : k = <<u, s>>
      OBVIOUS
    <3>2. HoldingAfter(T, k) = Held(k)
      BY <1>4, <2>5, <3>1, AllTrades
    <3>3. k \in DOMAIN holdings => holdings[k] \in Int /\ holdings[k] >= 0
      BY DEF TxInv, TxTypeOK, TypeOK, Solvent
    <3> QED
      BY <2>1, <2>3, <3>1, <3>2, <3>3 DEF Held
  <2>7. Answered(T)'
    <3>1. \A k : HoldingAfter(T, k)' = HoldingAfter(T, k)
      BY <1>2, <2>5
    <3> QED
      BY <2>2, <2>3, <2>6, <3>1 DEF Answered
  <2>8. client'.told \subseteq Executed'
    BY <1>2, <2>2 DEF ClientKnows
  <2> QED
    BY <1>2, <2>1, <2>2, <2>3, <2>4, <2>5, <2>7, <2>8 DEF ClientKnows
<1> QED
  BY <1>5, <1>6, <1>7 DEF ClientReads

\* With amounts in whole units of the column, what GET /portfolio answers is explained
\* by executed orders, those among them that GET /orders had shown, although its two
\* reads are of two moments and others commit between them.
THEOREM AnswersExplained == Scale = 1 => (TxSpec => []PortfolioShowsWhatWasTold)
<1> SUFFICES ASSUME Scale = 1
             PROVE  TxSpec => []PortfolioShowsWhatWasTold
  OBVIOUS
<1>1. TxInit => CashExact /\ ClientKnows
  <2>1. TxInit => Inv /\ Opening
    BY TxInvInit, TxInvStore DEF TxInit, Opening, Seeded
  <2>2. TxInit => ClientKnows
    BY DEF TxInit, NewClient, ClientKnows
  <2> QED
    BY <2>1, <2>2, BooksOpen
<1>2. ASSUME TxInv, BooksInv, BooksInv', CashExact, ClientKnows, [TxNext]_allVars
      PROVE  CashExact' /\ ClientKnows'
  <2>1. CashExact'
    BY <1>2, TxBookStep, ExactStep DEF BooksInv
  <2>2. UNCHANGED client \/ ClientReads
    BY <1>2, TxNextCases, QuietStatementFacts DEF Place, Commit, allVars
  <2>3. ClientKnows'
    BY <1>2, <2>2, KnownKept, KnownRead DEF BooksInv
  <2> QED
    BY <2>1, <2>3
<1>3. ClientKnows => PortfolioShowsWhatWasTold
  <2> SUFFICES ASSUME ClientKnows, client.answer # Null
               PROVE  PortfolioShowsWhatWasTold
    BY DEF PortfolioShowsWhatWasTold
  <2>1. PICK S \in SUBSET TradesOf(client.asked), T \in SUBSET TradesOf(client.asked) :
          /\ client.told \cap TradesOf(client.asked) \subseteq S
          /\ client.cash = BalanceAfter(S)
          /\ S \subseteq T /\ Answered(T)
    BY DEF ClientKnows
  <2> QED
    BY <2>1 DEF PortfolioShowsWhatWasTold, TradesOf, Answered
<1> QED
  BY <1>1, <1>2, <1>3, TxInvariance, TxBooks, PTL DEF TxSpec
===============================================================================
