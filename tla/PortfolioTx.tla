----------------------------- MODULE PortfolioTx -----------------------------
(***************************************************************************)
(* The transactions of repo.rs statement by statement, several of them in  *)
(* progress at once: instances of the service share its database, and a    *)
(* transaction may outlive, in its backend, the process that began it.     *)
(*                                                                         *)
(* The variables of PortfolioStore are the committed state.  Postgres runs *)
(* at READ COMMITTED: a statement reads what is committed when it runs, a  *)
(* row that is locked or written is kept until the end of the transaction. *)
(* A statement that waits for nothing is part of the one before it.        *)
(***************************************************************************)
EXTENDS PortfolioStore

CONSTANTS
  Workers,    \* transactions that may be in progress at once
  OrderOf,    \* order_id of each event
  PriceOf,    \* price of a PriceQuoted, Null for an OrderRejected
  ReasonOf    \* reason of an OrderRejected, Null for a PriceQuoted

IsQuote(e) == PriceOf[e] # Null

ASSUME TxAssumption ==
  /\ OrderOf \in [EventIds -> OrderIds]
  /\ PriceOf \in [EventIds -> Prices \cup {Null}]
  /\ ReasonOf \in [EventIds -> RejectionReason \cup {Null}]
  /\ \A e \in EventIds : PriceOf[e] = Null <=> ReasonOf[e] # Null
  /\ Null \notin EventIds \cup {"execute", "skip"}

VARIABLES
  step,      \* the statement each transaction is to run next
  event,     \* the event it applies, Null when there is none
  verdict,   \* what it will commit: "execute", "skip", a rejection, or Null
  written,   \* the balance and the quantity it has written, not yet committed
  locks,     \* the rows it has locked or inserted
  client     \* a client that polls GET /orders and then asks GET /portfolio

txVars == <<step, event, verdict, written, locks>>
allVars == <<vars, txVars, client>>

Steps == {"idle", "ledger", "order", "check", "settle", "commit"}
Nothing == [cash |-> 0, quantity |-> 0]
NewClient == [asked |-> Null, told |-> {}, cash |-> 0, answer |-> Null]

\* Rows that a transaction may wait for.
LedgerEntry(e) == <<"processed_events", e>>
OrderEntry(o) == <<"orders", o>>
PortfolioEntry(u) == <<"portfolios", u>>
HoldingEntry(k) == <<"holdings", k>>

Order(w) == OrderOf[event[w]]

-----------------------------------------------------------------------------
(***************************************************************************)
(* Locks.                                                                  *)
(***************************************************************************)

\* The rows that the next statement locks or writes.  SELECT ... FOR UPDATE
\* neither locks nor waits for a row that is not committed; INSERT does.
Wanted(w) ==
  CASE step[w] = "ledger" -> {LedgerEntry(event[w])}
    [] step[w] = "order" ->
         {OrderEntry(o) : o \in {Order(w)} \cap DOMAIN orders}
    [] step[w] = "check" ->
         IF orders[Order(w)].side = "BUY"
           THEN {PortfolioEntry(Owner(Order(w)))}
           ELSE {HoldingEntry(k) : k \in {Position(Order(w))} \cap DOMAIN holdings}
    [] step[w] = "settle" ->
         {PortfolioEntry(Owner(Order(w))), HoldingEntry(Position(Order(w)))}
    [] OTHER -> {}

Blocks(v, w) == v # w /\ locks[v] \cap Wanted(w) # {}

Granted(w) == \A v \in Workers : ~Blocks(v, w)

Acquire(w) ==
  /\ Granted(w)
  /\ locks' = [locks EXCEPT ![w] = @ \cup Wanted(w)]

\* Mutant: the connection goes back to the pool with the transaction open.
EndLeavesOpen(w) ==
  /\ step' = [step EXCEPT ![w] = "idle"]
  /\ event' = [event EXCEPT ![w] = Null]
  /\ verdict' = [verdict EXCEPT ![w] = Null]
  /\ written' = [written EXCEPT ![w] = Nothing]
  /\ UNCHANGED locks

\* The transaction is over: its locks are released, its writes kept or dropped.
End(w) ==
  /\ step' = [step EXCEPT ![w] = "idle"]
  /\ event' = [event EXCEPT ![w] = Null]
  /\ verdict' = [verdict EXCEPT ![w] = Null]
  /\ written' = [written EXCEPT ![w] = Nothing]
  /\ locks' = [locks EXCEPT ![w] = {}]

Decide(w, v) ==
  /\ verdict' = [verdict EXCEPT ![w] = v]
  /\ step' = [step EXCEPT ![w] = IF v = "execute" THEN "settle" ELSE "commit"]

-----------------------------------------------------------------------------
TxInit ==
  /\ users = Accounts \cup {DemoUser}
  /\ cash = [u \in users |-> StartingCash]
  /\ holdings = [k \in {<<DemoUser, DemoSymbol>>} |-> StartingHolding]
  /\ orders = [o \in {} |-> Null]
  /\ processed = {}
  /\ startup = "serving"
  /\ step = [w \in Workers |-> "idle"]
  /\ event = [w \in Workers |-> Null]
  /\ verdict = [w \in Workers |-> Null]
  /\ written = [w \in Workers |-> Nothing]
  /\ locks = [w \in Workers |-> {}]
  /\ client = NewClient

\* A row of orders is inserted by a statement that commits by itself.
Place(o, req) ==
  /\ CreateOrder(o, req)
  /\ UNCHANGED <<txVars, client>>

\* An event is delivered, for the first time or again, to any task.  It was
\* emitted because of its order, whose row is committed.
Begin(w, e) ==
  /\ step[w] = "idle"
  /\ OrderOf[e] \in DOMAIN orders
  /\ step' = [step EXCEPT ![w] = "ledger"]
  /\ event' = [event EXCEPT ![w] = e]
  /\ UNCHANGED <<vars, verdict, written, locks, client>>

\* mark_processed: a duplicate inserts nothing, and the transaction rolls back.
SkipDuplicate(w) ==
  /\ step[w] = "ledger"
  /\ Granted(w)
  /\ event[w] \in processed
  /\ End(w)
  /\ UNCHANGED <<vars, client>>

MarkEvent(w) ==
  /\ step[w] = "ledger"
  /\ event[w] \notin processed
  /\ Acquire(w)
  /\ step' = [step EXCEPT ![w] = "order"]
  /\ UNCHANGED <<vars, event, verdict, written, client>>

\* SELECT ... FROM orders ... FOR UPDATE finds an order to act upon.
LockOrder(w) ==
  /\ step[w] = "order"
  /\ IsCreated(Order(w))
  /\ Acquire(w)
  /\ IF IsQuote(event[w])
       THEN /\ Representable(Order(w), PriceOf[event[w]])
            /\ step' = [step EXCEPT ![w] = "check"]
            /\ UNCHANGED verdict
       ELSE Decide(w, ReasonOf[event[w]])
  /\ UNCHANGED <<vars, event, written, client>>

\* It finds no order, or one that is resolved.
SkipOrder(w) ==
  /\ step[w] = "order"
  /\ ~IsCreated(Order(w))
  /\ Acquire(w)
  /\ Decide(w, "skip")
  /\ UNCHANGED <<vars, event, written, client>>

\* `price * qty` panics: the transaction is dropped, which rolls it back.
Panic(w) ==
  /\ step[w] = "order"
  /\ Granted(w)
  /\ IsCreated(Order(w)) /\ IsQuote(event[w])
  /\ ~Representable(Order(w), PriceOf[event[w]])
  /\ End(w)
  /\ UNCHANGED <<vars, client>>

\* Mutant: the balance and the quantity are read without FOR UPDATE.
CheckUnlocked(w) ==
  /\ step[w] = "check"
  /\ UNCHANGED locks
  /\ LET o == Order(w) IN
       IF orders[o].side = "BUY"
         THEN Decide(w, IF Affordable(o, PriceOf[event[w]])
                          THEN "execute" ELSE "INSUFFICIENT_BALANCE")
         ELSE Decide(w, IF Covered(o) THEN "execute" ELSE "INSUFFICIENT_ASSET")
  /\ UNCHANGED <<vars, event, written, client>>

\* SELECT cash_balance ... FOR UPDATE, or SELECT quantity ... FOR UPDATE, and
\* the comparison that follows.
Check(w) ==
  /\ step[w] = "check"
  /\ Acquire(w)
  /\ LET o == Order(w) IN
       IF orders[o].side = "BUY"
         THEN Decide(w, IF Affordable(o, PriceOf[event[w]])
                          THEN "execute" ELSE "INSUFFICIENT_BALANCE")
         ELSE Decide(w, IF Covered(o) THEN "execute" ELSE "INSUFFICIENT_ASSET")
  /\ UNCHANGED <<vars, event, written, client>>

\* What the two statements of a settlement write.
Settlement(o, p) ==
  IF orders[o].side = "BUY"
    THEN [cash |-> ToColumn(Scale * cash[Owner(o)] - Value(o, p)),
          quantity |-> Held(Position(o)) + orders[o].quantity]
    ELSE [cash |-> ToColumn(Scale * cash[Owner(o)] + Value(o, p)),
          quantity |-> Held(Position(o)) - orders[o].quantity]

\* Mutant: a purchase's holding is written on the pool, not in the transaction.
SettleHoldingOutside(w) ==
  /\ step[w] = "settle"
  /\ Acquire(w)
  /\ written' = [written EXCEPT ![w] = Settlement(Order(w), PriceOf[event[w]])]
  /\ step' = [step EXCEPT ![w] = "commit"]
  /\ IF orders[Order(w)].side = "BUY"
       THEN holdings' = Put(holdings, Position(Order(w)), written'[w].quantity)
       ELSE UNCHANGED holdings
  /\ UNCHANGED <<users, cash, orders, processed, startup, event, verdict, client>>

\* The two rows are written, the second of which may be locked by another
\* transaction: a BUY comes from the portfolio to the holding, a SELL from the
\* holding to the portfolio.
Settle(w) ==
  /\ step[w] = "settle"
  /\ Acquire(w)
  /\ written' = [written EXCEPT ![w] = Settlement(Order(w), PriceOf[event[w]])]
  /\ step' = [step EXCEPT ![w] = "commit"]
  /\ UNCHANGED <<vars, event, verdict, client>>

\* mark_executed or mark_rejected, whose row is locked, and COMMIT.
Commit(w) ==
  /\ step[w] = "commit"
  /\ MarkProcessed(event[w])
  /\ \/ /\ verdict[w] = "skip"
        /\ UNCHANGED <<cash, holdings, orders>>
     \/ /\ verdict[w] \in RejectionReason
        /\ MarkRejected(Order(w), verdict[w])
        /\ UNCHANGED <<cash, holdings>>
     \/ /\ verdict[w] = "execute"
        /\ cash' = [cash EXCEPT ![Owner(Order(w))] = written[w].cash]
        /\ holdings' = Put(holdings, Position(Order(w)), written[w].quantity)
        /\ MarkExecuted(Order(w), PriceOf[event[w]])
  /\ End(w)
  /\ UNCHANGED <<users, startup, client>>

\* A statement fails, the connection is lost, the process dies.
Rollback(w) ==
  /\ step[w] # "idle"
  /\ End(w)
  /\ UNCHANGED <<vars, client>>

\* w waits in a circle: every member of S waits for one, and is waited for by one.
Deadlocked(w) ==
  \E S \in SUBSET Workers :
    /\ w \in S
    /\ \A x \in S : \E y \in S : Blocks(y, x)
    /\ \A x \in S : \E y \in S : Blocks(x, y)

\* After deadlock_timeout Postgres cancels a statement of the circle; the handler
\* gets an error and the transaction is rolled back.
DeadlockVictim(w) ==
  /\ Deadlocked(w)
  /\ End(w)
  /\ UNCHANGED <<vars, client>>

-----------------------------------------------------------------------------
(***************************************************************************)
(* get_order and get_portfolio: statements that see committed rows only.   *)
(***************************************************************************)
GetOrder(o) ==
  /\ client.asked = Null
  /\ o \in DOMAIN orders /\ orders[o].status = "EXECUTED"
  /\ client' = [client EXCEPT !.told = @ \cup {o}]
  /\ UNCHANGED <<vars, txVars>>

ReadBalance(u) ==
  /\ client.asked = Null
  /\ u \in DOMAIN cash
  /\ client' = [client EXCEPT !.asked = u, !.cash = cash[u]]
  /\ UNCHANGED <<vars, txVars>>

\* The second statement of get_portfolio, outside any transaction.
ReadHoldings ==
  /\ client.asked # Null /\ client.answer = Null
  /\ LET keys == {k \in DOMAIN holdings : k[1] = client.asked /\ holdings[k] > 0}
     IN client' = [client EXCEPT !.answer = [k \in keys |-> holdings[k]]]
  /\ UNCHANGED <<vars, txVars>>

-----------------------------------------------------------------------------
\* The next statement of a transaction; it waits while Granted is FALSE.
Statement(w) ==
  \/ SkipDuplicate(w) \/ MarkEvent(w)
  \/ LockOrder(w) \/ SkipOrder(w) \/ Panic(w)
  \/ Check(w) \/ Settle(w) \/ Commit(w)

TxNext ==
  \/ \E o \in OrderIds, req \in Requests : Place(o, req)
  \/ \E w \in Workers, e \in EventIds : Begin(w, e)
  \/ \E w \in Workers : Statement(w) \/ Rollback(w) \/ DeadlockVictim(w)
  \/ \E o \in OrderIds : GetOrder(o)
  \/ \E u \in Users : ReadBalance(u)
  \/ ReadHoldings

\* A statement runs, and one that waits for a lock gets it in its turn; Postgres
\* looks for deadlocks.  Nobody is obliged to begin, to fail or to ask.
TxFairness ==
  /\ \A w \in Workers : SF_allVars(Statement(w))
  /\ WF_allVars(\E w \in Workers : DeadlockVictim(w))

TxSpec == TxInit /\ [][TxNext]_allVars /\ TxFairness

-----------------------------------------------------------------------------
(***************************************************************************)
(* What must hold.                                                         *)
(***************************************************************************)

\* The committed state is a state of PortfolioStore; a transaction has an event
\* from Begin to End, a verdict once it has decided, and no lock but then.
TxTypeOK ==
  /\ TypeOK
  /\ step \in [Workers -> Steps]
  /\ \A w \in Workers :
       /\ step[w] = "idle" <=> event[w] = Null
       /\ step[w] # "idle" => event[w] \in EventIds
       /\ step[w] \in {"settle", "commit"} <=> verdict[w] # Null
       /\ step[w] = "settle" => verdict[w] = "execute"
       /\ step[w] \in {"idle", "ledger"} => locks[w] = {}
  /\ client.told \subseteq OrderIds

\* What a handler found out statement by statement is still so when it commits, whatever
\* others committed in between: its event is new, its order as open as it was, the
\* balance or the position on the side of the value where the comparison put it.
Found(w) ==
  /\ step[w] \in {"order", "check", "settle", "commit"} => event[w] \notin processed
  /\ verdict[w] = "skip" => ~IsCreated(Order(w))
  /\ step[w] = "check" \/ verdict[w] \notin {Null, "skip"} => IsCreated(Order(w))
  /\ verdict[w] = "execute" =>
       IF orders[Order(w)].side = "BUY"
         THEN Affordable(Order(w), PriceOf[event[w]])
         ELSE Covered(Order(w))
  /\ verdict[w] = "INSUFFICIENT_BALANCE" /\ IsQuote(event[w]) =>
       ~Affordable(Order(w), PriceOf[event[w]])

FindingsHold == \A w \in Workers : Found(w)

\* The row that the comparison of w read.
CheckedRow(w) ==
  IF orders[Order(w)].side = "BUY"
    THEN PortfolioEntry(Owner(Order(w)))
    ELSE HoldingEntry(Position(Order(w)))

\* "row-level locks ... prevents double-spend across concurrent in-flight orders"
\* (README): two transactions have never both decided to spend from one balance, or
\* from one position, while neither has committed.
NoDoubleSpend ==
  \A v, w \in Workers :
    v # w /\ verdict[v] = "execute" /\ verdict[w] = "execute" =>
      CheckedRow(v) # CheckedRow(w)

\* A SELL that found no row of its position has locked none: a BUY may commit the
\* first purchase of the symbol before the rejection commits.  The outcome is that
\* of the SELL coming first.
RejectPhantomSell(w) ==
  /\ step[w] = "commit"
  /\ verdict[w] = "INSUFFICIENT_ASSET"
  /\ HoldingEntry(Position(Order(w))) \notin locks[w]
  /\ Actionable(Order(w), event[w])
  /\ orders[Order(w)].side = "SELL"
  /\ MarkRejected(Order(w), verdict[w])
  /\ MarkProcessed(event[w])
  /\ UNCHANGED <<users, cash, holdings, startup>>

\* "All within one transaction": the statements of concurrent transactions, their
\* rollbacks, deadlocks and repeated deliveries amount to steps of PortfolioStore
\* in the order of their commits, each event and each order once; the one exception
\* is a SELL rejected on a position that had no row when it looked.
ImplementsStore == [][Next \/ \E w \in Workers : RejectPhantomSell(w)]_vars

\* Although a BUY and a SELL of one position lock their two rows in opposite order,
\* no transaction waits for ever: the handler always comes to an end.
TransactionsEnd == \A w \in Workers : step[w] # "idle" ~> step[w] = "idle"

Net(S, amount(_)) ==
  MapThenSumSet(amount, {o \in S : orders[o].side = "BUY"})
    - MapThenSumSet(amount, {o \in S : orders[o].side = "SELL"})

\* What u owns once the orders S have been executed, where values need no rounding.
BalanceAfter(S) == StartingCash - Net(S, LAMBDA o : Value(o, orders[o].price))
HoldingAfter(S, k) ==
  Seeded(k) + Net({o \in S : Position(o) = k}, LAMBDA o : orders[o].quantity)

\* GET /portfolio reads cash and holdings in two statements, and a settlement may
\* come between them.  What a client gets is still explained by executed orders,
\* the cash by some of them and the holdings by those and perhaps more, and none is
\* missing of which GET /orders had told the client that it was executed.
PortfolioShowsWhatWasTold ==
  client.answer # Null =>
    LET mine == {o \in Executed : Owner(o) = client.asked} IN
    \E S \in SUBSET mine : \E T \in SUBSET mine :
      /\ client.told \cap mine \subseteq S /\ S \subseteq T
      /\ client.cash = BalanceAfter(S)
      /\ \A k \in {client.asked} \X RawSymbols :
           HoldingAfter(T, k) =
             IF k \in DOMAIN client.answer THEN client.answer[k] ELSE 0
=============================================================================
