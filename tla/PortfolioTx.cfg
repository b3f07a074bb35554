\* Two transactions at once, two orders of one user.
SPECIFICATION TxSpec
CONSTANTS
  demo = demo
  o1 = o1
  o2 = o2
  q1 = q1
  q2 = q2
  q3 = q3
  r2 = r2
  Users = {demo}
  DemoUser = demo
  Accounts = {}
  RawSymbols <- MCSymbols
  Normalize <- MCNormalize
  EmptySymbol = ""
  DemoSymbol = "BTC"
  Requests <- MCRequests
  OrderIds = {o1, o2}
  EventIds = {q1, q2, q3, r2}
  Prices = {1, 2, 3}
  Scale = 1
  StartingCash = 2
  StartingHolding = 1
  MaxDecimal = 2
  Null = Null
  Workers = {w1, w2}
  OrderOf <- MCOrderOf
  PriceOf <- MCPriceOf
  ReasonOf <- MCReasonOf
INVARIANTS
  TxTypeOK
  Solvent
  FindingsHold
  NoDoubleSpend
  PortfolioShowsWhatWasTold
PROPERTIES
  ImplementsStore
  TransactionsEnd
