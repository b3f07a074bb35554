\* A symbol of blanks passes NewOrder::validate.
SPECIFICATION Spec
CONSTANTS
  demo = demo
  alice = alice
  bob = bob
  Users <- MCUsers
  DemoUser = demo
  Accounts <- MCAccounts
  RawSymbols <- MCRawSymbols
  Normalize <- MCNormalize
  EmptySymbol = ""
  DemoSymbol = "BTC"
  Requests <- MCRequests
  OrderIds = {o1}
  EventIds = {e1}
  Prices = {1, 4}
  Scale = 3
  StartingCash = 2
  StartingHolding = 1
  MaxDecimal = 8
  Null = Null
SYMMETRY Symmetry
INVARIANT OrdersHaveSymbols
