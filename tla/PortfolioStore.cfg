\* Every operation of the portfolio database, three orders and three events.
SPECIFICATION Spec
CONSTANTS
  demo = demo
  alice = alice
  bob = bob
  Users <- MCUsers
  DemoUser = demo
  Accounts <- MCAccounts
  RawSymbols <- MCRawSymbols
  Normalize <- MCNormalize
  EmptySymbol = ""
  DemoSymbol = "BTC"
  Requests <- MCRequests
  OrderIds = {o1, o2, o3}
  EventIds = {e1, e2, e3}
  Prices = {1, 4}
  Scale = 3
  StartingCash = 2
  StartingHolding = 1
  MaxDecimal = 8
  Null = Null
SYMMETRY Symmetry
INVARIANTS
  TypeOK
  Solvent
  HoldingsMatchTrades
  CashTracksTrades
  EveryResolutionLogged
PROPERTIES
  TerminalIsFinal
  MoneyMovesOnlyBySettlement
