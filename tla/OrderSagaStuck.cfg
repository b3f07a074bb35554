\* A price and a quantity whose product no Decimal holds, and no failing call: the order stays CREATED.
SPECIFICATION Spec
CONSTANTS
  demo = demo
  o1 = o1
  o2 = o2
  Users = {demo}
  DemoUser = demo
  Accounts = {}
  RawSymbols <- MCSymbols
  Normalize <- MCNormalize
  EmptySymbol = ""
  DemoSymbol = "BTC"
  Requests <- Buys
  OrderIds = {o1}
  Prices = {2}
  Scale = 1
  StartingCash = 1
  StartingHolding = 1
  MaxDecimal = 1
  Null = Null
  Partitions = {1}
  PartitionOf <- MCPartitionOf
  Listed = {"BTC"}
  FailSets <- NeverFails
  Faults = {}
  MaxRestarts = 1
  Idle = Idle
PROPERTY AcceptedIsResolved
CHECK_DEADLOCK FALSE
