\* The send of a POST fails: a CREATED order without OrderCreated.
SPECIFICATION Spec
CONSTANTS
  demo = demo
  o1 = o1
  o2 = o2
  Users = {demo}
  DemoUser = demo
  Accounts = {}
  RawSymbols <- MCSymbols
  Normalize <- MCNormalize
  EmptySymbol = ""
  DemoSymbol = "BTC"
  Requests <- Buys
  OrderIds = {o1}
  Prices = {1}
  Scale = 1
  StartingCash = 1
  StartingHolding = 1
  MaxDecimal = 2
  Null = Null
  Partitions = {1}
  PartitionOf <- MCPartitionOf
  Listed = {"BTC"}
  FailSets <- NeverFails
  Faults = {"intake send"}
  MaxRestarts = 0
  Idle = Idle
INVARIANT CreatedIsEmitted
CHECK_DEADLOCK FALSE
