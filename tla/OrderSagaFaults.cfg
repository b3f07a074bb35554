\* Every call may fail: what the topics and the rows still say.
SPECIFICATION Spec
CONSTANTS
  demo = demo
  o1 = o1
  o2 = o2
  Users = {demo}
  DemoUser = demo
  Accounts = {}
  RawSymbols <- MCSymbols
  Normalize <- MCNormalize
  EmptySymbol = ""
  DemoSymbol = "BTC"
  Requests <- Buys
  OrderIds = {o1, o2}
  Prices = {1, 2}
  Scale = 1
  StartingCash = 1
  StartingHolding = 1
  MaxDecimal = 1
  Null = Null
  Partitions = {1}
  PartitionOf <- MCPartitionOf
  Listed = {"BTC"}
  FailSets <- MayFail
  Faults = {"intake send", "market send", "portfolio send", "database"}
  MaxRestarts = 1
  Idle = Idle
SYMMETRY Symmetry
PROPERTIES
  ImplementsLifecycleSafety
  OutcomeLostOnlyInGap
CHECK_DEADLOCK FALSE
