\* The choreography implements OrderLifecycle, liveness included: two orders on two partitions.
SPECIFICATION Spec
CONSTANTS
  demo = demo
  o1 = o1
  o2 = o2
  Users = {demo}
  DemoUser = demo
  Accounts = {}
  RawSymbols <- MCSymbols
  Normalize <- MCNormalize
  EmptySymbol = ""
  DemoSymbol = "BTC"
  Requests <- BuysListedOrNot
  OrderIds = {o1, o2}
  Prices = {1, 2}
  Scale = 1
  StartingCash = 1
  StartingHolding = 1
  MaxDecimal = 2
  Null = Null
  Partitions = {1, 2}
  PartitionOf <- TwoPartitions
  Listed = {"BTC"}
  FailSets <- NeverFails
  Faults = {}
  MaxRestarts = 1
  Idle = Idle
PROPERTY ImplementsLifecycle
CHECK_DEADLOCK FALSE
