\* Nothing fails and nothing restarts: what one consumer of four topics may list.
SPECIFICATION AuditSpec
CONSTANTS
  demo = demo
  o1 = o1
  Users = {demo}
  DemoUser = demo
  Accounts = {}
  RawSymbols <- MCSymbols
  Normalize <- MCNormalize
  EmptySymbol = ""
  DemoSymbol = "BTC"
  Requests <- Buys
  OrderIds = {o1}
  Prices = {1}
  Scale = 1
  StartingCash = 1
  StartingHolding = 1
  MaxDecimal = 2
  Null = Null
  Partitions = {1}
  PartitionOf <- MCPartitionOf
  Listed = {"BTC"}
  FailSets <- NeverFails
  Faults = {}
  MaxRestarts = 0
  Idle = Idle
  MaxDisruptions = 0
  MaxErrors = 0
INVARIANT CreationComesFirst
CHECK_DEADLOCK FALSE
