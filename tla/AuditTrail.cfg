\* The trail of an order that may be quoted twice, with a lost commit and an error.
SPECIFICATION AuditSpec
CONSTANTS
  demo = demo
  o1 = o1
  Users = {demo}
  DemoUser = demo
  Accounts = {}
  RawSymbols <- MCSymbols
  Normalize <- MCNormalize
  EmptySymbol = ""
  DemoSymbol = "BTC"
  Requests <- Buys
  OrderIds = {o1}
  Prices = {1}
  Scale = 1
  StartingCash = 1
  StartingHolding = 1
  MaxDecimal = 2
  Null = Null
  Partitions = {1}
  PartitionOf <- MCPartitionOf
  Listed = {"BTC"}
  FailSets <- NeverFails
  Faults = {}
  MaxRestarts = 1
  Idle = Idle
  MaxDisruptions = 1
  MaxErrors = 1
INVARIANTS
  AuditTypeOK
  TrailIsFaithful
  PassedIsRecorded
  TopicOrderKept
  TrailAgreesWithOrders
CHECK_DEADLOCK FALSE
