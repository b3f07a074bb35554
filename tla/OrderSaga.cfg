\* Restarts and rejoins, no failing call: two orders on one partition.
SPECIFICATION Spec
CONSTANTS
  demo = demo
  o1 = o1
  o2 = o2
  Users = {demo}
  DemoUser = demo
  Accounts = {}
  RawSymbols <- MCSymbols
  Normalize <- MCNormalize
  EmptySymbol = ""
  DemoSymbol = "BTC"
  Requests <- Buys
  OrderIds = {o1, o2}
  Prices = {1, 2}
  Scale = 1
  StartingCash = 1
  StartingHolding = 1
  MaxDecimal = 2
  Null = Null
  Partitions = {1}
  PartitionOf <- MCPartitionOf
  Listed = {"BTC"}
  FailSets <- MayFail
  Faults = {}
  MaxRestarts = 2
  Idle = Idle
SYMMETRY Symmetry
INVARIANTS
  TypeOK
  ExecutionAnnouncedOnce
  FirstQuoteWins
  CommittedIsProcessed
CHECK_DEADLOCK FALSE
