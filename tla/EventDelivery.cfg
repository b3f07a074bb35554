\* Handlers that may fail, lost commits, restarts and rejoins.
SPECIFICATION Spec
CONSTANTS
  Streams = {s1, s2}
  Idle = Idle
  Events = {event}
  MaxLog = 3
  MaxDisruptions = 2
  MaxErrors = 2
INVARIANTS
  TypeOK
  CommittedImpliesTried
  TriedInOrder
PROPERTY EventuallyTried
CHECK_DEADLOCK FALSE
