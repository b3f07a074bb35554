\* The handler fails once: its message is passed by the next commit.
SPECIFICATION Spec
CONSTANTS
  Streams = {s1, s2}
  Idle = Idle
  Events = {event}
  MaxLog = 2
  MaxDisruptions = 1
  MaxErrors = 1
INVARIANT CommittedImpliesHandled
CHECK_DEADLOCK FALSE
