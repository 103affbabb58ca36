\* Windows: three clients, two shutdown requests, a signal at any time.
SPECIFICATION FairSpec
CONSTANTS
  Client = {c1, c2, c3}
  Closer = {s1, s2}
  CloseWakes = TRUE
INVARIANTS TypeOK AtMostOneLateClient HandleClosedOnce
PROPERTIES ShutdownEnds SignalEnds
CHECK_DEADLOCK FALSE
