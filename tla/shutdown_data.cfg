\* A client that writes while another asks for a shutdown.
SPECIFICATION FairSpec
CONSTANTS
  Client = {c1, c2}
  Closer = {s1}
  CloseWakes = TRUE
INVARIANTS AnswersAreSaved
CHECK_DEADLOCK FALSE
