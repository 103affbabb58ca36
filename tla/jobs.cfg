\* Two threads, two jobs, one of them recurring if the file had one.
SPECIFICATION Spec
CONSTANTS
  MaxJob = 2
  Customer = {1}
  Named = {0, 1}
  Status = {""}
  Thread = {t1, t2}
  NoJob = NoJob
  Unsure = Unsure
SYMMETRY Symmetry
INVARIANTS TypeOK
PROPERTIES MarksOutliveEdits KeepsJobBook
CHECK_DEADLOCK FALSE
