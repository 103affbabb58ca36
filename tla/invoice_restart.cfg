\* One handler at a time, a restart between two invoices.
SPECIFICATION Spec
CONSTANTS
  MaxInvoice = 2
  MaxNumber = 3
  MaxItems = 2
  Amount = {1}
  FirstNumber = 1
  Thread = {t1}
  ItemList <- OneItem
  EditStatus = {""}
  EditDue = {""}
  Op = {"post"}
  CrashPoint <- OutsideUpdates
  NoInvoice = NoInvoice
SYMMETRY Symmetry
CHECK_DEADLOCK FALSE
INVARIANTS NumberedInSequence
