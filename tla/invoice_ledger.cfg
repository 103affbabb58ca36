\* One handler at a time, every operation, crashes outside updates.
SPECIFICATION Spec
CONSTANTS
  MaxInvoice = 2
  MaxNumber = 3
  MaxItems = 2
  Amount = {1, 2}
  FirstNumber = 1
  Thread = {t1}
  ItemList <- NoneOrTwo
  EditStatus = {"", "Paid"}
  EditDue = {"", "later"}
  Op = {"post", "put", "delete", "overdue"}
  CrashPoint <- OutsideUpdates
  NoInvoice = NoInvoice
SYMMETRY Symmetry
CHECK_DEADLOCK FALSE
PROPERTIES KeepsLedger
