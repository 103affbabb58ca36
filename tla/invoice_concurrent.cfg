\* Two threads, every operation, crashes anywhere.
SPECIFICATION Spec
CONSTANTS
  MaxInvoice = 2
  MaxNumber = 3
  MaxItems = 1
  Amount = {1}
  FirstNumber = 1
  Thread = {t1, t2}
  ItemList <- OneItem
  EditStatus = {"Paid"}
  EditDue = {""}
  Op = {"post", "put", "delete", "overdue"}
  CrashPoint <- Anywhere
  NoInvoice = NoInvoice
SYMMETRY Symmetry
INVARIANTS TypeOK OnlyWholeInvoicesOnDisk RemovedStaysRemoved DurableWhenNoCreate
CHECK_DEADLOCK FALSE
