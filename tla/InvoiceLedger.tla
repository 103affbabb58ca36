---------------------------- MODULE InvoiceLedger ----------------------------
(***************************************************************************)
(* The promise of the billing part: a book of invoices in which each       *)
(* operation is one step.  An invoice is issued whole, with a number no    *)
(* other invoice has; an edit may change status and due date and leaves    *)
(* items and total alone; only a pending invoice becomes overdue; a        *)
(* deleted id is never used again.                                         *)
(***************************************************************************)
EXTENDS Naturals

CONSTANTS
  Id, Number, Due, NoInvoice,
  EditStatus, EditDue,  \* what an edit may carry
  Blank,                \* the member of both that leaves a field alone
  ItemList,
  Total                 \* Total[items]: what a list of items comes to

VARIABLES
  book,   \* book[i]: number, status, due date and total of invoice i
  lines,  \* lines[i]: its items
  lastId

lvars == <<book, lines, lastId>>

Numbers == {book[i].num : i \in {j \in Id : book[j] # NoInvoice}}

LInit ==
  /\ book = [i \in Id |-> NoInvoice]
  /\ lines = [i \in Id |-> <<>>]
  /\ lastId = 0

Issue(n, items, due) ==
  /\ n \notin Numbers
  /\ lastId' = lastId + 1
  /\ book' = [book EXCEPT ![lastId + 1] =
       [num |-> n, status |-> "Pending", due |-> due, total |-> Total[items]]]
  /\ lines' = [lines EXCEPT ![lastId + 1] = items]

Revised(row, status, due) ==
  [row EXCEPT !.status = IF status = Blank THEN @ ELSE status,
              !.due = IF due = Blank THEN @ ELSE due]

Edit(i, status, due) ==
  /\ book[i] # NoInvoice
  /\ book' = [book EXCEPT ![i] = Revised(@, status, due)]
  /\ UNCHANGED <<lines, lastId>>

MarkOverdue(i) ==
  /\ book[i] # NoInvoice
  /\ book[i].status = "Pending" /\ book[i].due = "past"
  /\ book' = [book EXCEPT ![i] = [@ EXCEPT !.status = "Overdue"]]
  /\ UNCHANGED <<lines, lastId>>

Delete(i) ==
  /\ book' = [book EXCEPT ![i] = NoInvoice]
  /\ lines' = [lines EXCEPT ![i] = <<>>]
  /\ UNCHANGED lastId

LNext ==
  \/ \E n \in Number, due \in Due, items \in ItemList :
       Issue(n, items, due)
  \/ \E i \in Id, status \in EditStatus, due \in EditDue :
       Edit(i, status, due)
  \/ \E i \in Id : MarkOverdue(i) \/ Delete(i)

LSpec == LInit /\ [][LNext]_lvars

=============================================================================
