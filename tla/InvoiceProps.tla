---------------------------- MODULE InvoiceProps ----------------------------
(***************************************************************************)
(* What the billing part must guarantee (module Invoices).                 *)
(***************************************************************************)
EXTENDS Invoices

(* What is on disk implements the ledger as long as one handler runs at a  *)
(* time and no crash cuts InvoiceStore::update: its statements, committed  *)
(* one by one, show the invoice with the items still to be put back.       *)
ItemsOnDisk(i) ==
  LET inHand == {t \in Thread : h[t].cur = i /\ h[t].pc \in {"clear", "refill"}}
  IN IF inHand = {} THEN disk.items[i]
     ELSE LET t == CHOOSE t \in inHand : TRUE
          IN IF h[t].pc = "clear" THEN h[t].rest
             ELSE disk.items[i] \o h[t].rest

Lines == [i \in Id |-> ItemsOnDisk(i)]

Ledger == INSTANCE InvoiceLedger WITH
  Number <- 0 .. MaxNumber, Total <- [items \in ItemList |-> Sum(items)],
  book <- disk.rows, lines <- Lines, lastId <- disk.lastId

KeepsLedger == Ledger!LSpec

(* Every 201 names an invoice that was stored, and numbers grow with ids:  *)
(* docs/BILLING.md, "Invoice numbers are generated sequentially", and      *)
(* docs/SUPPORT.md, "the counter resumes from the last issued number".     *)
NumberedInSequence ==
  /\ \A a \in answers : a.id # 0
  /\ \A a, b \in answers : a.id < b.id => a.num < b.num

(* Whatever crash cuts whichever handlers, no half-written invoice is on   *)
(* disk: add's INSERT ... RETURNING keeps its transaction open until all   *)
(* items are in.  Invoices an update has written are another matter.       *)
OnlyWholeInvoicesOnDisk ==
  \A i \in Id : disk.rows[i] # NoInvoice /\ i \notin touched =>
    disk.rows[i].total = Sum(disk.items[i])

(* While the process lives, an invoice whose DELETE was answered stays     *)
(* gone, row and items, whatever edits and overdue checks had read it.     *)
RemovedStaysRemoved ==
  \A i \in removed : db.rows[i] = NoInvoice /\ db.items[i] = <<>>

(* A write is lost to a crash only while some create is under way: with no *)
(* INSERT ... RETURNING open, all that the handlers see is on disk.        *)
DurableWhenNoCreate == open = {} => disk = db

-----------------------------------------------------------------------------
(* The inductive invariant behind them (proved in InvoiceProofs).          *)

(* Ids above the counter were never used; items belong to invoices.        *)
WellFilled(tables) ==
  \A i \in Id :
    /\ i > tables.lastId => tables.rows[i] = NoInvoice
    /\ tables.rows[i] = NoInvoice => tables.items[i] = <<>>

Adding(t, i) == h[t].pc = "add" /\ h[t].cur = i

(* Handlers hold what their next statement needs: an add its statement and *)
(* an invoice of its own, an update the id of an invoice it has touched.   *)
HandlersInOrder ==
  \A t \in Thread :
    /\ h[t].pc \in {"number", "insert"} => h[t].cur = 0 /\ h[t].rest \in List
    /\ h[t].pc \in {"clear", "refill"} => h[t].cur \in touched
    /\ h[t].pc = "add" /\ h[t].cur # 0 =>
         /\ t \in open /\ h[t].cur <= db.lastId
         /\ \A u \in Thread : Adding(u, h[t].cur) => u = t

(* What an invoice lacks of its items is in the hands of its add.          *)
WholeOrAdding ==
  \A i \in Id : Exists(i) /\ i \notin touched =>
    /\ \A t \in Thread :
         Adding(t, i) => db.rows[i].total = Sum(db.items[i] \o h[t].rest)
    /\ (\A t \in Thread : ~Adding(t, i)) =>
         db.rows[i].total = Sum(db.items[i])

RemovedWereUsed == \A i \in removed : i <= db.lastId

IndInv ==
  /\ TypeOK
  /\ WellFilled(db) /\ WellFilled(disk)
  /\ HandlersInOrder
  /\ WholeOrAdding /\ OnlyWholeInvoicesOnDisk
  /\ DurableWhenNoCreate
  /\ RemovedWereUsed /\ RemovedStaysRemoved

-----------------------------------------------------------------------------
(* What KeepsLedger rests on besides, while one handler runs at a time.    *)

OpenIsAdd(t) == t \in open => h[t].pc = "add" /\ h[t].cur # 0

PostInHand(t) ==
  /\ h[t].pc \in {"number", "insert"} => h[t].rest \in ItemList
  /\ h[t].pc \in {"number", "insert", "add"} => h[t].num \in 0 .. MaxNumber

(* The invoice of an add is all that is not on disk yet.                   *)
Awaited(t, items) ==
  LET i == h[t].cur
  IN  /\ i = disk.lastId + 1 /\ db.lastId = i
      /\ db.rows[i] = [num |-> h[t].num, status |-> "Pending",
                       due |-> h[t].due, total |-> Sum(items)]
      /\ db.items[i] \o h[t].rest = items
      /\ \A j \in Id : /\ j # i => /\ db.rows[j] = disk.rows[j]
                                   /\ db.items[j] = disk.items[j]
                       /\ disk.rows[j] # NoInvoice =>
                            disk.rows[j].num # h[t].num
NewInHand(t) ==
  h[t].pc = "add" /\ h[t].cur # 0 => \E items \in ItemList : Awaited(t, items)

(* What an update is to write is one of the ledger's changes to the        *)
(* invoice as it still is, items included.                                 *)
Change(s) ==
  \/ \E status \in EditStatus, due \in EditDue :
       s.row = Edited(db.rows[s.id], status, due)
  \/ /\ Lapsed(db.rows[s.id])
     /\ s.row = [db.rows[s.id] EXCEPT !.status = "Overdue"]

SnapshotsCurrent(t) ==
  h[t].pc \in {"scan", "clear", "refill"} =>
    /\ \A s \in h[t].scan \cup h[t].found :
         /\ Exists(s.id) /\ Change(s)
         /\ \A r \in h[t].scan \cup h[t].found : r.id = s.id => r = s
    /\ \A s \in h[t].found : s.items = db.items[s.id]
    /\ h[t].pc # "scan" =>
         /\ Exists(h[t].cur) /\ h[t].scan = {}
         /\ \A s \in h[t].found : s.id # h[t].cur

TotalsShown ==
  \A i \in Id : disk.rows[i] # NoInvoice =>
    disk.rows[i].total = Sum(ItemsOnDisk(i))

LedgerInv ==
  /\ TotalsShown
  /\ \A t \in Thread :
       OpenIsAdd(t) /\ PostInHand(t) /\ NewInHand(t) /\ SnapshotsCurrent(t)

=============================================================================
