------------------------------ MODULE Invoices ------------------------------
(***************************************************************************)
(* Invoices: InvoiceStore (src/src/invoice_store.cpp) and the handlers     *)
(* that use it (POST, PUT and DELETE /api/invoices and check-overdue in    *)
(* src/src/router.cpp), run by connection threads that interleave between  *)
(* any two SQL statements: nothing but SQLite's own per-call lock          *)
(* serialises them.                                                        *)
(*                                                                         *)
(* All threads share one connection, so a statement sees what every other  *)
(* thread has written, committed or not.  A write commits when its         *)
(* statement ends unless another write statement is still open; the        *)
(* INSERT ... RETURNING of InvoiceStore::add stays open until its items    *)
(* are in.  "db" is what the connection sees, "disk" what a crash leaves.  *)
(*                                                                         *)
(* Money is whole units and the tax, a constant factor of the subtotal, is *)
(* left out: total stands for subtotal, tax_amount and total together.     *)
(***************************************************************************)
EXTENDS Naturals, Sequences, FiniteSets, SequencesExt

CONSTANTS
  MaxInvoice,   \* bound: invoice ids ever used
  MaxNumber,    \* bound: the counter of invoice numbers
  MaxItems,     \* bound: the items a POST carries and a snapshot is read with
  Amount,       \* what an item may cost
  FirstNumber,  \* app.next_invoice_number
  Thread,
  ItemList,     \* the lists of item amounts a POST may carry
  EditStatus,   \* the statuses a PUT may carry; "" leaves the status alone
  EditDue,      \* the due dates a PUT may carry; "" leaves the date alone
  Op,           \* the operations clients use
  CrashPoint,   \* where the process may die: the handler states it may cut
  NoInvoice

Id == 1 .. MaxInvoice
Status == {"Pending", "Paid", "Overdue"}
Due == {"past", "later"}
Blank == ""  \* a field the body leaves out

Row == [num : Nat, status : Status, due : Due, total : Nat]

(* The items of an invoice are the rows of invoice_items in id order.      *)
List == UNION {[1 .. n -> Amount] : n \in 0 .. MaxItems}

Sum(s) == FoldSeq(+, 0, s)

ASSUME InvoicesAssumption ==
  /\ MaxInvoice \in Nat /\ MaxNumber \in Nat /\ MaxItems \in Nat
  /\ FirstNumber \in Nat
  /\ ItemList \subseteq List
  /\ \A s \in List : Sum(s) \in Nat
  /\ EditStatus \subseteq Status \cup {Blank}
  /\ EditDue \subseteq Due \cup {Blank}
  /\ Op \subseteq {"post", "put", "delete", "overdue"}
  /\ NoInvoice \notin Row

VARIABLES
  db,       \* tables invoices and invoice_items, and the AUTOINCREMENT id
  disk,     \* the same, as last committed
  nextNum,  \* the counter POST's lambda captured
  open,     \* threads whose INSERT ... RETURNING is still open
  h,        \* what each connection thread's handler is doing
  answers,  \* history: number and id of every 201 this process sent
  removed,  \* history: ids of the invoices whose DELETE it answered
  touched   \* history: ids of the invoices an update has written

vars == <<db, disk, nextNum, open, h, answers, removed, touched>>

Tables == [rows : [Id -> Row \cup {NoInvoice}], items : [Id -> Seq(Amount)],
           lastId : 0 .. MaxInvoice]

Snapshot == [id : Id, row : Row, items : List]

(* scan:  snapshots whose items are still to be read, found: those read    *)
(* in full, cur: the one being written, rest: items still to be inserted,  *)
(* num: a POST's number, due: its due date.                                *)
Idle == [pc |-> "idle", scan |-> {}, found |-> {}, cur |-> 0, rest |-> <<>>,
         num |-> 0, due |-> "later"]

Handler == [pc : {"idle", "scan", "clear", "refill", "number", "insert", "add"},
            scan : SUBSET Snapshot, found : SUBSET Snapshot,
            cur : 0 .. MaxInvoice, rest : Seq(Amount), num : Nat, due : Due]

TypeOK ==
  /\ db \in Tables /\ disk \in Tables
  /\ nextNum \in Nat
  /\ open \subseteq Thread
  /\ h \in [Thread -> Handler]
  /\ answers \subseteq [num : Nat, id : 0 .. MaxInvoice]
  /\ removed \subseteq Id /\ touched \subseteq Id

Exists(i) == i \in Id /\ db.rows[i] # NoInvoice

Empty == [rows |-> [i \in Id |-> NoInvoice], items |-> [i \in Id |-> <<>>],
          lastId |-> 0]

Init ==
  /\ db = Empty /\ disk = Empty
  /\ nextNum = FirstNumber
  /\ open = {}
  /\ h = [t \in Thread |-> Idle]
  /\ answers = {} /\ removed = {} /\ touched = {}

(* A write statement ends: it commits unless another one is still open.    *)
Commit_Early(tables, writers) == tables  \* mutant: open statements ignored
Commit_Never(tables, writers) == disk  \* mutant: a transaction begun, not ended
Commit(tables, writers) == IF writers = {} THEN tables ELSE disk

Write(tables) ==
  /\ db' = tables
  /\ disk' = Commit(tables, open)

Goto(t, state) == h' = [h EXCEPT ![t] = state]

-----------------------------------------------------------------------------
(* InvoiceStore::update, three statements and more, each committed by      *)
(* itself; shared by PUT and check-overdue, which hand it a snapshot that  *)
(* find() or all() read in two statements and that nothing locks.          *)

LoadItems(t) ==
  /\ h[t].pc = "scan"
  /\ \E s \in h[t].scan :
       /\ Len(db.items[s.id]) <= MaxItems
       /\ Goto(t, [h[t] EXCEPT !.scan = @ \ {s},
                   !.found = @ \cup {[s EXCEPT !.items = db.items[s.id]]}])
  /\ UNCHANGED <<db, disk, nextNum, open, answers, removed, touched>>

(* UPDATE invoices: the whole row but its number, the total recomputed     *)
(* from the items of the snapshot.                                         *)
UpdatedRow(row, s) ==
  [s.row EXCEPT !.num = row.num, !.total = Sum(s.items)]

UpdateRow(t) ==
  /\ h[t].pc = "scan" /\ h[t].scan = {}
  /\ \E s \in h[t].found :
       /\ Write(IF Exists(s.id)
                  THEN [db EXCEPT !.rows[s.id] = UpdatedRow(@, s)] ELSE db)
       /\ Goto(t, [h[t] EXCEPT !.pc = "clear", !.found = @ \ {s},
                                !.cur = s.id, !.rest = s.items])
       /\ touched' = touched \cup {s.id}
  /\ UNCHANGED <<nextNum, open, answers, removed>>

DeleteItems(t) ==
  /\ h[t].pc = "clear"
  /\ Write([db EXCEPT !.items[h[t].cur] = <<>>])
  /\ Goto(t, [h[t] EXCEPT !.pc = "refill"])
  /\ UNCHANGED <<nextNum, open, answers, removed, touched>>

(* The foreign key refuses an item of an invoice that is gone; step() does *)
(* not report it.                                                          *)
WithItem_NoKey(i, a) ==  \* mutant: foreign keys are off
  IF i \in Id THEN [db EXCEPT !.items[i] = Append(@, a)] ELSE db
WithItem(i, a) ==
  IF Exists(i) THEN [db EXCEPT !.items[i] = Append(@, a)] ELSE db

InsertItem(t) ==
  /\ h[t].pc = "refill" /\ h[t].rest # <<>>
  /\ Write(WithItem(h[t].cur, Head(h[t].rest)))
  /\ Goto(t, [h[t] EXCEPT !.rest = Tail(@)])
  /\ UNCHANGED <<nextNum, open, answers, removed, touched>>

Written(t) ==
  /\ h[t].pc = "refill" /\ h[t].rest = <<>>
  /\ Goto(t, [h[t] EXCEPT !.pc = "scan", !.cur = 0])
  /\ UNCHANGED <<db, disk, nextNum, open, answers, removed, touched>>

Answer(t) ==
  /\ h[t].pc = "scan" /\ h[t].scan = {} /\ h[t].found = {}
  /\ Goto(t, Idle)
  /\ UNCHANGED <<db, disk, nextNum, open, answers, removed, touched>>

-----------------------------------------------------------------------------
(* PUT /api/invoices/:id reads the row, and keeps what the body leaves     *)
(* empty; 404 when there is none.                                          *)
Begin(t, op) == op \in Op /\ h[t].pc = "idle"

Edited_Blank(row, status, due) ==  \* mutant: empty fields overwrite
  [row EXCEPT !.status = status, !.due = due]
Edited(row, status, due) ==
  [row EXCEPT !.status = IF status = Blank THEN @ ELSE status,
              !.due = IF due = Blank THEN @ ELSE due]

Put(t, i) ==
  /\ Begin(t, "put")
  /\ Exists(i)
  /\ \E status \in EditStatus, due \in EditDue :
       Goto(t, [Idle EXCEPT !.pc = "scan",
                 !.scan = {[id |-> i, row |-> Edited(db.rows[i], status, due),
                            items |-> <<>>]}])
  /\ UNCHANGED <<db, disk, nextNum, open, answers, removed, touched>>

(* POST /api/invoices/check-overdue reads every row; of the snapshots it   *)
(* loads, only those pending and past due matter afterwards.               *)
Lapsed_Any(row) == row.due = "past"  \* mutant: the status is not looked at
Lapsed(row) == row.status = "Pending" /\ row.due = "past"

CheckOverdue(t) ==
  /\ Begin(t, "overdue")
  /\ Goto(t, [Idle EXCEPT !.pc = "scan",
       !.scan = {[id |-> i, row |-> [db.rows[i] EXCEPT !.status = "Overdue"],
                  items |-> <<>>] : i \in {j \in Id : Exists(j)
                                            /\ Lapsed(db.rows[j])}}])
  /\ UNCHANGED <<db, disk, nextNum, open, answers, removed, touched>>

(* DELETE /api/invoices/:id, one statement; items go with it (CASCADE).    *)
Delete(t, i) ==
  /\ Begin(t, "delete")
  /\ Exists(i)
  /\ Write([db EXCEPT !.rows[i] = NoInvoice, !.items[i] = <<>>])
  /\ removed' = removed \cup {i}
  /\ UNCHANGED <<nextNum, open, h, answers, touched>>

-----------------------------------------------------------------------------
(* POST /api/invoices.  next_num++ on the int every thread shares is a     *)
(* data race: the read and the write of another thread may fall between.   *)

PostRead(t) ==
  /\ Begin(t, "post")
  /\ nextNum < MaxNumber
  /\ \E items \in ItemList, due \in Due :
       Goto(t, [Idle EXCEPT !.pc = "number", !.num = nextNum, !.rest = items,
                             !.due = due])
  /\ UNCHANGED <<db, disk, nextNum, open, answers, removed, touched>>

PostWrite(t) ==
  /\ h[t].pc = "number"
  /\ nextNum' = h[t].num + 1
  /\ Goto(t, [h[t] EXCEPT !.pc = "insert"])
  /\ UNCHANGED <<db, disk, open, answers, removed, touched>>

(* InvoiceStore::add: a number in use breaks UNIQUE; step() returns no     *)
(* row, the id stays 0, the items go nowhere, and 201 is sent all the same.*)
InsertInvoice(t) ==
  /\ h[t].pc = "insert"
  /\ IF \E i \in Id : Exists(i) /\ db.rows[i].num = h[t].num
       THEN /\ Goto(t, [h[t] EXCEPT !.pc = "add"])
            /\ UNCHANGED <<db, open>>
       ELSE /\ db.lastId < MaxInvoice
            /\ LET i == db.lastId + 1
               IN /\ db' = [db EXCEPT !.lastId = i, !.rows[i] =
                       [num |-> h[t].num, status |-> "Pending",
                        due |-> h[t].due, total |-> Sum(h[t].rest)]]
                  /\ Goto(t, [h[t] EXCEPT !.pc = "add", !.cur = i])
            /\ open' = open \cup {t}
  /\ UNCHANGED <<disk, nextNum, answers, removed, touched>>

AddItem(t) ==
  /\ h[t].pc = "add" /\ h[t].rest # <<>>
  /\ Write(WithItem(h[t].cur, Head(h[t].rest)))
  /\ Goto(t, [h[t] EXCEPT !.rest = Tail(@)])
  /\ UNCHANGED <<nextNum, open, answers, removed, touched>>

(* The statement is finalised, everything written since it opened commits  *)
(* (if it was the last one open), and the answer goes out.                 *)
PostAnswer(t) ==
  /\ h[t].pc = "add" /\ h[t].rest = <<>>
  /\ open' = open \ {t}
  /\ disk' = Commit(db, open')
  /\ answers' = answers \cup {[num |-> h[t].num, id |-> h[t].cur]}
  /\ Goto(t, Idle)
  /\ UNCHANGED <<db, nextNum, removed, touched>>

-----------------------------------------------------------------------------
(* The process dies and is started again: uncommitted writes are gone, and *)
(* the counter restarts from the configuration file.                       *)
Restart ==
  /\ \A t \in Thread : h[t].pc \in CrashPoint
  /\ db' = disk
  /\ nextNum' = FirstNumber
  /\ open' = {} /\ answers' = {} /\ removed' = {}
  /\ h' = [t \in Thread |-> Idle]
  /\ UNCHANGED <<disk, touched>>

Step(t) ==
  \/ LoadItems(t) \/ UpdateRow(t) \/ DeleteItems(t) \/ InsertItem(t)
  \/ Written(t) \/ Answer(t)
  \/ CheckOverdue(t) \/ \E i \in Id : Put(t, i) \/ Delete(t, i)
  \/ PostRead(t) \/ PostWrite(t) \/ InsertInvoice(t) \/ AddItem(t)
  \/ PostAnswer(t)

Next == Restart \/ \E t \in Thread : Step(t)

Spec == Init /\ [][Next]_vars

=============================================================================
