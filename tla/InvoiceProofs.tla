---------------------------- MODULE InvoiceProofs ----------------------------
(***************************************************************************)
(* Proofs about Invoices, for any numbers of invoices, threads and items,  *)
(* any amounts and operations, and crashes anywhere: type correctness, and *)
(* the three invariants of InvoiceProps about what is and stays on disk;   *)
(* and, for handlers one at a time, that the disk implements the ledger.   *)
(***************************************************************************)
EXTENDS InvoiceProps, SequenceTheorems, TLAPS

-----------------------------------------------------------------------------
(* Lists of items.                                                         *)

LEMMA ListFacts ==
  /\ <<>> \in List
  /\ \A s \in List : s \in Seq(Amount)
  /\ \A s \in Seq(Amount) : Len(s) <= MaxItems => s \in List
<1>1. 0 \in 0 .. MaxItems
  BY InvoicesAssumption
<1>2. ASSUME NEW s \in Seq(Amount), Len(s) <= MaxItems
      PROVE  s \in List
  <2>1. Len(s) \in Nat /\ s \in [1 .. Len(s) -> Amount]
    BY LenProperties
  <2>2. Len(s) \in 0 .. MaxItems
    BY <1>2, <2>1, InvoicesAssumption
  <2> DEFINE n == Len(s)
  <2> HIDE DEF n
  <2>3. s \in [1 .. n -> Amount] /\ n \in 0 .. MaxItems
    BY <2>1, <2>2 DEF n
  <2>4. QED
    BY <2>3, Zenon DEF List
<1>3. ASSUME NEW s \in List
      PROVE  s \in Seq(Amount)
  <2>1. PICK n \in 0 .. MaxItems : s \in [1 .. n -> Amount]
    BY Zenon DEF List
  <2>2. n \in Nat
    BY InvoicesAssumption
  <2>3. Seq(Amount) = UNION {[1 .. k -> Amount] : k \in Nat}
    BY SeqDef, Zenon
  <2>4. QED
    BY <2>1, <2>2, <2>3, Zenon
<1>4. <<>> \in Seq(Amount) /\ Len(<<>>) = 0
  BY EmptySeq
<1>5. <<>> \in List
  <2> DEFINE e == <<>>
  <2>1. e \in Seq(Amount) /\ Len(e) = 0
    BY <1>4
  <2> HIDE DEF e
  <2>2. Len(e) <= MaxItems
    BY <2>1, InvoicesAssumption
  <2>3. e \in List
    BY <1>2, <2>1, <2>2
  <2>4. QED
    BY <2>3 DEF e
<1>6. QED
  BY <1>2, <1>3, <1>5

(* Moving the first of the remaining items to the end of those already in. *)
LEMMA MoveOne ==
  ASSUME NEW s \in Seq(Amount), NEW r \in Seq(Amount), r # <<>>
  PROVE  /\ Head(r) \in Amount /\ Tail(r) \in Seq(Amount)
         /\ Append(s, Head(r)) \in Seq(Amount)
         /\ Append(s, Head(r)) \o Tail(r) = s \o r
<1>1. Head(r) \in Amount /\ Tail(r) \in Seq(Amount) /\ Len(Tail(r)) = Len(r) - 1
      /\ \A i \in 1 .. Len(Tail(r)) : Tail(r)[i] = r[i + 1]
  BY HeadTailProperties
<1>2. Head(r) = r[1] /\ Len(r) \in Nat \ {0}
  BY EmptySeq
<1> DEFINE a == Append(s, Head(r))
<1>3. a \in Seq(Amount) /\ Len(a) = Len(s) + 1
      /\ (\A i \in 1 .. Len(s) : a[i] = s[i]) /\ a[Len(s) + 1] = r[1]
  BY <1>1, <1>2, AppendProperties
<1> HIDE DEF a
<1>4. /\ a \o Tail(r) \in Seq(Amount)
      /\ Len(a \o Tail(r)) = Len(a) + Len(Tail(r))
      /\ \A i \in 1 .. Len(a) + Len(Tail(r)) :
           (a \o Tail(r))[i] = IF i <= Len(a) THEN a[i] ELSE Tail(r)[i - Len(a)]
  BY <1>1, <1>3, ConcatProperties
<1>5. /\ s \o r \in Seq(Amount) /\ Len(s \o r) = Len(s) + Len(r)
      /\ \A i \in 1 .. Len(s) + Len(r) :
           (s \o r)[i] = IF i <= Len(s) THEN s[i] ELSE r[i - Len(s)]
  BY ConcatProperties
<1>6. Len(s) \in Nat
  BY LenProperties
<1>7. Len(a \o Tail(r)) = Len(s \o r)
  BY <1>1, <1>2, <1>3, <1>4, <1>5, <1>6
<1>8. ASSUME NEW i \in 1 .. Len(s \o r)
      PROVE  (a \o Tail(r))[i] = (s \o r)[i]
  <2>1. i \in 1 .. Len(s) + Len(r) /\ i \in 1 .. Len(a) + Len(Tail(r))
    BY <1>4, <1>5, <1>7, <1>8
  <2>2. CASE i <= Len(s)
    <3>1. i \in 1 .. Len(s) /\ i <= Len(a)
      BY <1>3, <1>6, <2>1, <2>2
    <3>2. QED
      BY <1>3, <1>4, <1>5, <2>1, <2>2, <3>1
  <2>3. CASE i = Len(s) + 1
    <3>1. i <= Len(a) /\ ~(i <= Len(s)) /\ i - Len(s) = 1
      BY <1>3, <1>6, <2>3
    <3>2. QED
      BY <1>3, <1>4, <1>5, <2>1, <2>3, <3>1
  <2>4. CASE i > Len(s) + 1
    <3>1. /\ ~(i <= Len(s)) /\ ~(i <= Len(a))
          /\ i - Len(a) \in 1 .. Len(Tail(r)) /\ i - Len(a) + 1 = i - Len(s)
      BY <1>1, <1>2, <1>3, <1>6, <2>1, <2>4
    <3>2. Tail(r)[i - Len(a)] = r[i - Len(s)]
      BY <1>1, <3>1
    <3>3. QED
      BY <1>4, <1>5, <2>1, <3>1, <3>2
  <2>5. QED
    BY <1>6, <2>1, <2>2, <2>3, <2>4
<1>9. a \o Tail(r) = s \o r
  BY <1>4, <1>5, <1>7, <1>8, SeqEqual
<1>10. QED
  BY <1>1, <1>3, <1>9 DEF a

LEMMA IdleFacts == Idle \in Handler /\ Idle.pc = "idle"
<1>1. 0 \in 0 .. MaxInvoice /\ 0 \in Nat
  BY InvoicesAssumption
<1> DEFINE e == <<>>
<1>2. e \in Seq(Amount)
  BY EmptySeq
<1> HIDE DEF e
<1>3. Idle = [pc |-> "idle", scan |-> {}, found |-> {}, cur |-> 0, rest |-> e,
              num |-> 0, due |-> "later"]
  BY DEF Idle, e
<1>4. QED
  BY <1>1, <1>2, <1>3 DEF Handler, Due

-----------------------------------------------------------------------------
(* Tables of which one invoice has got another row and other items.        *)

Filled(tables, i, row, items, n) ==
  [rows |-> [tables.rows EXCEPT ![i] = row],
   items |-> [tables.items EXCEPT ![i] = items],
   lastId |-> n]

LEMMA FilledFacts ==
  ASSUME NEW tables \in Tables, NEW i \in Id, NEW row \in Row \cup {NoInvoice},
         NEW items \in Seq(Amount), NEW n \in 0 .. MaxInvoice
  PROVE  /\ Filled(tables, i, row, items, n) \in Tables
         /\ Filled(tables, i, row, items, n).lastId = n
         /\ \A j \in Id :
              /\ Filled(tables, i, row, items, n).rows[j] =
                   IF j = i THEN row ELSE tables.rows[j]
              /\ Filled(tables, i, row, items, n).items[j] =
                   IF j = i THEN items ELSE tables.items[j]
BY DEF Filled, Tables

LEMMA TablesFacts ==
  ASSUME NEW tables \in Tables
  PROVE  /\ tables.lastId \in 0 .. MaxInvoice
         /\ \A i \in Id :
              /\ tables.rows[i] \in Row \cup {NoInvoice}
              /\ tables.items[i] \in Seq(Amount)
BY DEF Tables

(* What the statements make of the tables, in that form.                   *)
LEMMA TablesAre ==
  ASSUME NEW tables \in Tables, NEW i
  PROVE  /\ tables = [rows |-> tables.rows, items |-> tables.items,
                      lastId |-> tables.lastId]
         /\ tables.rows = [tables.rows EXCEPT ![i] = tables.rows[i]]
         /\ tables.items = [tables.items EXCEPT ![i] = tables.items[i]]
BY DEF Tables

LEMMA FillRow ==
  ASSUME NEW tables \in Tables, NEW i, NEW row
  PROVE  [tables EXCEPT !.rows[i] = row]
           = Filled(tables, i, row, tables.items[i], tables.lastId)
<1>0. tables = [rows |-> tables.rows, items |-> tables.items,
                lastId |-> tables.lastId]
  BY TablesAre
<1>1. [tables EXCEPT !.rows[i] = row]
        = [rows |-> [tables.rows EXCEPT ![i] = row], items |-> tables.items,
           lastId |-> tables.lastId]
  BY <1>0
<1>2. QED
  BY <1>1, TablesAre DEF Filled

LEMMA FillItems ==
  ASSUME NEW tables \in Tables, NEW i, NEW items
  PROVE  [tables EXCEPT !.items[i] = items]
           = Filled(tables, i, tables.rows[i], items, tables.lastId)
<1>0. tables = [rows |-> tables.rows, items |-> tables.items,
                lastId |-> tables.lastId]
  BY TablesAre
<1>1. [tables EXCEPT !.items[i] = items]
        = [rows |-> tables.rows, items |-> [tables.items EXCEPT ![i] = items],
           lastId |-> tables.lastId]
  BY <1>0
<1>2. QED
  BY <1>1, TablesAre DEF Filled

(* Other items of one invoice leave everything else.                       *)
LEMMA ItemsFilled ==
  ASSUME NEW tables \in Tables, NEW i \in Id, NEW items \in Seq(Amount)
  PROVE  /\ [tables EXCEPT !.items[i] = items] \in Tables
         /\ [tables EXCEPT !.items[i] = items].lastId = tables.lastId
         /\ \A j \in Id :
              /\ [tables EXCEPT !.items[i] = items].rows[j] = tables.rows[j]
              /\ [tables EXCEPT !.items[i] = items].items[j] =
                   IF j = i THEN items ELSE tables.items[j]
<1> DEFINE f == [tables EXCEPT !.items[i] = items]
<1>1. f = Filled(tables, i, tables.rows[i], items, tables.lastId)
  BY FillItems
<1> HIDE DEF f
<1>2. tables.rows[i] \in Row \cup {NoInvoice} /\ tables.lastId \in 0 .. MaxInvoice
  BY TablesFacts
<1>3. /\ f \in Tables /\ f.lastId = tables.lastId
      /\ \A j \in Id : /\ f.rows[j] = tables.rows[j]
                       /\ f.items[j] = IF j = i THEN items ELSE tables.items[j]
  BY <1>1, <1>2, FilledFacts
<1>4. QED
  BY <1>3 DEF f

LEMMA FillBoth ==
  ASSUME NEW tables \in Tables, NEW i, NEW row, NEW items
  PROVE  [tables EXCEPT !.rows[i] = row, !.items[i] = items]
           = Filled(tables, i, row, items, tables.lastId)
<1> DEFINE u == [tables EXCEPT !.rows[i] = row]
<1>0. tables = [rows |-> tables.rows, items |-> tables.items,
                lastId |-> tables.lastId]
  BY TablesAre
<1>1. [tables EXCEPT !.rows[i] = row, !.items[i] = items]
        = [u EXCEPT !.items[i] = items]
  BY <1>0
<1>2. u = [rows |-> [tables.rows EXCEPT ![i] = row], items |-> tables.items,
           lastId |-> tables.lastId]
  BY <1>0
<1> HIDE DEF u
<1>3. [u EXCEPT !.items[i] = items]
        = [rows |-> [tables.rows EXCEPT ![i] = row],
           items |-> [tables.items EXCEPT ![i] = items],
           lastId |-> tables.lastId]
  BY <1>2
<1>4. QED
  BY <1>1, <1>3 DEF Filled

(* A new row under a new last id.                                          *)
LEMMA NewFilled ==
  ASSUME NEW tables \in Tables, NEW i \in Id, NEW row \in Row, NEW n \in 0 .. MaxInvoice
  PROVE  LET f == Filled(tables, i, row, tables.items[i], n)
         IN  /\ f \in Tables
             /\ f.lastId = n
             /\ \A j \in Id : /\ f.rows[j] = IF j = i THEN row ELSE tables.rows[j]
                              /\ f.items[j] = tables.items[j]
<1> DEFINE e == tables.items[i]
<1>2. e \in Seq(Amount) /\ \A j \in Id : j = i => e = tables.items[j]
  BY TablesFacts
<1> HIDE DEF e
<1> DEFINE f == Filled(tables, i, row, e, n)
<1>3. /\ f \in Tables /\ f.lastId = n
      /\ \A j \in Id : /\ f.rows[j] = IF j = i THEN row ELSE tables.rows[j]
                       /\ f.items[j] = tables.items[j]
  BY <1>2, FilledFacts
<1>4. QED
  BY <1>3 DEF e

-----------------------------------------------------------------------------
(* The inductive invariant.                                                *)

LEMMA EmptyFacts == Empty \in Tables /\ WellFilled(Empty)
                    /\ \A i \in Id : Empty.rows[i] = NoInvoice
<1>1. 0 \in 0 .. MaxInvoice /\ <<>> \in Seq(Amount)
  BY InvoicesAssumption, EmptySeq
<1> DEFINE e == <<>>
<1>2. Empty = [rows |-> [i \in Id |-> NoInvoice], items |-> [i \in Id |-> e],
               lastId |-> 0]
  BY DEF Empty
<1>3. e \in Seq(Amount)
  BY <1>1
<1>4. WellFilled(Empty) <=>
        \A i \in Id : /\ i > Empty.lastId => Empty.rows[i] = NoInvoice
                      /\ Empty.rows[i] = NoInvoice => Empty.items[i] = e
  BY DEF WellFilled
<1> HIDE DEF e
<1>5. Empty \in Tables
  BY <1>1, <1>2, <1>3 DEF Tables
<1>6. \A i \in Id : Empty.rows[i] = NoInvoice /\ Empty.items[i] = e
  BY <1>2
<1>7. QED
  BY <1>4, <1>5, <1>6

LEMMA InitInv == Init => IndInv
<1> SUFFICES ASSUME Init PROVE IndInv
  OBVIOUS
<1>1. TypeOK
  BY EmptyFacts, IdleFacts, InvoicesAssumption DEF Init, TypeOK
<1>2. HandlersInOrder
  BY IdleFacts DEF Init, HandlersInOrder
<1>3. QED
  BY <1>1, <1>2, EmptyFacts
     DEF Init, IndInv, WholeOrAdding, Exists, OnlyWholeInvoicesOnDisk,
         DurableWhenNoCreate, RemovedWereUsed, RemovedStaysRemoved

(* The end of a write statement: with no other one open everything is      *)
(* committed, and then no invoice is in the hands of an add.               *)
LEMMA CommitKeeps ==
  ASSUME IndInv, db' \in Tables, WellFilled(db)', HandlersInOrder', WholeOrAdding',
         touched \subseteq touched', disk' = Commit(db', open')
  PROVE  /\ disk' \in Tables /\ WellFilled(disk)'
         /\ OnlyWholeInvoicesOnDisk' /\ DurableWhenNoCreate'
<1>1. CASE open' = {}
  <2>1. disk' = db'
    BY <1>1 DEF Commit
  <2>2. ASSUME NEW i \in Id, disk'.rows[i] # NoInvoice, i \notin touched'
        PROVE  disk'.rows[i].total = Sum(disk'.items[i])
    <3>1. \A t \in Thread : ~Adding(t, i)'
      BY <1>1 DEF HandlersInOrder, Adding, Id
    <3>2. Exists(i)'
      BY <2>1, <2>2 DEF Exists
    <3>3. QED
      BY <2>1, <2>2, <3>1, <3>2 DEF WholeOrAdding
  <2>3. QED
    BY <2>1, <2>2 DEF WellFilled, OnlyWholeInvoicesOnDisk, DurableWhenNoCreate
<1>2. CASE open' # {}
  <2>1. disk' = disk
    BY <1>2 DEF Commit
  <2>2. QED
    BY <1>2, <2>1 DEF IndInv, TypeOK, WellFilled, OnlyWholeInvoicesOnDisk,
                      DurableWhenNoCreate
<1>3. QED
  BY <1>1, <1>2

(* A step that changes no table, of a handler that is not in an add, to a  *)
(* state that is in order.                                                 *)
LEMMA QuietKeeps ==
  ASSUME IndInv, NEW t \in Thread, NEW g \in Handler, Goto(t, g),
         UNCHANGED <<db, disk, open, answers, removed, touched>>, nextNum' \in Nat,
         h[t].pc # "add",
         g.pc = "add" => g.cur = 0,
         g.pc \in {"number", "insert"} => g.cur = 0 /\ g.rest \in List,
         g.pc \in {"clear", "refill"} => g.cur \in touched
  PROVE  IndInv'
<1>1. /\ h' \in [Thread -> Handler]
      /\ \A u \in Thread : h'[u] = IF u = t THEN g ELSE h[u]
  BY DEF Goto, IndInv, TypeOK
<1>2. TypeOK'
  BY <1>1 DEF IndInv, TypeOK
<1>3. \A u \in Thread, i \in Id : Adding(u, i)' => Adding(u, i) /\ h'[u] = h[u]
  BY <1>1 DEF Adding, Id
<1>4. \A u \in Thread, i \in Id : Adding(u, i) => Adding(u, i)'
  BY <1>1 DEF Adding
<1>5. HandlersInOrder'
  <2>1. \A u \in Thread : h'[u].cur \in 0 .. MaxInvoice
    BY <1>1 DEF Handler
  <2>2. \A u \in Thread : h'[u].cur # 0 => h'[u].cur \in Id
    BY <2>1, InvoicesAssumption DEF Id
  <2>3. QED
    BY <1>1, <1>3, <2>2 DEF IndInv, HandlersInOrder, Adding
<1>6. WholeOrAdding'
  BY <1>3, <1>4 DEF IndInv, WholeOrAdding, Exists
<1>7. QED
  BY <1>2, <1>5, <1>6 DEF IndInv, WellFilled, OnlyWholeInvoicesOnDisk,
       DurableWhenNoCreate, RemovedWereUsed, RemovedStaysRemoved

(* A write that, of invoices no update touches, at most deletes some.      *)
LEMMA WriteKeeps ==
  ASSUME IndInv, NEW t \in Thread, NEW g \in Handler, Goto(t, g),
         NEW tables \in Tables, Write(tables), WellFilled(tables),
         tables.lastId = db.lastId,
         touched \subseteq touched', touched' \subseteq Id,
         \A i \in Id \ touched' :
           \/ tables.rows[i] = NoInvoice
           \/ tables.rows[i] = db.rows[i] /\ tables.items[i] = db.items[i],
         removed' \subseteq Id,
         \A i \in removed' : i <= db.lastId /\ tables.rows[i] = NoInvoice,
         UNCHANGED <<nextNum, open, answers>>,
         h[t].pc # "add", g.pc \notin {"add", "number", "insert"},
         g.pc \in {"clear", "refill"} => g.cur \in touched'
  PROVE  IndInv'
<1>1. /\ h' \in [Thread -> Handler]
      /\ \A u \in Thread : h'[u] = IF u = t THEN g ELSE h[u]
  BY DEF Goto, IndInv, TypeOK
<1>2. db' = tables /\ disk' = Commit(db', open')
  BY DEF Write
<1>3. \A u \in Thread, i \in Id : Adding(u, i)' => Adding(u, i) /\ h'[u] = h[u]
  BY <1>1 DEF Adding, Id
<1>4. \A u \in Thread, i \in Id : Adding(u, i) => Adding(u, i)'
  BY <1>1 DEF Adding
<1>5. HandlersInOrder'
  <2>1. \A u \in Thread : h'[u].cur \in 0 .. MaxInvoice
    BY <1>1 DEF Handler
  <2>2. \A u \in Thread : h'[u].cur # 0 => h'[u].cur \in Id
    BY <2>1, InvoicesAssumption DEF Id
  <2>3. QED
    BY <1>1, <1>2, <1>3, <2>2 DEF IndInv, HandlersInOrder, Adding
<1>6. WholeOrAdding'
  BY <1>2, <1>3, <1>4 DEF IndInv, WholeOrAdding, Exists
<1>7. WellFilled(db)'
  BY <1>2 DEF WellFilled
<1>8. /\ disk' \in Tables /\ WellFilled(disk)'
      /\ OnlyWholeInvoicesOnDisk' /\ DurableWhenNoCreate'
  BY <1>2, <1>5, <1>6, <1>7, CommitKeeps
<1>9. TypeOK'
  BY <1>1, <1>2, <1>8 DEF IndInv, TypeOK
<1>10. RemovedWereUsed' /\ RemovedStaysRemoved'
  BY <1>2, <1>7 DEF RemovedWereUsed, RemovedStaysRemoved, WellFilled
<1>11. QED
  BY <1>5, <1>6, <1>7, <1>8, <1>9, <1>10 DEF IndInv

-----------------------------------------------------------------------------
(* Steps that write nothing.                                               *)

LEMMA LoadKeeps == ASSUME IndInv, NEW t \in Thread, LoadItems(t) PROVE IndInv'
<1>1. h[t] \in Handler /\ db \in Tables /\ nextNum \in Nat
  BY DEF IndInv, TypeOK
<1>2. PICK s \in h[t].scan :
        /\ Len(db.items[s.id]) <= MaxItems
        /\ Goto(t, [h[t] EXCEPT !.scan = @ \ {s},
                     !.found = @ \cup {[s EXCEPT !.items = db.items[s.id]]}])
  BY DEF LoadItems
<1> DEFINE loaded == [s EXCEPT !.items = db.items[s.id]]
<1>3. s \in Snapshot
  BY <1>1, <1>2 DEF Handler
<1>4. db.items[s.id] \in List
  BY <1>1, <1>2, <1>3, TablesFacts, ListFacts DEF Snapshot
<1>5. loaded \in Snapshot
  BY <1>3, <1>4 DEF Snapshot
<1> HIDE DEF loaded
<1> DEFINE g == [h[t] EXCEPT !.scan = @ \ {s}, !.found = @ \cup {loaded}]
<1>6. g \in Handler /\ g.pc = "scan" /\ h[t].pc = "scan"
  BY <1>1, <1>5 DEF Handler, LoadItems
<1>7. Goto(t, g)
  BY <1>2 DEF loaded
<1> HIDE DEF g
<1>8. QED
  BY <1>1, <1>6, <1>7, QuietKeeps DEF LoadItems

LEMMA WrittenKeeps == ASSUME IndInv, NEW t \in Thread, Written(t) PROVE IndInv'
<1>1. h[t] \in Handler /\ nextNum \in Nat /\ 0 \in 0 .. MaxInvoice
  BY InvoicesAssumption DEF IndInv, TypeOK
<1> DEFINE g == [h[t] EXCEPT !.pc = "scan", !.cur = 0]
<1>2. g \in Handler /\ g.pc = "scan"
  BY <1>1 DEF Handler
<1>3. Goto(t, g) /\ h[t].pc = "refill"
  BY DEF Written
<1> HIDE DEF g
<1>4. QED
  BY <1>1, <1>2, <1>3, QuietKeeps DEF Written

LEMMA AnswerKeeps == ASSUME IndInv, NEW t \in Thread, Answer(t) PROVE IndInv'
<1>1. nextNum \in Nat
  BY DEF IndInv, TypeOK
<1>2. Goto(t, Idle) /\ h[t].pc = "scan"
  BY DEF Answer
<1>3. QED
  BY <1>1, <1>2, IdleFacts, QuietKeeps DEF Answer

LEMMA EditedFacts ==
  ASSUME NEW row \in Row, NEW status \in EditStatus, NEW due \in EditDue
  PROVE  Edited(row, status, due) \in Row
<1>1. /\ status \in Status \cup {Blank}
      /\ due \in Due \cup {Blank}
  BY InvoicesAssumption
<1>2. QED
  BY <1>1 DEF Edited, Row

LEMMA Scanning ==
  ASSUME NEW scan \in SUBSET Snapshot
  PROVE  /\ [Idle EXCEPT !.pc = "scan", !.scan = scan] \in Handler
         /\ [Idle EXCEPT !.pc = "scan", !.scan = scan].pc = "scan"
<1>1. [Idle EXCEPT !.pc = "scan", !.scan = scan].pc = "scan"
  BY IdleFacts DEF Handler
<1>2. QED
  BY <1>1, IdleFacts DEF Handler

LEMMA PutKeeps ==
  ASSUME IndInv, NEW t \in Thread, NEW i \in Id, Put(t, i)
  PROVE  IndInv'
<1>1. nextNum \in Nat /\ db.rows[i] \in Row /\ h[t].pc = "idle"
  BY TablesFacts DEF IndInv, TypeOK, Put, Exists, Begin
<1>2. PICK status \in EditStatus, due \in EditDue :
        Goto(t, [Idle EXCEPT !.pc = "scan",
                   !.scan = {[id |-> i, row |-> Edited(db.rows[i], status, due),
                              items |-> <<>>]}])
  BY DEF Put
<1> DEFINE scan == {[id |-> i, row |-> Edited(db.rows[i], status, due),
                     items |-> <<>>]}
<1>3. scan \in SUBSET Snapshot
  <2> DEFINE r == Edited(db.rows[i], status, due)
  <2> DEFINE e == <<>>
  <2>1. r \in Row /\ e \in List
    BY <1>1, EditedFacts, ListFacts
  <2> HIDE DEF r, e
  <2>2. [id |-> i, row |-> r, items |-> e] \in Snapshot
    BY <2>1 DEF Snapshot
  <2>3. QED
    BY <2>2 DEF r, e
<1> HIDE DEF scan
<1> DEFINE g == [Idle EXCEPT !.pc = "scan", !.scan = scan]
<1>4. g \in Handler /\ g.pc = "scan"
  BY <1>3, Scanning
<1>5. Goto(t, g)
  BY <1>2 DEF scan
<1> HIDE DEF g
<1>6. QED
  BY <1>1, <1>4, <1>5, QuietKeeps DEF Put

LEMMA OverdueKeeps ==
  ASSUME IndInv, NEW t \in Thread, CheckOverdue(t)
  PROVE  IndInv'
<1>1. nextNum \in Nat /\ db \in Tables /\ h[t].pc = "idle"
  BY DEF IndInv, TypeOK, CheckOverdue, Begin
<1> DEFINE found == {j \in Id : Exists(j) /\ Lapsed(db.rows[j])}
<1> DEFINE scan == {[id |-> i, row |-> [db.rows[i] EXCEPT !.status = "Overdue"],
                     items |-> <<>>] : i \in found}
<1>2. scan \in SUBSET Snapshot
  <2>1. SUFFICES ASSUME NEW i \in found
                 PROVE  [id |-> i, row |-> [db.rows[i] EXCEPT !.status = "Overdue"],
                         items |-> <<>>] \in Snapshot
    OBVIOUS
  <2> DEFINE r == [db.rows[i] EXCEPT !.status = "Overdue"]
  <2> DEFINE e == <<>>
  <2>2. r \in Row
    BY <1>1, TablesFacts DEF Exists, Row, Status
  <2>3. e \in List /\ i \in Id
    BY ListFacts
  <2> HIDE DEF r, e
  <2>4. [id |-> i, row |-> r, items |-> e] \in Snapshot
    BY <2>2, <2>3 DEF Snapshot
  <2>5. QED
    BY <2>4 DEF r, e
<1>3. Goto(t, [Idle EXCEPT !.pc = "scan", !.scan = scan])
  BY DEF CheckOverdue
<1> HIDE DEF scan
<1> DEFINE g == [Idle EXCEPT !.pc = "scan", !.scan = scan]
<1>4. g \in Handler /\ g.pc = "scan"
  BY <1>2, Scanning
<1> HIDE DEF g
<1>5. QED
  BY <1>1, <1>3, <1>4, QuietKeeps DEF CheckOverdue, g

LEMMA PostReadKeeps == ASSUME IndInv, NEW t \in Thread, PostRead(t) PROVE IndInv'
<1>1. nextNum \in Nat /\ h[t].pc = "idle"
  BY DEF IndInv, TypeOK, PostRead, Begin
<1>2. PICK items \in ItemList, due \in Due :
        Goto(t, [Idle EXCEPT !.pc = "number", !.num = nextNum, !.rest = items,
                             !.due = due])
  BY DEF PostRead
<1>3. items \in List /\ items \in Seq(Amount)
  BY InvoicesAssumption, ListFacts
<1> DEFINE g == [Idle EXCEPT !.pc = "number", !.num = nextNum, !.rest = items,
                             !.due = due]
<1>4. Idle \in Handler /\ Idle.cur = 0
  BY IdleFacts DEF Idle
<1>5. g \in Handler /\ g.pc = "number" /\ g.cur = 0 /\ g.rest = items
  BY <1>1, <1>3, <1>4 DEF Handler
<1> HIDE DEF g
<1>6. QED
  BY <1>1, <1>2, <1>3, <1>5, QuietKeeps DEF PostRead, g

LEMMA PostWriteKeeps == ASSUME IndInv, NEW t \in Thread, PostWrite(t) PROVE IndInv'
<1>1. h[t] \in Handler /\ h[t].pc = "number"
  BY DEF IndInv, TypeOK, PostWrite
<1>2. nextNum' \in Nat
  BY <1>1 DEF PostWrite, Handler
<1>3. h[t].cur = 0 /\ h[t].rest \in List
  BY <1>1 DEF IndInv, HandlersInOrder
<1> DEFINE g == [h[t] EXCEPT !.pc = "insert"]
<1>4. g \in Handler /\ g.pc = "insert" /\ g.cur = 0 /\ g.rest \in List
  BY <1>1, <1>3 DEF Handler
<1>5. Goto(t, g)
  BY DEF PostWrite
<1> HIDE DEF g
<1>6. QED
  BY <1>1, <1>2, <1>4, <1>5, QuietKeeps DEF PostWrite

-----------------------------------------------------------------------------
(* The statements of an update, and the DELETE.                            *)

LEMMA UpdateRowKeeps == ASSUME IndInv, NEW t \in Thread, UpdateRow(t) PROVE IndInv'
<1>1. h[t] \in Handler /\ db \in Tables /\ h[t].pc = "scan"
      /\ removed \subseteq Id /\ touched \subseteq Id
  BY DEF IndInv, TypeOK, UpdateRow
<1>2. PICK s \in h[t].found :
       /\ Write(IF Exists(s.id)
                  THEN [db EXCEPT !.rows[s.id] = UpdatedRow(@, s)] ELSE db)
       /\ Goto(t, [h[t] EXCEPT !.pc = "clear", !.found = @ \ {s},
                                !.cur = s.id, !.rest = s.items])
       /\ touched' = touched \cup {s.id}
  BY DEF UpdateRow
<1>3. s.id \in Id /\ s.row \in Row /\ s.items \in List
  BY <1>1, <1>2 DEF Handler, Snapshot
<1>4. s.id \in 0 .. MaxInvoice /\ s.items \in Seq(Amount)
  BY <1>3, ListFacts, InvoicesAssumption DEF Id
<1> DEFINE g == [h[t] EXCEPT !.pc = "clear", !.found = @ \ {s},
                             !.cur = s.id, !.rest = s.items]
<1>5. g \in Handler /\ g.pc = "clear" /\ g.cur = s.id
  BY <1>1, <1>4 DEF Handler
<1> DEFINE r == UpdatedRow(db.rows[s.id], s)
<1> DEFINE tables == IF Exists(s.id) THEN [db EXCEPT !.rows[s.id] = r] ELSE db
<1>6. /\ tables \in Tables /\ tables.lastId = db.lastId
      /\ WellFilled(tables)
      /\ \A i \in Id : i # s.id =>
           tables.rows[i] = db.rows[i] /\ tables.items[i] = db.items[i]
      /\ \A i \in Id : db.rows[i] = NoInvoice => tables.rows[i] = NoInvoice
  <2>1. CASE Exists(s.id)
    <3>1. r \in Row
      <4>1. db.rows[s.id] \in Row /\ Sum(s.items) \in Nat
        BY <1>1, <1>3, <2>1, TablesFacts, InvoicesAssumption DEF Exists
      <4>2. QED
        BY <1>3, <4>1 DEF UpdatedRow, Row
    <3> HIDE DEF r
    <3>2. tables = Filled(db, s.id, r, db.items[s.id], db.lastId)
      BY <1>1, <1>3, <2>1, FillRow
    <3>3. /\ db.items[s.id] \in Seq(Amount) /\ db.lastId \in 0 .. MaxInvoice
          /\ db.rows[s.id] # NoInvoice /\ WellFilled(db)
      BY <1>1, <1>3, <2>1, TablesFacts DEF Exists, IndInv
    <3>4. /\ tables \in Tables /\ tables.lastId = db.lastId
          /\ \A i \in Id : tables.rows[i] = IF i = s.id THEN r ELSE db.rows[i]
          /\ \A i \in Id : tables.items[i] = db.items[i]
      <4> HIDE DEF tables
      <4>1. QED
        BY <1>1, <1>3, <3>1, <3>2, <3>3, FilledFacts
    <3>5. r # NoInvoice
      BY <3>1, InvoicesAssumption
    <3> HIDE DEF tables
    <3>6. QED
      BY <1>3, <3>3, <3>4, <3>5 DEF WellFilled
  <2>2. CASE ~Exists(s.id)
    BY <1>1, <2>2 DEF IndInv
  <2>3. QED
    BY <2>1, <2>2
<1>7. Write(tables) /\ Goto(t, g)
  BY <1>2
<1> HIDE DEF g, tables
<1>8. \A i \in removed : i <= db.lastId /\ tables.rows[i] = NoInvoice
  BY <1>1, <1>6 DEF IndInv, RemovedWereUsed, RemovedStaysRemoved
<1>9. QED
  BY <1>1, <1>2, <1>3, <1>5, <1>6, <1>7, <1>8, WriteKeeps DEF UpdateRow

(* The other two write the items of an invoice the update has touched.     *)
LEMMA ItemsKeep ==
  ASSUME IndInv, NEW t \in Thread, NEW g \in Handler, Goto(t, g),
         NEW i \in touched, NEW items \in Seq(Amount),
         db.rows[i] = NoInvoice => items = <<>>,
         Write([db EXCEPT !.items[i] = items]),
         UNCHANGED <<nextNum, open, answers, removed, touched>>,
         h[t].pc # "add", g.pc = "refill", g.cur = i
  PROVE  IndInv'
<1> DEFINE tables == [db EXCEPT !.items[i] = items]
<1>1. db \in Tables /\ i \in Id /\ touched \subseteq Id /\ removed \subseteq Id
  BY DEF IndInv, TypeOK
<1>4. /\ tables \in Tables /\ tables.lastId = db.lastId
      /\ \A j \in Id : /\ tables.rows[j] = db.rows[j]
                       /\ tables.items[j] = IF j = i THEN items ELSE db.items[j]
  BY <1>1, ItemsFilled
<1> HIDE DEF tables
<1>5. WellFilled(tables)
  BY <1>4 DEF WellFilled, IndInv
<1>6. Write(tables)
  BY DEF tables
<1>7. \A j \in removed : j <= db.lastId /\ tables.rows[j] = NoInvoice
  BY <1>1, <1>4 DEF IndInv, RemovedWereUsed, RemovedStaysRemoved
<1>8. QED
  BY <1>1, <1>4, <1>5, <1>6, <1>7, WriteKeeps

LEMMA DeleteItemsKeeps ==
  ASSUME IndInv, NEW t \in Thread, DeleteItems(t)
  PROVE  IndInv'
<1>1. h[t] \in Handler /\ h[t].pc = "clear" /\ h[t].cur \in touched
  BY DEF IndInv, TypeOK, HandlersInOrder, DeleteItems
<1> DEFINE g == [h[t] EXCEPT !.pc = "refill"]
<1>2. g \in Handler /\ g.pc = "refill" /\ g.cur = h[t].cur
  BY <1>1 DEF Handler
<1>3. Goto(t, g) /\ Write([db EXCEPT !.items[h[t].cur] = <<>>])
      /\ UNCHANGED <<nextNum, open, answers, removed, touched>>
  BY DEF DeleteItems
<1>4. <<>> \in Seq(Amount)
  BY EmptySeq
<1> HIDE DEF g
<1>5. QED
  BY <1>1, <1>2, <1>3, <1>4, ItemsKeep

LEMMA InsertItemKeeps ==
  ASSUME IndInv, NEW t \in Thread, InsertItem(t)
  PROVE  IndInv'
<1>1. /\ h[t] \in Handler /\ h[t].pc = "refill" /\ h[t].cur \in touched
      /\ h[t].rest # <<>> /\ h[t].rest \in Seq(Amount)
      /\ db \in Tables /\ h[t].cur \in Id
  BY DEF IndInv, TypeOK, HandlersInOrder, InsertItem, Handler
<1> DEFINE i == h[t].cur
<1> DEFINE a == Head(h[t].rest)
<1>2. a \in Amount /\ Tail(h[t].rest) \in Seq(Amount)
  BY <1>1, MoveOne, EmptySeq
<1> DEFINE g == [h[t] EXCEPT !.rest = Tail(@)]
<1>3. g \in Handler /\ g.pc = "refill" /\ g.cur = i
  BY <1>1, <1>2 DEF Handler
<1>4. Goto(t, g) /\ Write(WithItem(i, a))
      /\ UNCHANGED <<nextNum, open, answers, removed, touched>>
  BY DEF InsertItem
<1>5. db.items[i] \in Seq(Amount)
  BY <1>1, TablesFacts
<1>6. Append(db.items[i], a) \in Seq(Amount)
  BY <1>2, <1>5, AppendProperties
<1> HIDE DEF g, a
<1>7. CASE Exists(i)
  <2>1. Write([db EXCEPT !.items[i] = Append(db.items[i], a)])
    BY <1>4, <1>7 DEF WithItem
  <2>2. db.rows[i] # NoInvoice
    BY <1>7 DEF Exists
  <2>3. QED
    BY <1>1, <1>3, <1>4, <1>6, <2>1, <2>2, ItemsKeep
<1>8. CASE ~Exists(i)
  <2>1. db = [db EXCEPT !.items[i] = db.items[i]]
    <3>1. db.items = [db.items EXCEPT ![i] = db.items[i]]
      BY <1>1 DEF Tables
    <3>2. QED
      BY <1>1, <3>1 DEF Tables
  <2>2. Write([db EXCEPT !.items[i] = db.items[i]])
    BY <1>4, <1>8, <2>1 DEF WithItem
  <2>3. db.rows[i] = NoInvoice => db.items[i] = <<>>
    BY <1>1 DEF IndInv, WellFilled
  <2>4. QED
    BY <1>1, <1>3, <1>4, <1>5, <2>2, <2>3, ItemsKeep
<1>9. QED
  BY <1>7, <1>8

LEMMA DeleteKeeps ==
  ASSUME IndInv, NEW t \in Thread, NEW i \in Id, Delete(t, i)
  PROVE  IndInv'
<1> DEFINE tables == [db EXCEPT !.rows[i] = NoInvoice, !.items[i] = <<>>]
<1>1. /\ db \in Tables /\ h[t] \in Handler /\ h[t].pc = "idle"
      /\ db.rows[i] # NoInvoice /\ touched \subseteq Id /\ removed \subseteq Id
  BY DEF IndInv, TypeOK, Delete, Begin, Exists
<1>2. Goto(t, h[t])
  BY DEF Delete, Goto, IndInv, TypeOK
<1> DEFINE e == <<>>
<1>3. tables = Filled(db, i, NoInvoice, e, db.lastId)
  BY <1>1, FillBoth, Zenon
<1>4. Write(tables) /\ removed' = removed \cup {i}
      /\ UNCHANGED <<nextNum, open, answers, touched>>
  BY DEF Delete
<1> HIDE DEF tables
<1>5. /\ tables \in Tables /\ tables.lastId = db.lastId
      /\ \A j \in Id :
           /\ tables.rows[j] = IF j = i THEN NoInvoice ELSE db.rows[j]
           /\ tables.items[j] = IF j = i THEN <<>> ELSE db.items[j]
  <2>1. e \in Seq(Amount) /\ db.lastId \in 0 .. MaxInvoice
    BY <1>1, EmptySeq, TablesFacts
  <2> HIDE DEF e
  <2> DEFINE f == Filled(db, i, NoInvoice, e, db.lastId)
  <2>2. /\ f \in Tables /\ f.lastId = db.lastId
        /\ \A j \in Id :
             /\ f.rows[j] = IF j = i THEN NoInvoice ELSE db.rows[j]
             /\ f.items[j] = IF j = i THEN e ELSE db.items[j]
    BY <1>1, <2>1, FilledFacts
  <2>3. f = tables
    BY <1>3
  <2> HIDE DEF f
  <2>4. QED
    BY <2>2, <2>3 DEF e
<1>6. WellFilled(tables)
  BY <1>5 DEF WellFilled, IndInv
<1>7. i <= db.lastId
  BY <1>1, TablesFacts DEF IndInv, WellFilled, Id
<1>8. \A j \in removed' : j <= db.lastId /\ tables.rows[j] = NoInvoice
  BY <1>1, <1>4, <1>5, <1>7 DEF IndInv, RemovedWereUsed, RemovedStaysRemoved
<1>9. QED
  BY <1>1, <1>2, <1>4, <1>5, <1>6, <1>8, WriteKeeps

-----------------------------------------------------------------------------
(* The statements of an add, and the restart.                              *)

LEMMA InsertInvoiceKeeps ==
  ASSUME IndInv, NEW t \in Thread, InsertInvoice(t)
  PROVE  IndInv'
<1>1. /\ h[t] \in Handler /\ h[t].pc = "insert" /\ h[t].cur = 0
      /\ h[t].rest \in List /\ h[t].rest \in Seq(Amount)
      /\ db \in Tables /\ nextNum \in Nat
  BY DEF IndInv, TypeOK, HandlersInOrder, InsertInvoice, Handler
<1>2. CASE \E i \in Id : Exists(i) /\ db.rows[i].num = h[t].num
  <2> DEFINE g == [h[t] EXCEPT !.pc = "add"]
  <2>1. g \in Handler /\ g.pc = "add" /\ g.cur = 0
    BY <1>1 DEF Handler
  <2>2. Goto(t, g) /\ UNCHANGED <<db, disk, open, answers, removed, touched>>
        /\ UNCHANGED nextNum
    BY <1>2 DEF InsertInvoice
  <2> HIDE DEF g
  <2>3. QED
    BY <1>1, <2>1, <2>2, QuietKeeps
<1>3. CASE ~ \E i \in Id : Exists(i) /\ db.rows[i].num = h[t].num
  <2> DEFINE i == db.lastId + 1
  <2> DEFINE r == [num |-> h[t].num, status |-> "Pending", due |-> h[t].due,
                   total |-> Sum(h[t].rest)]
  <2> DEFINE g == [h[t] EXCEPT !.pc = "add", !.cur = i]
  <2>1. /\ db.lastId < MaxInvoice /\ Goto(t, g) /\ open' = open \cup {t}
        /\ UNCHANGED <<disk, nextNum, answers, removed, touched>>
    BY <1>3 DEF InsertInvoice
  <2>7. db' = [db EXCEPT !.lastId = i, !.rows[i] = r]
    BY <1>3 DEF InsertInvoice
  <2>2. i \in Id /\ i \in 0 .. MaxInvoice /\ db.lastId \in 0 .. MaxInvoice
        /\ i # 0 /\ i > db.lastId
    BY <1>1, <2>1, TablesFacts, InvoicesAssumption DEF Id
  <2>3. r \in Row /\ r.total = Sum(h[t].rest)
    <3>1. Sum(h[t].rest) \in Nat
      BY <1>1, InvoicesAssumption
    <3>2. QED
      BY <1>1, <3>1 DEF Row, Handler, Status
  <2>4. r # NoInvoice
    BY <2>3, InvoicesAssumption
  <2>5. g \in Handler /\ g.pc = "add" /\ g.cur = i /\ g.rest = h[t].rest
    BY <1>1, <2>2 DEF Handler
  <2>6. /\ h' \in [Thread -> Handler]
        /\ \A u \in Thread : h'[u] = IF u = t THEN g ELSE h[u]
    BY <2>1, <2>5 DEF Goto, IndInv, TypeOK
  <2> HIDE DEF r, g
  <2>8. db.items[i] \in Seq(Amount) /\ db.rows[i] = NoInvoice /\ db.items[i] = <<>>
    BY <1>1, <2>2, TablesFacts DEF IndInv, WellFilled
  <2> HIDE DEF i
  <2>20. db' = Filled(db, i, r, db.items[i], i)
    <3> DEFINE u == [db EXCEPT !.rows[i] = r]
    <3>1. db = [rows |-> db.rows, items |-> db.items, lastId |-> db.lastId]
      BY <1>1, TablesAre
    <3>2. db' = [u EXCEPT !.lastId = i]
      BY <2>7, <3>1
    <3>3. u = [rows |-> [db.rows EXCEPT ![i] = r], items |-> db.items,
               lastId |-> db.lastId]
      BY <3>1
    <3> HIDE DEF u
    <3>4. db' = [rows |-> [db.rows EXCEPT ![i] = r], items |-> db.items,
                 lastId |-> i]
      BY <3>2, <3>3
    <3>5. db.items = [db.items EXCEPT ![i] = db.items[i]]
      BY <1>1, TablesAre
    <3>6. QED
      BY <3>4, <3>5 DEF Filled
  <2>9. /\ db' \in Tables /\ db'.lastId = i
        /\ \A j \in Id : /\ db'.rows[j] = IF j = i THEN r ELSE db.rows[j]
                         /\ db'.items[j] = db.items[j]
    BY <1>1, <2>2, <2>3, <2>20, NewFilled
  <2>10. TypeOK'
    BY <2>1, <2>6, <2>9 DEF IndInv, TypeOK
  <2>11. WellFilled(db)'
    BY <2>2, <2>4, <2>9 DEF IndInv, WellFilled, Id
  <2>12. \A u \in Thread : h[u].pc = "add" /\ h[u].cur # 0 => h[u].cur < i
    <3>1. \A u \in Thread : h[u].cur \in 0 .. MaxInvoice
      BY DEF IndInv, TypeOK, Handler
    <3>2. QED
      BY <2>2, <3>1 DEF IndInv, HandlersInOrder, i
  <2>13. \A u \in Thread : u # t => ~Adding(u, i)
    <3>1. i < i => FALSE
      BY <2>2 DEF Id
    <3>2. QED
      BY <2>2, <2>12, <3>1 DEF Adding
  <2>14. HandlersInOrder'
    <3> SUFFICES ASSUME NEW u \in Thread
                 PROVE  /\ h'[u].pc \in {"number", "insert"} =>
                             h'[u].cur = 0 /\ h'[u].rest \in List
                        /\ h'[u].pc \in {"clear", "refill"} => h'[u].cur \in touched'
                        /\ h'[u].pc = "add" /\ h'[u].cur # 0 =>
                             /\ u \in open' /\ h'[u].cur <= db'.lastId
                             /\ \A v \in Thread :
                                  h'[v].pc = "add" /\ h'[v].cur = h'[u].cur => v = u
      BY DEF HandlersInOrder, Adding
    <3>1. CASE u = t
      <4>1. h'[u].pc = "add" /\ h'[u].cur = i /\ u \in open' /\ i <= db'.lastId
        BY <2>1, <2>2, <2>5, <2>6, <2>9, <3>1 DEF Id
      <4>2. \A v \in Thread : h'[v].pc = "add" /\ h'[v].cur = i => v = u
        BY <2>6, <2>13, <3>1 DEF Adding
      <4>3. QED
        BY <4>1, <4>2
    <3>2. CASE u # t
      <4>1. h'[u] = h[u] /\ touched' = touched /\ open \subseteq open'
        BY <2>1, <2>6, <3>2
      <4>2. h[u].pc = "add" /\ h[u].cur # 0 =>
              /\ u \in open
              /\ h[u].cur # i /\ h[u].cur <= db'.lastId
              /\ \A v \in Thread : h[v].pc = "add" /\ h[v].cur = h[u].cur => v = u
        <5>1. h[u].cur \in 0 .. MaxInvoice
          BY DEF IndInv, TypeOK, Handler
        <5>2. QED
          BY <2>2, <2>9, <2>12, <5>1 DEF IndInv, HandlersInOrder, Adding
      <4>3. \A v \in Thread : h'[v].cur # i => h'[v] = h[v]
        BY <2>5, <2>6
      <4>4. QED
        BY <4>1, <4>2, <4>3 DEF IndInv, HandlersInOrder
    <3>3. QED
      BY <3>1, <3>2
  <2>15. WholeOrAdding'
    <3> SUFFICES ASSUME NEW j \in Id, db'.rows[j] # NoInvoice, j \notin touched'
                 PROVE  /\ \A u \in Thread :
                             h'[u].pc = "add" /\ h'[u].cur = j =>
                               db'.rows[j].total = Sum(db'.items[j] \o h'[u].rest)
                        /\ (\A u \in Thread : ~(h'[u].pc = "add" /\ h'[u].cur = j)) =>
                               db'.rows[j].total = Sum(db'.items[j])
      BY DEF WholeOrAdding, Exists, Adding
    <3>1. CASE j = i
      <4>1. \A u \in Thread : h'[u].pc = "add" /\ h'[u].cur = i => u = t
        BY <2>6, <2>13 DEF Adding
      <4>2. h'[t].pc = "add" /\ h'[t].cur = i /\ h'[t].rest = h[t].rest
        BY <2>5, <2>6
      <4>3. db'.items[j] \o h'[t].rest = h[t].rest
        <5>1. db'.items[j] = <<>>
          BY <2>2, <2>8, <2>9, <3>1
        <5>2. <<>> \o h[t].rest = h[t].rest
          BY <1>1, ConcatEmptySeq
        <5>3. QED
          BY <4>2, <5>1, <5>2
      <4>4. db'.rows[j].total = Sum(h[t].rest)
        BY <2>2, <2>3, <2>9, <3>1
      <4>5. QED
        BY <3>1, <4>1, <4>2, <4>3, <4>4
    <3>2. CASE j # i
      <4>1. db'.rows[j] = db.rows[j] /\ db'.items[j] = db.items[j]
        BY <2>9, <3>2
      <4>2. \A u \in Thread : h'[u].cur = j => h'[u] = h[u]
        BY <2>5, <2>6, <3>2
      <4>3. \A u \in Thread : Adding(u, j) => h'[u] = h[u]
        BY <1>1, <2>6 DEF Adding
      <4>4. Exists(j) /\ j \notin touched
        BY <2>1, <4>1 DEF Exists
      <4>5. QED
        BY <4>1, <4>2, <4>3, <4>4 DEF IndInv, WholeOrAdding, Adding
    <3>3. QED
      BY <3>1, <3>2
  <2>16. RemovedWereUsed' /\ RemovedStaysRemoved'
    <3>1. ASSUME NEW j \in removed'
          PROVE  j <= db'.lastId /\ db'.rows[j] = NoInvoice /\ db'.items[j] = <<>>
      <4>1. j \in Id /\ j <= db.lastId
        BY <2>1, <3>1 DEF IndInv, TypeOK, RemovedWereUsed
      <4>2. db.rows[j] = NoInvoice /\ db.items[j] = <<>>
        BY <2>1, <3>1 DEF IndInv, RemovedStaysRemoved
      <4>3. j # i /\ j <= i
        BY <2>2, <4>1 DEF Id
      <4>4. db'.rows[j] = db.rows[j] /\ db'.items[j] = db.items[j] /\ db'.lastId = i
        BY <2>9, <4>1, <4>3
      <4>5. QED
        BY <4>2, <4>3, <4>4
    <3>2. QED
      BY <3>1 DEF RemovedWereUsed, RemovedStaysRemoved
  <2>17. WellFilled(disk)' /\ OnlyWholeInvoicesOnDisk' /\ DurableWhenNoCreate'
    BY <2>1 DEF IndInv, WellFilled, OnlyWholeInvoicesOnDisk, DurableWhenNoCreate
  <2>18. QED
    BY <2>10, <2>11, <2>14, <2>15, <2>16, <2>17 DEF IndInv
<1>4. QED
  BY <1>2, <1>3

LEMMA AddItemKeeps == ASSUME IndInv, NEW t \in Thread, AddItem(t) PROVE IndInv'
<1> DEFINE a == Head(h[t].rest)
<1> DEFINE g == [h[t] EXCEPT !.rest = Tail(@)]
<1>1. /\ h[t] \in Handler /\ h[t].pc = "add"
      /\ h[t].rest # <<>> /\ h[t].rest \in Seq(Amount) /\ db \in Tables
  BY DEF IndInv, TypeOK, AddItem, Handler
<1>2. a \in Amount /\ Tail(h[t].rest) \in Seq(Amount)
  BY <1>1, MoveOne, EmptySeq
<1>3. g \in Handler /\ g.pc = "add" /\ g.cur = h[t].cur /\ g.rest = Tail(h[t].rest)
  BY <1>1, <1>2 DEF Handler
<1>4. /\ Goto(t, g) /\ db' = WithItem(h[t].cur, a) /\ disk' = Commit(db', open')
      /\ UNCHANGED <<nextNum, open, answers, removed, touched>>
  BY DEF AddItem, Write
<1>5. /\ h' \in [Thread -> Handler]
      /\ \A u \in Thread : h'[u] = IF u = t THEN g ELSE h[u]
  BY <1>3, <1>4 DEF Goto, IndInv, TypeOK
<1>6. /\ db' \in Tables /\ db'.lastId = db.lastId
      /\ \A j \in Id :
           /\ db'.rows[j] = db.rows[j]
           /\ db'.items[j] = IF j = h[t].cur /\ Exists(j)
                               THEN Append(db.items[j], a) ELSE db.items[j]
  <2> HIDE DEF a
  <2>1. CASE Exists(h[t].cur)
    <3>1. PICK i \in Id : i = h[t].cur
      BY <2>1 DEF Exists
    <3> DEFINE items == Append(db.items[i], a)
    <3>2. items \in Seq(Amount)
      BY <1>1, <1>2, TablesFacts, AppendProperties
    <3>3. db' = [db EXCEPT !.items[i] = items]
      BY <1>4, <2>1, <3>1 DEF WithItem
    <3> HIDE DEF items
    <3>4. /\ db' \in Tables /\ db'.lastId = db.lastId
          /\ \A j \in Id : /\ db'.rows[j] = db.rows[j]
                           /\ db'.items[j] = IF j = i THEN items ELSE db.items[j]
      BY <1>1, <3>2, <3>3, ItemsFilled
    <3>5. QED
      BY <2>1, <3>1, <3>4 DEF items
  <2>2. CASE ~Exists(h[t].cur)
    BY <1>1, <1>4, <2>2 DEF WithItem
  <2>3. QED
    BY <2>1, <2>2
<1> HIDE DEF g
<1>7. WellFilled(db)'
  BY <1>6 DEF IndInv, WellFilled, Exists
<1>8. \A u \in Thread : h'[u].pc = h[u].pc /\ h'[u].cur = h[u].cur
                       /\ (h[u].pc # "add" => h'[u] = h[u])
  BY <1>1, <1>3, <1>5
<1>9. HandlersInOrder'
  BY <1>4, <1>6, <1>8 DEF IndInv, HandlersInOrder, Adding
<1>10. WholeOrAdding'
  <2> SUFFICES ASSUME NEW j \in Id, db'.rows[j] # NoInvoice, j \notin touched'
               PROVE  /\ \A u \in Thread :
                           h[u].pc = "add" /\ h[u].cur = j =>
                             db'.rows[j].total = Sum(db'.items[j] \o h'[u].rest)
                      /\ (\A u \in Thread : ~(h[u].pc = "add" /\ h[u].cur = j)) =>
                             db'.rows[j].total = Sum(db'.items[j])
    BY <1>8 DEF WholeOrAdding, Exists, Adding
  <2>1. Exists(j) /\ j \notin touched /\ db'.rows[j] = db.rows[j]
    BY <1>4, <1>6 DEF Exists
  <2>2. /\ \A u \in Thread :
             h[u].pc = "add" /\ h[u].cur = j =>
               db.rows[j].total = Sum(db.items[j] \o h[u].rest)
        /\ (\A u \in Thread : ~(h[u].pc = "add" /\ h[u].cur = j)) =>
               db.rows[j].total = Sum(db.items[j])
    BY <2>1 DEF IndInv, WholeOrAdding, Adding
  <2>3. CASE h[t].cur = j
    <3>1. \A u \in Thread : h[u].pc = "add" /\ h[u].cur = j => u = t
      <4>1. j # 0
        BY DEF Id
      <4>2. QED
        BY <1>1, <2>3, <4>1 DEF IndInv, HandlersInOrder, Adding
    <3>2. db'.items[j] = Append(db.items[j], a) /\ h'[t].rest = Tail(h[t].rest)
      BY <1>3, <1>5, <1>6, <2>1, <2>3
    <3>3. db'.items[j] \o h'[t].rest = db.items[j] \o h[t].rest
      BY <1>1, <3>2, TablesFacts, MoveOne
    <3>4. QED
      BY <1>1, <2>1, <2>2, <2>3, <3>1, <3>3
  <2>4. CASE h[t].cur # j
    <3>1. db'.items[j] = db.items[j]
      BY <1>6, <2>4
    <3>2. \A u \in Thread : h[u].cur = j => h'[u] = h[u]
      BY <1>5, <2>4
    <3>3. QED
      BY <2>1, <2>2, <3>1, <3>2
  <2>5. QED
    BY <2>3, <2>4
<1>11. /\ disk' \in Tables /\ WellFilled(disk)'
       /\ OnlyWholeInvoicesOnDisk' /\ DurableWhenNoCreate'
  BY <1>4, <1>6, <1>7, <1>9, <1>10, CommitKeeps
<1>12. TypeOK'
  BY <1>4, <1>5, <1>6, <1>11 DEF IndInv, TypeOK
<1>13. RemovedWereUsed' /\ RemovedStaysRemoved'
  BY <1>4, <1>6, <1>7 DEF IndInv, TypeOK, RemovedWereUsed, RemovedStaysRemoved,
                          WellFilled
<1>14. QED
  BY <1>7, <1>9, <1>10, <1>11, <1>12, <1>13 DEF IndInv

LEMMA PostAnswerKeeps ==
  ASSUME IndInv, NEW t \in Thread, PostAnswer(t)
  PROVE  IndInv'
<1>1. /\ h[t] \in Handler /\ h[t].pc = "add" /\ h[t].rest = <<>> /\ db \in Tables
      /\ open' = open \ {t} /\ db' = db /\ disk' = Commit(db', open')
      /\ Goto(t, Idle) /\ UNCHANGED <<nextNum, removed, touched>>
      /\ answers' = answers \cup {[num |-> h[t].num, id |-> h[t].cur]}
  BY DEF IndInv, TypeOK, PostAnswer
<1>2. /\ h' \in [Thread -> Handler]
      /\ \A u \in Thread : h'[u] = IF u = t THEN Idle ELSE h[u]
  BY <1>1, IdleFacts DEF Goto, IndInv, TypeOK
<1>3. \A u \in Thread : h'[u].pc # "idle" => u # t /\ h'[u] = h[u]
  BY <1>2, IdleFacts
<1>4. HandlersInOrder'
  BY <1>1, <1>3 DEF IndInv, HandlersInOrder, Adding
<1>5. WholeOrAdding'
  <2> SUFFICES ASSUME NEW j \in Id, db.rows[j] # NoInvoice, j \notin touched
               PROVE  /\ \A u \in Thread :
                           h'[u].pc = "add" /\ h'[u].cur = j =>
                             db.rows[j].total = Sum(db.items[j] \o h'[u].rest)
                      /\ (\A u \in Thread : ~(h'[u].pc = "add" /\ h'[u].cur = j)) =>
                             db.rows[j].total = Sum(db.items[j])
    BY <1>1 DEF WholeOrAdding, Exists, Adding
  <2>1. /\ \A u \in Thread :
             h[u].pc = "add" /\ h[u].cur = j =>
               db.rows[j].total = Sum(db.items[j] \o h[u].rest)
        /\ (\A u \in Thread : ~(h[u].pc = "add" /\ h[u].cur = j)) =>
               db.rows[j].total = Sum(db.items[j])
    BY DEF IndInv, WholeOrAdding, Adding, Exists
  <2>2. CASE h[t].cur = j
    <3>1. db.items[j] \o h[t].rest = db.items[j]
      BY <1>1, TablesFacts, ConcatEmptySeq
    <3>2. db.rows[j].total = Sum(db.items[j])
      BY <1>1, <2>1, <2>2, <3>1
    <3>3. QED
      BY <1>3, <2>1, <3>2
  <2>3. CASE h[t].cur # j
    BY <1>2, <1>3, <2>1, <2>3
  <2>4. QED
    BY <2>2, <2>3
<1>6. WellFilled(db)'
  BY <1>1 DEF IndInv, WellFilled
<1>7. /\ disk' \in Tables /\ WellFilled(disk)'
      /\ OnlyWholeInvoicesOnDisk' /\ DurableWhenNoCreate'
  BY <1>1, <1>4, <1>5, <1>6, CommitKeeps
<1>8. answers' \subseteq [num : Nat, id : 0 .. MaxInvoice]
  <2>1. [num |-> h[t].num, id |-> h[t].cur] \in [num : Nat, id : 0 .. MaxInvoice]
    BY <1>1 DEF Handler
  <2>2. QED
    BY <1>1, <2>1 DEF IndInv, TypeOK
<1>9. TypeOK'
  BY <1>1, <1>2, <1>7, <1>8 DEF IndInv, TypeOK
<1>10. RemovedWereUsed' /\ RemovedStaysRemoved'
  BY <1>1 DEF IndInv, RemovedWereUsed, RemovedStaysRemoved
<1>11. QED
  BY <1>4, <1>5, <1>6, <1>7, <1>9, <1>10 DEF IndInv

LEMMA RestartKeeps == ASSUME IndInv, Restart PROVE IndInv'
<1>1. /\ db' = disk /\ disk' = disk /\ touched' = touched /\ nextNum' = FirstNumber
      /\ open' = {} /\ answers' = {} /\ removed' = {}
      /\ h' = [t \in Thread |-> Idle]
  BY DEF Restart
<1>2. TypeOK'
  BY <1>1, IdleFacts, InvoicesAssumption DEF IndInv, TypeOK
<1>3. \A t \in Thread : h'[t].pc = "idle"
  BY <1>1, IdleFacts
<1>4. HandlersInOrder'
  BY <1>3 DEF HandlersInOrder
<1>5. WholeOrAdding'
  BY <1>1, <1>3 DEF IndInv, WholeOrAdding, Exists, Adding, OnlyWholeInvoicesOnDisk
<1>6. /\ WellFilled(db)' /\ WellFilled(disk)' /\ OnlyWholeInvoicesOnDisk'
      /\ DurableWhenNoCreate' /\ RemovedWereUsed' /\ RemovedStaysRemoved'
  BY <1>1 DEF IndInv, WellFilled, OnlyWholeInvoicesOnDisk, DurableWhenNoCreate,
              RemovedWereUsed, RemovedStaysRemoved
<1>7. QED
  BY <1>2, <1>4, <1>5, <1>6 DEF IndInv

LEMMA StutterKeeps == ASSUME IndInv, UNCHANGED vars PROVE IndInv'
BY DEF vars, IndInv, TypeOK, WellFilled, HandlersInOrder, Adding, WholeOrAdding, Exists,
       OnlyWholeInvoicesOnDisk, DurableWhenNoCreate, RemovedWereUsed,
       RemovedStaysRemoved

LEMMA IndInvStep == IndInv /\ [Next]_vars => IndInv'
<1> SUFFICES ASSUME IndInv, [Next]_vars PROVE IndInv'
  OBVIOUS
<1>1. CASE UNCHANGED vars
  BY <1>1, StutterKeeps
<1>2. CASE Restart
  BY <1>2, RestartKeeps
<1>3. ASSUME NEW t \in Thread, Step(t) PROVE IndInv'
  BY <1>3, LoadKeeps, UpdateRowKeeps, DeleteItemsKeeps, InsertItemKeeps, WrittenKeeps,
     AnswerKeeps, OverdueKeeps, PutKeeps, DeleteKeeps, PostReadKeeps, PostWriteKeeps,
     InsertInvoiceKeeps, AddItemKeeps, PostAnswerKeeps DEF Step
<1>4. QED
  BY <1>1, <1>2, <1>3 DEF Next

LEMMA Invariance == Spec => []IndInv
BY InitInv, IndInvStep, PTL DEF Spec

-----------------------------------------------------------------------------
(* Type correctness of the tables, committed or not, and of all handlers.  *)
THEOREM TypeCorrect == Spec => []TypeOK
<1>1. IndInv => TypeOK
  BY DEF IndInv
<1>2. QED
  BY <1>1, Invariance, PTL

(* Whatever crash cuts whichever handlers, an invoice no update has        *)
(* written is on disk with all of its items, or not at all.                *)
THEOREM WholeTheorem == Spec => []OnlyWholeInvoicesOnDisk
<1>1. IndInv => OnlyWholeInvoicesOnDisk
  BY DEF IndInv
<1>2. QED
  BY <1>1, Invariance, PTL

(* An invoice whose DELETE was answered is gone, row and items, for as     *)
(* long as the process lives.                                              *)
THEOREM RemovedTheorem == Spec => []RemovedStaysRemoved
<1>1. IndInv => RemovedStaysRemoved
  BY DEF IndInv
<1>2. QED
  BY <1>1, Invariance, PTL

(* With no create under way a crash loses nothing.                         *)
THEOREM DurableTheorem == Spec => []DurableWhenNoCreate
<1>1. IndInv => DurableWhenNoCreate
  BY DEF IndInv
<1>2. QED
  BY <1>1, Invariance, PTL

-----------------------------------------------------------------------------
(* The ledger.  From here on one handler runs at a time.                   *)

Alone == \A t, u \in Thread : t = u

(* What a reader is shown of the items of i while a handler is at g.       *)
Shown(items, g, i) ==
  IF g.cur = i /\ g.pc = "clear" THEN g.rest
  ELSE IF g.cur = i /\ g.pc = "refill" THEN items \o g.rest
  ELSE items

LEMMA ShownIs ==
  ASSUME NEW t \in Thread, Alone, NEW i
  PROVE  /\ ItemsOnDisk(i) = Shown(disk.items[i], h[t], i)
         /\ ItemsOnDisk(i)' = Shown(disk'.items[i], h'[t], i)
<1>1. ItemsOnDisk(i) = Shown(disk.items[i], h[t], i)
  <2> DEFINE inHand == {u \in Thread : h[u].cur = i /\ h[u].pc \in {"clear", "refill"}}
  <2>1. CASE h[t].cur = i /\ h[t].pc \in {"clear", "refill"}
    <3>1. inHand # {} /\ \A u \in inHand : u = t
      BY <2>1 DEF Alone
    <3>2. (CHOOSE u \in inHand : TRUE) = t
      BY <3>1
    <3>3. QED
      BY <2>1, <3>1, <3>2 DEF ItemsOnDisk, Shown
  <2>2. CASE ~(h[t].cur = i /\ h[t].pc \in {"clear", "refill"})
    <3>1. inHand = {}
      BY <2>2 DEF Alone
    <3>2. QED
      BY <2>2, <3>1 DEF ItemsOnDisk, Shown
  <2>3. QED
    BY <2>1, <2>2
<1>2. ItemsOnDisk(i)' = Shown(disk'.items[i], h'[t], i)
  <2> DEFINE inHand == {u \in Thread : h'[u].cur = i /\ h'[u].pc \in {"clear", "refill"}}
  <2>1. CASE h'[t].cur = i /\ h'[t].pc \in {"clear", "refill"}
    <3>1. inHand # {} /\ \A u \in inHand : u = t
      BY <2>1 DEF Alone
    <3>2. (CHOOSE u \in inHand : TRUE) = t
      BY <3>1
    <3>3. QED
      BY <2>1, <3>1, <3>2 DEF ItemsOnDisk, Shown
  <2>2. CASE ~(h'[t].cur = i /\ h'[t].pc \in {"clear", "refill"})
    <3>1. inHand = {}
      BY <2>2 DEF Alone
    <3>2. QED
      BY <2>2, <3>1 DEF ItemsOnDisk, Shown
  <2>3. QED
    BY <2>1, <2>2
<1>3. QED
  BY <1>1, <1>2

(* The parts of LedgerInv about the handler, taken together.               *)
LEMMA Hand ==
  ASSUME NEW t \in Thread, Alone, TotalsShown', OpenIsAdd(t)', PostInHand(t)',
         NewInHand(t)', SnapshotsCurrent(t)'
  PROVE  LedgerInv'
<1>1. \A u \in Thread : u = t
  BY DEF Alone
<1>2. \A u \in Thread : (OpenIsAdd(u) /\ PostInHand(u) /\ NewInHand(u)
                         /\ SnapshotsCurrent(u))'
  BY <1>1, Zenon
<1>3. QED
  BY <1>2 DEF LedgerInv

(* Outside an add no INSERT is open, so all that is seen is on disk.       *)
LEMMA Settled ==
  ASSUME IndInv, LedgerInv, NEW t \in Thread, Alone, h[t].pc # "add"
  PROVE  open = {} /\ disk = db
<1>1. open = {}
  <2>1. open \subseteq Thread /\ OpenIsAdd(t) /\ \A u \in Thread : u = t
    BY DEF IndInv, TypeOK, LedgerInv, Alone
  <2>2. QED
    BY <2>1 DEF OpenIsAdd
<1>2. QED
  BY <1>1 DEF IndInv, DurableWhenNoCreate

(* A step that leaves the rows on disk and shows every invoice as before.  *)
LEMMA SameLedger ==
  ASSUME LedgerInv, NEW t \in Thread, Alone,
         disk'.rows = disk.rows, disk'.lastId = disk.lastId,
         \A i \in Id : Shown(disk'.items[i], h'[t], i) = Shown(disk.items[i], h[t], i)
  PROVE  TotalsShown' /\ UNCHANGED Ledger!lvars
<1>1. \A i \in Id : ItemsOnDisk(i)' = ItemsOnDisk(i)
  BY ShownIs
<1>2. Lines' = Lines
  BY <1>1 DEF Lines
<1>3. TotalsShown'
  BY <1>1 DEF LedgerInv, TotalsShown
<1>4. QED
  BY <1>2, <1>3 DEF Ledger!lvars

-----------------------------------------------------------------------------
(* Steps the ledger does not see.                                          *)

LEMMA GoesTo ==
  ASSUME IndInv, NEW t \in Thread, NEW g, Goto(t, g)
  PROVE  h'[t] = g
BY DEF Goto, IndInv, TypeOK

LEMMA LoadLedger ==
  ASSUME IndInv, LedgerInv, NEW t \in Thread, Alone, LoadItems(t)
  PROVE  LedgerInv' /\ UNCHANGED Ledger!lvars
<1>1. /\ h[t] \in Handler /\ h[t].pc = "scan" /\ db' = db /\ disk' = disk
      /\ open' = open
  BY DEF IndInv, TypeOK, LoadItems
<1>2. PICK s \in h[t].scan :
        Goto(t, [h[t] EXCEPT !.scan = @ \ {s},
                     !.found = @ \cup {[s EXCEPT !.items = db.items[s.id]]}])
  BY DEF LoadItems
<1> DEFINE loaded == [s EXCEPT !.items = db.items[s.id]]
<1>3. s \in Snapshot
  BY <1>1, <1>2 DEF Handler
<1>4. /\ loaded.id = s.id /\ loaded.row = s.row /\ loaded.items = db.items[s.id]
      /\ s.items = db.items[s.id] => loaded = s
  BY <1>3 DEF Snapshot
<1> HIDE DEF loaded
<1> DEFINE g == [h[t] EXCEPT !.scan = @ \ {s}, !.found = @ \cup {loaded}]
<1>5. /\ g.pc = "scan" /\ g.scan = h[t].scan \ {s}
      /\ g.found = h[t].found \cup {loaded}
  BY <1>1 DEF Handler
<1>6. h'[t] = g
  BY <1>2, GoesTo DEF loaded
<1> HIDE DEF g
<1>7. SnapshotsCurrent(t)
  BY DEF LedgerInv
<1>8. SnapshotsCurrent(t)'
  <2> DEFINE old == h[t].scan \cup h[t].found
  <2>1. /\ \A x \in old : Exists(x.id) /\ Change(x)
                          /\ \A r \in old : r.id = x.id => r = x
        /\ \A x \in h[t].found : x.items = db.items[x.id]
    BY <1>1, <1>7 DEF SnapshotsCurrent
  <2>2. s \in old
    BY <1>2
  <2>3. Exists(loaded.id) /\ Change(loaded)
    BY <1>4, <2>1, <2>2 DEF Change
  <2> DEFINE new == g.scan \cup g.found
  <2>4. \A x \in new : x = loaded \/ (x \in old /\ (x = s => x = loaded))
    BY <1>2, <1>4, <1>5, <2>1
  <2>5. \A x \in new : (Exists(x.id) /\ Change(x))'
    BY <1>1, <2>1, <2>3, <2>4 DEF Exists, Change
  <2>6. \A x, r \in new : r.id = x.id => r = x
    BY <1>4, <2>1, <2>2, <2>4
  <2>7. \A x \in g.found : x.items = db'.items[x.id]
    BY <1>1, <1>4, <1>5, <2>1
  <2>8. QED
    BY <1>5, <1>6, <2>5, <2>6, <2>7 DEF SnapshotsCurrent
<1>9. OpenIsAdd(t)' /\ PostInHand(t)' /\ NewInHand(t)'
  BY <1>1, <1>5, <1>6, Settled DEF OpenIsAdd, PostInHand, NewInHand
<1>10. \A i \in Id : Shown(disk.items[i], h'[t], i) = Shown(disk.items[i], h[t], i)
  BY <1>1, <1>5, <1>6 DEF Shown
<1>11. QED
  BY <1>1, <1>8, <1>9, <1>10, SameLedger, Hand

LEMMA WrittenLedger ==
  ASSUME IndInv, LedgerInv, NEW t \in Thread, Alone, Written(t)
  PROVE  LedgerInv' /\ UNCHANGED Ledger!lvars
<1>1. /\ h[t] \in Handler /\ h[t].pc = "refill" /\ h[t].rest = <<>>
      /\ db' = db /\ disk' = disk /\ open' = open /\ disk \in Tables
  BY DEF IndInv, TypeOK, Written
<1> DEFINE g == [h[t] EXCEPT !.pc = "scan", !.cur = 0]
<1>2. /\ g.pc = "scan" /\ g.cur = 0 /\ g.scan = h[t].scan /\ g.found = h[t].found
  BY <1>1 DEF Handler
<1>3. h'[t] = g
  BY GoesTo DEF Written
<1> HIDE DEF g
<1>4. SnapshotsCurrent(t)'
  <2>1. SnapshotsCurrent(t)
    BY DEF LedgerInv
  <2>2. QED
    BY <1>1, <1>2, <1>3, <2>1 DEF SnapshotsCurrent, Exists, Change
<1>5. OpenIsAdd(t)' /\ PostInHand(t)' /\ NewInHand(t)'
  BY <1>1, <1>2, <1>3, Settled DEF OpenIsAdd, PostInHand, NewInHand
<1>6. \A i \in Id : Shown(disk.items[i], h'[t], i) = Shown(disk.items[i], h[t], i)
  <2>1. \A i \in Id : disk.items[i] \o h[t].rest = disk.items[i]
    BY <1>1, TablesFacts, ConcatEmptySeq
  <2>2. QED
    BY <1>1, <1>2, <1>3, <2>1 DEF Shown
<1>7. QED
  BY <1>1, <1>4, <1>5, <1>6, SameLedger, Hand

(* A handler that has just started, or is done, holds no snapshot but      *)
(* those it lists, and no invoice.                                         *)
LEMMA StartLedger ==
  ASSUME IndInv, LedgerInv, NEW t \in Thread, Alone, NEW g, h'[t] = g,
         UNCHANGED <<db, disk, open>>, h[t].pc \in {"idle", "scan", "number"},
         g.pc \in {"idle", "scan", "number", "insert"},
         g.pc \in {"number", "insert"} =>
           g.rest \in ItemList /\ g.num \in 0 .. MaxNumber,
         g.pc = "scan" =>
           /\ g.found = {}
           /\ \A s \in g.scan : /\ Exists(s.id) /\ Change(s)
                                /\ \A r \in g.scan : r.id = s.id => r = s
  PROVE  LedgerInv' /\ UNCHANGED Ledger!lvars
<1>1. OpenIsAdd(t)' /\ PostInHand(t)' /\ NewInHand(t)'
  BY Settled DEF OpenIsAdd, PostInHand, NewInHand
<1>2. SnapshotsCurrent(t)'
  BY DEF SnapshotsCurrent, Exists, Change
<1>3. \A i \in Id : Shown(disk.items[i], h'[t], i) = Shown(disk.items[i], h[t], i)
  BY DEF Shown
<1>4. QED
  BY <1>1, <1>2, <1>3, SameLedger, Hand

LEMMA AnswerLedger ==
  ASSUME IndInv, LedgerInv, NEW t \in Thread, Alone, Answer(t)
  PROVE  LedgerInv' /\ UNCHANGED Ledger!lvars
<1>1. h'[t] = Idle /\ h[t].pc = "scan" /\ UNCHANGED <<db, disk, open>>
  BY GoesTo DEF Answer
<1>2. QED
  BY <1>1, IdleFacts, StartLedger

LEMMA ScanStart ==
  ASSUME NEW scan
  PROVE  /\ [Idle EXCEPT !.pc = "scan", !.scan = scan].pc = "scan"
         /\ [Idle EXCEPT !.pc = "scan", !.scan = scan].scan = scan
         /\ [Idle EXCEPT !.pc = "scan", !.scan = scan].found = {}
<1> DEFINE e == <<>>
<1> HIDE DEF e
<1>1. Idle = [pc |-> "idle", scan |-> {}, found |-> {}, cur |-> 0, rest |-> e,
              num |-> 0, due |-> "later"]
  BY DEF Idle, e
<1>2. QED
  BY <1>1

LEMMA PutLedger ==
  ASSUME IndInv, LedgerInv, NEW t \in Thread, Alone, NEW i \in Id, Put(t, i)
  PROVE  LedgerInv' /\ UNCHANGED Ledger!lvars
<1>1. h[t].pc = "idle" /\ UNCHANGED <<db, disk, open>> /\ Exists(i)
  BY DEF Put, Begin
<1>2. PICK status \in EditStatus, due \in EditDue :
        Goto(t, [Idle EXCEPT !.pc = "scan",
                   !.scan = {[id |-> i, row |-> Edited(db.rows[i], status, due),
                              items |-> <<>>]}])
  BY DEF Put
<1> DEFINE s == [id |-> i, row |-> Edited(db.rows[i], status, due), items |-> <<>>]
<1>3. s.id = i /\ s.row = Edited(db.rows[i], status, due)
  <2> DEFINE e == <<>>
  <2> DEFINE r == Edited(db.rows[i], status, due)
  <2> HIDE DEF e, r
  <2>1. s = [id |-> i, row |-> r, items |-> e]
    BY DEF e, r
  <2>2. s.id = i /\ s.row = r
    BY <2>1
  <2>3. QED
    BY <2>2 DEF r
<1> HIDE DEF s
<1> DEFINE g == [Idle EXCEPT !.pc = "scan", !.scan = {s}]
<1>4. h'[t] = g
  BY <1>2, GoesTo DEF s
<1>5. g.pc = "scan" /\ g.scan = {s} /\ g.found = {}
  BY ScanStart
<1> HIDE DEF g
<1>6. Change(s)
  BY <1>3 DEF Change
<1>7. QED
  BY <1>1, <1>3, <1>4, <1>5, <1>6, StartLedger

LEMMA OverdueLedger ==
  ASSUME IndInv, LedgerInv, NEW t \in Thread, Alone, CheckOverdue(t)
  PROVE  LedgerInv' /\ UNCHANGED Ledger!lvars
<1>1. h[t].pc = "idle" /\ UNCHANGED <<db, disk, open>>
  BY DEF CheckOverdue, Begin
<1> DEFINE late == {j \in Id : Exists(j) /\ Lapsed(db.rows[j])}
<1> DEFINE snap(i) == [id |-> i, row |-> [db.rows[i] EXCEPT !.status = "Overdue"],
                       items |-> <<>>]
<1> DEFINE scan == {snap(i) : i \in late}
<1>2. \A i : snap(i).id = i /\ snap(i).row = [db.rows[i] EXCEPT !.status = "Overdue"]
  <2> SUFFICES ASSUME NEW i
               PROVE  /\ snap(i).id = i
                      /\ snap(i).row = [db.rows[i] EXCEPT !.status = "Overdue"]
    OBVIOUS
  <2> DEFINE e == <<>>
  <2> DEFINE r == [db.rows[i] EXCEPT !.status = "Overdue"]
  <2> HIDE DEF e, r
  <2>1. snap(i) = [id |-> i, row |-> r, items |-> e]
    BY DEF e, r
  <2>2. snap(i).id = i /\ snap(i).row = r
    BY <2>1
  <2>3. QED
    BY <2>2 DEF r
<1>3. h'[t] = [Idle EXCEPT !.pc = "scan", !.scan = scan]
  BY GoesTo DEF CheckOverdue
<1> HIDE DEF snap
<1>4. \A s \in scan : \E i \in late : s = snap(i)
  OBVIOUS
<1>5. \A s \in scan : /\ Exists(s.id) /\ Change(s)
                      /\ \A r \in scan : r.id = s.id => r = s
  BY <1>2, <1>4 DEF Change
<1> HIDE DEF scan
<1> DEFINE g == [Idle EXCEPT !.pc = "scan", !.scan = scan]
<1>6. g.pc = "scan" /\ g.scan = scan /\ g.found = {}
  BY ScanStart
<1>7. h'[t] = g
  BY <1>3
<1> HIDE DEF g
<1>8. QED
  BY <1>1, <1>5, <1>6, <1>7, StartLedger

LEMMA PostReadLedger ==
  ASSUME IndInv, LedgerInv, NEW t \in Thread, Alone, PostRead(t)
  PROVE  LedgerInv' /\ UNCHANGED Ledger!lvars
<1>1. h[t].pc = "idle" /\ UNCHANGED <<db, disk, open>>
      /\ nextNum \in Nat /\ nextNum < MaxNumber
  BY DEF PostRead, Begin, IndInv, TypeOK
<1>2. PICK items \in ItemList, due \in Due :
        Goto(t, [Idle EXCEPT !.pc = "number", !.num = nextNum, !.rest = items,
                             !.due = due])
  BY DEF PostRead
<1> DEFINE g == [Idle EXCEPT !.pc = "number", !.num = nextNum, !.rest = items,
                             !.due = due]
<1>3. g.pc = "number" /\ g.rest = items /\ g.num = nextNum
  BY IdleFacts DEF Handler
<1>4. h'[t] = g
  BY <1>2, GoesTo
<1> HIDE DEF g
<1>5. g.num \in 0 .. MaxNumber
  BY <1>1, <1>3, InvoicesAssumption
<1>6. QED
  BY <1>1, <1>3, <1>4, <1>5, StartLedger

LEMMA PostWriteLedger ==
  ASSUME IndInv, LedgerInv, NEW t \in Thread, Alone, PostWrite(t)
  PROVE  LedgerInv' /\ UNCHANGED Ledger!lvars
<1>1. h[t] \in Handler /\ h[t].pc = "number" /\ UNCHANGED <<db, disk, open>>
  BY DEF IndInv, TypeOK, PostWrite
<1>2. h[t].rest \in ItemList /\ h[t].num \in 0 .. MaxNumber
  BY <1>1 DEF LedgerInv, PostInHand
<1> DEFINE g == [h[t] EXCEPT !.pc = "insert"]
<1>3. g.pc = "insert" /\ g.rest = h[t].rest /\ g.num = h[t].num
  BY <1>1 DEF Handler
<1>4. h'[t] = g
  BY GoesTo DEF PostWrite
<1> HIDE DEF g
<1>5. QED
  BY <1>1, <1>2, <1>3, <1>4, StartLedger

(* The statements that put the items of an update back.                    *)
LEMMA RefillLedger ==
  ASSUME IndInv, LedgerInv, NEW t \in Thread, Alone, NEW g, h'[t] = g,
         UNCHANGED open, h[t].pc \in {"clear", "refill"},
         g.pc = "refill", g.cur = h[t].cur, g.scan = h[t].scan, g.found = h[t].found,
         NEW items \in Seq(Amount), Write([db EXCEPT !.items[h[t].cur] = items]),
         items \o g.rest = Shown(disk.items[h[t].cur], h[t], h[t].cur)
  PROVE  LedgerInv' /\ UNCHANGED Ledger!lvars
<1>1. open = {} /\ disk = db /\ db \in Tables
  BY Settled DEF IndInv, TypeOK
<1>2. SnapshotsCurrent(t)
  BY DEF LedgerInv
<1> DEFINE i == h[t].cur
<1>3. i \in Id /\ Exists(i) /\ h[t].scan = {}
      /\ \A s \in h[t].found : s.id # i /\ Exists(s.id)
  BY <1>2 DEF SnapshotsCurrent, Exists
<1>4. db' = [db EXCEPT !.items[i] = items] /\ disk' = db'
  BY <1>1 DEF Write, Commit
<1>5. /\ db' \in Tables /\ db'.lastId = db.lastId
      /\ \A j \in Id : /\ db'.rows[j] = db.rows[j]
                       /\ db'.items[j] = IF j = i THEN items ELSE db.items[j]
  <2> DEFINE f == [db EXCEPT !.items[i] = items]
  <2>1. /\ f \in Tables /\ f.lastId = db.lastId
        /\ \A j \in Id : /\ f.rows[j] = db.rows[j]
                         /\ f.items[j] = IF j = i THEN items ELSE db.items[j]
    BY <1>1, <1>3, ItemsFilled
  <2>2. db' = f
    BY <1>4
  <2> HIDE DEF f
  <2>3. QED
    BY <2>1, <2>2
<1>6. db'.rows = db.rows
  <2>1. db' = Filled(db, i, db.rows[i], items, db.lastId)
    BY <1>1, <1>4, FillItems
  <2>2. QED
    BY <1>1, <2>1, TablesAre DEF Filled
<1>7. SnapshotsCurrent(t)'
  <2>1. \A s \in h[t].found : Exists(s.id)' /\ Change(s)'
    <3>1. \A s \in h[t].found : Exists(s.id) /\ Change(s)
      BY <1>2 DEF SnapshotsCurrent
    <3>2. \A s : Exists(s.id)' = Exists(s.id)
      BY <1>6 DEF Exists
    <3>3. \A s : Change(s)' = Change(s)
      BY <1>6 DEF Change
    <3>4. QED
      BY <3>1, <3>2, <3>3
  <2>2. \A s \in h[t].found : s.items = db'.items[s.id]
    <3>1. \A s \in h[t].found : s.items = db.items[s.id] /\ s.id \in Id
      BY <1>2, <1>3 DEF SnapshotsCurrent, Exists
    <3>2. QED
      BY <1>3, <1>5, <3>1
  <2>3. Exists(i)'
    BY <1>3, <1>6 DEF Exists
  <2>4. QED
    BY <1>2, <1>3, <2>1, <2>2, <2>3 DEF SnapshotsCurrent
<1>8. OpenIsAdd(t)' /\ PostInHand(t)' /\ NewInHand(t)'
  BY <1>1 DEF OpenIsAdd, PostInHand, NewInHand
<1>9. \A j \in Id : Shown(disk'.items[j], h'[t], j) = Shown(disk.items[j], h[t], j)
  <2> SUFFICES ASSUME NEW j \in Id
               PROVE  Shown(disk'.items[j], h'[t], j) = Shown(disk.items[j], h[t], j)
    OBVIOUS
  <2>1. CASE j = i
    <3>1. Shown(disk'.items[j], h'[t], j) = items \o g.rest
      BY <1>3, <1>4, <1>5, <2>1 DEF Shown
    <3>2. QED
      BY <2>1, <3>1
  <2>2. CASE j # i
    BY <1>1, <1>4, <1>5, <2>2 DEF Shown
  <2>3. QED
    BY <2>1, <2>2
<1>10. disk'.rows = disk.rows /\ disk'.lastId = disk.lastId
  BY <1>1, <1>4, <1>5, <1>6
<1>11. QED
  BY <1>7, <1>8, <1>9, <1>10, SameLedger, Hand

LEMMA DeleteItemsLedger ==
  ASSUME IndInv, LedgerInv, NEW t \in Thread, Alone, DeleteItems(t)
  PROVE  LedgerInv' /\ UNCHANGED Ledger!lvars
<1>1. /\ h[t] \in Handler /\ h[t].pc = "clear" /\ open' = open
      /\ h[t].rest \in Seq(Amount) /\ Write([db EXCEPT !.items[h[t].cur] = <<>>])
  BY DEF IndInv, TypeOK, DeleteItems, Handler
<1> DEFINE g == [h[t] EXCEPT !.pc = "refill"]
<1>2. /\ g.pc = "refill" /\ g.cur = h[t].cur /\ g.scan = h[t].scan
      /\ g.found = h[t].found /\ g.rest = h[t].rest
  BY <1>1 DEF Handler
<1>3. h'[t] = g
  BY GoesTo DEF DeleteItems
<1> HIDE DEF g
<1>4. Shown(disk.items[h[t].cur], h[t], h[t].cur) = h[t].rest
  BY <1>1 DEF Shown
<1>5. <<>> \in Seq(Amount) /\ <<>> \o g.rest = h[t].rest
  BY <1>1, <1>2, EmptySeq, ConcatEmptySeq
<1>6. QED
  BY <1>1, <1>2, <1>3, <1>4, <1>5, RefillLedger

LEMMA InsertItemLedger ==
  ASSUME IndInv, LedgerInv, NEW t \in Thread, Alone, InsertItem(t)
  PROVE  LedgerInv' /\ UNCHANGED Ledger!lvars
<1>1. /\ h[t] \in Handler /\ h[t].pc = "refill" /\ open' = open
      /\ h[t].rest \in Seq(Amount) /\ h[t].rest # <<>>
      /\ Write(WithItem(h[t].cur, Head(h[t].rest)))
      /\ db \in Tables
  BY DEF IndInv, TypeOK, InsertItem, Handler
<1> DEFINE i == h[t].cur
<1>2. Exists(i) /\ i \in Id
  BY <1>1 DEF LedgerInv, SnapshotsCurrent, Exists
<1> DEFINE items == Append(db.items[i], Head(h[t].rest))
<1>3. items \in Seq(Amount) /\ items \o Tail(h[t].rest) = db.items[i] \o h[t].rest
  BY <1>1, <1>2, TablesFacts, MoveOne
<1>4. Write([db EXCEPT !.items[i] = items])
  BY <1>1, <1>2 DEF WithItem
<1> HIDE DEF items
<1> DEFINE g == [h[t] EXCEPT !.rest = Tail(@)]
<1>5. /\ g.pc = "refill" /\ g.cur = i /\ g.scan = h[t].scan
      /\ g.found = h[t].found /\ g.rest = Tail(h[t].rest)
  BY <1>1 DEF Handler
<1>6. h'[t] = g
  BY GoesTo DEF InsertItem
<1> HIDE DEF g
<1>7. Shown(disk.items[i], h[t], i) = db.items[i] \o h[t].rest
  BY <1>1, Settled DEF Shown
<1>8. items \o g.rest = Shown(disk.items[i], h[t], i)
  BY <1>3, <1>5, <1>7
<1>9. h[t].pc \in {"clear", "refill"}
  BY <1>1
<1>10. QED
  BY <1>1, <1>3, <1>4, <1>5, <1>6, <1>8, <1>9, RefillLedger

LEMMA RestartLedger ==
  ASSUME IndInv, LedgerInv, NEW t \in Thread, Alone, Restart,
         CrashPoint \cap {"clear", "refill"} = {}
  PROVE  LedgerInv' /\ UNCHANGED Ledger!lvars
<1>1. /\ disk' = disk /\ open' = {} /\ h'[t] = Idle
      /\ h[t].pc \notin {"clear", "refill"}
  BY DEF Restart
<1>2. h'[t].pc = "idle"
  BY <1>1, IdleFacts
<1>3. OpenIsAdd(t)' /\ PostInHand(t)' /\ NewInHand(t)' /\ SnapshotsCurrent(t)'
  BY <1>1, <1>2 DEF OpenIsAdd, PostInHand, NewInHand, SnapshotsCurrent
<1>4. \A i \in Id : Shown(disk'.items[i], h'[t], i) = Shown(disk.items[i], h[t], i)
  BY <1>1, <1>2 DEF Shown
<1>5. QED
  BY <1>1, <1>3, <1>4, SameLedger, Hand

-----------------------------------------------------------------------------
(* Steps the ledger sees.                                                  *)

LEMMA DeleteLedger ==
  ASSUME IndInv, LedgerInv, NEW t \in Thread, Alone, NEW i \in Id, Delete(t, i)
  PROVE  LedgerInv' /\ Ledger!Delete(i)
<1>1. /\ h[t].pc = "idle" /\ db \in Tables /\ h' = h /\ open' = open
      /\ Write([db EXCEPT !.rows[i] = NoInvoice, !.items[i] = <<>>])
  BY DEF Delete, Begin, IndInv, TypeOK
<1>2. open = {} /\ disk = db
  BY <1>1, Settled
<1> DEFINE e == <<>>
<1>3. disk' = Filled(disk, i, NoInvoice, e, disk.lastId)
  <2>1. [db EXCEPT !.rows[i] = NoInvoice, !.items[i] = e]
          = Filled(db, i, NoInvoice, e, db.lastId)
    BY <1>1, FillBoth, Zenon
  <2>2. disk' = [db EXCEPT !.rows[i] = NoInvoice, !.items[i] = e]
    BY <1>1, <1>2 DEF Write, Commit
  <2>3. QED
    BY <1>2, <2>1, <2>2
<1>4. e \in Seq(Amount)
  BY EmptySeq
<1> HIDE DEF e
<1>5. /\ disk'.rows = [disk.rows EXCEPT ![i] = NoInvoice]
      /\ disk'.lastId = disk.lastId
      /\ disk'.items = [disk.items EXCEPT ![i] = e]
  BY <1>3 DEF Filled
<1>6. \A j \in Id : /\ ItemsOnDisk(j) = disk.items[j]
                    /\ ItemsOnDisk(j)' = disk'.items[j]
  BY <1>1, ShownIs DEF Shown
<1>7. disk.items \in [Id -> Seq(Amount)] /\ disk.rows \in [Id -> Row \cup {NoInvoice}]
  BY <1>1, <1>2 DEF Tables
<1>8. Lines' = [Lines EXCEPT ![i] = e]
  BY <1>5, <1>6, <1>7 DEF Lines
<1>9. TotalsShown'
  <2>1. \A j \in Id : disk'.rows[j] # NoInvoice =>
          disk'.rows[j] = disk.rows[j] /\ ItemsOnDisk(j)' = ItemsOnDisk(j)
    BY <1>5, <1>6, <1>7
  <2>2. QED
    BY <2>1 DEF LedgerInv, TotalsShown
<1>10. OpenIsAdd(t)' /\ PostInHand(t)' /\ NewInHand(t)' /\ SnapshotsCurrent(t)'
  BY <1>1, <1>2 DEF OpenIsAdd, PostInHand, NewInHand, SnapshotsCurrent
<1>11. QED
  BY <1>5, <1>8, <1>9, <1>10, Hand DEF Ledger!Delete, e

LEMMA InsertInvoiceLedger ==
  ASSUME IndInv, LedgerInv, NEW t \in Thread, Alone, InsertInvoice(t)
  PROVE  LedgerInv' /\ UNCHANGED Ledger!lvars
<1>1. /\ h[t] \in Handler /\ h[t].pc = "insert" /\ h[t].cur = 0
      /\ h[t].rest \in ItemList /\ h[t].rest \in Seq(Amount)
      /\ h[t].num \in 0 .. MaxNumber
      /\ db \in Tables /\ disk' = disk
  BY DEF IndInv, TypeOK, HandlersInOrder, LedgerInv, PostInHand, InsertInvoice,
         Handler
<1>2. open = {} /\ disk = db
  BY <1>1, Settled
<1>3. CASE \E i \in Id : Exists(i) /\ db.rows[i].num = h[t].num
  <2> DEFINE g == [h[t] EXCEPT !.pc = "add"]
  <2>1. g.pc = "add" /\ g.cur = 0 /\ g.num = h[t].num
    BY <1>1 DEF Handler
  <2>2. h'[t] = g /\ open' = open
    BY <1>3, GoesTo DEF InsertInvoice
  <2> HIDE DEF g
  <2>3. OpenIsAdd(t)' /\ PostInHand(t)' /\ NewInHand(t)' /\ SnapshotsCurrent(t)'
    BY <1>1, <1>2, <2>1, <2>2
       DEF OpenIsAdd, PostInHand, NewInHand, SnapshotsCurrent
  <2>4. \A i \in Id : Shown(disk'.items[i], h'[t], i) = Shown(disk.items[i], h[t], i)
    BY <1>1, <2>1, <2>2 DEF Shown
  <2>5. QED
    BY <1>1, <2>3, <2>4, SameLedger, Hand
<1>4. CASE ~ \E i \in Id : Exists(i) /\ db.rows[i].num = h[t].num
  <2> DEFINE i == db.lastId + 1
  <2> DEFINE r == [num |-> h[t].num, status |-> "Pending", due |-> h[t].due,
                   total |-> Sum(h[t].rest)]
  <2> DEFINE g == [h[t] EXCEPT !.pc = "add", !.cur = i]
  <2>1. /\ db.lastId < MaxInvoice /\ h'[t] = g
        /\ db' = [db EXCEPT !.lastId = i, !.rows[i] = r]
    BY <1>4, GoesTo DEF InsertInvoice
  <2>2. i \in Id /\ i > db.lastId /\ i # 0
    BY <1>1, <2>1, TablesFacts, InvoicesAssumption DEF Id
  <2>3. db.rows[i] = NoInvoice /\ db.items[i] = <<>>
    BY <2>2 DEF IndInv, WellFilled
  <2>4. /\ g.pc = "add" /\ g.cur = i /\ g.rest = h[t].rest
        /\ g.num = h[t].num /\ g.due = h[t].due
    BY <1>1 DEF Handler
  <2> HIDE DEF g
  <2>5. r = [num |-> g.num, status |-> "Pending", due |-> g.due,
             total |-> Sum(h[t].rest)]
    BY <2>4
  <2> HIDE DEF r, i
  <2>6. /\ db'.lastId = i /\ db'.items = db.items
        /\ db'.rows[i] = r
        /\ \A j \in Id : j # i => db'.rows[j] = db.rows[j]
    <3>1. /\ db = [rows |-> db.rows, items |-> db.items, lastId |-> db.lastId]
          /\ db.rows \in [Id -> Row \cup {NoInvoice}]
      BY <1>1, TablesAre DEF Tables
    <3>2. db' = [rows |-> [db.rows EXCEPT ![i] = r], items |-> db.items,
                 lastId |-> i]
      BY <2>1, <3>1
    <3>3. db'.rows = [db.rows EXCEPT ![i] = r]
      BY <3>2
    <3>4. QED
      BY <2>2, <3>1, <3>2, <3>3
  <2>0. PICK items \in ItemList : items = h[t].rest
    BY <1>1
  <2>7. db'.items[i] \o g.rest = items
    BY <1>1, <2>0, <2>3, <2>4, <2>6, ConcatEmptySeq
  <2>8. \A j \in Id : disk'.rows[j] # NoInvoice => disk'.rows[j].num # g.num
    BY <1>1, <1>2, <1>4, <2>4 DEF Exists
  <2>9. i = disk'.lastId + 1
    BY <1>1, <1>2 DEF i
  <2>10. Awaited(t, items)'
    BY <1>1, <1>2, <2>0, <2>1, <2>4, <2>5, <2>6, <2>7, <2>8, <2>9 DEF Awaited
  <2>11. NewInHand(t)'
    BY <1>1, <2>10 DEF NewInHand
  <2>12. OpenIsAdd(t)' /\ PostInHand(t)' /\ SnapshotsCurrent(t)'
    BY <1>1, <2>1, <2>2, <2>4 DEF OpenIsAdd, PostInHand, SnapshotsCurrent
  <2>13. \A j \in Id : Shown(disk'.items[j], h'[t], j) = Shown(disk.items[j], h[t], j)
    BY <1>1, <2>1, <2>4 DEF Shown
  <2>14. QED
    BY <1>1, <2>11, <2>12, <2>13, SameLedger, Hand
<1>5. QED
  BY <1>3, <1>4

(* While its statement is open, an add has a row and is the only writer.   *)
LEMMA AwaitedFacts ==
  ASSUME IndInv, LedgerInv, NEW t \in Thread, Alone,
         h[t].pc = "add", h[t].cur # 0
  PROVE  /\ open = {t} /\ h[t].cur \in Id /\ Exists(h[t].cur)
         /\ \E items \in ItemList : Awaited(t, items)
<1>1. h[t] \in Handler /\ db \in Tables
  BY DEF IndInv, TypeOK
<1>2. t \in open /\ open \subseteq Thread
  BY DEF IndInv, TypeOK, HandlersInOrder
<1>3. open = {t}
  BY <1>2 DEF Alone
<1>4. h[t].cur \in Id
  <2>1. h[t].cur \in 0 .. MaxInvoice
    BY <1>1 DEF Handler
  <2>2. QED
    BY <2>1, InvoicesAssumption DEF Id
<1>5. PICK items \in ItemList : Awaited(t, items)
  BY DEF LedgerInv, NewInHand
<1>6. db.rows[h[t].cur] \in Row
  <2>1. db.rows[h[t].cur] = [num |-> h[t].num, status |-> "Pending",
                             due |-> h[t].due, total |-> Sum(items)]
    BY <1>5 DEF Awaited
  <2>2. Sum(items) \in Nat
    BY InvoicesAssumption
  <2>3. QED
    BY <1>1, <2>1, <2>2 DEF Handler, Row, Status
<1>7. Exists(h[t].cur)
  BY <1>4, <1>6, InvoicesAssumption DEF Exists
<1>8. QED
  BY <1>3, <1>4, <1>5, <1>7

LEMMA AddItemLedger ==
  ASSUME IndInv, LedgerInv, NEW t \in Thread, Alone, AddItem(t)
  PROVE  LedgerInv' /\ UNCHANGED Ledger!lvars
<1> DEFINE i == h[t].cur
<1> DEFINE a == Head(h[t].rest)
<1> DEFINE g == [h[t] EXCEPT !.rest = Tail(@)]
<1>1. /\ h[t] \in Handler /\ h[t].pc = "add" /\ db \in Tables
      /\ h[t].rest # <<>> /\ h[t].rest \in Seq(Amount)
      /\ db' = WithItem(i, a) /\ disk' = Commit(db', open) /\ open' = open
  BY DEF IndInv, TypeOK, AddItem, Handler, Write
<1>2. /\ g.pc = "add" /\ g.cur = i /\ g.rest = Tail(h[t].rest)
      /\ g.num = h[t].num /\ g.due = h[t].due
  BY <1>1 DEF Handler
<1>3. h'[t] = g
  BY GoesTo DEF AddItem
<1> HIDE DEF g
<1>9. \A s \in Seq(Amount) : /\ Append(s, a) \in Seq(Amount)
                              /\ Append(s, a) \o Tail(h[t].rest) = s \o h[t].rest
  BY <1>1, MoveOne
<1>4. PostInHand(t) /\ OpenIsAdd(t)
  BY DEF LedgerInv
<1>5. OpenIsAdd(t)' /\ PostInHand(t)' /\ SnapshotsCurrent(t)'
  BY <1>1, <1>2, <1>3, <1>4 DEF OpenIsAdd, PostInHand, SnapshotsCurrent
<1>6. disk' = disk /\ NewInHand(t)'
  <2>1. CASE i = 0
    <3>1. open = {}
      BY <1>4, <2>1 DEF OpenIsAdd, IndInv, TypeOK, Alone
    <3>2. disk = db
      BY <3>1 DEF IndInv, DurableWhenNoCreate
    <3>3. db' = db
      BY <1>1, <2>1 DEF WithItem, Exists, Id
    <3>4. QED
      BY <1>1, <1>2, <1>3, <2>1, <3>1, <3>2, <3>3 DEF Commit, NewInHand
  <2>2. CASE i # 0
    <3> HIDE DEF a
    <3>1. open = {t} /\ i \in Id /\ Exists(i)
      BY <1>1, <2>2, AwaitedFacts
    <3>2. disk' = disk
      BY <1>1, <3>1 DEF Commit
    <3>3. PICK items \in ItemList : Awaited(t, items)
      BY <1>1, <2>2, AwaitedFacts
    <3>0. PICK k \in Id : k = i
      BY <3>1
    <3> DEFINE more == Append(db.items[k], a)
    <3>11. db.items[k] \in Seq(Amount)
      BY <1>1, TablesFacts
    <3>12. more \in Seq(Amount)
      BY <1>9, <3>11
    <3>4. more \o g.rest = db.items[k] \o h[t].rest
      BY <1>2, <1>9, <3>11
    <3>5. db' = [db EXCEPT !.items[k] = more]
      BY <1>1, <3>0, <3>1 DEF WithItem
    <3> HIDE DEF more
    <3>6. /\ db'.lastId = db.lastId
          /\ \A j \in Id : /\ db'.rows[j] = db.rows[j]
                           /\ db'.items[j] = IF j = k THEN more ELSE db.items[j]
      <4>1. db \in Tables
        BY <1>1
      <4> DEFINE f == [db EXCEPT !.items[k] = more]
      <4>2. /\ f.lastId = db.lastId
            /\ \A j \in Id : /\ f.rows[j] = db.rows[j]
                             /\ f.items[j] = IF j = k THEN more ELSE db.items[j]
        BY <3>12, <4>1, ItemsFilled
      <4>3. db' = f
        BY <3>5
      <4> HIDE DEF f
      <4>4. QED
        BY <4>2, <4>3
    <3>7. db'.items[i] \o g.rest = items
      <4>1. db.items[k] \o h[t].rest = items
        BY <3>0, <3>3 DEF Awaited
      <4>2. QED
        BY <3>0, <3>4, <3>6, <4>1
    <3>8. /\ db'.rows[i] = [num |-> g.num, status |-> "Pending", due |-> g.due,
                            total |-> Sum(items)]
          /\ i = disk'.lastId + 1 /\ db'.lastId = i
          /\ \A j \in Id : /\ j # i => /\ db'.rows[j] = disk'.rows[j]
                                       /\ db'.items[j] = disk'.items[j]
                           /\ disk'.rows[j] # NoInvoice =>
                                disk'.rows[j].num # g.num
      BY <1>2, <3>0, <3>2, <3>3, <3>6 DEF Awaited
    <3>9. Awaited(t, items)'
      BY <1>2, <1>3, <3>7, <3>8 DEF Awaited
    <3>10. QED
      BY <3>2, <3>9 DEF NewInHand
  <2>3. QED
    BY <2>1, <2>2
<1>7. \A j \in Id : Shown(disk'.items[j], h'[t], j) = Shown(disk.items[j], h[t], j)
  BY <1>1, <1>2, <1>3, <1>6 DEF Shown
<1>8. QED
  BY <1>5, <1>6, <1>7, SameLedger, Hand

LEMMA PostAnswerLedger ==
  ASSUME IndInv, LedgerInv, NEW t \in Thread, Alone, PostAnswer(t)
  PROVE  LedgerInv' /\ [Ledger!LNext]_Ledger!lvars
<1>1. /\ h[t] \in Handler /\ h[t].pc = "add" /\ h[t].rest = <<>>
      /\ h'[t] = Idle /\ h'[t].pc = "idle"
      /\ db' = db /\ disk' = Commit(db, open') /\ open' = open \ {t}
      /\ db \in Tables /\ disk \in Tables /\ open \subseteq Thread
  BY GoesTo, IdleFacts DEF PostAnswer, IndInv, TypeOK
<1>2. open' = {} /\ disk' = db
  BY <1>1 DEF Commit, Alone
<1>3. OpenIsAdd(t)' /\ PostInHand(t)' /\ NewInHand(t)' /\ SnapshotsCurrent(t)'
  BY <1>1, <1>2 DEF OpenIsAdd, PostInHand, NewInHand, SnapshotsCurrent
<1>4. CASE h[t].cur = 0
  <2>1. OpenIsAdd(t)
    BY DEF LedgerInv
  <2>2. open = {}
    BY <1>1, <1>4, <2>1 DEF OpenIsAdd, Alone
  <2>3. disk' = disk
    BY <1>2, <2>2 DEF IndInv, DurableWhenNoCreate
  <2>4. \A i \in Id : Shown(disk'.items[i], h'[t], i) = Shown(disk.items[i], h[t], i)
    BY <1>1, <2>3 DEF Shown
  <2>5. QED
    BY <1>3, <2>3, <2>4, SameLedger, Hand
<1>5. CASE h[t].cur # 0
  <2>1. PICK i \in Id : i = h[t].cur
    BY <1>1, <1>5, AwaitedFacts
  <2>2. PICK items \in ItemList : Awaited(t, items)
    BY <1>1, <1>5, AwaitedFacts
  <2>3. PICK n \in 0 .. MaxNumber : n = h[t].num
    BY <1>1 DEF LedgerInv, PostInHand
  <2>4. PICK due \in Due : due = h[t].due
    BY <1>1 DEF Handler
  <2> DEFINE row == [num |-> n, status |-> "Pending", due |-> due,
                     total |-> Sum(items)]
  <2>5. /\ i = disk.lastId + 1 /\ db.lastId = i /\ db.rows[i] = row
        /\ \A j \in Id : /\ j # i => /\ db.rows[j] = disk.rows[j]
                                     /\ db.items[j] = disk.items[j]
                         /\ disk.rows[j] # NoInvoice => disk.rows[j].num # n
        /\ db.items[i] \o h[t].rest = items
    BY <2>1, <2>2, <2>3, <2>4 DEF Awaited
  <2>6. db.items[i] = items
    BY <1>1, <2>5, TablesFacts, ConcatEmptySeq
  <2>13. row.total = Sum(items)
    OBVIOUS
  <2> HIDE DEF row
  <2>7. disk'.rows = [disk.rows EXCEPT ![i] = row]
    <3>1. db.rows \in [Id -> Row \cup {NoInvoice}]
          /\ disk.rows \in [Id -> Row \cup {NoInvoice}]
      BY <1>1 DEF Tables
    <3>2. QED
      BY <1>2, <2>5, <3>1
  <2>8. \A j \in Id : /\ ItemsOnDisk(j) = disk.items[j]
                      /\ ItemsOnDisk(j)' = db.items[j]
    BY <1>1, <1>2, ShownIs DEF Shown
  <2>9. Lines' = [Lines EXCEPT ![i] = items]
    BY <2>5, <2>6, <2>8 DEF Lines
  <2>10. n \notin Ledger!Numbers
    BY <2>5 DEF Ledger!Numbers
  <2>11. Ledger!Issue(n, items, due)
    <3>1. disk'.lastId = disk.lastId + 1
      BY <1>2, <2>5
    <3>2. disk'.rows = [disk.rows EXCEPT ![disk.lastId + 1] =
             [num |-> n, status |-> "Pending", due |-> due,
              total |-> [list \in ItemList |-> Sum(list)][items]]]
      BY <2>5, <2>7 DEF row
    <3>3. Lines' = [Lines EXCEPT ![disk.lastId + 1] = items]
      BY <2>5, <2>9
    <3>4. QED
      BY <2>10, <3>1, <3>2, <3>3 DEF Ledger!Issue
  <2>12. TotalsShown'
    <3> SUFFICES ASSUME NEW j \in Id, disk'.rows[j] # NoInvoice
                 PROVE  disk'.rows[j].total = Sum(ItemsOnDisk(j)')
      BY DEF TotalsShown
    <3>1. CASE j = i
      BY <1>2, <2>5, <2>6, <2>8, <2>13, <3>1
    <3>2. CASE j # i
      BY <1>2, <2>5, <2>8, <3>2 DEF LedgerInv, TotalsShown
    <3>3. QED
      BY <3>1, <3>2
  <2>14. Ledger!LNext
    BY <2>11 DEF Ledger!LNext
  <2>15. QED
    BY <1>3, <2>12, <2>14, Hand
<1>6. QED
  BY <1>4, <1>5

LEMMA SameRow ==
  ASSUME NEW q \in Row
  PROVE  [q EXCEPT !.num = q.num, !.total = q.total] = q
<1>1. [q EXCEPT !.num = q.num] = q
  BY DEF Row
<1>2. QED
  BY <1>1 DEF Row

(* What an update writes is an edit of the ledger, or marks it overdue.    *)
LEMMA ChangeIs ==
  ASSUME NEW s \in Snapshot, Change(s), db.rows[s.id] \in Row,
         db.rows[s.id].total = Sum(s.items)
  PROVE  \/ \E status \in EditStatus, due \in EditDue :
              UpdatedRow(db.rows[s.id], s) = Edited(db.rows[s.id], status, due)
         \/ /\ Lapsed(db.rows[s.id])
            /\ UpdatedRow(db.rows[s.id], s)
                 = [db.rows[s.id] EXCEPT !.status = "Overdue"]
<1> DEFINE row == db.rows[s.id]
<1>1. row \in Row /\ row.total = Sum(s.items)
  OBVIOUS
<1>2. CASE \E status \in EditStatus, due \in EditDue :
             s.row = Edited(row, status, due)
  <2>1. PICK status \in EditStatus, due \in EditDue : s.row = Edited(row, status, due)
    BY <1>2
  <2> HIDE DEF row
  <2> DEFINE st == IF status = Blank THEN row.status ELSE status
  <2> DEFINE du == IF due = Blank THEN row.due ELSE due
  <2>2. s.row = [row EXCEPT !.status = st, !.due = du]
    BY <2>1 DEF Edited
  <2> HIDE DEF st, du
  <2>3. row = [num |-> row.num, status |-> row.status, due |-> row.due,
               total |-> row.total]
    BY <1>1 DEF Row
  <2>4. s.row = [num |-> row.num, status |-> st, due |-> du,
                 total |-> Sum(s.items)]
    BY <1>1, <2>2, <2>3
  <2>5. [s.row EXCEPT !.num = row.num, !.total = Sum(s.items)] = s.row
    <3>1. s.row.num = row.num /\ s.row.total = Sum(s.items)
      BY <2>4
    <3>2. s.row \in Row
      BY DEF Snapshot
    <3>3. QED
      BY <3>1, <3>2, SameRow
  <2>6. QED
    BY <2>1, <2>5 DEF UpdatedRow, row
<1>3. CASE Lapsed(row) /\ s.row = [row EXCEPT !.status = "Overdue"]
  <2> HIDE DEF row
  <2>1. row = [num |-> row.num, status |-> row.status, due |-> row.due,
               total |-> row.total]
    BY <1>1 DEF Row
  <2>2. s.row = [num |-> row.num, status |-> "Overdue", due |-> row.due,
                 total |-> Sum(s.items)]
    BY <1>1, <1>3, <2>1
  <2>3. [s.row EXCEPT !.num = row.num, !.total = Sum(s.items)] = s.row
    <3>1. s.row.num = row.num /\ s.row.total = Sum(s.items)
      BY <2>2
    <3>2. s.row \in Row
      BY DEF Snapshot
    <3>3. QED
      BY <3>1, <3>2, SameRow
  <2>4. QED
    BY <1>3, <2>3 DEF UpdatedRow, row
<1>4. QED
  BY <1>2, <1>3 DEF Change

LEMMA UpdateRowLedger ==
  ASSUME IndInv, LedgerInv, NEW t \in Thread, Alone, UpdateRow(t)
  PROVE  LedgerInv' /\ [Ledger!LNext]_Ledger!lvars
<1>1. /\ h[t] \in Handler /\ h[t].pc = "scan" /\ h[t].scan = {}
      /\ db \in Tables /\ open' = open
  BY DEF IndInv, TypeOK, UpdateRow
<1>2. open = {} /\ disk = db
  BY <1>1, Settled
<1>3. PICK s \in h[t].found :
       /\ Write(IF Exists(s.id)
                  THEN [db EXCEPT !.rows[s.id] = UpdatedRow(@, s)] ELSE db)
       /\ Goto(t, [h[t] EXCEPT !.pc = "clear", !.found = @ \ {s},
                                !.cur = s.id, !.rest = s.items])
  BY DEF UpdateRow
<1>4. SnapshotsCurrent(t)
  BY DEF LedgerInv
<1>5. s \in Snapshot /\ Exists(s.id) /\ Change(s) /\ s.items = db.items[s.id]
      /\ \A x \in h[t].found : /\ Exists(x.id) /\ Change(x)
                               /\ x.items = db.items[x.id]
                               /\ \A r \in h[t].found : r.id = x.id => r = x
  BY <1>1, <1>3, <1>4 DEF SnapshotsCurrent, Handler
<1>6. PICK i \in Id : i = s.id
  BY <1>5 DEF Exists
<1> DEFINE row == UpdatedRow(db.rows[i], s)
<1>7. /\ db.rows[i] \in Row /\ db.rows[i] # NoInvoice
      /\ db.rows[i].total = Sum(s.items)
  <2>1. db.rows[i] # NoInvoice
    BY <1>5, <1>6 DEF Exists
  <2>2. db.rows[i] \in Row
    BY <1>1, <2>1, TablesFacts
  <2>3. ItemsOnDisk(i) = db.items[i]
    BY <1>1, <1>2, ShownIs DEF Shown
  <2>4. db.rows[i].total = Sum(db.items[i])
    BY <1>2, <2>1, <2>3 DEF LedgerInv, TotalsShown
  <2>5. QED
    BY <1>5, <1>6, <2>1, <2>2, <2>4
<1>8. row.total = Sum(s.items) /\ row \in Row /\ row # NoInvoice
  <2>1. s.row \in Row /\ Sum(s.items) \in Nat
    BY <1>5, InvoicesAssumption DEF Snapshot
  <2>2. row.total = Sum(s.items) /\ row \in Row
    BY <1>7, <2>1 DEF UpdatedRow, Row
  <2>3. QED
    BY <2>2, InvoicesAssumption
<1>9. db' = [db EXCEPT !.rows[i] = row] /\ disk' = db'
  BY <1>2, <1>3, <1>5, <1>6 DEF Write, Commit
<1>10. \/ \E status \in EditStatus, due \in EditDue :
            row = Edited(db.rows[i], status, due)
       \/ Lapsed(db.rows[i]) /\ row = [db.rows[i] EXCEPT !.status = "Overdue"]
  BY <1>5, <1>6, <1>7, ChangeIs
<1> HIDE DEF row
<1>11. /\ db'.rows = [db.rows EXCEPT ![i] = row]
       /\ db'.items = db.items /\ db'.lastId = db.lastId
  <2>1. db' = Filled(db, i, row, db.items[i], db.lastId)
    BY <1>1, <1>9, FillRow
  <2>2. QED
    BY <1>1, <2>1, TablesAre DEF Filled
<1>12. db'.rows[i] = row /\ \A j \in Id : j # i => db'.rows[j] = db.rows[j]
  <2>1. db.rows \in [Id -> Row \cup {NoInvoice}]
    BY <1>1 DEF Tables
  <2>2. QED
    BY <1>11, <2>1
<1> DEFINE g == [h[t] EXCEPT !.pc = "clear", !.found = @ \ {s},
                             !.cur = s.id, !.rest = s.items]
<1>13. /\ g.pc = "clear" /\ g.found = h[t].found \ {s} /\ g.scan = {}
       /\ g.cur = i /\ g.rest = s.items
  BY <1>1, <1>6 DEF Handler
<1>14. h'[t] = g
  BY <1>3, GoesTo
<1> HIDE DEF g
<1>15. \A j \in Id : ItemsOnDisk(j) = db.items[j] /\ ItemsOnDisk(j)' = db.items[j]
  <2>1. \A j \in Id : ItemsOnDisk(j) = db.items[j]
    BY <1>1, <1>2, ShownIs DEF Shown
  <2>2. \A j \in Id : Shown(disk'.items[j], h'[t], j) = db.items[j]
    BY <1>5, <1>6, <1>9, <1>11, <1>13, <1>14 DEF Shown
  <2>3. QED
    BY <2>1, <2>2, ShownIs
<1>16. Lines' = Lines
  BY <1>15 DEF Lines
<1>17. TotalsShown'
  <2> SUFFICES ASSUME NEW j \in Id, disk'.rows[j] # NoInvoice
               PROVE  disk'.rows[j].total = Sum(ItemsOnDisk(j)')
    BY DEF TotalsShown
  <2>1. CASE j = i
    BY <1>5, <1>6, <1>8, <1>9, <1>12, <1>15, <2>1
  <2>2. CASE j # i
    BY <1>2, <1>9, <1>12, <1>15, <2>2 DEF LedgerInv, TotalsShown
  <2>3. QED
    BY <2>1, <2>2
<1>18. SnapshotsCurrent(t)'
  <2>1. \A x \in g.found : x.id # i /\ x.id \in Id
    BY <1>5, <1>6, <1>13, <1>3 DEF Exists
  <2>2. \A x \in g.found : db'.rows[x.id] = db.rows[x.id]
    BY <1>12, <2>1
  <2>3. \A x \in g.found : Exists(x.id)' /\ Change(x)'
    <3>1. \A x \in g.found : Exists(x.id) /\ Change(x)
      BY <1>5, <1>13
    <3>2. \A x \in g.found : Exists(x.id)' = Exists(x.id)
      BY <2>2 DEF Exists
    <3>3. \A x \in g.found : Change(x)' = Change(x)
      BY <2>2 DEF Change
    <3>4. QED
      BY <3>1, <3>2, <3>3
  <2>4. Exists(i)'
    BY <1>8, <1>12 DEF Exists
  <2>5. \A x \in g.found : /\ x.items = db'.items[x.id]
                           /\ \A r \in g.found : r.id = x.id => r = x
    BY <1>5, <1>11, <1>13
  <2>6. QED
    BY <1>13, <1>14, <2>1, <2>3, <2>4, <2>5 DEF SnapshotsCurrent
<1>19. OpenIsAdd(t)' /\ PostInHand(t)' /\ NewInHand(t)'
  BY <1>1, <1>2, <1>13, <1>14 DEF OpenIsAdd, PostInHand, NewInHand
<1>20. disk'.rows = [disk.rows EXCEPT ![i] = row] /\ disk'.lastId = disk.lastId
       /\ disk.rows[i] # NoInvoice
  BY <1>2, <1>7, <1>9, <1>11
<1>21. Ledger!LNext
  <2>1. CASE \E status \in EditStatus, due \in EditDue :
               row = Edited(db.rows[i], status, due)
    <3>1. PICK status \in EditStatus, due \in EditDue :
                 row = Edited(db.rows[i], status, due)
      BY <2>1
    <3>4. disk'.rows = [disk.rows EXCEPT ![i] = Edited(@, status, due)]
      BY <1>2, <1>20, <3>1
    <3>2. Ledger!Edit(i, status, due)
      BY <1>16, <1>20, <3>4 DEF Ledger!Edit, Ledger!Revised, Edited
    <3>3. QED
      BY <3>2 DEF Ledger!LNext
  <2>2. CASE Lapsed(db.rows[i]) /\ row = [db.rows[i] EXCEPT !.status = "Overdue"]
    <3>1. Ledger!MarkOverdue(i)
      BY <1>2, <1>16, <1>20, <2>2 DEF Ledger!MarkOverdue, Lapsed
    <3>2. QED
      BY <3>1 DEF Ledger!LNext
  <2>3. QED
    BY <1>10, <2>1, <2>2
<1>22. QED
  BY <1>17, <1>18, <1>19, <1>21, Hand

-----------------------------------------------------------------------------
LEMMA LedgerInit == ASSUME Init, Alone PROVE LedgerInv /\ Ledger!LInit
<1>1. /\ disk = Empty /\ open = {} /\ h = [t \in Thread |-> Idle]
  BY DEF Init
<1>2. \A t \in Thread : h[t].pc = "idle"
  BY <1>1, IdleFacts
<1>3. \A t \in Thread : OpenIsAdd(t) /\ PostInHand(t) /\ NewInHand(t)
                        /\ SnapshotsCurrent(t)
  BY <1>1, <1>2 DEF OpenIsAdd, PostInHand, NewInHand, SnapshotsCurrent
<1>4. TotalsShown
  BY <1>1, EmptyFacts DEF TotalsShown
<1> DEFINE e == <<>>
<1>5. \A i \in Id : ItemsOnDisk(i) = e
  <2>1. \A i \in Id : ItemsOnDisk(i) = disk.items[i]
    BY <1>2 DEF ItemsOnDisk
  <2>2. \A i \in Id : disk.items[i] = e
    BY <1>1 DEF Empty
  <2>3. QED
    BY <2>1, <2>2
<1> HIDE DEF e
<1>6. Lines = [i \in Id |-> e]
  BY <1>5 DEF Lines
<1>7. disk.rows = [i \in Id |-> NoInvoice] /\ disk.lastId = 0
  BY <1>1 DEF Empty
<1>8. QED
  BY <1>3, <1>4, <1>6, <1>7 DEF LedgerInv, Ledger!LInit, e

LEMMA LedgerStep ==
  ASSUME IndInv, LedgerInv, [Next]_vars, Alone,
         CrashPoint \cap {"clear", "refill"} = {}
  PROVE  LedgerInv' /\ [Ledger!LNext]_Ledger!lvars
<1>1. CASE UNCHANGED vars
  <2>1. UNCHANGED <<db, disk, open, h>>
    BY <1>1 DEF vars
  <2>2. \A i : ItemsOnDisk(i)' = ItemsOnDisk(i)
    BY <2>1 DEF ItemsOnDisk
  <2>3. UNCHANGED Ledger!lvars
    BY <2>1, <2>2 DEF Ledger!lvars, Lines
  <2>4. TotalsShown'
    BY <2>1, <2>2 DEF LedgerInv, TotalsShown
  <2>5. \A t \in Thread : (OpenIsAdd(t) /\ PostInHand(t) /\ NewInHand(t)
                           /\ SnapshotsCurrent(t))'
    <3>1. \A s : Exists(s.id)' = Exists(s.id) /\ Change(s)' = Change(s)
      BY <2>1 DEF Exists, Change
    <3>2. \A t \in Thread : Exists(h[t].cur)' = Exists(h[t].cur)
      BY <2>1 DEF Exists
    <3>3. \A t \in Thread : SnapshotsCurrent(t)' = SnapshotsCurrent(t)
      BY <2>1, <3>1, <3>2 DEF SnapshotsCurrent
    <3>4. \A t \in Thread : NewInHand(t)' = NewInHand(t)
      BY <2>1 DEF NewInHand, Awaited
    <3>5. \A t \in Thread : (OpenIsAdd(t) /\ PostInHand(t))'
      BY <2>1 DEF LedgerInv, OpenIsAdd, PostInHand
    <3>6. QED
      BY <3>3, <3>4, <3>5 DEF LedgerInv
  <2>6. QED
    BY <2>3, <2>4, <2>5 DEF LedgerInv
<1>2. ASSUME NEW t \in Thread, Step(t)
      PROVE  LedgerInv' /\ [Ledger!LNext]_Ledger!lvars
  <2>1. ASSUME NEW i \in Id, Delete(t, i)
        PROVE  LedgerInv' /\ [Ledger!LNext]_Ledger!lvars
    BY <2>1, DeleteLedger DEF Ledger!LNext
  <2>2. QED
    BY <1>2, <2>1, LoadLedger, UpdateRowLedger, DeleteItemsLedger,
       InsertItemLedger, WrittenLedger, AnswerLedger, OverdueLedger, PutLedger,
       PostReadLedger, PostWriteLedger, InsertInvoiceLedger, AddItemLedger,
       PostAnswerLedger DEF Step
<1>3. CASE Restart
  <2>1. CASE Thread = {}
    <3>1. disk' = disk /\ \A i : ItemsOnDisk(i) = disk.items[i]
                                 /\ ItemsOnDisk(i)' = disk'.items[i]
      BY <1>3, <2>1 DEF Restart, ItemsOnDisk
    <3>2. UNCHANGED Ledger!lvars
      BY <3>1 DEF Ledger!lvars, Lines
    <3>3. LedgerInv'
      BY <2>1, <3>1 DEF LedgerInv, TotalsShown
    <3>4. QED
      BY <3>2, <3>3
  <2>2. CASE Thread # {}
    BY <1>3, <2>2, RestartLedger
  <2>3. QED
    BY <2>1, <2>2
<1>4. QED
  BY <1>1, <1>2, <1>3 DEF Next

(* The committed tables implement the ledger, statement by statement, as   *)
(* long as handlers run one at a time and no crash cuts an update between  *)
(* the DELETE of the items and the last INSERT.                            *)
THEOREM LedgerTheorem ==
  ASSUME \A t, u \in Thread : t = u,
         CrashPoint \cap {"clear", "refill"} = {}
  PROVE  Spec => KeepsLedger
<1>1. Init => LedgerInv /\ Ledger!LInit
  BY LedgerInit DEF Alone
<1>2. IndInv /\ LedgerInv /\ [Next]_vars => LedgerInv' /\ [Ledger!LNext]_Ledger!lvars
  BY LedgerStep DEF Alone
<1>3. QED
  BY <1>1, <1>2, Invariance, PTL DEF Spec, KeepsLedger, Ledger!LSpec

=============================================================================
