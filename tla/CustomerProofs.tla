--------------------------- MODULE CustomerProofs ---------------------------
(***************************************************************************)
(* Proofs about CustomerStore, for any number of threads, customers and    *)
(* words: every live customer no two handlers wrote at once matches the    *)
(* search for each of its words, and no deleted one does.                  *)
(***************************************************************************)
EXTENDS CustomerStore, TLAPS

LEMMA InitInv == Init => IndInv
<1> SUFFICES ASSUME Init PROVE IndInv
  OBVIOUS
<1> USE CustomerAssumption DEF Init, Idle
<1>1. TypeOK
  BY DEF TypeOK, Handler
<1>2. IdsAboveCounterUnused /\ WritersHaveRows /\ DeletedStayDeleted
  BY DEF IdsAboveCounterUnused, WritersHaveRows, DeletedStayDeleted
<1>3. OverlapsNoted /\ WordsInHand /\ SettledAreIndexed
  BY DEF OverlapsNoted, WordsInHand, SettledAreIndexed, Live, Exists
<1>4. QED
  BY <1>1, <1>2, <1>3 DEF IndInv

(* A thread that goes to another state is the only one that does.          *)
LEMMA GotoFacts ==
  ASSUME TypeOK, NEW t \in Thread, NEW s, Goto(t, s)
  PROVE  /\ h'[t] = s
         /\ \A u \in Thread : u # t => h'[u] = h[u]
         /\ s \in Handler => h' \in [Thread -> Handler]
BY DEF TypeOK, Goto

(* What a handler is working on.                                           *)
LEMMA WriterFacts ==
  ASSUME IndInv, NEW t \in Thread, h[t].pc # "idle"
  PROVE  /\ proc = "up" /\ h[t] \in Handler
         /\ h[t].id \in Id /\ customers[h[t].id] \in Row
BY DEF IndInv, WritersHaveRows, TypeOK, Exists

(* What deleting rows from the index does to it: it takes only those rows' *)
(* entries, and adds none.                                                 *)
LEMMA DeleteFacts ==
  ASSUME NEW rows \in SUBSET Id, DeleteEntries(rows)
  PROVE  /\ index' \subseteq index
         /\ \A i \in Id \ rows : \A w \in Word :
              <<w, i>> \in index => <<w, i>> \in index'
<1>1. CASE index' = index
  BY <1>1
<1>2. CASE index' = index \ UNION {Entries(i) : i \in rows}
  BY <1>2 DEF Entries
<1>3. QED
  BY <1>1, <1>2 DEF DeleteEntries

(* What is indexed under its words matches them, and an answer that leaves *)
(* out a match is full.                                                    *)
LEMMA IndexedIsFound ==
  ASSUME NEW i \in Id, Live(i), Indexed(i)
  PROVE  FoundByOwn(i)
BY DEF Indexed, FoundByOwn, Matches, Answers

(* Every step keeps the types.                                             *)
LEMMA TypeStep == IndInv /\ [Next]_vars => TypeOK'
<1> SUFFICES ASSUME IndInv, [Next]_vars PROVE TypeOK'
  OBVIOUS
<1>0. TypeOK
  BY DEF IndInv
<1>a. Idle \in Handler
  BY CustomerAssumption DEF Idle, Handler
<1>1. CASE UNCHANGED vars
  BY <1>0, <1>1 DEF vars, TypeOK
<1>2. CASE Restart
  BY <1>0, <1>a, <1>2 DEF Restart, TypeOK
<1>3. CASE RebuildWipe
  <2>1. index' \subseteq index
    BY <1>3, DeleteFacts DEF RebuildWipe
  <2>2. QED
    BY <1>0, <1>3, <2>1 DEF RebuildWipe, TypeOK
<1>4. CASE RebuildRefill
  <2>1. \A i \in Id : Kept(i) => Entries(i) \subseteq Word \X Id
    BY <1>0 DEF Kept, Exists, Entries, TypeOK, Row
  <2>2. index' \subseteq Word \X Id
    BY <1>0, <1>4, <2>1 DEF RebuildRefill, TypeOK
  <2>3. QED
    BY <1>0, <1>4, <2>2 DEF RebuildRefill, TypeOK
<1>5. ASSUME NEW t \in Thread, AddRow(t) PROVE TypeOK'
  <2>1. PICK words \in Text :
          /\ customers' = [customers EXCEPT
                ![lastId + 1] = [words |-> words, deleted |-> FALSE]]
          /\ Goto(t, [pc |-> "index", id |-> lastId + 1, words |-> words])
    BY <1>5 DEF AddRow
  <2>2. lastId + 1 \in 1 .. MaxCustomer /\ words \in SUBSET Word
    BY <1>0, <1>5, CustomerAssumption DEF AddRow, TypeOK
  <2>3. [pc |-> "index", id |-> lastId + 1, words |-> words] \in Handler
    BY <2>2, CustomerAssumption DEF Handler
  <2>4. customers' \in [Id -> Row \cup {NoCustomer}]
    BY <1>0, <2>1, <2>2 DEF TypeOK, Row
  <2>5. QED
    BY <1>0, <1>5, <2>1, <2>2, <2>3, <2>4, GotoFacts DEF AddRow, TypeOK
<1>6. ASSUME NEW t \in Thread, NEW i \in Id, Find(t, i) PROVE TypeOK'
  <2>1. PICK words \in Text :
          Goto(t, [pc |-> "write", id |-> i, words |-> words])
    BY <1>6 DEF Find
  <2>2. [pc |-> "write", id |-> i, words |-> words] \in Handler
    BY CustomerAssumption DEF Handler, Id
  <2>3. overlapped' \subseteq Id
    BY <1>0, <1>6 DEF Find, NoteOverlap, TypeOK
  <2>4. QED
    BY <1>0, <1>6, <2>1, <2>2, <2>3, GotoFacts DEF Find, TypeOK
<1>7. ASSUME NEW t \in Thread, UpdateRow(t) PROVE TypeOK'
  <2>1. customers[h[t].id] \in Row /\ h[t] \in Handler /\ h[t].id \in Id
    BY <1>7, WriterFacts DEF UpdateRow
  <2>2. Updated(customers[h[t].id], h[t].words) \in Row
    BY <2>1 DEF Updated, Row, Handler
  <2>3. [h[t] EXCEPT !.pc = "unindex"] \in Handler
    BY <2>1 DEF Handler
  <2>4. customers' \in [Id -> Row \cup {NoCustomer}]
    BY <1>0, <1>7, <2>1, <2>2 DEF UpdateRow, TypeOK
  <2>5. QED
    BY <1>0, <1>7, <2>3, <2>4, GotoFacts DEF UpdateRow, TypeOK
<1>8. ASSUME NEW t \in Thread, Unindex(t) PROVE TypeOK'
  <2>1. h[t] \in Handler /\ h[t].id \in Id
    BY <1>8, WriterFacts DEF Unindex
  <2>2. index' \subseteq index
    BY <1>8, <2>1, DeleteFacts DEF Unindex
  <2>3. [h[t] EXCEPT !.pc = "reindex"] \in Handler
    BY <2>1 DEF Handler
  <2>4. QED
    BY <1>0, <1>8, <2>2, <2>3, GotoFacts DEF Unindex, TypeOK
<1>9. ASSUME NEW t \in Thread, Index(t) PROVE TypeOK'
  <2>1. h[t] \in Handler /\ h[t].id \in Id
    BY <1>9, WriterFacts DEF Index
  <2>2. index' \subseteq Word \X Id
    BY <1>0, <1>9, <2>1 DEF Index, WithEntries, Handler, TypeOK
  <2>3. QED
    BY <1>0, <1>a, <1>9, <2>2, GotoFacts DEF Index, TypeOK
<1>10. ASSUME NEW t \in Thread, NEW i \in Id, MarkDeleted(t, i) PROVE TypeOK'
  <2>1. [pc |-> "drop", id |-> i, words |-> {}] \in Handler
    BY CustomerAssumption DEF Handler, Id
  <2>2. customers' \in [Id -> Row \cup {NoCustomer}]
    BY <1>0, <1>10 DEF MarkDeleted, Exists, TypeOK, Row
  <2>3. overlapped' \subseteq Id
    BY <1>0, <1>10 DEF MarkDeleted, NoteOverlap, TypeOK
  <2>4. QED
    BY <1>0, <1>10, <2>1, <2>2, <2>3, GotoFacts DEF MarkDeleted, TypeOK
<1>11. ASSUME NEW t \in Thread, Drop(t) PROVE TypeOK'
  <2>1. h[t].id \in Id
    BY <1>11, WriterFacts DEF Drop
  <2>2. index' \subseteq index
    BY <1>11, <2>1, DeleteFacts DEF Drop
  <2>3. QED
    BY <1>0, <1>a, <1>11, <2>1, <2>2, GotoFacts DEF Drop, TypeOK
<1>12. QED
  BY <1>1, <1>2, <1>3, <1>4, <1>5, <1>6, <1>7, <1>8, <1>9, <1>10, <1>11
  DEF Next

(* What a step of a handler does to the handlers, the rows and the notes;  *)
(* everything but the index.                                               *)
LEMMA WriteShape ==
  ASSUME IndInv, NEW t \in Thread, UpdateRow(t)
  PROVE  /\ h'[t].id = h[t].id /\ h'[t].pc = "unindex"
         /\ h'[t].words = h[t].words
         /\ \A u \in Thread : u # t => h'[u] = h[u]
         /\ customers'[h[t].id] \in Row
         /\ customers'[h[t].id].words = h[t].words
         /\ customers'[h[t].id].deleted = customers[h[t].id].deleted
         /\ \A i \in Id : i # h[t].id => customers'[i] = customers[i]
<1>0. TypeOK
  BY DEF IndInv
<1>1. customers[h[t].id] \in Row /\ h[t] \in Handler /\ h[t].id \in Id
  BY WriterFacts DEF UpdateRow
<1>2. h'[t] = [h[t] EXCEPT !.pc = "unindex"]
      /\ \A u \in Thread : u # t => h'[u] = h[u]
  BY <1>0, GotoFacts DEF UpdateRow
<1>3. Updated(customers[h[t].id], h[t].words) \in Row
      /\ Updated(customers[h[t].id], h[t].words).words = h[t].words
      /\ Updated(customers[h[t].id], h[t].words).deleted
           = customers[h[t].id].deleted
  BY <1>1 DEF Updated, Row, Handler
<1>4. customers'[h[t].id] = Updated(customers[h[t].id], h[t].words)
      /\ \A i \in Id : i # h[t].id => customers'[i] = customers[i]
  BY <1>0, <1>1 DEF UpdateRow, TypeOK
<1>5. h'[t].id = h[t].id /\ h'[t].pc = "unindex" /\ h'[t].words = h[t].words
  BY <1>1, <1>2 DEF Handler
<1>6. QED
  BY <1>2, <1>3, <1>4, <1>5

LEMMA MarkShape ==
  ASSUME IndInv, NEW t \in Thread, NEW i \in Id, MarkDeleted(t, i)
  PROVE  /\ h'[t].pc = "drop" /\ h'[t].id = i
         /\ \A u \in Thread : u # t => h'[u] = h[u]
         /\ customers'[i] \in Row /\ customers'[i].deleted
         /\ customers'[i].words = customers[i].words
         /\ \A j \in Id : j # i => customers'[j] = customers[j]
<1>0. TypeOK
  BY DEF IndInv
<1>1. customers[i] \in Row
  BY <1>0 DEF MarkDeleted, Exists, TypeOK
<1>2. customers'[i] = [customers[i] EXCEPT !.deleted = TRUE]
      /\ \A j \in Id : j # i => customers'[j] = customers[j]
  BY <1>0 DEF MarkDeleted, TypeOK
<1>3. customers'[i] \in Row /\ customers'[i].deleted
      /\ customers'[i].words = customers[i].words
  BY <1>1, <1>2 DEF Row
<1>4. h'[t] = [pc |-> "drop", id |-> i, words |-> {}]
      /\ \A u \in Thread : u # t => h'[u] = h[u]
  BY <1>0, GotoFacts DEF MarkDeleted
<1>5. h'[t].pc = "drop" /\ h'[t].id = i
  BY <1>4
<1>6. QED
  BY <1>2, <1>3, <1>4, <1>5

LEMMA AddShape ==
  ASSUME IndInv, NEW t \in Thread, AddRow(t)
  PROVE  /\ lastId + 1 \in Id /\ lastId' = lastId + 1
         /\ customers[lastId + 1] = NoCustomer
         /\ \A u \in Thread : h[u].id # lastId + 1
         /\ h'[t].pc = "index" /\ h'[t].id = lastId + 1
         /\ \A u \in Thread : u # t => h'[u] = h[u]
         /\ customers'[lastId + 1] \in Row /\ ~customers'[lastId + 1].deleted
         /\ customers'[lastId + 1].words = h'[t].words
         /\ \A i \in Id : i # lastId + 1 => customers'[i] = customers[i]
<1>0. TypeOK
  BY DEF IndInv
<1>1. PICK words \in Text :
        /\ customers' = [customers EXCEPT
              ![lastId + 1] = [words |-> words, deleted |-> FALSE]]
        /\ Goto(t, [pc |-> "index", id |-> lastId + 1, words |-> words])
  BY DEF AddRow
<1>2. lastId \in Nat /\ lastId + 1 \in Id /\ words \in SUBSET Word
  BY <1>0, CustomerAssumption DEF AddRow, TypeOK, Id
<1>3. customers[lastId + 1] = NoCustomer
  BY <1>2 DEF IndInv, IdsAboveCounterUnused
<1>4. \A u \in Thread : h[u].id # lastId + 1
  <2>1. SUFFICES ASSUME NEW u \in Thread, h[u].id = lastId + 1 PROVE FALSE
    OBVIOUS
  <2>2. h[u].pc # "idle"
    BY <1>2, <2>1 DEF IndInv, WritersHaveRows
  <2>3. QED
    BY <1>3, <2>1, <2>2 DEF IndInv, WritersHaveRows, Exists
<1>5. customers'[lastId + 1] = [words |-> words, deleted |-> FALSE]
      /\ \A i \in Id : i # lastId + 1 => customers'[i] = customers[i]
  BY <1>0, <1>1, <1>2 DEF TypeOK
<1>6. h'[t] = [pc |-> "index", id |-> lastId + 1, words |-> words]
      /\ \A u \in Thread : u # t => h'[u] = h[u]
  BY <1>0, <1>1, GotoFacts
<1>7. customers'[lastId + 1] \in Row /\ ~customers'[lastId + 1].deleted
      /\ customers'[lastId + 1].words = h'[t].words
  BY <1>2, <1>5, <1>6 DEF Row
<1>8. lastId' = lastId + 1
  BY DEF AddRow
<1>9. h'[t].pc = "index" /\ h'[t].id = lastId + 1
  BY <1>6
<1>10. QED
  BY <1>2, <1>3, <1>4, <1>5, <1>6, <1>7, <1>8, <1>9

LEMMA FindShape ==
  ASSUME IndInv, NEW t \in Thread, NEW i \in Id, Find(t, i)
  PROVE  /\ h'[t].pc = "write" /\ h'[t].id = i
         /\ \A u \in Thread : u # t => h'[u] = h[u]
<1>1. PICK words \in Text :
        Goto(t, [pc |-> "write", id |-> i, words |-> words])
  BY DEF Find
<1>2. QED
  BY <1>1, GotoFacts DEF IndInv

LEMMA UnindexShape ==
  ASSUME IndInv, NEW t \in Thread, Unindex(t)
  PROVE  /\ h'[t].pc = "reindex" /\ h'[t].id = h[t].id
         /\ h'[t].words = h[t].words
         /\ \A u \in Thread : u # t => h'[u] = h[u]
<1>1. h[t] \in Handler
  BY WriterFacts DEF Unindex
<1>2. h'[t] = [h[t] EXCEPT !.pc = "reindex"]
      /\ \A u \in Thread : u # t => h'[u] = h[u]
  BY GotoFacts DEF Unindex, IndInv
<1>3. QED
  BY <1>1, <1>2 DEF Handler

LEMMA IdleShape ==
  ASSUME IndInv, NEW t \in Thread, Index(t) \/ Drop(t)
  PROVE  /\ h'[t] = Idle /\ \A u \in Thread : u # t => h'[u] = h[u]
BY GotoFacts DEF Index, Drop, IndInv

(* Rows exist while handlers work on them, and the deleted stay deleted.   *)
Rows == IdsAboveCounterUnused /\ WritersHaveRows /\ DeletedStayDeleted

LEMMA RowsStep == IndInv /\ [Next]_vars => Rows'
<1> SUFFICES ASSUME IndInv, [Next]_vars PROVE Rows'
  OBVIOUS
<1> USE CustomerAssumption
<1>0. /\ TypeOK /\ IdsAboveCounterUnused /\ WritersHaveRows
      /\ DeletedStayDeleted
  BY DEF IndInv
<1>1. CASE UNCHANGED vars
  BY <1>0, <1>1 DEF vars, Rows, IdsAboveCounterUnused, WritersHaveRows,
    DeletedStayDeleted, Exists, Live
<1>2. CASE Restart
  BY <1>0, <1>2 DEF Restart, Idle, Rows, IdsAboveCounterUnused,
    WritersHaveRows, DeletedStayDeleted, Exists, Live
<1>3. CASE RebuildWipe \/ RebuildRefill
  <2>1. \A t \in Thread : h[t].pc = "idle" /\ h[t].id = 0
    BY <1>0, <1>3 DEF RebuildWipe, RebuildRefill, WritersHaveRows
  <2>2. QED
    BY <1>0, <1>3, <2>1 DEF RebuildWipe, RebuildRefill, Rows,
      IdsAboveCounterUnused, WritersHaveRows, DeletedStayDeleted, Exists, Live
<1>4. ASSUME NEW t \in Thread, AddRow(t) PROVE Rows'
  <2>1. proc' = "up" /\ removed' = removed
    BY <1>4 DEF AddRow, Ready
  <2>2. IdsAboveCounterUnused'
    <3>1. \A i \in Id : i > lastId + 1 => i # lastId + 1 /\ i > lastId
      BY <1>0 DEF TypeOK, Id
    <3>2. QED
      BY <1>0, <1>4, <3>1, AddShape DEF IdsAboveCounterUnused
  <2>3. WritersHaveRows'
    BY <1>0, <1>4, <2>1, AddShape DEF WritersHaveRows, Exists
  <2>4. DeletedStayDeleted'
    BY <1>0, <1>4, <2>1, AddShape
    DEF DeletedStayDeleted, WritersHaveRows, Exists, Live, TypeOK
  <2>5. QED
    BY <2>2, <2>3, <2>4 DEF Rows
<1>5. ASSUME NEW t \in Thread, NEW i \in Id, Find(t, i) PROVE Rows'
  <2>1. proc' = "up" /\ UNCHANGED <<customers, lastId, removed>> /\ Exists(i)
    BY <1>5 DEF Find, Ready
  <2>2. QED
    BY <1>0, <1>5, <2>1, FindShape DEF Rows, IdsAboveCounterUnused,
      WritersHaveRows, DeletedStayDeleted, Exists, Live
<1>6. ASSUME NEW t \in Thread, UpdateRow(t) PROVE Rows'
  <2>1. h[t].id \in Id /\ proc = "up" /\ customers[h[t].id] # NoCustomer
    BY <1>0, <1>6, WriterFacts DEF UpdateRow
  <2>2. UNCHANGED <<proc, lastId, removed>>
    BY <1>6 DEF UpdateRow
  <2>3. \A i \in Id : /\ Exists(i)' <=> Exists(i)
                      /\ Live(i)' <=> Live(i)
    BY <1>6, <2>1, WriteShape DEF Exists, Live
  <2>4. IdsAboveCounterUnused'
    BY <1>0, <2>2, <2>3 DEF IdsAboveCounterUnused, Exists
  <2>5. WritersHaveRows'
    BY <1>0, <1>6, <2>1, <2>2, <2>3, WriteShape DEF WritersHaveRows, Exists
  <2>6. DeletedStayDeleted'
    BY <1>0, <1>6, <2>2, <2>3, WriteShape
    DEF DeletedStayDeleted, WritersHaveRows, TypeOK, Exists, Live
  <2>7. QED
    BY <2>4, <2>5, <2>6 DEF Rows
<1>7. ASSUME NEW t \in Thread, Unindex(t) PROVE Rows'
  <2>1. UNCHANGED <<proc, customers, lastId, removed>> /\ h[t].pc = "unindex"
    BY <1>7 DEF Unindex
  <2>2. QED
    BY <1>0, <1>7, <2>1, UnindexShape DEF Rows, IdsAboveCounterUnused,
      WritersHaveRows, DeletedStayDeleted, Exists, Live
<1>8. ASSUME NEW t \in Thread, Index(t) PROVE Rows'
  <2>1. UNCHANGED <<proc, customers, lastId, removed>>
    BY <1>8 DEF Index
  <2>2. QED
    BY <1>0, <1>8, <2>1, IdleShape DEF Idle, Rows, IdsAboveCounterUnused,
      WritersHaveRows, DeletedStayDeleted, Exists, Live
<1>9. ASSUME NEW t \in Thread, NEW i \in Id, MarkDeleted(t, i) PROVE Rows'
  <2>1. proc' = "up" /\ UNCHANGED <<lastId, removed>> /\ Exists(i)
    BY <1>9 DEF MarkDeleted, Ready
  <2>2. /\ \A j \in Id : Exists(j)' <=> Exists(j)
        /\ \A j \in Id : Live(j)' => Live(j)
        /\ ~Live(i)'
    BY <1>9, <2>1, MarkShape DEF Exists, Live
  <2>3. IdsAboveCounterUnused'
    BY <1>0, <2>1, <2>2 DEF IdsAboveCounterUnused, Exists
  <2>a. /\ h'[t].pc = "drop" /\ h'[t].id = i
        /\ \A u \in Thread : u # t => h'[u] = h[u]
    BY <1>9, MarkShape
  <2>4. WritersHaveRows'
    BY <1>0, <2>1, <2>2, <2>a DEF WritersHaveRows, Exists
  <2>5. DeletedStayDeleted'
    BY <1>0, <2>1, <2>2, <2>a
    DEF DeletedStayDeleted, WritersHaveRows, TypeOK, Exists, Live
  <2>6. QED
    BY <2>3, <2>4, <2>5 DEF Rows
<1>10. ASSUME NEW t \in Thread, Drop(t) PROVE Rows'
  <2>1. /\ UNCHANGED <<proc, customers, lastId>>
        /\ removed' = removed \cup {h[t].id} /\ h[t].pc = "drop"
    BY <1>10 DEF Drop
  <2>2. Exists(h[t].id) /\ ~Live(h[t].id)
    BY <1>0, <2>1 DEF WritersHaveRows, DeletedStayDeleted
  <2>3. QED
    BY <1>0, <1>10, <2>1, <2>2, IdleShape DEF Idle, Rows,
      IdsAboveCounterUnused, WritersHaveRows, DeletedStayDeleted, Exists, Live
<1>11. QED
  BY <1>1, <1>2, <1>3, <1>4, <1>5, <1>6, <1>7, <1>8, <1>9, <1>10 DEF Next

(* A handler that begins notes those at work on its customer, and changes  *)
(* the note of no other.                                                   *)
LEMMA NoteFacts ==
  ASSUME NEW i, NoteOverlap(i)
  PROVE  /\ \A j : j # i => (j \in overlapped' <=> j \in overlapped)
         /\ \A u \in Thread : h[u].id = i => i \in overlapped'
BY DEF NoteOverlap

(* Handlers of one customer that overlap are noted: each begins by noting  *)
(* those already at work, and a new row has none.                          *)
LEMMA OverlapStep == IndInv /\ [Next]_vars => OverlapsNoted'
<1> SUFFICES ASSUME IndInv, [Next]_vars PROVE OverlapsNoted'
  OBVIOUS
<1>0. TypeOK /\ OverlapsNoted /\ WritersHaveRows
  BY DEF IndInv
<1>1. CASE UNCHANGED vars
  BY <1>0, <1>1 DEF vars, OverlapsNoted
<1>2. CASE Restart
  BY <1>2 DEF Restart, Idle, OverlapsNoted
<1>3. CASE RebuildWipe \/ RebuildRefill
  <2>1. \A t \in Thread : h[t].id = 0
    BY <1>0, <1>3 DEF RebuildWipe, RebuildRefill, WritersHaveRows
  <2>2. QED
    BY <1>3, <2>1 DEF RebuildWipe, RebuildRefill, OverlapsNoted
<1>4. ASSUME NEW t \in Thread, AddRow(t) PROVE OverlapsNoted'
  <2>1. /\ h'[t].id = lastId + 1
        /\ \A u \in Thread : u # t => h'[u] = h[u] /\ h[u].id # lastId + 1
    BY <1>4, AddShape
  <2>2. overlapped' = overlapped
    BY <1>4 DEF AddRow
  <2>3. QED
    BY <1>0, <2>1, <2>2 DEF OverlapsNoted
<1>5. ASSUME NEW t \in Thread, NEW i \in Id, Find(t, i) \/ MarkDeleted(t, i)
      PROVE  OverlapsNoted'
  <2>1. /\ h'[t].id = i
        /\ \A u \in Thread : u # t => h'[u] = h[u]
    BY <1>5, FindShape, MarkShape
  <2>2. NoteOverlap(i)
    BY <1>5 DEF Find, MarkDeleted
  <2>3. /\ \A j : j # i => (j \in overlapped' <=> j \in overlapped)
        /\ \A u \in Thread : h[u].id = i => i \in overlapped'
    BY <2>2, NoteFacts
  <2>4. QED
    BY <1>0, <2>1, <2>3 DEF OverlapsNoted
<1>6. ASSUME NEW t \in Thread, UpdateRow(t) \/ Unindex(t) PROVE OverlapsNoted'
  <2>1. \A u \in Thread : h'[u].id = h[u].id
    BY <1>6, WriteShape, UnindexShape
  <2>2. overlapped' = overlapped
    BY <1>6 DEF UpdateRow, Unindex
  <2>3. QED
    BY <1>0, <2>1, <2>2 DEF OverlapsNoted
<1>7. ASSUME NEW t \in Thread, Index(t) \/ Drop(t) PROVE OverlapsNoted'
  <2>1. h'[t].id = 0 /\ \A u \in Thread : u # t => h'[u] = h[u]
    BY <1>7, IdleShape DEF Idle
  <2>2. overlapped' = overlapped
    BY <1>7 DEF Index, Drop
  <2>3. QED
    BY <1>0, <2>1, <2>2 DEF OverlapsNoted
<1>8. QED
  BY <1>1, <1>2, <1>3, <1>4, <1>5, <1>6, <1>7 DEF Next

(* A handler that is alone with its customer has the words of its row in   *)
(* hand: only another handler of the customer could change them.           *)
LEMMA WordsStep == IndInv /\ [Next]_vars => WordsInHand'
<1> SUFFICES ASSUME IndInv, [Next]_vars PROVE WordsInHand'
  OBVIOUS
<1>0. TypeOK /\ WordsInHand /\ WritersHaveRows /\ OverlapsNoted
  BY DEF IndInv
<1>1. CASE UNCHANGED vars
  BY <1>0, <1>1 DEF vars, WordsInHand
<1>2. CASE Restart
  BY <1>2 DEF Restart, Idle, WordsInHand
<1>3. CASE RebuildWipe \/ RebuildRefill
  <2>1. \A t \in Thread : h[t].pc = "idle"
    BY <1>0, <1>3 DEF RebuildWipe, RebuildRefill, WritersHaveRows
  <2>2. QED
    BY <1>3, <2>1 DEF RebuildWipe, RebuildRefill, WordsInHand
<1>4. ASSUME NEW t \in Thread, AddRow(t) PROVE WordsInHand'
  <2>1. /\ \A u \in Thread : u # t => h'[u] = h[u] /\ h[u].id # lastId + 1
        /\ \A i \in Id : i # lastId + 1 => customers'[i] = customers[i]
        /\ h'[t].id = lastId + 1
        /\ customers'[lastId + 1].words = h'[t].words
    BY <1>4, AddShape
  <2>2. overlapped' = overlapped
    BY <1>4 DEF AddRow
  <2>3. QED
    BY <1>0, <2>1, <2>2 DEF WordsInHand, WritersHaveRows
<1>5. ASSUME NEW t \in Thread, NEW i \in Id, Find(t, i) PROVE WordsInHand'
  <2>1. h'[t].pc = "write" /\ \A u \in Thread : u # t => h'[u] = h[u]
    BY <1>5, FindShape
  <2>2. /\ customers' = customers
        /\ \A u \in Thread : h[u].id \notin overlapped' => h[u].id \notin overlapped
    BY <1>5, NoteFacts DEF Find
  <2>3. QED
    BY <1>0, <2>1, <2>2 DEF WordsInHand
<1>6. ASSUME NEW t \in Thread, UpdateRow(t) PROVE WordsInHand'
  <2>1. /\ h'[t].id = h[t].id /\ h'[t].words = h[t].words
        /\ \A u \in Thread : u # t => h'[u] = h[u]
        /\ customers'[h[t].id].words = h[t].words
        /\ \A i \in Id : i # h[t].id => customers'[i] = customers[i]
    BY <1>6, WriteShape
  <2>2. overlapped' = overlapped /\ h[t].id \in Id
    BY <1>6, WriterFacts DEF UpdateRow
  <2>3. ASSUME NEW u \in Thread, u # t, h[u].pc # "idle",
               h[u].id \notin overlapped
        PROVE  customers'[h[u].id] = customers[h[u].id]
    <3>1. h[u].id \in Id /\ h[u].id # 0
      BY <1>0, <2>3, CustomerAssumption DEF WritersHaveRows, Id
    <3>2. h[u].id # h[t].id
      BY <1>0, <2>3, <3>1 DEF OverlapsNoted
    <3>3. QED
      BY <2>1, <3>1, <3>2
  <2>4. QED
    BY <1>0, <2>1, <2>2, <2>3 DEF WordsInHand
<1>7. ASSUME NEW t \in Thread, Unindex(t) PROVE WordsInHand'
  <2>1. /\ h'[t].id = h[t].id /\ h'[t].words = h[t].words
        /\ \A u \in Thread : u # t => h'[u] = h[u]
    BY <1>7, UnindexShape
  <2>2. /\ customers' = customers /\ overlapped' = overlapped
        /\ h[t].pc = "unindex"
    BY <1>7 DEF Unindex
  <2>3. QED
    BY <1>0, <2>1, <2>2 DEF WordsInHand
<1>8. ASSUME NEW t \in Thread, Index(t) \/ Drop(t) PROVE WordsInHand'
  <2>1. h'[t].pc = "idle" /\ \A u \in Thread : u # t => h'[u] = h[u]
    BY <1>8, IdleShape DEF Idle
  <2>2. customers' = customers /\ overlapped' = overlapped
    BY <1>8 DEF Index, Drop
  <2>3. QED
    BY <1>0, <2>1, <2>2 DEF WordsInHand
<1>9. ASSUME NEW t \in Thread, NEW i \in Id, MarkDeleted(t, i)
      PROVE  WordsInHand'
  <2>1. /\ h'[t].pc = "drop" /\ \A u \in Thread : u # t => h'[u] = h[u]
        /\ customers'[i].words = customers[i].words
        /\ \A j \in Id : j # i => customers'[j] = customers[j]
    BY <1>9, MarkShape
  <2>2. \A u \in Thread : h[u].id \notin overlapped' => h[u].id \notin overlapped
    BY <1>9, NoteFacts DEF MarkDeleted
  <2>3. QED
    BY <1>0, <2>1, <2>2 DEF WordsInHand, WritersHaveRows
<1>10. QED
  BY <1>1, <1>2, <1>3, <1>4, <1>5, <1>6, <1>7, <1>8, <1>9 DEF Next

(* The refill puts every live customer's words in the index.               *)
LEMMA RefillIndexes ==
  ASSUME RebuildRefill, NEW i \in Id, Live(i)
  PROVE  customers' = customers /\ Indexed(i)'
<1>1. customers' = customers /\ Entries(i) \subseteq index'
  BY DEF RebuildRefill, Kept, Live, Exists
<1>2. QED
  BY <1>1 DEF Indexed, Entries

(* Every step keeps settled customers indexed: the steps of other          *)
(* customers' handlers leave their entries alone, and the last step of     *)
(* their own handler, alone with the row, puts them back.                  *)
LEMMA FoundStep == IndInv /\ [Next]_vars => SettledAreIndexed'
<1> SUFFICES ASSUME IndInv, [Next]_vars,
                    NEW i \in Id, i \notin overlapped', Live(i)', Settled(i)'
             PROVE  Indexed(i)'
  BY DEF SettledAreIndexed
<1>0. TypeOK /\ WordsInHand /\ WritersHaveRows /\ DeletedStayDeleted
  BY DEF IndInv
<1>a. /\ proc' = "up" /\ i # 0
      /\ \A t \in Thread : h'[t].id # i
  BY CustomerAssumption DEF Settled, Id
<1>b. i \notin overlapped /\ Live(i) /\ Settled(i) => Indexed(i)
  BY DEF IndInv, SettledAreIndexed
<1>1. CASE UNCHANGED vars
  BY <1>b, <1>1 DEF vars, Live, Exists, Settled, Indexed
<1>2. CASE Restart \/ RebuildWipe
  BY <1>a, <1>2 DEF Restart, RebuildWipe
<1>3. CASE RebuildRefill
  <2>1. Live(i)
    BY <1>3 DEF RebuildRefill, Live, Exists
  <2>2. QED
    BY <1>3, <2>1, RefillIndexes
<1>4. ASSUME NEW t \in Thread, AddRow(t) PROVE Indexed(i)'
  <2>1. i # lastId + 1 /\ customers'[i] = customers[i]
    BY <1>4, <1>a, AddShape
  <2>2. h[t].id = 0 /\ proc = "up" /\ index' = index /\ overlapped' = overlapped
    BY <1>0, <1>4 DEF AddRow, Ready, WritersHaveRows
  <2>3. Settled(i)
    BY <1>4, <1>a, <2>2, AddShape DEF Settled
  <2>4. QED
    BY <1>b, <2>1, <2>2, <2>3 DEF Live, Exists, Indexed
<1>5. ASSUME NEW t \in Thread, NEW j \in Id, Find(t, j) \/ MarkDeleted(t, j)
      PROVE  Indexed(i)'
  <2>1. /\ h'[t].id = j
        /\ \A u \in Thread : u # t => h'[u] = h[u]
    BY <1>5, FindShape, MarkShape
  <2>2. customers'[i] = customers[i]
    <3>1. i # j
      BY <1>a, <2>1
    <3>2. CASE Find(t, j)
      BY <3>2 DEF Find
    <3>3. CASE MarkDeleted(t, j)
      BY <3>1, <3>3, MarkShape
    <3>4. QED
      BY <1>5, <3>2, <3>3
  <2>3. h[t].id = 0 /\ proc = "up" /\ index' = index
    BY <1>0, <1>5 DEF Find, MarkDeleted, Ready, WritersHaveRows
  <2>4. i \notin overlapped
    <3>1. i # j
      BY <1>a, <2>1
    <3>2. QED
      BY <1>5, <3>1, NoteFacts DEF Find, MarkDeleted
  <2>5. Settled(i)
    BY <1>a, <2>1, <2>3 DEF Settled
  <2>6. QED
    BY <1>b, <2>2, <2>3, <2>4, <2>5 DEF Live, Exists, Indexed
<1>6. ASSUME NEW t \in Thread, UpdateRow(t) \/ Unindex(t) PROVE Indexed(i)'
  <2>1. \A u \in Thread : h'[u].id = h[u].id
    BY <1>6, WriteShape, UnindexShape
  <2>2. overlapped' = overlapped /\ proc' = proc
    BY <1>6 DEF UpdateRow, Unindex
  <2>3. i # h[t].id /\ h[t].id \in Id
    BY <1>6, <1>a, <2>1, WriterFacts DEF UpdateRow, Unindex
  <2>4. customers'[i] = customers[i]
    <3>1. CASE UpdateRow(t)
      BY <2>3, <3>1, WriteShape
    <3>2. CASE Unindex(t)
      BY <3>2 DEF Unindex
    <3>3. QED
      BY <1>6, <3>1, <3>2
  <2>5. \A w \in Word : <<w, i>> \in index => <<w, i>> \in index'
    <3>1. CASE UpdateRow(t)
      BY <3>1 DEF UpdateRow
    <3>2. CASE Unindex(t)
      BY <2>3, <3>2, DeleteFacts DEF Unindex
    <3>3. QED
      BY <1>6, <3>1, <3>2
  <2>6. Settled(i) /\ Live(i)
    BY <1>a, <2>1, <2>2, <2>4 DEF Settled, Live, Exists
  <2>7. customers[i].words \subseteq Word
    BY <1>0, <2>6 DEF Live, Exists, TypeOK, Row
  <2>8. QED
    BY <1>b, <2>2, <2>4, <2>5, <2>6, <2>7 DEF Indexed
<1>7. ASSUME NEW t \in Thread, Index(t) \/ Drop(t) PROVE Indexed(i)'
  <2>1. /\ \A u \in Thread : u # t => h'[u] = h[u]
        /\ h[t].id \in Id /\ proc = "up"
    BY <1>7, IdleShape, WriterFacts DEF Index, Drop
  <2>2. customers' = customers /\ overlapped' = overlapped
    BY <1>7 DEF Index, Drop
  <2>3. Live(i) /\ customers[i].words \subseteq Word
    BY <1>0, <2>2 DEF Live, Exists, TypeOK, Row
  <2>4. CASE h[t].id = i
    <3>1. ~Drop(t)
      BY <1>0, <2>3, <2>4 DEF DeletedStayDeleted, Drop
    <3>2. customers[i].words = h[t].words
      BY <1>0, <1>7, <2>2, <2>4, <3>1 DEF WordsInHand, Index
    <3>3. h[t].words \X {i} \subseteq index'
      BY <1>7, <2>4, <3>1 DEF Index, WithEntries
    <3>4. QED
      BY <2>2, <3>2, <3>3 DEF Indexed
  <2>5. CASE h[t].id # i
    <3>1. Settled(i)
      BY <1>a, <2>1, <2>5 DEF Settled
    <3>2. CASE Index(t)
      BY <1>b, <2>2, <2>3, <3>1, <3>2 DEF Index, WithEntries, Indexed
    <3>3. CASE Drop(t)
      <4>1. \A w \in Word : <<w, i>> \in index => <<w, i>> \in index'
        BY <2>1, <2>5, <3>3, DeleteFacts DEF Drop
      <4>2. QED
        BY <1>b, <2>2, <2>3, <3>1, <4>1 DEF Indexed
    <3>4. QED
      BY <1>7, <3>2, <3>3
  <2>6. QED
    BY <2>4, <2>5
<1>8. QED
  BY <1>1, <1>2, <1>3, <1>4, <1>5, <1>6, <1>7 DEF Next

LEMMA IndInvStep == IndInv /\ [Next]_vars => IndInv'
BY TypeStep, RowsStep, OverlapStep, WordsStep, FoundStep DEF IndInv, Rows

LEMMA Invariance == Spec => []IndInv
<1>1. QED
  BY InitInv, IndInvStep, PTL DEF Spec

(* Type correctness of customers, index and handlers.                      *)
THEOREM TypeCorrect == Spec => []TypeOK
<1>1. IndInv => TypeOK
  BY DEF IndInv
<1>2. QED
  BY <1>1, Invariance, PTL

(* A live customer nobody is writing matches each of its words, and is in  *)
(* every answer that is not cut at Limit, unless two handlers wrote it at  *)
(* once and nothing mended that since.                                     *)
THEOREM FoundTheorem == Spec => []FoundByOwnWords
<1>1. IndInv => FoundByOwnWords
  BY IndexedIsFound DEF IndInv, SettledAreIndexed, FoundByOwnWords
<1>2. QED
  BY <1>1, Invariance, PTL

(* A customer whose DELETE was answered is in no search result again.      *)
THEOREM RemovedTheorem == Spec => []RemovedNeverFound
<1>1. IndInv => RemovedNeverFound
  BY DEF IndInv, DeletedStayDeleted, RemovedNeverFound, Answers, Matches
<1>2. QED
  BY <1>1, Invariance, PTL

=============================================================================
