------------------------------ MODULE JobsProofs ------------------------------
(***************************************************************************)
(* Proofs about Jobs, for any numbers of jobs, customers and threads and   *)
(* any statuses: the inductive invariant, the action property, and that    *)
(* Jobs implements JobBook.                                                *)
(***************************************************************************)
EXTENDS Jobs, TLAPS

LEMMA NewFacts ==
  /\ NewCard \in Card /\ NewCard.marks = {}
  /\ Idle \in Handler /\ Idle.pc = "idle"
<1>1. NewCard \in Card /\ NewCard.marks = {}
  BY DEF NewCard, Card, AllStatus, Mark
<1>2. 0 \in 0 .. MaxJob
  BY JobAssumption
<1>3. QED
  BY <1>1, <1>2 DEF Idle, Handler

LEMMA NextFacts ==
  ASSUME NEW c \in Card
  PROVE  NextOccurrence(c) \in Card /\ NextOccurrence(c).marks = {}
BY DEF NextOccurrence, Card, AllStatus, Mark

(* What the handlers write is one of the book's changes, and those change  *)
(* a card to a card with no fewer marks.                                   *)
LEMMA EditsAreBooked ==
  ASSUME NEW c \in Card, NEW s \in Status, NEW m \in SUBSET {"done"}
  PROVE  Edited(c, s, m) \in Book!Edits(c)
<1>1. m = {} \/ m = {"done"}
  OBVIOUS
<1>2. c.marks \cup m \in {c.marks, c.marks \cup {"done"}}
  BY <1>1
<1>3. QED
  BY <1>2 DEF Edited, Book!Edits, AllStatus

LEMMA ClocksAreBooked ==
  ASSUME NEW c \in Card, NEW m \in SUBSET {"start", "end"}
  PROVE  Clocked(c, m) \in Book!Clocks(c)
BY DEF Clocked, Book!Clocks

LEMMA BookedMarks ==
  ASSUME NEW c \in Card, NEW d \in Book!Edits(c) \cup Book!Clocks(c)
  PROVE  c.marks \subseteq d.marks /\ d \in Card
<1>1. c.status \in AllStatus /\ c.marks \in SUBSET Mark
  BY DEF Card
<1>2. CASE d \in Book!Edits(c)
  <2>1. PICK s \in AllStatus, k \in {c.marks, c.marks \cup {"done"}} :
          d = [status |-> s, marks |-> k]
    BY <1>2 DEF Book!Edits
  <2>2. k \in SUBSET Mark /\ c.marks \subseteq k
    BY <1>1, <2>1 DEF Mark
  <2>3. QED
    BY <2>1, <2>2 DEF Card
<1>3. CASE d \in Book!Clocks(c)
  <2>1. PICK m \in SUBSET {"start", "end"} : d = Clocked(c, m)
    BY <1>3 DEF Book!Clocks, Clocked
  <2>2. c.marks \cup m \in SUBSET Mark
    BY <1>1 DEF Mark
  <2>3. (IF "end" \in m /\ c.status = "Scheduled" THEN "In Progress" ELSE c.status)
          \in AllStatus
    BY <1>1 DEF AllStatus
  <2>4. QED
    BY <2>1, <2>2, <2>3 DEF Clocked, Card
<1>4. QED
  BY <1>2, <1>3

LEMMA RowFacts ==
  ASSUME TypeOK, NEW i \in Id, Exists(i)
  PROVE  jobs[i] \in Row /\ jobs[i].card \in Card /\ jobs[i].repeats \in BOOLEAN
BY DEF TypeOK, Exists, Row

-----------------------------------------------------------------------------
(* The inductive invariant.                                                *)

LEMMA InitInv == Init => IndInv
<1> SUFFICES ASSUME Init PROVE IndInv
  OBVIOUS
<1>1. TypeOK /\ IdsInOrder
  <2>1. CASE lastId = 0 /\ jobs = [i \in Id |-> NoJob]
    BY <2>1, NewFacts, JobAssumption DEF Init, TypeOK, IdsInOrder, Exists, Id
  <2>2. CASE ~(lastId = 0 /\ jobs = [i \in Id |-> NoJob])
    <3>1. MaxJob > 0 /\ lastId = 1
      BY <2>2 DEF Init
    <3>2. PICK c \in Customer :
            jobs = [i \in Id |-> IF i = 1 THEN NewRow(c, TRUE, NewCard) ELSE NoJob]
      BY <2>2 DEF Init
    <3> DEFINE r == NewRow(c, TRUE, NewCard)
    <3> HIDE DEF r
    <3>3. r \in Row /\ r # NoJob
      <4>1. r \in Row
        BY NewFacts DEF r, NewRow, Row
      <4>2. QED
        BY <4>1, JobAssumption
    <3>4. \A i \in Id : jobs[i] = IF i = 1 THEN r ELSE NoJob
      BY <3>2 DEF r
    <3>5. jobs \in [Id -> Row \cup {NoJob}]
      BY <3>2, <3>3 DEF r
    <3>6. IdsInOrder
      BY <3>1, <3>3, <3>4 DEF IdsInOrder, Exists, Id
    <3>7. QED
      BY <3>1, <3>5, <3>6, NewFacts, JobAssumption DEF Init, TypeOK
  <2>3. QED
    BY <2>1, <2>2
<1>2. HeldExists /\ CardsInHand
  BY NewFacts DEF Init, HeldExists, CardsInHand
<1>3. QED
  BY <1>1, <1>2 DEF IndInv

(* INSERT: nothing, or a new row under the next id.                        *)
LEMMA InsertEffect ==
  ASSUME IndInv, NEW customer, NEW repeats \in BOOLEAN, NEW card \in Card,
         Insert(customer, repeats, card)
  PROVE  \/ UNCHANGED <<jobs, lastId>>
         \/ /\ customer \in Customer
            /\ lastId + 1 \in Id /\ ~Exists(lastId + 1)
            /\ lastId' = lastId + 1
            /\ NewRow(customer, repeats, card) \in Row
            /\ jobs' = [jobs EXCEPT ![lastId + 1] = NewRow(customer, repeats, card)]
BY JobAssumption DEF IndInv, TypeOK, IdsInOrder, Exists, Insert, Refused, NewRow, Row, Id

LEMMA InsertKeeps ==
  ASSUME IndInv, NEW customer, NEW repeats \in BOOLEAN, NEW card \in Card,
         Insert(customer, repeats, card)
  PROVE  /\ jobs' \in [Id -> Row \cup {NoJob}] /\ lastId' \in 0 .. MaxJob
         /\ IdsInOrder'
         /\ \A i \in Id : Exists(i) => jobs'[i] = jobs[i] /\ Exists(i)'
<1>1. CASE UNCHANGED <<jobs, lastId>>
  BY <1>1 DEF IndInv, TypeOK, IdsInOrder, Exists
<1>2. CASE ~UNCHANGED <<jobs, lastId>>
  <2> DEFINE r == NewRow(customer, repeats, card)
  <2> HIDE DEF r
  <2>1. /\ lastId + 1 \in Id /\ ~Exists(lastId + 1) /\ lastId' = lastId + 1
        /\ r \in Row /\ r # NoJob
        /\ jobs' = [jobs EXCEPT ![lastId + 1] = r]
    <3>1. /\ lastId + 1 \in Id /\ ~Exists(lastId + 1) /\ lastId' = lastId + 1
          /\ r \in Row
          /\ jobs' = [jobs EXCEPT ![lastId + 1] = r]
      BY <1>2, InsertEffect DEF r
    <3>2. QED
      BY <3>1, JobAssumption
  <2>2. \A i \in Id : jobs'[i] = IF i = lastId + 1 THEN r ELSE jobs[i]
    BY <2>1 DEF IndInv, TypeOK
  <2>3. jobs' \in [Id -> Row \cup {NoJob}] /\ lastId' \in 0 .. MaxJob
    BY <2>1 DEF IndInv, TypeOK, Id
  <2>4. IdsInOrder'
    BY <2>1, <2>2 DEF IndInv, TypeOK, IdsInOrder, Exists, Id
  <2>5. QED
    BY <2>1, <2>2, <2>3, <2>4 DEF Exists
<1>3. QED
  BY <1>1, <1>2

(* POST and spawn-recurring insert a card without marks.                   *)
LEMMA InsertsAreNew ==
  ASSUME IndInv, Post \/ \E t \in Thread : InsertSpawn(t)
  PROVE  \E customer : \E repeats \in BOOLEAN, card \in Card :
           card.marks = {} /\ Insert(customer, repeats, card)
<1>1. CASE Post
  <2>1. PICK customer \in Named, s \in Status :
          Insert(customer, FALSE,
                 IF s = "" THEN NewCard ELSE [NewCard EXCEPT !.status = s])
    BY <1>1 DEF Post
  <2> DEFINE card == IF s = "" THEN NewCard ELSE [NewCard EXCEPT !.status = s]
  <2>2. card \in Card /\ card.marks = {}
    BY DEF NewCard, Card, AllStatus, Mark
  <2>3. Insert(customer, FALSE, card)
    BY <2>1
  <2> HIDE DEF card
  <2>4. QED
    BY <2>2, <2>3
<1>2. ASSUME NEW t \in Thread, InsertSpawn(t)
      PROVE  \E customer : \E repeats \in BOOLEAN, card \in Card :
               card.marks = {} /\ Insert(customer, repeats, card)
  <2>1. h[t] \in Handler /\ h[t].pc = "spawn"
    BY <1>2 DEF InsertSpawn, IndInv, TypeOK
  <2>2. /\ h[t].id \in Id /\ Exists(h[t].id)
        /\ h[t].card \in Card /\ h[t].card.marks = {}
    BY <2>1 DEF IndInv, HeldExists, Handler
  <2>3. jobs[h[t].id].repeats \in BOOLEAN
    BY <2>2, RowFacts DEF IndInv
  <2>4. Insert(jobs[h[t].id].customer, jobs[h[t].id].repeats, h[t].card)
    BY <1>2 DEF InsertSpawn
  <2>5. QED
    BY <2>2, <2>3, <2>4
<1>3. QED
  BY <1>1, <1>2

(* A handler that has read a job holds it.                                 *)
LEMMA FindKeeps ==
  ASSUME IndInv, NEW t \in Thread, NEW i \in Id, Exists(i),
         FindPut(t, i) \/ FindTime(t, i) \/ FindSpawn(t, i)
  PROVE  IndInv'
<1> USE DEF IndInv
<1> jobs[i].card \in Card
  BY RowFacts
<1>1. PICK pc \in {"write", "spawn"}, card \in Card :
        /\ Hold(t, pc, i, card)
        /\ pc = "write" =>
             /\ NoteClash(i)
             /\ card \in Book!Edits(jobs[i].card) \cup Book!Clocks(jobs[i].card)
        /\ pc = "spawn" => UNCHANGED clashed /\ card.marks = {}
  <2>1. CASE FindPut(t, i)
    <3>1. PICK status \in Status, done \in SUBSET {"done"} :
            Hold(t, "write", i, Edited(jobs[i].card, status, done))
      BY <2>1 DEF FindPut
    <3>2. Edited(jobs[i].card, status, done) \in Book!Edits(jobs[i].card)
      BY EditsAreBooked
    <3>3. NoteClash(i) /\ Edited(jobs[i].card, status, done) \in Card
      BY <2>1, <3>2, BookedMarks DEF FindPut
    <3>4. QED
      BY <3>1, <3>2, <3>3
  <2>2. CASE FindTime(t, i)
    <3>1. PICK m \in SUBSET {"start", "end"} :
            Hold(t, "write", i, Clocked(jobs[i].card, m))
      BY <2>2 DEF FindTime
    <3>2. Clocked(jobs[i].card, m) \in Book!Clocks(jobs[i].card)
      BY ClocksAreBooked
    <3>3. NoteClash(i) /\ Clocked(jobs[i].card, m) \in Card
      BY <2>2, <3>2, BookedMarks DEF FindTime
    <3>4. QED
      BY <3>1, <3>2, <3>3
  <2>3. CASE FindSpawn(t, i)
    BY <2>3, NextFacts DEF FindSpawn
  <2>4. QED
    BY <2>1, <2>2, <2>3
<1>2. /\ UNCHANGED <<jobs, lastId>>
      /\ h[t].pc = "idle"
      /\ \A u \in Thread :
           h'[u] = IF u = t THEN [pc |-> pc, id |-> i, card |-> card] ELSE h[u]
      /\ h' \in [Thread -> Handler]
  BY <1>1 DEF Hold, TypeOK, Handler, Id
<1>3. clashed \subseteq clashed' /\ clashed' \subseteq clashed \cup {i}
  BY <1>1 DEF NoteClash
<1>4. TypeOK' /\ IdsInOrder' /\ HeldExists'
  BY <1>1, <1>2, <1>3 DEF TypeOK, IdsInOrder, HeldExists, Exists
<1>5. CardsInHand'
  <2> SUFFICES ASSUME NEW u \in Thread, h'[u].pc = "write", h'[u].id \notin clashed'
               PROVE  /\ \A v \in Thread :
                           h'[v].pc = "write" /\ h'[v].id = h'[u].id => v = u
                      /\ h'[u].card \in Book!Edits(jobs'[h'[u].id].card)
                                   \cup Book!Clocks(jobs'[h'[u].id].card)
    BY DEF CardsInHand, Writing
  <2>1. CASE u = t
    <3>1. pc = "write" /\ \A v \in Thread : ~Writing(v, i)
      BY <1>1, <1>2, <2>1 DEF NoteClash
    <3>2. QED
      BY <1>1, <1>2, <2>1, <3>1 DEF Writing
  <2>2. CASE u # t
    <3>1. h'[u] = h[u] /\ h[u].id \notin clashed
      BY <1>2, <1>3, <2>2
    <3>2. CASE h[u].id = i /\ pc = "write"
      <4>1. Writing(u, i)
        BY <3>1, <3>2 DEF Writing
      <4>2. i \in clashed'
        BY <1>1, <3>2, <4>1 DEF NoteClash
      <4>3. QED
        BY <3>1, <3>2, <4>2
    <3>3. CASE ~(h[u].id = i /\ pc = "write")
      BY <1>2, <3>1, <3>3 DEF CardsInHand, Writing
    <3>4. QED
      BY <3>2, <3>3
  <2>3. QED
    BY <2>1, <2>2
<1>6. QED
  BY <1>4, <1>5

(* The UPDATE changes nothing but the card.                                *)
LEMMA WriteEffect ==
  ASSUME IndInv, NEW t \in Thread, UpdateRow(t)
  PROVE  /\ h[t].id \in Id /\ Exists(h[t].id) /\ h[t].card \in Card
         /\ Written(jobs[h[t].id], h[t].card) \in Row
         /\ Written(jobs[h[t].id], h[t].card).card = h[t].card
         /\ \A j \in Id : jobs'[j] = IF j = h[t].id
                                       THEN Written(jobs[j], h[t].card) ELSE jobs[j]
         /\ \A u \in Thread : h'[u] = IF u = t THEN Idle ELSE h[u]
<1>1. h[t].id \in Id /\ Exists(h[t].id) /\ h[t].card \in Card
  BY DEF IndInv, HeldExists, UpdateRow, TypeOK, Handler
<1>2. jobs[h[t].id] \in Row
  BY <1>1, RowFacts DEF IndInv
<1>3. /\ Written(jobs[h[t].id], h[t].card) \in Row
      /\ Written(jobs[h[t].id], h[t].card).card = h[t].card
  BY <1>1, <1>2 DEF Written, Row
<1>4. QED
  BY <1>1, <1>3 DEF UpdateRow, IndInv, TypeOK

LEMMA UpdateKeeps ==
  ASSUME IndInv, NEW t \in Thread, UpdateRow(t)
  PROVE  IndInv'
<1> DEFINE i == h[t].id
<1> DEFINE w == Written(jobs[i], h[t].card)
<1>1. /\ i \in Id /\ Exists(i) /\ w \in Row
      /\ \A j \in Id : jobs'[j] = IF j = i THEN w ELSE jobs[j]
      /\ \A u \in Thread : h'[u] = IF u = t THEN Idle ELSE h[u]
  BY WriteEffect
<1>2. w # NoJob
  BY <1>1, JobAssumption
<1> HIDE DEF w
<1>3. \A j \in Id : Exists(j)' <=> Exists(j)
  BY <1>1, <1>2 DEF Exists
<1>4. clashed' \subseteq clashed /\ clashed \subseteq clashed' \cup {i}
  BY DEF UpdateRow
<1>5. jobs' \in [Id -> Row \cup {NoJob}]
  BY <1>1 DEF UpdateRow, IndInv, TypeOK, w
<1>6. h' \in [Thread -> Handler]
  BY NewFacts DEF UpdateRow, IndInv, TypeOK
<1>7. TypeOK'
  BY <1>4, <1>5, <1>6 DEF UpdateRow, IndInv, TypeOK
<1>8. IdsInOrder'
  BY <1>3 DEF UpdateRow, IndInv, IdsInOrder
<1>9. HeldExists'
  BY <1>1, <1>3, <1>4, NewFacts DEF IndInv, HeldExists, TypeOK
<1>10. CardsInHand'
  <2> SUFFICES ASSUME NEW u \in Thread, h'[u].pc = "write", h'[u].id \notin clashed'
               PROVE  /\ \A v \in Thread :
                           h'[v].pc = "write" /\ h'[v].id = h'[u].id => v = u
                      /\ h'[u].card \in Book!Edits(jobs'[h'[u].id].card)
                                   \cup Book!Clocks(jobs'[h'[u].id].card)
    BY DEF CardsInHand, Writing
  <2>1. u # t /\ h'[u] = h[u]
    BY <1>1, NewFacts
  <2>2. h[u].id # i
    <3>1. SUFFICES ASSUME h[u].id = i PROVE FALSE
      OBVIOUS
    <3>2. clashed' = clashed
      BY <2>1, <3>1 DEF UpdateRow, Writing
    <3>3. u = t
      BY <2>1, <3>1, <3>2 DEF UpdateRow, IndInv, CardsInHand, Writing
    <3>4. QED
      BY <2>1, <3>3
  <2>3. h[u].id \notin clashed
    BY <1>4, <2>1, <2>2
  <2>4. jobs'[h[u].id] = jobs[h[u].id]
    BY <1>1, <2>1, <2>2 DEF IndInv, HeldExists
  <2>5. \A v \in Thread :
          h'[v].pc = "write" /\ h'[v].id = h'[u].id => h'[v] = h[v]
    BY <1>1, NewFacts
  <2>6. QED
    BY <2>1, <2>3, <2>4, <2>5 DEF IndInv, CardsInHand, Writing
<1>11. QED
  BY <1>7, <1>8, <1>9, <1>10 DEF IndInv

(* New rows and deletion marks leave every card that a handler holds.      *)
LEMMA RestKeeps ==
  ASSUME IndInv,
         /\ jobs' \in [Id -> Row \cup {NoJob}] /\ lastId' \in 0 .. MaxJob
         /\ IdsInOrder'
         /\ \A i \in Id : Exists(i) => jobs'[i].card = jobs[i].card /\ Exists(i)',
         \A u \in Thread : h'[u] \in {h[u], Idle},
         h' \in [Thread -> Handler], UNCHANGED clashed
  PROVE  IndInv'
<1>1. TypeOK' /\ HeldExists'
  BY NewFacts DEF IndInv, TypeOK, HeldExists
<1>2. CardsInHand'
  <2> SUFFICES ASSUME NEW u \in Thread, h'[u].pc = "write", h'[u].id \notin clashed'
               PROVE  /\ \A v \in Thread :
                           h'[v].pc = "write" /\ h'[v].id = h'[u].id => v = u
                      /\ h'[u].card \in Book!Edits(jobs'[h'[u].id].card)
                                   \cup Book!Clocks(jobs'[h'[u].id].card)
    BY DEF CardsInHand, Writing
  <2>1. \A v \in Thread : h'[v].pc = "write" => h'[v] = h[v]
    BY NewFacts
  <2>2. jobs'[h[u].id].card = jobs[h[u].id].card
    BY <2>1 DEF IndInv, HeldExists
  <2>3. QED
    BY <2>1, <2>2 DEF IndInv, CardsInHand, Writing
<1>3. QED
  BY <1>1, <1>2 DEF IndInv

LEMMA IndInvStep == IndInv /\ [Next]_vars => IndInv'
<1> SUFFICES ASSUME IndInv, [Next]_vars PROVE IndInv'
  OBVIOUS
<1> h \in [Thread -> Handler]
  BY DEF IndInv, TypeOK
<1>1. CASE UNCHANGED vars
  <2>1. IdsInOrder' /\ \A i \in Id : Exists(i) <=> Exists(i)'
    BY <1>1 DEF vars, IndInv, IdsInOrder, Exists
  <2>2. QED
    BY <1>1, <2>1, RestKeeps DEF vars, IndInv, TypeOK
<1>2. CASE Post
  BY <1>2, InsertsAreNew, InsertKeeps, RestKeeps DEF Post
<1>3. ASSUME NEW t \in Thread, UpdateRow(t) PROVE IndInv'
  BY <1>3, UpdateKeeps
<1>4. ASSUME NEW t \in Thread, InsertSpawn(t) PROVE IndInv'
  <2>1. h' \in [Thread -> Handler] /\ \A u \in Thread : h'[u] \in {h[u], Idle}
    BY <1>4, NewFacts DEF InsertSpawn
  <2>2. QED
    BY <1>4, <2>1, InsertsAreNew, InsertKeeps, RestKeeps DEF InsertSpawn
<1>5. ASSUME NEW t \in Thread, NEW i \in Id,
             FindPut(t, i) \/ FindTime(t, i) \/ FindSpawn(t, i)
      PROVE  IndInv'
  BY <1>5, FindKeeps DEF FindPut, FindTime, FindSpawn
<1>6. ASSUME NEW i \in Id, Delete(i) PROVE IndInv'
  <2> DEFINE r == [jobs[i] EXCEPT !.deleted = TRUE]
  <2>1. r \in Row /\ r.card = jobs[i].card
    BY <1>6, RowFacts DEF Delete, IndInv, Row
  <2>2. r # NoJob
    BY <2>1, JobAssumption
  <2>3. jobs' = [jobs EXCEPT ![i] = r]
    BY <1>6 DEF Delete
  <2> HIDE DEF r
  <2>4. \A j \in Id : jobs'[j] = IF j = i THEN r ELSE jobs[j]
    BY <2>3 DEF IndInv, TypeOK
  <2>5. jobs' \in [Id -> Row \cup {NoJob}]
    BY <2>1, <2>3 DEF IndInv, TypeOK
  <2>6. \A j \in Id : /\ Exists(j)' <=> Exists(j)
                      /\ Exists(j) => jobs'[j].card = jobs[j].card
    BY <1>6, <2>1, <2>2, <2>4 DEF Exists, Delete
  <2>7. QED
    BY <1>6, <2>5, <2>6, RestKeeps DEF Delete, IndInv, TypeOK, IdsInOrder
<1>7. QED
  BY <1>1, <1>2, <1>3, <1>4, <1>5, <1>6 DEF Next

LEMMA Invariance == Spec => []IndInv
BY InitInv, IndInvStep, PTL DEF Spec

(* Type correctness of the table and of what the handlers hold.            *)
THEOREM TypeCorrect == Spec => []TypeOK
<1>1. IndInv => TypeOK
  BY DEF IndInv
<1>2. QED
  BY <1>1, Invariance, PTL

-----------------------------------------------------------------------------
(* No step takes a mark from a job that no two handlers write at once.     *)
LEMMA MarksStep ==
  IndInv /\ [Next]_vars =>
    \A i \in Id \ clashed :
      Exists(i) => jobs[i].card.marks \subseteq jobs'[i].card.marks
<1> SUFFICES ASSUME IndInv, [Next]_vars, NEW i \in Id \ clashed, Exists(i)
             PROVE  jobs[i].card.marks \subseteq jobs'[i].card.marks
  OBVIOUS
<1>1. CASE UNCHANGED jobs
  BY <1>1
<1>2. ASSUME NEW t \in Thread, UpdateRow(t)
      PROVE  jobs[i].card.marks \subseteq jobs'[i].card.marks
  <2>1. CASE h[t].id = i
    <3>1. h[t].card \in Book!Edits(jobs[i].card) \cup Book!Clocks(jobs[i].card)
      BY <1>2, <2>1 DEF IndInv, CardsInHand, UpdateRow
    <3>2. jobs'[i].card = h[t].card
      BY <1>2, <2>1, WriteEffect
    <3>3. QED
      BY <3>1, <3>2, RowFacts, BookedMarks DEF IndInv
  <2>2. CASE h[t].id # i
    BY <1>2, <2>2, WriteEffect
  <2>3. QED
    BY <2>1, <2>2
<1>3. ASSUME NEW customer, NEW repeats \in BOOLEAN, NEW card \in Card,
             Insert(customer, repeats, card)
      PROVE  jobs[i].card.marks \subseteq jobs'[i].card.marks
  BY <1>3, InsertKeeps
<1>4. ASSUME NEW j \in Id, Delete(j)
      PROVE  jobs[i].card.marks \subseteq jobs'[i].card.marks
  <2>1. jobs'[i].card = jobs[i].card
    BY <1>4, RowFacts DEF Delete, IndInv, TypeOK, Row
  <2>2. QED
    BY <2>1
<1>5. QED
  BY <1>1, <1>2, <1>3, <1>4, InsertsAreNew
     DEF Next, vars, FindPut, FindTime, FindSpawn, Hold

(* Times and completion, once recorded, outlive every edit.                *)
THEOREM MarksTheorem == Spec => MarksOutliveEdits
BY Invariance, MarksStep, PTL DEF Spec, MarksOutliveEdits

-----------------------------------------------------------------------------
(* Jobs implements JobBook.                                                *)

LEMMA BookInit == Init => Book!BInit
<1> SUFFICES ASSUME Init PROVE Book!BInit
  OBVIOUS
<1>1. ShownBook = jobs
  BY DEF Init, ShownBook, Shown
<1>2. CASE jobs = [i \in Id |-> NoJob]
  BY <1>1, <1>2 DEF Book!BInit
<1>3. CASE jobs # [i \in Id |-> NoJob]
  <2>1. PICK c \in Customer :
          jobs = [i \in Id |-> IF i = 1 THEN NewRow(c, TRUE, NewCard) ELSE NoJob]
    BY <1>3 DEF Init
  <2>2. 1 \in Id
    BY <1>3, JobAssumption DEF Init, Id
  <2>3. NewCard \in Book!Fresh
    BY NewFacts DEF Book!Fresh, Book!Card, Card
  <2>4. QED
    BY <1>1, <2>1, <2>2, <2>3 DEF Book!BInit, NewRow
<1>4. QED
  BY <1>2, <1>3

(* Insert enters a fresh card in the book, or leaves it alone.             *)
LEMMA InsertIsBooked ==
  ASSUME IndInv, NEW customer, NEW repeats \in BOOLEAN, NEW card \in Card,
         card.marks = {}, Insert(customer, repeats, card), UNCHANGED clashed
  PROVE  [Book!BNext]_ShownBook
<1>1. CASE UNCHANGED <<jobs, lastId>>
  BY <1>1 DEF ShownBook, Shown
<1>2. CASE ~UNCHANGED <<jobs, lastId>>
  <2> DEFINE n == lastId + 1
  <2> DEFINE r == NewRow(customer, repeats, card)
  <2>1. /\ customer \in Customer /\ n \in Id /\ ~Exists(n)
        /\ jobs' = [jobs EXCEPT ![n] = r]
    BY <1>2, InsertEffect
  <2>2. n \notin clashed
    BY <2>1 DEF IndInv, HeldExists
  <2>3. ShownBook[n] = NoJob
    BY <2>1, <2>2 DEF ShownBook, Shown, Exists
  <2>4. ShownBook' = [ShownBook EXCEPT ![n] = r]
    BY <2>1, <2>2 DEF ShownBook, Shown, IndInv, TypeOK
  <2>5. card \in Book!Fresh
    BY DEF Book!Fresh, Book!Card, Card
  <2>6. Book!Enter(n)
    BY <2>1, <2>3, <2>4, <2>5 DEF Book!Enter, NewRow
  <2>7. QED
    BY <2>1, <2>6 DEF Book!BNext
<1>3. QED
  BY <1>1, <1>2

(* A find shows as nothing, or as a clash with another handler.            *)
LEMMA FindIsBooked ==
  ASSUME IndInv, NEW t \in Thread, NEW i \in Id, Exists(i),
         UNCHANGED jobs, NoteClash(i) \/ UNCHANGED clashed
  PROVE  [Book!BNext]_ShownBook
<1>1. CASE clashed' = clashed
  BY <1>1 DEF ShownBook, Shown
<1>2. CASE clashed' # clashed
  <2>1. clashed' = clashed \cup {i}
    BY <1>2 DEF NoteClash
  <2> DEFINE r == [jobs[i] EXCEPT !.card = Unsure]
  <2>2. \A j \in Id : Shown(j)' = IF j = i THEN r ELSE Shown(j)
    BY <2>1 DEF Shown, Exists
  <2>3. Shown(i) # NoJob /\ r = [Shown(i) EXCEPT !.card = Unsure]
    <3>1. Shown(i) = jobs[i]
      BY <1>2, <2>1 DEF Shown
    <3>2. QED
      BY <3>1 DEF Exists
  <2> HIDE DEF r
  <2>4. ShownBook' = [ShownBook EXCEPT ![i] = r]
    BY <2>2 DEF ShownBook
  <2>5. ShownBook[i] = Shown(i)
    BY DEF ShownBook
  <2>6. Book!Clash(i)
    BY <2>3, <2>4, <2>5 DEF Book!Clash
  <2>7. QED
    BY <2>6 DEF Book!BNext
<1>3. QED
  BY <1>1, <1>2

(* An UPDATE shows as a rewrite of a job that no other handler writes, and *)
(* as nothing while others do.                                             *)
LEMMA UpdateIsBooked ==
  ASSUME IndInv, NEW t \in Thread, UpdateRow(t)
  PROVE  [Book!BNext]_ShownBook
<1>0. PICK i \in Id : i = h[t].id
  BY WriteEffect
<1> DEFINE w == Written(jobs[i], h[t].card)
<1>1. /\ jobs[i] # NoJob /\ w \in Row /\ h[t].card \in Card
      /\ \A j \in Id : jobs'[j] = IF j = i THEN w ELSE jobs[j]
  BY <1>0, WriteEffect DEF Exists
<1>2. w # NoJob
  BY <1>1, JobAssumption
<1>3. w = [jobs[i] EXCEPT !.card = h[t].card] /\ jobs[i] \in Row
  BY <1>1, RowFacts DEF Written, Exists, IndInv
<1> HIDE DEF w
<1>4. CASE i \in clashed'
  <2>1. clashed' = clashed /\ i \in clashed
    BY <1>0, <1>4 DEF UpdateRow
  <2>2. Shown(i)' = Shown(i)
    <3>1. Shown(i)' = [w EXCEPT !.card = Unsure]
      BY <1>1, <1>2, <1>4 DEF Shown
    <3>2. Shown(i) = [jobs[i] EXCEPT !.card = Unsure]
      BY <1>1, <2>1 DEF Shown
    <3>3. QED
      BY <1>3, <3>1, <3>2 DEF Row
  <2>3. \A j \in Id : Shown(j)' = Shown(j)
    BY <1>1, <2>1, <2>2 DEF Shown
  <2>4. QED
    BY <2>3 DEF ShownBook
<1>5. CASE i \notin clashed'
  <2>1. \A j \in Id \ {i} : j \in clashed' <=> j \in clashed
    BY <1>0 DEF UpdateRow
  <2>2. \A j \in Id : Shown(j)' = IF j = i THEN w ELSE Shown(j)
    BY <1>1, <1>2, <1>5, <2>1 DEF Shown
  <2>3. ShownBook' = [ShownBook EXCEPT ![i] = w]
    BY <2>2 DEF ShownBook
  <2>4. ShownBook[i] = Shown(i)
    BY <1>1 DEF ShownBook
  <2>5. Shown(i) # NoJob /\ w = [Shown(i) EXCEPT !.card = h[t].card]
        /\ h[t].card \in Book!Rewrites(Shown(i).card)
    <3>1. CASE i \in clashed
      <4>1. Shown(i) = [jobs[i] EXCEPT !.card = Unsure]
        BY <1>1, <3>1 DEF Shown
      <4>2. Shown(i) # NoJob
        BY <1>3, <4>1, JobAssumption
      <4>3. QED
        BY <1>1, <1>3, <4>1, <4>2 DEF Row, Book!Rewrites, Book!Card, Card
    <3>2. CASE i \notin clashed
      <4>1. Shown(i) = jobs[i]
        BY <3>2 DEF Shown
      <4>2. h[t].card \in Book!Edits(jobs[i].card) \cup Book!Clocks(jobs[i].card)
        BY <1>0, <3>2 DEF IndInv, CardsInHand, UpdateRow
      <4>3. jobs[i].card # Unsure
        <5>1. jobs[i].card \in Card
          BY <1>3 DEF Row
        <5>2. QED
          BY <5>1, JobAssumption
      <4>4. QED
        BY <1>1, <1>3, <4>1, <4>2, <4>3 DEF Book!Rewrites
    <3>3. QED
      BY <3>1, <3>2
  <2>6. Book!Rewrite(i)
    BY <2>3, <2>4, <2>5 DEF Book!Rewrite
  <2>7. QED
    BY <1>1, <2>6 DEF Book!BNext
<1>6. QED
  BY <1>4, <1>5

(* DELETE strikes the job out.                                             *)
LEMMA DeleteIsBooked ==
  ASSUME IndInv, NEW i \in Id, Delete(i)
  PROVE  [Book!BNext]_ShownBook
<1> DEFINE w == [jobs[i] EXCEPT !.deleted = TRUE]
<1>1. jobs[i] # NoJob /\ jobs[i] \in Row /\ w \in Row
  BY RowFacts DEF Delete, Exists, IndInv, Row
<1>2. \A j \in Id : jobs'[j] = IF j = i THEN w ELSE jobs[j]
  BY DEF Delete, IndInv, TypeOK
<1>3. w # NoJob
  BY <1>1, JobAssumption
<1>4. \A j \in Id :
        Shown(j)' = IF j = i THEN [Shown(j) EXCEPT !.deleted = TRUE] ELSE Shown(j)
  <2>1. \A j \in Id \ {i} : Shown(j)' = Shown(j)
    BY <1>2 DEF Delete, Shown
  <2>2. Shown(i)' = [Shown(i) EXCEPT !.deleted = TRUE]
    <3>1. CASE i \in clashed
      <4>1. Shown(i)' = [w EXCEPT !.card = Unsure]
        BY <1>2, <1>3, <3>1 DEF Delete, Shown
      <4>2. Shown(i) = [jobs[i] EXCEPT !.card = Unsure]
        BY <1>1, <3>1 DEF Shown
      <4>3. QED
        BY <1>1, <4>1, <4>2 DEF Row
    <3>2. CASE i \notin clashed
      BY <1>2, <3>2 DEF Delete, Shown
    <3>3. QED
      BY <3>1, <3>2
  <2>3. QED
    BY <2>1, <2>2
<1>5. ShownBook[i] # NoJob /\ ShownBook[i] = Shown(i)
  BY <1>1, JobAssumption DEF ShownBook, Shown
<1>6. ShownBook' = [ShownBook EXCEPT ![i].deleted = TRUE]
  BY <1>4 DEF ShownBook
<1>7. QED
  BY <1>5, <1>6 DEF Book!Strike, Book!BNext

LEMMA BookStep == IndInv /\ [Next]_vars => [Book!BNext]_ShownBook
<1> SUFFICES ASSUME IndInv, [Next]_vars PROVE [Book!BNext]_ShownBook
  OBVIOUS
<1>1. CASE UNCHANGED vars
  BY <1>1 DEF vars, ShownBook, Shown
<1>2. CASE Post \/ \E t \in Thread : InsertSpawn(t)
  BY <1>2, InsertsAreNew, InsertIsBooked DEF Post, InsertSpawn
<1>3. ASSUME NEW t \in Thread, UpdateRow(t) PROVE [Book!BNext]_ShownBook
  BY <1>3, UpdateIsBooked
<1>4. ASSUME NEW t \in Thread, NEW i \in Id,
             FindPut(t, i) \/ FindTime(t, i) \/ FindSpawn(t, i)
      PROVE  [Book!BNext]_ShownBook
  BY <1>4, FindIsBooked DEF FindPut, FindTime, FindSpawn, Hold
<1>5. ASSUME NEW i \in Id, Delete(i) PROVE [Book!BNext]_ShownBook
  BY <1>5, DeleteIsBooked
<1>6. QED
  BY <1>1, <1>2, <1>3, <1>4, <1>5 DEF Next

(* Every behaviour of the job routes is one of the job book.               *)
THEOREM BookTheorem == Spec => KeepsJobBook
BY BookInit, BookStep, Invariance, PTL DEF Spec, KeepsJobBook, Book!BSpec

=============================================================================
