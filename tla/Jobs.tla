--------------------------------- MODULE Jobs ---------------------------------
(***************************************************************************)
(* Jobs: JobStore (src/src/job_store.cpp) and the job routes               *)
(* (src/src/router.cpp), run by threads that share one connection and no   *)
(* lock.  A route that changes a job reads the whole row, changes its      *)
(* copy, and writes the copy back in one UPDATE.  jobs_fts is kept by the  *)
(* statements CustomerStore models; of a job's texts nothing is said here. *)
(***************************************************************************)
EXTENDS Naturals

CONSTANTS
  MaxJob,       \* bound: job ids ever used
  Customer,     \* ids in the table customers
  Named,        \* customer ids a body may name
  Status,       \* statuses a body may carry; "" if it carries none
  Thread,
  NoJob, Unsure

Id == 1 .. MaxJob
Mark == {"start", "end", "done"}  \* time_start, time_end, completed_at are set
AllStatus == Status \cup {"Scheduled", "In Progress"}

Card == [status : AllStatus, marks : SUBSET Mark]
Row == [customer : Customer, repeats : BOOLEAN, deleted : BOOLEAN, card : Card]

ASSUME JobAssumption ==
  /\ MaxJob \in Nat
  /\ NoJob \notin Row
  /\ Unsure \notin Card
  /\ \A r \in Row : [r EXCEPT !.card = Unsure] # NoJob

VARIABLES
  jobs,       \* the table jobs
  lastId,     \* its AUTOINCREMENT counter
  h,          \* what each connection thread holds between find and update
  clashed     \* history: jobs with two handlers at once, while one is left

vars == <<jobs, lastId, h, clashed>>

NewCard == [status |-> "Scheduled", marks |-> {}]
Idle == [pc |-> "idle", id |-> 0, card |-> NewCard]

Handler == [pc : {"idle", "write", "spawn"}, id : 0 .. MaxJob, card : Card]

TypeOK ==
  /\ jobs \in [Id -> Row \cup {NoJob}]
  /\ lastId \in 0 .. MaxJob
  /\ h \in [Thread -> Handler]
  /\ clashed \subseteq Id

Exists(i) == jobs[i] # NoJob

NewRow(customer, repeats, card) ==
  [customer |-> customer, repeats |-> repeats, deleted |-> FALSE, card |-> card]

(* No route sets recurring: a recurring job, if there is one, was in the   *)
(* database file the server was given.                                     *)
Init ==
  /\ \/ lastId = 0 /\ jobs = [i \in Id |-> NoJob]
     \/ /\ MaxJob > 0 /\ lastId = 1
        /\ \E c \in Customer :
             jobs = [i \in Id |->
               IF i = 1
                 THEN NewRow(c, TRUE, NewCard)
                 ELSE NoJob]
  /\ clashed = {}
  /\ h = [t \in Thread |-> Idle]

-----------------------------------------------------------------------------
(* INSERT INTO jobs ... RETURNING id.  The foreign key refuses an unknown  *)
(* customer; step() reports that as "no row", so the job keeps id 0 and    *)
(* the route answers 201.                                                  *)
Refused_Never(customer) == FALSE  \* mutant: PRAGMA foreign_keys is off
Refused(customer) == customer \notin Customer

Insert(customer, repeats, card) ==
  IF Refused(customer)
    THEN UNCHANGED <<jobs, lastId>>
    ELSE /\ lastId < MaxJob
         /\ lastId' = lastId + 1
         /\ jobs' = [jobs EXCEPT ![lastId + 1] = NewRow(customer, repeats, card)]

(* POST /api/jobs reads neither recurring nor the interval.                *)
Post ==
  /\ \E customer \in Named, status \in Status :
       Insert(customer, FALSE,
              IF status = "" THEN NewCard ELSE [NewCard EXCEPT !.status = status])
  /\ UNCHANGED <<h, clashed>>

-----------------------------------------------------------------------------
(* Handlers that read a job, deleted or not, and go on with their copy.    *)

Hold(t, pc, i, card) ==
  /\ h[t].pc = "idle"
  /\ h' = [h EXCEPT ![t] = [pc |-> pc, id |-> i, card |-> card]]
  /\ UNCHANGED <<jobs, lastId>>

Writing(t, i) == h[t].pc = "write" /\ h[t].id = i

NoteClash(i) ==
  clashed' = IF \E t \in Thread : Writing(t, i) THEN clashed \cup {i} ELSE clashed

(* PUT /api/jobs/:id takes the status from the body, present or not (one   *)
(* recv may have read no more than the headers), and completed_at only if  *)
(* it is there.                                                            *)
Edited_Body(card, status, done) ==  \* mutant: a job made from the body alone
  [status |-> status, marks |-> done]
Edited(card, status, done) ==
  [status |-> status, marks |-> card.marks \cup done]

FindPut(t, i) ==
  /\ Exists(i)
  /\ \E status \in Status, done \in SUBSET {"done"} :
       Hold(t, "write", i, Edited(jobs[i].card, status, done))
  /\ NoteClash(i)

(* PUT /api/jobs/:id/time.                                                 *)
Clocked(card, m) ==
  [status |-> IF "end" \in m /\ card.status = "Scheduled"
                THEN "In Progress" ELSE card.status,
   marks |-> card.marks \cup m]

FindTime(t, i) ==
  /\ Exists(i)
  /\ \E m \in SUBSET {"start", "end"} :
       Hold(t, "write", i, Clocked(jobs[i].card, m))
  /\ NoteClash(i)

(* UPDATE jobs writes every column but customer_id, created_at, deleted.   *)
Written_Whole(row, card) ==  \* mutant: deleted is written back as well
  [row EXCEPT !.card = card, !.deleted = FALSE]
Written(row, card) == [row EXCEPT !.card = card]

UpdateRow(t) ==
  /\ h[t].pc = "write"
  /\ jobs' = [jobs EXCEPT ![h[t].id] = Written(@, h[t].card)]
  /\ h' = [h EXCEPT ![t] = Idle]
  /\ clashed' = IF \E u \in Thread \ {t} : Writing(u, h[t].id)
                  THEN clashed ELSE clashed \ {h[t].id}
  /\ UNCHANGED <<lastId>>

(* POST /api/jobs/:id/spawn-recurring copies a recurring job, deleted or   *)
(* not, to its next date.                                                  *)
NextOccurrence(card) == [card EXCEPT !.status = "Scheduled", !.marks = {}]

FindSpawn(t, i) ==
  /\ Exists(i) /\ jobs[i].repeats
  /\ Hold(t, "spawn", i, NextOccurrence(jobs[i].card))
  /\ UNCHANGED clashed

InsertSpawn(t) ==
  /\ h[t].pc = "spawn"
  /\ Insert(jobs[h[t].id].customer, jobs[h[t].id].repeats, h[t].card)
  /\ h' = [h EXCEPT ![t] = Idle]
  /\ UNCHANGED <<clashed>>

(* DELETE /api/jobs/:id only marks the row, and answers 204 for any id.    *)
Delete(i) ==
  /\ Exists(i)
  /\ jobs' = [jobs EXCEPT ![i].deleted = TRUE]
  /\ UNCHANGED <<lastId, h, clashed>>

-----------------------------------------------------------------------------
Next ==
  \/ Post
  \/ \E t \in Thread :
       \/ UpdateRow(t) \/ InsertSpawn(t)
       \/ \E i \in Id : FindPut(t, i) \/ FindTime(t, i) \/ FindSpawn(t, i)
  \/ \E i \in Id : Delete(i)

Spec == Init /\ [][Next]_vars

-----------------------------------------------------------------------------
(* Time and completion, once recorded, stay recorded, unless two handlers  *)
(* of that job overlapped: no edit, however little of its body arrived,    *)
(* takes them away.                                                        *)
MarksOutliveEdits ==
  [][\A i \in Id \ clashed :
       Exists(i) => jobs[i].card.marks \subseteq jobs'[i].card.marks]_vars

(* The routes keep the promise of JobBook: whole steps, one job at a time, *)
(* deletions for good, ids given once; only cards of jobs that two         *)
(* handlers write at once are beyond it, and only until both are done.     *)
Shown(i) ==
  IF jobs[i] # NoJob /\ i \in clashed THEN [jobs[i] EXCEPT !.card = Unsure]
  ELSE jobs[i]

ShownBook == [i \in Id |-> Shown(i)]

Book == INSTANCE JobBook WITH Status <- AllStatus, book <- ShownBook

KeepsJobBook == Book!BSpec

-----------------------------------------------------------------------------
(* The inductive invariant behind both (proved in JobsProofs).             *)

IdsInOrder == \A i \in Id : Exists(i) <=> i <= lastId

(* A handler holds a job that is there, and to spawn from it a new card.   *)
HeldExists ==
  /\ \A i \in clashed : Exists(i)
  /\ \A t \in Thread : h[t].pc # "idle" =>
       h[t].id \in Id /\ Exists(h[t].id)
         /\ (h[t].pc = "spawn" => h[t].card.marks = {})

(* A job's only writer will make one of the book's changes to the card     *)
(* the job still has.                                                      *)
CardsInHand ==
  \A t \in Thread : h[t].pc = "write" /\ h[t].id \notin clashed =>
    /\ \A u \in Thread : Writing(u, h[t].id) => u = t
    /\ h[t].card \in Book!Edits(jobs[h[t].id].card)
                       \cup Book!Clocks(jobs[h[t].id].card)

IndInv == TypeOK /\ IdsInOrder /\ HeldExists /\ CardsInHand

=============================================================================
