---------------------------- MODULE CustomerStore ----------------------------
(***************************************************************************)
(* Customers and their full-text index: CustomerStore                      *)
(* (src/src/customer_store.cpp), the handlers that use it and /api/search  *)
(* (src/src/router.cpp), run by threads that interleave between any two    *)
(* statements.  JobStore keeps jobs_fts by the same statements.            *)
(*                                                                         *)
(* customers_fts is an external-content FTS5 table: it stores which words  *)
(* point to which row, and nothing else.  To delete a row from it, FTS5    *)
(* reads the row's words from the table customers, as it is at that time.  *)
(* A customer's texts are the set of their words.                          *)
(***************************************************************************)
EXTENDS Naturals, FiniteSets

CONSTANTS
  MaxCustomer,  \* bound: customer ids ever used
  Word,
  Text,         \* the sets of words a POST or PUT may carry
  Limit,        \* how many customers a search answers with at most (20)
  Thread,
  NoCustomer

Id == 1 .. MaxCustomer
Row == [words : SUBSET Word, deleted : BOOLEAN]

ASSUME CustomerAssumption ==
  /\ MaxCustomer \in Nat /\ Limit \in Nat \ {0}
  /\ Text \subseteq SUBSET Word
  /\ NoCustomer \notin Row

VARIABLES
  proc,       \* "wipe" and "refill", the two statements of rebuild_fts, "up"
  customers,  \* the table customers
  lastId,     \* its AUTOINCREMENT counter
  index,      \* customers_fts: pairs of a word and a row id
  h,          \* what each connection thread's handler is doing
  removed,    \* history: ids whose DELETE was answered
  overlapped  \* history: ids two handlers wrote at once, and neither a start
              \* nor a PUT or DELETE of its own came since

vars == <<proc, customers, lastId, index, h, removed, overlapped>>

Idle == [pc |-> "idle", id |-> 0, words |-> {}]

Handler == [pc : {"idle", "index", "write", "unindex", "reindex", "drop"},
            id : 0 .. MaxCustomer, words : SUBSET Word]

TypeOK ==
  /\ proc \in {"wipe", "refill", "up"}
  /\ customers \in [Id -> Row \cup {NoCustomer}]
  /\ lastId \in 0 .. MaxCustomer
  /\ index \subseteq Word \X Id
  /\ h \in [Thread -> Handler]
  /\ removed \subseteq Id /\ overlapped \subseteq Id

Exists(i) == customers[i] # NoCustomer
Live(i) == Exists(i) /\ ~customers[i].deleted

Init ==
  /\ proc = "up"
  /\ customers = [i \in Id |-> NoCustomer]
  /\ lastId = 0 /\ index = {} /\ removed = {} /\ overlapped = {}
  /\ h = [t \in Thread |-> Idle]

-----------------------------------------------------------------------------
(* The FTS5 statements.  Asked to delete words it does not hold, FTS5 may  *)
(* do what it can or report corruption; the code ignores the report.       *)

Entries(i) == customers[i].words \X {i}

DeleteEntries(rows) ==
  LET entries == UNION {Entries(i) : i \in rows}
  IN \/ index' = index \ entries
     \/ ~ entries \subseteq index /\ UNCHANGED index

WithEntries_Swapped(i, words) ==  \* mutant: columns in the wrong order
  index \cup ({i} \X words)
WithEntries_None(i, words) == index  \* mutant: the INSERT is missing
WithEntries(i, words) == index \cup (words \X {i})

-----------------------------------------------------------------------------
Goto(t, state) == h' = [h EXCEPT ![t] = state]

Ready(t) == proc = "up" /\ h[t].pc = "idle"

NoteOverlap(i) ==
  overlapped' = IF \E t \in Thread : h[t].id = i
                  THEN overlapped \cup {i} ELSE overlapped \ {i}

(* POST /api/customers.                                                    *)
AddRow(t) ==
  /\ Ready(t)
  /\ lastId < MaxCustomer
  /\ \E words \in Text :
       /\ customers' = [customers EXCEPT
                          ![lastId + 1] = [words |-> words, deleted |-> FALSE]]
       /\ Goto(t, [pc |-> "index", id |-> lastId + 1, words |-> words])
  /\ lastId' = lastId + 1
  /\ UNCHANGED <<proc, index, removed, overlapped>>

(* PUT /api/customers/:id finds the row, deleted or not, and takes every   *)
(* text from the body.                                                     *)
Find(t, i) ==
  /\ Ready(t)
  /\ Exists(i)
  /\ \E words \in Text : Goto(t, [pc |-> "write", id |-> i, words |-> words])
  /\ NoteOverlap(i)
  /\ UNCHANGED <<proc, customers, lastId, index, removed>>

(* UPDATE customers leaves the column deleted alone.                       *)
Updated_Revived(row, words) ==  \* mutant: the whole row is written back
  [words |-> words, deleted |-> FALSE]
Updated(row, words) == [row EXCEPT !.words = words]

UpdateRow(t) ==
  /\ h[t].pc = "write"
  /\ customers' = [customers EXCEPT ![h[t].id] = Updated(@, h[t].words)]
  /\ Goto(t, [h[t] EXCEPT !.pc = "unindex"])
  /\ UNCHANGED <<proc, lastId, index, removed, overlapped>>

Unindex(t) ==
  /\ h[t].pc = "unindex"
  /\ DeleteEntries({h[t].id})
  /\ Goto(t, [h[t] EXCEPT !.pc = "reindex"])
  /\ UNCHANGED <<proc, customers, lastId, removed, overlapped>>

(* The INSERT that ends add and update.                                    *)
Index(t) ==
  /\ h[t].pc \in {"index", "reindex"}
  /\ index' = WithEntries(h[t].id, h[t].words)
  /\ Goto(t, Idle)
  /\ UNCHANGED <<proc, customers, lastId, removed, overlapped>>

(* DELETE /api/customers/:id marks the row and drops it from the index.    *)
MarkDeleted(t, i) ==
  /\ Ready(t)
  /\ Exists(i)
  /\ customers' = [customers EXCEPT ![i].deleted = TRUE]
  /\ Goto(t, [pc |-> "drop", id |-> i, words |-> {}])
  /\ NoteOverlap(i)
  /\ UNCHANGED <<proc, lastId, index, removed>>

Drop(t) ==
  /\ h[t].pc = "drop"
  /\ DeleteEntries({h[t].id})
  /\ Goto(t, Idle)
  /\ removed' = removed \cup {h[t].id}
  /\ UNCHANGED <<proc, customers, lastId, overlapped>>

-----------------------------------------------------------------------------
(* The process dies between two statements and starts again.  A row whose  *)
(* INSERT ... RETURNING is still open would be rolled back; that crash is  *)
(* left out.                                                               *)
Restart ==
  /\ \A t \in Thread : h[t].pc # "index"
  /\ proc' = "wipe"
  /\ h' = [t \in Thread |-> Idle]
  /\ UNCHANGED <<customers, lastId, index, removed, overlapped>>

(* DELETE FROM customers_fts goes over the rows of customers.              *)
RebuildWipe ==
  /\ proc = "wipe"
  /\ DeleteEntries({i \in Id : Exists(i)})
  /\ proc' = "refill"
  /\ UNCHANGED <<customers, lastId, h, removed, overlapped>>

Kept(i) == Exists(i) /\ ~customers[i].deleted

RebuildRefill ==
  /\ proc = "refill"
  /\ index' = index \cup UNION {Entries(i) : i \in {j \in Id : Kept(j)}}
  /\ proc' = "up"
  /\ overlapped' = {}
  /\ UNCHANGED <<customers, lastId, h, removed>>

Next ==
  \/ Restart \/ RebuildWipe \/ RebuildRefill
  \/ \E t \in Thread :
       \/ AddRow(t) \/ UpdateRow(t) \/ Unindex(t) \/ Index(t) \/ Drop(t)
       \/ \E i \in Id : Find(t, i) \/ MarkDeleted(t, i)

Spec == Init /\ [][Next]_vars

-----------------------------------------------------------------------------
(* GET /api/search: the rows the index has under the word, joined with     *)
(* customers that are not deleted; of more than Limit, any Limit of them,  *)
(* for the query does not order them.                                      *)
Matches(w) == {i \in Id : <<w, i>> \in index /\ Live(i)}

Answers(w) ==
  {found \in SUBSET Matches(w) :
     /\ Cardinality(found) <= Limit
     /\ found = Matches(w) \/ Cardinality(found) = Limit}

(* Nobody is writing customer i.                                           *)
Settled(i) == proc = "up" /\ \A t \in Thread : h[t].id # i

(* A search answers with the customer, or with as many others as it may.   *)
FoundByOwn(i) ==
  \A w \in customers[i].words :
    /\ i \in Matches(w)
    /\ \A found \in Answers(w) : i \in found \/ Cardinality(found) = Limit

(* A live customer nobody is writing matches each of its words, so that a  *)
(* search which is not cut at Limit finds it: whatever handlers of other   *)
(* customers do, whatever crash cut an earlier write, whatever FTS5        *)
(* refused to delete.  Two handlers that wrote it at once can lose its     *)
(* words from the index; the next edit that has it alone, or the next      *)
(* start, brings them back.                                                *)
FoundByOwnWords ==
  \A i \in Id \ overlapped : Live(i) /\ Settled(i) => FoundByOwn(i)

(* A customer whose DELETE was answered is in no search result again, not  *)
(* by an edit that found it before, nor by one that finds it deleted.      *)
RemovedNeverFound ==
  \A i \in removed, w \in Word : \A found \in Answers(w) : i \notin found

(* docs/CHANGELOG.md: the index is rebuilt on every start.  What a search  *)
(* finds then has the word.                                                *)
StartForgetsOldWords ==
  [][proc = "refill" /\ proc' = "up" =>
       \A w \in Word : \A i \in UNION Answers(w)' :
         w \in customers'[i].words]_vars

-----------------------------------------------------------------------------
(* The inductive invariant behind FoundByOwnWords and RemovedNeverFound    *)
(* (proved in CustomerProofs).                                             *)

(* Ids above the AUTOINCREMENT counter were never used.                    *)
IdsAboveCounterUnused == \A i \in Id : i > lastId => customers[i] = NoCustomer

(* A handler at work has a customer that exists, and the process serves.   *)
WritersHaveRows ==
  \A t \in Thread :
    IF h[t].pc = "idle" THEN h[t].id = 0
    ELSE proc = "up" /\ h[t].id \in Id /\ Exists(h[t].id)

(* A row marked deleted stays so: a DELETE's second statement finds it     *)
(* marked, and so does everyone after the answer.                          *)
DeletedStayDeleted ==
  /\ \A t \in Thread : h[t].pc = "drop" => ~Live(h[t].id)
  /\ \A i \in removed : Exists(i) /\ ~Live(i)

(* Handlers of one customer that overlap are noted.                        *)
OverlapsNoted ==
  \A t, u \in Thread :
    t # u /\ h[t].id # 0 /\ h[t].id = h[u].id => h[t].id \in overlapped

(* A handler that works alone indexes the words its row has.               *)
WordsInHand ==
  \A t \in Thread :
    h[t].pc \in {"index", "unindex", "reindex"} /\ h[t].id \notin overlapped =>
      customers[h[t].id].words = h[t].words

(* FoundByOwnWords, in terms of the index.                                 *)
Indexed(i) == \A w \in customers[i].words : <<w, i>> \in index
SettledAreIndexed ==
  \A i \in Id \ overlapped : Live(i) /\ Settled(i) => Indexed(i)

IndInv ==
  /\ TypeOK
  /\ IdsAboveCounterUnused
  /\ WritersHaveRows
  /\ DeletedStayDeleted
  /\ OverlapsNoted
  /\ WordsInHand
  /\ SettledAreIndexed

=============================================================================
