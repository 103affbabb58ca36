------------------------------- MODULE JobBook -------------------------------
(***************************************************************************)
(* What the job routes promise: a book of jobs, each with a card.  A card  *)
(* is changed by whole steps and never loses a mark it was given; a job    *)
(* keeps its customer, is struck out once and for all, and no id is given  *)
(* twice.  Where two changes of one job clash, its card is Unsure until    *)
(* the last of them is done; nothing else in the book is.                  *)
(***************************************************************************)
EXTENDS Naturals

CONSTANTS Id, Customer, Status, Mark, NoJob, Unsure

VARIABLE book

Card == [status : Status, marks : SUBSET Mark]

Fresh == {c \in Card : c.marks = {}}

BInit ==
  \/ book = [i \in Id |-> NoJob]
  \/ \E i \in Id, customer \in Customer, repeats \in BOOLEAN, c \in Fresh :
       book = [j \in Id |->
         IF j = i THEN [customer |-> customer, repeats |-> repeats,
                        deleted |-> FALSE, card |-> c]
         ELSE NoJob]

Enter(i) ==
  /\ book[i] = NoJob
  /\ \E customer \in Customer, repeats \in BOOLEAN, c \in Fresh :
       book' = [book EXCEPT ![i] = [customer |-> customer, repeats |-> repeats,
                                    deleted |-> FALSE, card |-> c]]

(* An edit sets the status and may mark the job done.                      *)
Edits(old) == [status : Status, marks : {old.marks, old.marks \cup {"done"}}]

(* The clock adds its marks, and an end puts a scheduled job in progress.  *)
Clocks(old) ==
  {[status |-> IF "end" \in m /\ old.status = "Scheduled"
                 THEN "In Progress" ELSE old.status,
    marks |-> old.marks \cup m] : m \in SUBSET {"start", "end"}}

Rewrites(old) == IF old = Unsure THEN Card ELSE Edits(old) \cup Clocks(old)

Rewrite(i) ==
  /\ book[i] # NoJob
  /\ \E c \in Rewrites(book[i].card) : book' = [book EXCEPT ![i].card = c]

Clash(i) ==
  /\ book[i] # NoJob
  /\ book' = [book EXCEPT ![i].card = Unsure]

Strike(i) ==
  /\ book[i] # NoJob
  /\ book' = [book EXCEPT ![i].deleted = TRUE]

BNext == \E i \in Id : Enter(i) \/ Rewrite(i) \/ Clash(i) \/ Strike(i)

BSpec == BInit /\ [][BNext]_book

=============================================================================
