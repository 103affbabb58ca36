------------------------------ MODULE Lifecycle ------------------------------
(***************************************************************************)
(* The life of the server process: main (src/src/main.cpp), the accept     *)
(* loop and HttpServer::stop (src/src/server.cpp), the threads             *)
(* POST /api/shutdown starts (src/src/router.cpp) and Database::close      *)
(* (src/src/database.cpp).  Nothing locks listen_sock_ or db_.             *)
(*                                                                         *)
(* On POSIX systems closing the listening socket does not wake a thread    *)
(* that is blocked in accept on it; on Windows it does.  A signal handler  *)
(* runs on top of main, whose accept then fails on both.  And accept may   *)
(* fail for reasons of its own (an aborted connection, no descriptor left);*)
(* the loop ends on any failure.                                           *)
(***************************************************************************)
EXTENDS Naturals, FiniteSets

CONSTANTS
  Client,      \* connections clients may open
  Closer,      \* threads POST /api/shutdown may start
  CloseWakes   \* closing the socket wakes accept

ASSUME LifecycleAssumption == CloseWakes \in BOOLEAN /\ IsFiniteSet(Closer)

VARIABLES
  main,     \* where the main thread is
  running,  \* running_
  sock,     \* listen_sock_
  conn,     \* what became of each client's connection
  closer,   \* where each shutdown thread is
  db,       \* db_: "open" or "null"
  closes,   \* history: calls of sqlite3_close on the one handle
  signal,   \* history: "none", or whether a signal came before running_ was
            \* set ("early") or after ("late")
  late,     \* history: connections accepted with running_ already cleared
  broke     \* history: listening or accepting failed by itself

vars == <<main, running, sock, conn, closer, db, closes, signal, late, broke>>

TypeOK ==
  /\ main \in {"ready", "bound", "loop", "call", "accept", "out", "closing",
               "exited"}
  /\ running \in BOOLEAN
  /\ sock \in {"none", "open", "deaf", "closed"}
  /\ conn \in [Client -> {"away", "queued", "serving", "answered", "unsaved"}]
  /\ closer \in [Closer -> {"none", "sleep", "closing", "clear", "shut", "done"}]
  /\ db \in {"open", "null"}
  /\ closes \in Nat
  /\ signal \in {"none", "early", "late"}
  /\ late \in Nat /\ broke \in BOOLEAN

Init ==
  /\ main = "ready"
  /\ running = FALSE /\ sock = "none"
  /\ conn = [c \in Client |-> "away"]
  /\ closer = [x \in Closer |-> "none"]
  /\ db = "open" /\ closes = 0 /\ signal = "none" /\ late = 0
  /\ broke = FALSE

Alive == main # "exited"

-----------------------------------------------------------------------------
(* HttpServer::run, on the main thread.                                    *)

(* socket, bind, listen: a new listen_sock_, whatever stop did before.     *)
(* None of them is checked: there may be no socket, or one that does not   *)
(* listen, or one bind refused the port to, which may be open though       *)
(* nobody connects to it.                                                  *)
RunListen ==
  /\ main = "ready"
  /\ main' = "bound"
  /\ sock' \in {"open", "deaf", "none"}
  /\ broke' = (broke \/ sock' # "open")
  /\ UNCHANGED <<running, conn, closer, db, closes, signal, late>>

RunStart ==
  /\ main = "bound"
  /\ main' = "loop" /\ running' = TRUE
  /\ UNCHANGED <<sock, conn, closer, db, closes, signal, late, broke>>

GoesOn_Always == TRUE  \* mutant: for (;;)
GoesOn == running

RunLoop ==
  /\ main = "loop"
  /\ main' = IF GoesOn THEN "call" ELSE "out"
  /\ UNCHANGED <<running, sock, conn, closer, db, closes, signal, late, broke>>

(* accept on a socket that does not listen fails at once.                  *)
RunCall ==
  /\ main = "call"
  /\ main' = IF sock = "open" THEN "accept" ELSE "out"
  /\ UNCHANGED <<running, sock, conn, closer, db, closes, signal, late, broke>>

Accepting == main = "accept" /\ (sock = "open" \/ ~CloseWakes)

Accept(c) ==
  /\ Accepting
  /\ conn[c] = "queued"
  /\ conn' = [conn EXCEPT ![c] = "serving"]
  /\ main' = "loop"
  /\ late' = IF running THEN late ELSE late + 1
  /\ UNCHANGED <<running, sock, closer, db, closes, signal, broke>>

AcceptWoken ==
  /\ main = "accept" /\ ~Accepting
  /\ main' = "out"
  /\ UNCHANGED <<running, sock, conn, closer, db, closes, signal, late, broke>>

AcceptFails ==
  /\ Accepting
  /\ main' = "out" /\ broke' = TRUE
  /\ UNCHANGED <<running, sock, conn, closer, db, closes, signal, late>>

(* main after run: db.close(), as two steps, and the process ends with     *)
(* every detached thread in it.                                            *)
MainClose ==
  /\ main = "out"
  /\ main' = IF db = "open" THEN "closing" ELSE "exited"
  /\ UNCHANGED <<running, sock, conn, closer, db, closes, signal, late, broke>>

MainClosed ==
  /\ main = "closing"
  /\ main' = "exited" /\ db' = "null" /\ closes' = closes + 1
  /\ UNCHANGED <<running, sock, conn, closer, signal, late, broke>>

Main ==
  \/ RunListen \/ RunStart \/ RunLoop \/ RunCall \/ AcceptWoken
  \/ MainClose \/ MainClosed \/ \E c \in Client : Accept(c)

-----------------------------------------------------------------------------
(* Clients and the threads that serve them.                                *)

Arrive(c) ==
  /\ Alive
  /\ sock = "open" \/ Accepting
  /\ conn[c] = "away"
  /\ conn' = [conn EXCEPT ![c] = "queued"]
  /\ UNCHANGED <<main, running, sock, closer, db, closes, signal, late, broke>>

(* A route that writes: on a handle that is gone every statement fails,    *)
(* the stores swallow that, and a POST, or a PUT past its find, has the    *)
(* same answer as ever; while the handle is being closed either may happen.*)
Outcomes ==
  (IF db = "open" THEN {"answered"} ELSE {})
    \cup (IF db = "null" \/ main = "closing" \/ \E x \in Closer : closer[x] = "closing"
            THEN {"unsaved"} ELSE {})

Serve(c) ==
  /\ Alive
  /\ conn[c] = "serving"
  /\ \E o \in Outcomes : conn' = [conn EXCEPT ![c] = o]
  /\ UNCHANGED <<main, running, sock, closer, db, closes, signal, late, broke>>

(* POST /api/shutdown answers and leaves the rest to a thread of its own.  *)
Shutdown(c, x) ==
  /\ Alive
  /\ conn[c] = "serving"
  /\ closer[x] = "none"
  /\ conn' = [conn EXCEPT ![c] = "answered"]
  /\ closer' = [closer EXCEPT ![x] = "sleep"]
  /\ UNCHANGED <<main, running, sock, db, closes, signal, late, broke>>

-----------------------------------------------------------------------------
(* That thread: Database::close, then HttpServer::stop.                    *)

CloserWakes(x) ==
  /\ Alive
  /\ closer[x] = "sleep"
  /\ closer' = [closer EXCEPT ![x] = IF db = "open" THEN "closing" ELSE "clear"]
  /\ UNCHANGED <<main, running, sock, conn, db, closes, signal, late, broke>>

(* sqlite3_close has run and db_ is cleared.                               *)
Closed_Freed == "freed"  \* mutant: db_ still points to the closed handle
Closed_Kept == "open"  \* mutant: nothing is noted
Closed == "null"

CloserClosed(x) ==
  /\ Alive
  /\ closer[x] = "closing"
  /\ closer' = [closer EXCEPT ![x] = "clear"]
  /\ db' = Closed /\ closes' = closes + 1
  /\ UNCHANGED <<main, running, sock, conn, signal, late, broke>>

CloserClears(x) ==
  /\ Alive
  /\ closer[x] = "clear"
  /\ closer' = [closer EXCEPT ![x] = "shut"]
  /\ running' = FALSE
  /\ UNCHANGED <<main, sock, conn, db, closes, signal, late, broke>>

Shut_Kept == sock  \* mutant: the socket is not closed
Shut == IF sock = "none" THEN sock ELSE "closed"

CloserShuts(x) ==
  /\ Alive
  /\ closer[x] = "shut"
  /\ closer' = [closer EXCEPT ![x] = "done"]
  /\ sock' = Shut
  /\ UNCHANGED <<main, running, conn, db, closes, signal, late, broke>>

CloserStep(x) ==
  CloserWakes(x) \/ CloserClosed(x) \/ CloserClears(x) \/ CloserShuts(x)

(* SIGINT or SIGTERM: stop, on top of main.                                *)
Signal ==
  /\ signal = "none"
  /\ main \notin {"out", "closing", "exited"}
  /\ running' = FALSE
  /\ sock' = Shut
  /\ main' = IF main = "accept" THEN "out" ELSE main
  /\ signal' = IF main \in {"ready", "bound"} THEN "early" ELSE "late"
  /\ UNCHANGED <<conn, closer, db, closes, late, broke>>

-----------------------------------------------------------------------------
Next ==
  \/ Main \/ AcceptFails \/ Signal
  \/ \E c \in Client : Arrive(c) \/ Serve(c)
  \/ \E c \in Client, x \in Closer : Shutdown(c, x)
  \/ \E x \in Closer : CloserStep(x)

Spec == Init /\ [][Next]_vars

(* Threads that can run do run; nobody has to connect, or to ask for a     *)
(* shutdown, and accept need not fail but when its socket is closed.       *)
FairSpec ==
  /\ Spec
  /\ WF_vars(Main)
  /\ \A x \in Closer : WF_vars(CloserStep(x))

-----------------------------------------------------------------------------
(* docs/API.md: POST /api/shutdown stops the server.  Whatever clients and *)
(* signals do meanwhile, and wherever in its loop main is when the socket  *)
(* goes away, the process ends.                                            *)
ShutdownEnds == \A x \in Closer : closer[x] # "none" ~> main = "exited"

(* docs/ARCHITECTURE.md: the signal handler makes for a clean shutdown.    *)
(* Once main is in its loop a signal ends the process.                     *)
SignalEnds == signal = "late" ~> main = "exited"

(* Once running_ is cleared, at most one more client is let in: the one    *)
(* main was already waiting for.                                           *)
AtMostOneLateClient == late <= 1

(* If one thing ends the process - one shutdown request, or a signal, or a *)
(* failure to listen or accept - the handle is closed once: the shutdown   *)
(* thread is done with db_ before it lets main out, and where main leaves  *)
(* its loop for another reason it is the only one to close.  Two things    *)
(* may well close it twice, for close tests and clears db_ without a lock. *)
Asked == {x \in Closer : closer[x] # "none"}
Alone ==
  \/ Asked = {}
  \/ Cardinality(Asked) = 1 /\ signal = "none" /\ ~broke
HandleClosedOnce == Alone => closes <= 1

(* docs/API.md: POST /api/shutdown flushes all data.  Unless a signal or a *)
(* failure of accept intervened, what a client was told is done is in the  *)
(* database (the handlers that still run when the handle is closed).       *)
AnswersAreSaved ==
  signal = "none" /\ ~broke => \A c \in Client : conn[c] # "unsaved"

-----------------------------------------------------------------------------
(* The inductive invariant behind AtMostOneLateClient and HandleClosedOnce *)
(* (proved in LifecycleProofs).                                            *)

(* The one late client is the last: main is past accept, and running_ is   *)
(* not set again.                                                          *)
LateIsLast ==
  \/ late = 0
  \/ late = 1 /\ ~running /\ main \in {"loop", "out", "closing", "exited"}

(* A shutdown thread calls stop only when it is done with db_.             *)
ClosedBeforeStop ==
  \A x \in Closer : closer[x] \in {"clear", "shut", "done"} => db = "null"

(* Unless a signal came or listening or accepting failed by itself, main   *)
(* leaves its loop only after a shutdown thread called stop, and has       *)
(* nothing left to close.                                                  *)
Stopped == \E x \in Closer : closer[x] \in {"shut", "done"}
StopHasCause ==
  signal = "none" /\ ~broke =>
    /\ ~running /\ main \notin {"ready", "bound"} => Stopped
    /\ sock # "open" /\ main # "ready" => Stopped
    /\ main \in {"out", "exited"} => Stopped
    /\ main # "closing"

AskedOnce ==
  \A x, y \in Closer : closer[x] # "none" /\ closer[y] # "none" => x = y

(* One shutdown thread that is left alone closes the handle, or nobody.    *)
ClosesCounted ==
  signal = "none" /\ ~broke /\ AskedOnce =>
    /\ closes = IF db = "open" THEN 0 ELSE 1
    /\ \A x \in Closer : closer[x] = "closing" => db = "open"

(* Where nobody asks for a shutdown, main does.                            *)
MainClosesAlone ==
  (\A x \in Closer : closer[x] = "none") =>
    IF main = "exited" THEN closes = 1 ELSE closes = 0 /\ db = "open"

IndInv ==
  /\ TypeOK
  /\ LateIsLast
  /\ ClosedBeforeStop
  /\ StopHasCause
  /\ ClosesCounted
  /\ MainClosesAlone

=============================================================================
