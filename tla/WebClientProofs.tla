--------------------------- MODULE WebClientProofs ---------------------------
(***************************************************************************)
(* Proofs about WebClient, for any number of attempts to log in, of clicks *)
(* on "Sign off" and of sessions.                                          *)
(***************************************************************************)
EXTENDS WebClient, TLAPS

LEMMA LoadingType == online \in BOOLEAN => Loading \in [Task -> Handler]
BY DEF Loading, Idle, Call, Handler, Where

LEMMA InitType == Init => TypeOK
<1> SUFFICES ASSUME Init PROVE TypeOK
  OBVIOUS
<1>1. task \in [Task -> Handler]
  BY LoadingType DEF Init
<1>2. QED
  BY <1>1 DEF Init, TypeOK

(* The calls and the server's answers.                                     *)
LEMMA CallType ==
  ASSUME NEW at \in Where, NEW sent \in Token \cup {None}, TypeOK
  PROVE  Call(at, sent) \in Handler /\ Idle \in Handler
BY DEF Call, Idle, Handler, Where, TypeOK

LEMMA ServerType ==
  ASSUME TypeOK, NEW c \in Task, Serve(c) \/ Break(c) \/ Expire
  PROVE  TypeOK'
<1> USE DEF TypeOK, page
<1>1. CASE Expire
  BY <1>1 DEF Expire
<1>2. CASE Break(c)
  BY <1>2 DEF Break, Reply, Handler, server
<1>3. CASE Serve(c)
  <2>1. ASSUME NEW g \in {"ok", "no"} \cup Token, Reply(c, g)
        PROVE  task' \in [Task -> Handler]
    BY <2>1 DEF Reply, Handler
  <2>2. task' \in [Task -> Handler]
    BY <1>3, <2>1 DEF Serve
  <2>3. live' \subseteq issued' /\ issued' \subseteq Token
    BY <1>3 DEF Serve
  <2>4. QED
    BY <1>3, <2>2, <2>3 DEF Serve
<1>4. QED
  BY <1>1, <1>2, <1>3

LEMMA InitStepType ==
  ASSUME TypeOK, InitProbed \/ InitVersion \/ InitMe
  PROVE  TypeOK'
<1> USE DEF TypeOK, server
<1> "init" \in Task
  BY DEF Task
<1>1. CASE InitProbed
  BY <1>1 DEF InitProbed, Handler, Where
<1>2. CASE InitVersion
  BY <1>2, CallType DEF InitVersion, Goto, End, Restored, Where
<1>3. CASE InitMe
  BY <1>3, CallType DEF InitMe, Goto, End, Where
<1>4. QED
  BY <1>1, <1>2, <1>3

LEMMA AttemptType ==
  ASSUME TypeOK, NEW a \in Attempt,
         AttemptLogin(a) \/ AttemptAnswered(a) \/ AttemptMe(a) \/ AttemptWaited(a)
  PROVE  TypeOK'
<1> USE DEF TypeOK, server
<1> a \in Task
  BY DEF Task
<1>1. CASE AttemptLogin(a)
  BY <1>1, CallType DEF AttemptLogin, Begin, Busy, Where
<1>2. CASE AttemptAnswered(a)
  BY <1>2, CallType DEF AttemptAnswered, Accepted, Goto, End, Where
<1>3. CASE AttemptMe(a)
  BY <1>3 DEF AttemptMe, Goto, End, Idle, Handler, Where
<1>4. CASE AttemptWaited(a)
  BY <1>4 DEF AttemptWaited, Goto, End, Idle, Handler, Where
<1>5. QED
  BY <1>1, <1>2, <1>3, <1>4

LEMMA MenuType ==
  ASSUME TypeOK,
         \/ \E o \in SignOff : Logout(o) \/ LogoutAnswered(o)
         \/ Shutdown \/ ShutdownAnswered \/ Reload
  PROVE  TypeOK'
<1> USE DEF TypeOK, server
<1>1. ASSUME NEW o \in SignOff, Logout(o) PROVE TypeOK'
  BY <1>1, CallType DEF Logout, Begin, Busy, Where, Task
<1>2. ASSUME NEW o \in SignOff, LogoutAnswered(o) PROVE TypeOK'
  BY <1>2 DEF LogoutAnswered, LogoutScreen, Goto, End, Idle, Handler, Where, Task
<1>3. CASE Shutdown
  BY <1>3, CallType DEF Shutdown, Begin, Busy, Where, Task
<1>4. CASE ShutdownAnswered
  BY <1>4 DEF ShutdownAnswered, Goto, End, Idle, Handler, Where, Task
<1>5. CASE Reload
  BY <1>5 DEF Reload, Loading, Call, Idle, Handler, Where, Task
<1>6. QED
  BY <1>1, <1>2, <1>3, <1>4, <1>5

LEMMA TypeStep == TypeOK /\ [Next]_vars => TypeOK'
<1> SUFFICES ASSUME TypeOK, [Next]_vars PROVE TypeOK'
  OBVIOUS
<1>1. CASE UNCHANGED vars
  BY <1>1 DEF vars, page, server, TypeOK
<1>2. CASE Next
  <2>1. ASSUME NEW c \in Task, Continue(c) PROVE TypeOK'
    BY <2>1, InitStepType, AttemptType, MenuType DEF Continue
  <2>2. CASE Expire
    BY <2>2, ServerType DEF Task
  <2>3. QED
    BY <1>2, <2>1, <2>2, ServerType, AttemptType, MenuType DEF Next
<1>3. QED
  BY <1>1, <1>2

(* Type correctness of the page and of the server's sessions.              *)
THEOREM TypeCorrect == Spec => []TypeOK
BY InitType, TypeStep, PTL DEF Spec

-----------------------------------------------------------------------------
(* SessionIsSent is inductive with the types.                              *)
LEMMA SentStep == TypeOK /\ SessionIsSent /\ [Next]_vars => SessionIsSent'
<1> SUFFICES ASSUME TypeOK, SessionIsSent, [Next]_vars PROVE SessionIsSent'
  OBVIOUS
<1> USE DEF SessionIsSent, TypeOK, page, server
<1> "init" \in Task /\ "halt" \in Task
  BY DEF Task
<1> Attempt \subseteq Task /\ SignOff \subseteq Task
  BY DEF Task
<1> "init" \notin Attempt /\ "init" \notin SignOff /\ "init" # "halt"
  BY WebClientAssumption
<1>1. CASE UNCHANGED vars
  BY <1>1 DEF vars
<1>2. ASSUME NEW c \in Task, Serve(c) \/ Break(c) PROVE SessionIsSent'
  BY <1>2 DEF Serve, Break, Reply, Handler
<1>3. CASE InitProbed
  BY <1>3 DEF InitProbed
<1>4. CASE InitVersion
  BY <1>4 DEF InitVersion, Goto, End, Restored, Answered, Idle
<1>5. CASE InitMe
  BY <1>5 DEF InitMe, Goto, End, Answered
<1>6. ASSUME NEW a \in Attempt,
             AttemptLogin(a) \/ AttemptMe(a) \/ AttemptWaited(a)
      PROVE  SessionIsSent'
  BY <1>6 DEF AttemptLogin, AttemptMe, AttemptWaited, Begin, Goto, End
<1>7. ASSUME NEW a \in Attempt, AttemptAnswered(a) PROVE SessionIsSent'
  BY <1>7 DEF AttemptAnswered, Goto, End
<1>8. ASSUME NEW o \in SignOff, Logout(o) \/ LogoutAnswered(o)
      PROVE  SessionIsSent'
  BY <1>8 DEF Logout, LogoutAnswered, Begin, Goto, End
<1>9. CASE Shutdown \/ ShutdownAnswered
  BY <1>9 DEF Shutdown, ShutdownAnswered, Begin, Goto, End
<1>10. CASE Reload
  BY <1>10 DEF Reload
<1>11. CASE Expire
  BY <1>11 DEF Expire
<1>12. QED
  BY <1>1, <1>2, <1>3, <1>4, <1>5, <1>6, <1>7, <1>8, <1>9, <1>10, <1>11
     DEF Next, Continue

(* The token the page calls its session is the one its calls carry.        *)
THEOREM SentTheorem == Spec => []SessionIsSent
<1>1. Init => SessionIsSent
  BY DEF Init, SessionIsSent
<1>2. QED
  BY <1>1, InitType, TypeStep, SentStep, PTL DEF Spec

-----------------------------------------------------------------------------
(* The server's side of a call changes neither what the page shows nor     *)
(* where its handlers are.                                                 *)
LEMMA ServerKeeps ==
  ASSUME IndInv, TypeOK', NEW e \in Task, Serve(e) \/ Break(e) \/ Expire
  PROVE  IndInv'
<1>1. UNCHANGED <<screen, sess, tok, crossed>>
  BY DEF Serve, Break, Expire, page
<1>2. \A c \in Task : task'[c].at = task[c].at
  BY DEF IndInv, TypeOK, Handler, Serve, Break, Expire, Reply
<1>3. QED
  BY <1>1, <1>2 DEF IndInv, OneAtWork, MeIsCurrent, AppIsSignedIn

(* A handler that begins while another is at work crosses it.              *)
LEMMA BeginKeeps ==
  ASSUME IndInv, TypeOK', NEW e \in Task, NEW record, Begin(e, record),
         record.at # "me", UNCHANGED <<screen, sess, tok>>
  PROVE  IndInv'
<1>1. \A c \in Task : task'[c] = IF c = e THEN record ELSE task[c]
  BY DEF Begin, IndInv, TypeOK
<1>2. ~crossed' => ~crossed /\ \A c \in Task : task[c].at = "idle"
  BY DEF Begin, Busy
<1>3. QED
  BY <1>1, <1>2 DEF IndInv, OneAtWork, MeIsCurrent, AppIsSignedIn

(* The only handler at work goes on, or ends, and says what then holds.    *)
LEMMA GoKeeps ==
  ASSUME IndInv, TypeOK', NEW e \in Task, task[e].at # "idle",
         NEW record, Goto(e, record),
         ~crossed /\ screen' = "app" => sess' # None /\ tok' = sess',
         ~crossed /\ record.at = "me" => sess' # None /\ tok' = sess'
  PROVE  IndInv'
<1>1. \A c \in Task : task'[c] = IF c = e THEN record ELSE task[c]
  BY DEF Goto, IndInv, TypeOK
<1>2. crossed' = crossed
  BY DEF Goto
<1>3. OneAtWork'
  BY <1>1, <1>2 DEF IndInv, OneAtWork
<1>4. ~crossed => \A c \in Task : task[c].at # "idle" => c = e
  BY DEF IndInv, OneAtWork
<1>5. MeIsCurrent'
  BY <1>1, <1>2, <1>4 DEF MeIsCurrent
<1>6. AppIsSignedIn'
  BY <1>2 DEF AppIsSignedIn
<1>7. QED
  BY <1>3, <1>5, <1>6 DEF IndInv

LEMMA InitKeeps ==
  ASSUME IndInv, TypeOK', InitProbed \/ InitVersion \/ InitMe
  PROVE  IndInv'
<1> "init" \in Task
  BY DEF Task
<1>1. CASE InitProbed
  <2> DEFINE r == [at |-> "version", sent |-> None, got |-> "ok"]
  <2>1. Goto("init", r) /\ task["init"].at # "idle"
    BY <1>1 DEF InitProbed, Goto, Answered
  <2>2. UNCHANGED <<screen, sess, tok>> /\ r.at # "me"
    BY <1>1 DEF InitProbed
  <2>3. ~crossed /\ screen' = "app" => sess' # None /\ tok' = sess'
    BY <2>2 DEF IndInv, AppIsSignedIn
  <2>4. QED
    BY <2>1, <2>2, <2>3, GoKeeps
<1>2. CASE InitVersion
  <2>1. task["init"].at # "idle"
    BY <1>2 DEF InitVersion, Answered
  <2>2. CASE online /\ sess # None
    BY <1>2, <2>1, <2>2, GoKeeps DEF InitVersion, Restored
  <2>3. CASE ~(online /\ sess # None)
    <3>1. Goto("init", Idle) /\ screen' = "login" /\ Idle.at # "me"
      BY <1>2, <2>3 DEF InitVersion, End, Idle
    <3>2. QED
      BY <2>1, <3>1, GoKeeps
  <2>4. QED
    BY <2>2, <2>3
<1>3. CASE InitMe
  <2>1. task["init"].at = "me" /\ Goto("init", Idle) /\ Idle.at # "me"
    BY <1>3 DEF InitMe, Answered, End, Idle
  <2>2. ~crossed => sess # None /\ tok = sess
    BY <2>1 DEF IndInv, MeIsCurrent
  <2>3. ~crossed /\ screen' = "app" => sess' # None /\ tok' = sess'
    BY <1>3, <2>2 DEF InitMe
  <2>4. QED
    BY <2>1, <2>3, GoKeeps
<1>4. QED
  BY <1>1, <1>2, <1>3

LEMMA AttemptKeeps ==
  ASSUME IndInv, TypeOK', NEW a \in Attempt,
         AttemptLogin(a) \/ AttemptAnswered(a) \/ AttemptMe(a) \/ AttemptWaited(a)
  PROVE  IndInv'
<1> a \in Task
  BY DEF Task
<1> Idle.at # "me"
  BY DEF Idle
<1> ~crossed /\ screen = "app" => sess # None /\ tok = sess
  BY DEF IndInv, AppIsSignedIn
<1>1. CASE AttemptLogin(a)
  <2>1. Call("login", None).at # "me"
    BY DEF Call
  <2>2. CASE online
    BY <1>1, <2>1, <2>2, BeginKeeps DEF AttemptLogin
  <2>3. CASE ~online
    BY <1>1, <2>3 DEF AttemptLogin, IndInv, OneAtWork, MeIsCurrent, AppIsSignedIn
  <2>4. QED
    BY <2>2, <2>3
<1>2. CASE AttemptAnswered(a)
  <2>1. task[a].at # "idle"
    BY <1>2 DEF AttemptAnswered, Answered
  <2>2. CASE Accepted(task[a].got)
    <3>1. sess' \in Token /\ tok' = sess' /\ Goto(a, Call("me", task[a].got))
      BY <1>2, <2>2 DEF AttemptAnswered, Accepted
    <3>2. sess' # None
      BY <3>1, WebClientAssumption
    <3>3. QED
      BY <2>1, <3>1, <3>2, GoKeeps
  <2>3. CASE ~Accepted(task[a].got)
    <3>1. Goto(a, Idle) /\ UNCHANGED <<screen, sess, tok>>
      BY <1>2, <2>3 DEF AttemptAnswered, End
    <3>2. QED
      BY <2>1, <3>1, GoKeeps
  <2>4. QED
    BY <2>2, <2>3
<1>3. CASE AttemptMe(a)
  <2>1. task[a].at = "me" /\ UNCHANGED <<sess, tok>>
    BY <1>3 DEF AttemptMe, Answered
  <2>2. ~crossed => sess # None /\ tok = sess
    BY <2>1 DEF IndInv, MeIsCurrent
  <2>3. PICK r : Goto(a, r) /\ r.at # "me"
    <3>1. [Idle EXCEPT !.at = "wait"].at # "me"
      BY DEF Idle
    <3>2. QED
      BY <1>3, <3>1 DEF AttemptMe, End
  <2>4. QED
    BY <2>1, <2>2, <2>3, GoKeeps
<1>4. CASE AttemptWaited(a)
  <2>1. task[a].at # "idle" /\ Goto(a, Idle) /\ UNCHANGED <<screen, sess, tok>>
    BY <1>4 DEF AttemptWaited, End
  <2>2. QED
    BY <2>1, GoKeeps
<1>5. QED
  BY <1>1, <1>2, <1>3, <1>4

LEMMA MenuKeeps ==
  ASSUME IndInv, TypeOK',
         \/ \E o \in SignOff : Logout(o) \/ LogoutAnswered(o)
         \/ Shutdown \/ ShutdownAnswered \/ Reload
  PROVE  IndInv'
<1> SignOff \subseteq Task /\ "halt" \in Task /\ Idle.at # "me"
  BY DEF Task, Idle
<1> ~crossed /\ screen = "app" => sess # None /\ tok = sess
  BY DEF IndInv, AppIsSignedIn
<1>1. ASSUME NEW o \in SignOff, Logout(o) PROVE IndInv'
  <2>1. Call("off", sess).at # "me"
    BY DEF Call
  <2>2. CASE sess # None
    BY <1>1, <2>1, <2>2, BeginKeeps DEF Logout
  <2>3. CASE sess = None
    BY <1>1, <2>3 DEF Logout, IndInv, OneAtWork, MeIsCurrent, AppIsSignedIn
  <2>4. QED
    BY <2>2, <2>3
<1>2. ASSUME NEW o \in SignOff, LogoutAnswered(o) PROVE IndInv'
  <2>1. task[o].at # "idle" /\ Goto(o, Idle) /\ screen' = "login"
    BY <1>2 DEF LogoutAnswered, Answered, End, LogoutScreen
  <2>2. QED
    BY <2>1, GoKeeps
<1>3. CASE Shutdown
  <2>1. Call("halt", None).at # "me"
    BY DEF Call
  <2>2. QED
    BY <1>3, <2>1, BeginKeeps DEF Shutdown
<1>4. CASE ShutdownAnswered
  <2>1. task["halt"].at # "idle" /\ Goto("halt", Idle) /\ UNCHANGED tok
    BY <1>4 DEF ShutdownAnswered, Answered, End
  <2>2. screen' = "login" \/ UNCHANGED <<screen, sess>>
    BY <1>4 DEF ShutdownAnswered
  <2>3. QED
    BY <2>1, <2>2, GoKeeps
<1>5. CASE Reload
  <2>1. \A c \in Task : task'[c].at = IF c = "init" THEN "probe" ELSE "idle"
    BY <1>5 DEF Reload, Loading, Call, Idle
  <2>2. screen' = "login"
    BY <1>5 DEF Reload
  <2>3. QED
    BY <2>1, <2>2 DEF IndInv, OneAtWork, MeIsCurrent, AppIsSignedIn
<1>6. QED
  BY <1>1, <1>2, <1>3, <1>4, <1>5

LEMMA IndInvStep == IndInv /\ [Next]_vars => IndInv'
<1> SUFFICES ASSUME IndInv, [Next]_vars PROVE IndInv'
  OBVIOUS
<1>1. TypeOK'
  BY TypeStep DEF IndInv
<1>2. CASE UNCHANGED vars
  BY <1>1, <1>2 DEF vars, page, IndInv, OneAtWork, MeIsCurrent, AppIsSignedIn
<1>3. CASE Next
  <2>1. ASSUME NEW c \in Task, Continue(c) PROVE IndInv'
    BY <1>1, <2>1, InitKeeps, AttemptKeeps, MenuKeeps DEF Continue
  <2>2. CASE Expire
    BY <1>1, <2>2, ServerKeeps DEF Task
  <2>3. QED
    BY <1>1, <1>3, <2>1, <2>2, ServerKeeps, AttemptKeeps, MenuKeeps DEF Next
<1>4. QED
  BY <1>2, <1>3

(* The application is shown only on a page that holds, and sends, a        *)
(* session, while its handlers do not cross.                               *)
THEOREM SignedInTheorem == Spec => []AppIsSignedIn
<1>1. Init => IndInv
  <2>1. Init => TypeOK /\ AppIsSignedIn
    BY InitType DEF Init, AppIsSignedIn
  <2>2. Init => \A c \in Task : task[c].at = IF c = "init" THEN "probe" ELSE "idle"
    BY DEF Init, Loading, Call, Idle
  <2>3. QED
    BY <2>1, <2>2 DEF IndInv, OneAtWork, MeIsCurrent
<1>2. IndInv => AppIsSignedIn
  BY DEF IndInv
<1>3. QED
  BY <1>1, <1>2, IndInvStep, PTL DEF Spec

=============================================================================
