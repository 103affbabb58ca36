------------------------------ MODULE WebClient ------------------------------
(***************************************************************************)
(* The page's session: init, attempt_login and the two handlers of the     *)
(* user menu (src/web/js/app.js) over the calls of src/web/js/api.js.      *)
(* They run on one thread and interleave where they await an answer; each  *)
(* call is served by the server and its answer taken up in two steps, and  *)
(* the answer may be lost in between.  The server is reduced to the        *)
(* sessions that module Auth keeps: one that is gone is one whose sessions *)
(* end and whose calls break.                                              *)
(*                                                                         *)
(* isOnline asks the server only when init calls it; from then on it       *)
(* returns what it knows, and every call without a known server throws.    *)
(***************************************************************************)
EXTENDS Naturals

CONSTANTS
  Token,     \* bound: the session tokens the server may issue
  Attempt,   \* bound: calls of attempt_login at work at once (Enter key, button)
  SignOff,   \* bound: clicks on "Sign off" at work at once
  None

Task == {"init", "halt"} \cup Attempt \cup SignOff

ASSUME WebClientAssumption ==
  /\ None \notin Token
  /\ Token \cap {"awaited", "ok", "no", "error"} = {}
  /\ {"init", "halt"} \cap (Attempt \cup SignOff) = {} /\ Attempt \cap SignOff = {}

VARIABLES
  screen,  \* "login" or "app"
  sess,    \* _session_token, and its copy in sessionStorage
  tok,     \* API._token
  online,  \* useServer
  wired,   \* init has given the user menu its handlers
  task,    \* where each handler is, what it sent and what came back
  live,    \* the server's sessions
  issued,  \* tokens the server has handed out
  crossed  \* history: a handler began while another was at work, on this page

page == <<screen, sess, tok, online, wired, crossed>>
server == <<live, issued>>
vars == <<page, task, server>>

Where == {"idle", "probe", "version", "me", "login", "wait", "off", "halt"}
Handler == [at : Where, sent : Token \cup {None},
            got : {"awaited", "ok", "no", "error"} \cup Token]

TypeOK ==
  /\ screen \in {"login", "app"}
  /\ sess \in Token \cup {None} /\ tok \in Token \cup {None}
  /\ online \in BOOLEAN /\ wired \in BOOLEAN /\ crossed \in BOOLEAN
  /\ task \in [Task -> Handler]
  /\ live \subseteq issued /\ issued \subseteq Token

Idle == [at |-> "idle", sent |-> None, got |-> "ok"]

(* The first call of req, or of probe, that a handler awaits next.         *)
Call(at, sent) ==
  [at |-> at, sent |-> sent,
   got |-> IF online \/ at = "probe" THEN "awaited"
           ELSE IF at = "off" THEN "ok" ELSE "error"]

Loading == [c \in Task |-> IF c = "init" THEN Call("probe", None) ELSE Idle]

Init ==
  /\ screen = "login" /\ sess = None /\ tok = None
  /\ online = FALSE /\ wired = FALSE /\ crossed = FALSE
  /\ task = Loading
  /\ live = {} /\ issued = {}

Busy == \E c \in Task : task[c].at # "idle"
Answered(c, at) == task[c].at = at /\ task[c].got # "awaited"
Begin(c, record) ==
  /\ task[c] = Idle
  /\ task' = [task EXCEPT ![c] = record]
  /\ crossed' = (crossed \/ Busy)
Goto(c, record) == task' = [task EXCEPT ![c] = record] /\ UNCHANGED crossed
End(c) == Goto(c, Idle)

-----------------------------------------------------------------------------
(* The server, and the network.                                            *)

Reply(c, got) == task' = [task EXCEPT ![c].got = got]

Serve(c) ==
  /\ task[c].got = "awaited"
  /\ \/ /\ task[c].at \in {"probe", "version", "halt"}
        /\ Reply(c, "ok") /\ UNCHANGED <<live, issued>>
     \/ /\ task[c].at = "me"
        /\ Reply(c, IF task[c].sent \in live THEN "ok" ELSE "no")
        /\ UNCHANGED <<live, issued>>
     \/ /\ task[c].at = "login"
        /\ \/ \E k \in Token \ issued :
                /\ Reply(c, k)
                /\ live' = live \cup {k} /\ issued' = issued \cup {k}
           \/ Reply(c, "no") /\ UNCHANGED <<live, issued>>
     \/ /\ task[c].at = "off"
        /\ Reply(c, "ok")
        /\ live' = live \ {task[c].sent} /\ UNCHANGED issued
  /\ UNCHANGED page

(* fetch throws: no server, or a broken connection, and then the server    *)
(* may have opened a session nobody knows of, which makes no difference    *)
(* here.  API.version and the sign-off swallow the error.                  *)
Break(c) ==
  /\ task[c].got = "awaited"
  /\ Reply(c, IF task[c].at \in {"version", "off"} THEN "ok" ELSE "error")
  /\ UNCHANGED <<page, server>>

(* A session expires, or is ended by others or by the server's next start. *)
Expire ==
  /\ \E k \in live : live' = live \ {k}
  /\ UNCHANGED <<page, task, issued>>

-----------------------------------------------------------------------------
(* init: probe, version, the menu's handlers, and a session kept from the  *)
(* page before.                                                            *)

InitProbed ==
  /\ Answered("init", "probe")
  /\ online' = (task["init"].got = "ok")
  /\ task' = [task EXCEPT !["init"] =
       [at |-> "version", sent |-> None,
        got |-> "ok"]]
  /\ UNCHANGED <<screen, sess, tok, wired, crossed, server>>

Restored_Unsent == tok  \* mutant: the call of API.setToken is missing
Restored == sess

InitVersion ==
  /\ Answered("init", "version")
  /\ wired' = TRUE
  /\ IF online /\ sess # None
       THEN /\ tok' = Restored
            /\ Goto("init", Call("me", sess))
            /\ UNCHANGED screen
       ELSE /\ screen' = "login"
            /\ End("init")
            /\ UNCHANGED tok
  /\ UNCHANGED <<sess, online, server>>

(* An error's JSON has no id.                                              *)
InitMe ==
  /\ Answered("init", "me")
  /\ IF task["init"].got = "ok"
       THEN screen' = "app" /\ UNCHANGED sess
       ELSE screen' = "login" /\ sess' = None
  /\ End("init")
  /\ UNCHANGED <<tok, online, wired, server>>

-----------------------------------------------------------------------------
(* attempt_login.  The button is disabled meanwhile, the Enter key is not. *)

AttemptLogin(a) ==
  /\ screen = "login"
  /\ IF online
       THEN Begin(a, Call("login", None))
       ELSE UNCHANGED <<task, crossed>>  \* "Cannot connect to server."
  /\ UNCHANGED <<screen, sess, tok, online, wired, server>>

Accepted_AnyJson(got) == got # "error"  \* mutant: result.token is not looked at
Accepted(got) == got \in Token

AttemptAnswered(a) ==
  /\ Answered(a, "login")
  /\ LET k == task[a].got IN
     IF Accepted(k)
       THEN sess' = k /\ tok' = k /\ Goto(a, Call("me", k))
       ELSE End(a) /\ UNCHANGED <<sess, tok>>
  /\ UNCHANGED <<screen, online, wired, server>>

(* On an error's JSON update_user_ui throws before show_app.               *)
AttemptMe(a) ==
  /\ Answered(a, "me")
  /\ IF task[a].got = "ok"
       THEN screen' = "app" /\ Goto(a, [Idle EXCEPT !.at = "wait"])
       ELSE End(a) /\ UNCHANGED screen
  /\ UNCHANGED <<sess, tok, online, wired, server>>

(* await _init_promise.                                                    *)
Settled_SignedIn ==  \* mutant: settled only on a page that is signed in
  task["init"].at = "idle" /\ sess # None
Settled == task["init"].at = "idle"

AttemptWaited(a) ==
  /\ task[a].at = "wait"
  /\ Settled
  /\ End(a)
  /\ UNCHANGED <<screen, sess, tok, online, wired, server>>

-----------------------------------------------------------------------------
(* The user menu; it is there on the login screen, too.                    *)

Logout(o) ==
  /\ wired
  /\ IF sess # None
       THEN Begin(o, Call("off", sess)) /\ UNCHANGED screen
       ELSE task[o] = Idle /\ screen' = "login" /\ UNCHANGED <<task, crossed>>
  /\ UNCHANGED <<sess, tok, online, wired, server>>

LogoutScreen_Kept == screen  \* mutant: the app stays on the screen
LogoutScreen == "login"

(* Whether or not the server heard of it.                                  *)
LogoutAnswered(o) ==
  /\ Answered(o, "off")
  /\ sess' = None /\ tok' = None /\ screen' = LogoutScreen
  /\ End(o)
  /\ UNCHANGED <<online, wired, server>>

Shutdown ==
  /\ wired
  /\ Begin("halt", Call("halt", None))
  /\ UNCHANGED <<screen, sess, tok, online, wired, server>>

ShutdownAnswered ==
  /\ Answered("halt", "halt")
  /\ IF task["halt"].got = "ok"
       THEN sess' = None /\ screen' = "login"
       ELSE UNCHANGED <<sess, screen>>
  /\ End("halt")
  /\ UNCHANGED <<tok, online, wired, server>>

(* The page is loaded again, or the tab comes back: sessionStorage stays.  *)
Reload ==
  /\ screen' = "login" /\ tok' = None
  /\ online' = FALSE /\ wired' = FALSE /\ crossed' = FALSE
  /\ task' = Loading
  /\ UNCHANGED <<sess, server>>

-----------------------------------------------------------------------------
Continue(c) ==
  \/ c = "init" /\ (InitProbed \/ InitVersion \/ InitMe)
  \/ c = "halt" /\ ShutdownAnswered
  \/ c \in Attempt /\ (AttemptAnswered(c) \/ AttemptMe(c) \/ AttemptWaited(c))
  \/ c \in SignOff /\ LogoutAnswered(c)

Next ==
  \/ \E c \in Task : Serve(c) \/ Break(c) \/ Continue(c)
  \/ \E a \in Attempt : AttemptLogin(a)
  \/ \E o \in SignOff : Logout(o)
  \/ Shutdown \/ Reload
  \/ Expire

(* A call is served or breaks off in the end, and its handler goes on with *)
(* the answer; what users do and when sessions end is free.                *)
Fairness ==
  \A c \in Task : WF_vars(Serve(c) \/ Break(c) \/ Continue(c))

Spec == Init /\ [][Next]_vars /\ Fairness

-----------------------------------------------------------------------------
(* The token the page calls its session is the one its calls carry, from   *)
(* the moment init has looked for a kept session on; with any handlers     *)
(* crossing, whatever answer comes last (_session_token, API._token).      *)
SessionIsSent ==
  sess # None =>
    \/ tok = sess
    \/ tok = None /\ (~online \/ task["init"].at \in {"probe", "version"})

(* As long as its handlers do not cross, the page shows the application    *)
(* only while it holds a session and sends its token: sign-off, shutdown   *)
(* and a failed restore all lead back to the login screen, in every order  *)
(* the user may choose, whatever is lost on the way.                       *)
AppIsSignedIn == screen = "app" /\ ~crossed => sess # None /\ tok = sess

(* Nothing the user started hangs: an attempt that waits for init, which   *)
(* may itself wait for the server, and a sign-off come to an end.          *)
HandlersEnd ==
  \A c \in Attempt \cup SignOff : task[c].at # "idle" ~> task[c].at = "idle"

-----------------------------------------------------------------------------
(* The inductive invariant behind AppIsSignedIn (proved in                 *)
(* WebClientProofs).                                                       *)

(* Handlers that do not cross are at work one at a time ...                *)
OneAtWork ==
  ~crossed => \A c, d \in Task :
    task[c].at # "idle" /\ task[d].at # "idle" => c = d

(* ... so the answer to me that one of them awaits is about the session    *)
(* the page still holds when it comes.                                     *)
MeIsCurrent ==
  ~crossed => \A c \in Task :
    task[c].at = "me" => sess # None /\ tok = sess

IndInv == TypeOK /\ OneAtWork /\ MeIsCurrent /\ AppIsSignedIn

=============================================================================
