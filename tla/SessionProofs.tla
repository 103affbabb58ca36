---------------------------- MODULE SessionProofs ----------------------------
(***************************************************************************)
(* Two results about Auth that rest on the inductive invariant of          *)
(* AuthProofs: what the handlers see as sessions implements the promise of *)
(* SessionGrants step by step, and an active administrator remains while   *)
(* handlers run one at a time.                                             *)
(***************************************************************************)
EXTENDS AuthProofs

(* Who holds the mutex: no deactivation is between its statements while    *)
(* the mutex is free or another thread's.                                  *)
LEMMA NobodyKills ==
  ASSUME IndInv, NEW s \in Thread, mu # s
  PROVE  req[s].op # "kill" /\ req[s].op # "login"
BY DEF IndInv, LockDiscipline

(* A finishing handler rewrites its own request only, and it is about to   *)
(* run its second DELETE only if it has just barred its target.            *)
LEMMA CompleteRequests ==
  ASSUME IndInv, NEW t \in Thread, Complete(t)
  PROVE  /\ \A s \in Thread : s # t => req'[s] = req[s] /\ req[s].op # "kill"
         /\ req'[t].op # "deactivate"
         /\ req'[t].op = "kill" => DeactivateMark(t) /\ req'[t].target = req[t].target
         /\ proc' = proc
<1>0. req \in [Thread -> Request]
  BY DEF IndInv, TypeOK
<1>1. mu = t \/ mu = Free
  BY DEF Complete, CreateUser, DeactivateMark, DeactivateKill, ChangePassword,
         SetPassword, GenerateApiKey, LoginWrong, LoginRight, IndInv, LockDiscipline
<1>2. \A s \in Thread : s # t => req[s].op # "kill"
  BY <1>1, NobodyKills, NullAssumption
<1>3. CASE DeactivateMark(t)
  <2>1. req' = [req EXCEPT ![t] = [req[t] EXCEPT !.op = "kill"]]
    BY <1>3 DEF DeactivateMark
  <2>2. req[t] \in Request
    BY <1>0
  <2>3. /\ [req[t] EXCEPT !.op = "kill"].op = "kill"
        /\ [req[t] EXCEPT !.op = "kill"].target = req[t].target
    BY <2>2 DEF Request
  <2>4. QED
    BY <1>0, <1>2, <1>3, <2>1, <2>3 DEF DeactivateMark
<1>4. CASE ~DeactivateMark(t)
  <2>1. req' = [req EXCEPT ![t] = Idle] /\ proc' = proc
    BY <1>4 DEF Complete, CreateUser, DeactivateKill, ChangePassword,
                SetPassword, GenerateApiKey, LoginWrong, LoginRight, Finish
  <2>2. QED
    BY <1>0, <1>2, <2>1 DEF Idle
<1>5. QED
  BY <1>3, <1>4

LEMMA KillersStep ==
  IndInv /\ KillersBarred /\ [Next]_vars => KillersBarred'
<1> SUFFICES ASSUME IndInv, KillersBarred, [Next]_vars PROVE KillersBarred'
  OBVIOUS
<1>0. TypeOK
  BY DEF IndInv
<1>1. CASE ResetSessions \/ ResetUsers \/ ResetAdmin
  BY <1>1 DEF ResetSessions, ResetUsers, ResetAdmin, IndInv,
              NoRequestsWhenStopped, Idle, KillersBarred
<1>2. CASE Crash
  BY <1>2 DEF Crash, Idle, KillersBarred
<1>3. CASE Tick \/ Purge \/ (\E k \in Token : Logout(k)) \/ UNCHANGED vars
  BY <1>3 DEF Tick, Purge, Logout, vars, KillersBarred, Active, Exists
<1>4. ASSUME NEW t \in Thread, Handler(t), ~Complete(t) PROVE KillersBarred'
  <2>1. PICK op \in Op \ {"kill"}, u \in UserId, v \in 0 .. MaxUserId :
          /\ req' = [req EXCEPT ![t] = [op |-> op, me |-> u, target |-> v]]
          /\ users' = users
    BY <1>4, BoundsAssumption DEF Handler, Authorise, LoginBegin, Op, UserId
  <2>2. \A s \in Thread : s # t => req'[s] = req[s]
    BY <1>0, <2>1 DEF TypeOK
  <2>3. req'[t].op # "kill"
    BY <1>0, <2>1 DEF TypeOK
  <2>4. QED
    BY <2>1, <2>2, <2>3 DEF KillersBarred, Active, Exists
<1>5. ASSUME NEW t \in Thread, Complete(t) PROVE KillersBarred'
  <2>1. SUFFICES ASSUME DeactivateMark(t)
                 PROVE  ~Active(req[t].target)'
    BY <1>5, CompleteRequests DEF KillersBarred, Active, Exists
  <2> DEFINE v == req[t].target
  <2>2. req'[t].target = v
    BY <1>0, <2>1 DEF DeactivateMark, TypeOK, Request
  <2>3. CASE Exists(v)
    <3>1. users' = [users EXCEPT ![v] = [users[v] EXCEPT !.active = FALSE]]
      BY <2>1, <2>3 DEF DeactivateMark
    <3>2. v \in UserId /\ users[v] \in Row
      BY <1>0, <2>3 DEF Exists, TypeOK
    <3>3. users'[v] = [users[v] EXCEPT !.active = FALSE]
      BY <1>0, <3>1, <3>2 DEF TypeOK
    <3>4. ~users'[v].active
      BY <3>2, <3>3 DEF Row
    <3>5. QED
      BY <2>2, <3>4 DEF Active
  <2>4. CASE ~Exists(v)
    BY <2>1, <2>2, <2>4 DEF DeactivateMark, Active, Exists
  <2>5. QED
    BY <2>3, <2>4
<1>6. QED
  BY <1>1, <1>2, <1>3, <1>4, <1>5 DEF Next

LEMMA KillersInvariance == Spec => []KillersBarred
<1>1. Init => KillersBarred
  BY DEF Init, Idle, KillersBarred
<1>2. QED
  BY <1>1, KillersStep, Invariance, PTL DEF Spec

-----------------------------------------------------------------------------
(* A token opens a session when its row has not expired and its account is *)
(* active.                                                                 *)
Open(k) ==
  /\ sessions[k] # NoSession /\ sessions[k].expires > now
  /\ Active(sessions[k].user)

LEMMA GrantedMeansOpen == TypeOK => \A k \in Token : Granted(k) <=> Open(k)
BY DEF TypeOK, Session, Granted, SessionUser, Open

LEMMA GrantedMeansOpenNext ==
  TypeOK' => \A k \in Token : Granted(k)' <=> Open(k)'
BY DEF TypeOK, Session, Granted, SessionUser, Open, Active, Exists

(* An open row is a row, so it is not the null one.                        *)
LEMMA GrantTypes ==
  TypeOK => \A k \in Token :
    /\ Grants[k] = IF Open(k) THEN sessions[k] ELSE NoSession
    /\ Grants[k] # NoSession <=> Open(k)
    /\ Open(k) => sessions[k] \in Session
BY GrantedMeansOpen, NullAssumption DEF Grants, Open, TypeOK

LEMMA GrantsNext ==
  TypeOK' =>
    Grants' = [k \in Token |-> IF Open(k)' THEN sessions'[k] ELSE NoSession]
BY GrantedMeansOpenNext DEF Grants

(* Steps that open and close nothing leave the grants alone.               *)
LEMMA GrantsFrame ==
  ASSUME TypeOK, TypeOK',
         \A k \in Token : /\ Open(k)' <=> Open(k)
                          /\ Open(k) => sessions'[k] = sessions[k]
  PROVE  Grants' = Grants
<1>1. Grants = [k \in Token |-> IF Open(k) THEN sessions[k] ELSE NoSession]
  BY GrantedMeansOpen DEF Grants
<1>2. QED
  BY <1>1, GrantsNext

(* No row, no grant.                                                       *)
LEMMA NoRowsNoGrants ==
  (\A k \in Token : sessions[k] = NoSession) => Grants = Promise!Ended
BY DEF Grants, Granted, SessionUser, Promise!Ended

LEMMA PromiseInit == Init => Promise!GInit
<1> SUFFICES ASSUME Init PROVE Promise!GInit
  OBVIOUS
<1>1. Grants = Promise!Ended
  BY NoRowsNoGrants DEF Init
<1>2. Spent = {} /\ Barred = {} /\ now = 0
  BY DEF Init, Spent, Barred, Exists
<1>3. QED
  BY <1>1, <1>2 DEF Promise!GInit

(* The start of the process, a crash and the clock.                        *)
LEMMA RestartKept ==
  ASSUME IndInv, ResetSessions \/ ResetUsers \/ ResetAdmin \/ Crash \/ Tick,
         TypeOK'
  PROVE  [Promise!GNext]_(Promise!gvars)
<1>0. TypeOK
  BY DEF IndInv
<1>1. CASE ResetSessions
  <2>1. Grants' = Promise!Ended
    BY <1>1 DEF ResetSessions, Grants, Granted, SessionUser, Promise!Ended
  <2>2. Spent' = Spent /\ Barred' = Barred /\ now' = now
    BY <1>1 DEF ResetSessions, Spent, Barred, Exists
  <2>3. QED
    BY <2>1, <2>2 DEF Promise!Restart, Promise!GNext
<1>2. CASE ResetUsers
  <2>1. \A k \in Token : sessions'[k] = NoSession
    BY <1>2 DEF ResetUsers, IndInv, OnlyKillersLeaveSessions
  <2>2. Grants' = Promise!Ended
    BY <2>1 DEF Grants, Granted, SessionUser, Promise!Ended
  <2>3. Spent' = Spent /\ Barred' = {} /\ now' = now
    BY <1>2 DEF ResetUsers, Spent, Barred, Exists
  <2>4. QED
    BY <2>2, <2>3 DEF Promise!Restart, Promise!GNext
<1>3. CASE ResetAdmin
  <2>1. \A k \in Token : sessions[k] = NoSession /\ sessions'[k] = NoSession
    BY <1>3 DEF ResetAdmin, IndInv, OnlyKillersLeaveSessions
  <2>2. Grants = Promise!Ended /\ Grants' = Promise!Ended
    BY <2>1 DEF Grants, Granted, SessionUser, Promise!Ended
  <2>3. lastId + 1 \in UserId /\ users[lastId + 1] = NoUser
    BY <1>0, <1>3, BoundsAssumption
    DEF ResetAdmin, Insert, IndInv, IdsAboveCounterUnused, TypeOK, UserId
  <2>4. \A u \in UserId : users'[u] = IF u = lastId + 1
                                       THEN NewRow(AdminName, AdminPassword, AdminRole)
                                       ELSE users[u]
    BY <1>0, <1>3 DEF ResetAdmin, Insert, TypeOK
  <2>5. Barred' = Barred
    BY <2>3, <2>4 DEF Barred, Exists, NewRow
  <2>6. QED
    BY <1>3, <2>2, <2>5 DEF ResetAdmin, Spent, Promise!gvars
<1>4. CASE Crash
  BY <1>4 DEF Crash, Grants, Granted, SessionUser, Active, Exists, Spent, Barred,
              Promise!gvars
<1>5. CASE Tick
  <2>1. \A k \in Token : Open(k)' <=> Open(k) /\ sessions[k].expires > now'
    <3> TAKE k \in Token
    <3>1. sessions[k] # NoSession => sessions[k].expires \in Nat
      BY <1>0 DEF TypeOK, Session
    <3>2. now' = now + 1 /\ now \in Nat
      BY <1>0, <1>5 DEF Tick, TypeOK
    <3>3. UNCHANGED <<sessions, users>>
      BY <1>5 DEF Tick
    <3>4. Active(sessions[k].user)' <=> Active(sessions[k].user)
      BY <3>3 DEF Active, Exists
    <3>5. sessions[k] # NoSession /\ sessions[k].expires > now'
          => sessions[k].expires > now
      BY <3>1, <3>2
    <3>6. QED
      BY <3>3, <3>4, <3>5 DEF Open
  <2>2. \A k \in Token : Open(k) => sessions[k].expires \in Nat
    BY <1>0 DEF Open, TypeOK, Session
  <2>3. now' = now + 1 /\ now' \in Nat /\ sessions' = sessions
    BY <1>0, <1>5 DEF Tick, TypeOK
  <2>4. \A k \in Token :
          Grants'[k] = IF Grants[k] # NoSession /\ Grants[k].expires <= now'
                         THEN NoSession ELSE Grants[k]
    <3> TAKE k \in Token
    <3>1. CASE ~Open(k)
      <4>1. ~Open(k)' /\ Grants[k] = NoSession
        BY <1>0, <2>1, <3>1, GrantTypes
      <4>2. QED
        BY <4>1, GrantsNext
    <3>2. CASE Open(k)
      <4>1. Grants[k] = sessions[k] /\ Grants[k] # NoSession
        BY <1>0, <3>2, GrantTypes
      <4>2. Open(k)' <=> ~(sessions[k].expires <= now')
        BY <2>1, <2>2, <2>3, <3>2
      <4>3. QED
        BY <2>3, <4>1, <4>2, GrantsNext
    <3>3. QED
      BY <3>1, <3>2
  <2>5. Grants' = [k \in Token |-> IF Grants[k] # NoSession /\ Grants[k].expires <= now'
                                    THEN NoSession ELSE Grants[k]]
    BY <2>4 DEF Grants
  <2>6. Spent' = Spent /\ Barred' = Barred
    BY <1>5 DEF Tick, Spent, Barred, Exists
  <2>7. QED
    BY <2>3, <2>5, <2>6 DEF Promise!Pass, Promise!GNext
<1>6. QED
  BY <1>1, <1>2, <1>3, <1>4, <1>5

(* A handler that reads, the purge and a logout.                           *)
LEMMA ReadsKept ==
  ASSUME IndInv, TypeOK', NEW t \in Thread, Handler(t), ~Complete(t)
  PROVE  UNCHANGED Promise!gvars
<1>1. UNCHANGED <<users, sessions, now, issued>>
  BY DEF Handler, Authorise, LoginBegin
<1>2. QED
  BY <1>1 DEF Grants, Granted, SessionUser, Active, Exists, Spent, Barred,
              Promise!gvars

LEMMA PurgeKept ==
  ASSUME IndInv, TypeOK', Purge
  PROVE  UNCHANGED Promise!gvars
<1>0. TypeOK
  BY DEF IndInv
<1>1. UNCHANGED <<users, now, issued>>
  BY DEF Purge
<1>2. \A k \in Token : sessions'[k] = IF sessions[k] # NoSession /\ sessions[k].expires < now
                                        THEN NoSession ELSE sessions[k]
  BY DEF Purge, Stale
<1>3. \A k \in Token : /\ Open(k)' <=> Open(k)
                       /\ Open(k) => sessions'[k] = sessions[k]
  <2> TAKE k \in Token
  <2>1. Open(k) => ~(sessions[k].expires < now)
    BY <1>0 DEF Open, TypeOK, Session
  <2>2. Open(k) => sessions'[k] = sessions[k]
    BY <1>2, <2>1 DEF Open
  <2>3. sessions'[k] # NoSession => sessions'[k] = sessions[k]
    BY <1>2
  <2>4. Open(k)' => Open(k)
    BY <1>1, <2>3 DEF Open, Active, Exists
  <2>5. Open(k) => Open(k)'
    BY <1>1, <2>2 DEF Open, Active, Exists
  <2>6. QED
    BY <2>2, <2>4, <2>5
<1>4. Grants' = Grants
  BY <1>0, <1>3, GrantsFrame
<1>5. QED
  BY <1>1, <1>4 DEF Spent, Barred, Exists, Promise!gvars

LEMMA LogoutRevokes ==
  ASSUME IndInv, TypeOK', NEW k \in Token, Logout(k)
  PROVE  Promise!Revoke(k)
<1>0. TypeOK
  BY DEF IndInv
<1>1. /\ UNCHANGED <<users, now, issued>>
      /\ \A j \in Token : sessions'[j] = IF j = k THEN NoSession ELSE sessions[j]
  BY <1>0 DEF Logout, TypeOK
<1>2. \A j \in Token : j # k => (Open(j)' <=> Open(j))
  BY <1>1 DEF Open, Active, Exists
<1>3. ~Open(k)'
  BY <1>1 DEF Open
<1>4. \A j \in Token : Grants'[j] = IF j = k THEN NoSession ELSE Grants[j]
  BY <1>0, <1>1, <1>2, <1>3, GrantsNext, GrantTypes
<1>5. Grants' = [Grants EXCEPT ![k] = NoSession]
  BY <1>4 DEF Grants
<1>6. QED
  BY <1>1, <1>5 DEF Spent, Barred, Exists, Promise!Revoke

-----------------------------------------------------------------------------
(* The second halves of the handlers.  Accounts keep their standing but    *)
(* for the target of a deactivation.                                       *)
LEMMA StandingKept ==
  ASSUME IndInv, NEW t \in Thread, Complete(t), ~DeactivateMark(t)
  PROVE  /\ Barred' = Barred
         /\ \A v \in UserId : Exists(v) => (Active(v)' <=> Active(v))
<1>1. \A v \in UserId :
        /\ users[v] # NoUser => users'[v] # NoUser /\ (users'[v].active = users[v].active)
        /\ users[v] = NoUser /\ users'[v] # NoUser => users'[v].active
  BY RowsSurvive
<1>2. QED
  BY <1>1 DEF Barred, Active, Exists

LEMMA IssuesNoToken ==
  ASSUME IndInv, NEW t \in Thread, Complete(t),
         \A k \in Token : ~LoginRight(t, k)
  PROVE  Spent' = Spent /\ now' = now
BY NullAssumption
DEF Complete, CreateUser, DeactivateMark, DeactivateKill, ChangePassword,
    SetPassword, GenerateApiKey, LoginWrong, Spent

(* Handlers that leave the sessions table alone.                           *)
LEMMA AccountStepsKept ==
  ASSUME IndInv, TypeOK', NEW t \in Thread, Complete(t),
         ~DeactivateMark(t), ~DeactivateKill(t),
         \A k \in Token : ~LoginRight(t, k)
  PROVE  UNCHANGED Promise!gvars
<1>0. TypeOK
  BY DEF IndInv
<1>1. sessions' = sessions
  BY DEF Complete, CreateUser, ChangePassword, SetPassword, GenerateApiKey, LoginWrong
<1>2. \A k \in Token : sessions[k] # NoSession =>
        (Active(sessions[k].user)' <=> Active(sessions[k].user))
  <2> TAKE k \in Token
  <2> HAVE sessions[k] # NoSession
  <2> DEFINE v == sessions[k].user
  <2>1. Exists(v) /\ v \in UserId
    BY DEF IndInv, OnlyKillersLeaveSessions, Exists
  <2>2. Active(v)' <=> sessions'[k].user \in UserId /\ users'[v] # NoUser /\ users'[v].active
    BY <1>1 DEF Active, Exists
  <2>3. users'[v] # NoUser /\ (users'[v].active = users[v].active)
    BY <2>1, RowsSurvive DEF Exists
  <2>4. QED
    BY <1>1, <2>1, <2>2, <2>3 DEF Active, Exists
<1>3. \A k \in Token : Open(k)' <=> Open(k)
  BY <1>1, <1>2, IssuesNoToken DEF Open
<1>4. Grants' = Grants
  BY <1>0, <1>1, <1>3, GrantsFrame
<1>5. QED
  BY <1>4, StandingKept, IssuesNoToken DEF Promise!gvars

(* The rows a deactivation deletes had lost their account already.         *)
LEMMA KillKept ==
  ASSUME IndInv, KillersBarred, TypeOK', NEW t \in Thread, DeactivateKill(t)
  PROVE  UNCHANGED Promise!gvars
<1>0. TypeOK
  BY DEF IndInv
<1>1. /\ UNCHANGED <<users, now, issued>>
      /\ \A k \in Token :
           sessions'[k] = IF sessions[k] # NoSession /\ sessions[k].user = req[t].target
                            THEN NoSession ELSE sessions[k]
  BY DEF DeactivateKill, WithoutSessionsOf
<1>2. ~Active(req[t].target)
  BY DEF DeactivateKill, KillersBarred
<1>3. \A k \in Token : Open(k) => sessions'[k] = sessions[k]
  BY <1>1, <1>2 DEF Open
<1>4. \A k \in Token : Open(k)' <=> Open(k)
  BY <1>1, <1>3 DEF Open, Active, Exists
<1>5. Grants' = Grants
  BY <1>0, <1>3, <1>4, GrantsFrame
<1>6. QED
  BY <1>1, <1>5 DEF Spent, Barred, Exists, Promise!gvars

(* A right password issues a grant for a token never used before.          *)
LEMMA LoginIssues ==
  ASSUME IndInv, TypeOK', NEW t \in Thread, NEW k \in Token, LoginRight(t, k)
  PROVE  \E u \in UserId : Promise!Issue(k, u)
<1> DEFINE u == req[t].me
<1>0. TypeOK
  BY DEF IndInv
<1>1. u \in UserId /\ users[u] \in Row /\ Active(u)
  BY RequesterRow DEF LoginRight, IndInv, RequestersExist
<1>2. Complete(t) /\ ~DeactivateMark(t)
  BY DEF Complete, LoginRight, DeactivateMark
<1>3. \A v \in UserId : Exists(v) => (Active(v)' <=> Active(v))
  BY <1>2, StandingKept
<1>4. /\ \A j \in Token : sessions'[j] = IF j = k THEN NewSession(u) ELSE sessions[j]
      /\ k \notin issued /\ issued' = issued \cup {k} /\ now' = now
  BY <1>0 DEF LoginRight, TypeOK
<1>5. \A j \in Token : j # k /\ sessions[j] # NoSession =>
        (Active(sessions[j].user)' <=> Active(sessions[j].user))
  <2> SUFFICES ASSUME NEW j \in Token, j # k, sessions[j] # NoSession
               PROVE  Active(sessions[j].user)' <=> Active(sessions[j].user)
    OBVIOUS
  <2> DEFINE v == sessions[j].user
  <2>1. Exists(v) /\ v \in UserId
    BY DEF IndInv, OnlyKillersLeaveSessions, Exists
  <2>2. sessions'[j].user = v
    BY <1>4
  <2>3. users'[v] # NoUser /\ (users'[v].active = users[v].active)
    BY <1>2, <2>1, RowsSurvive DEF Exists
  <2>4. QED
    BY <2>1, <2>2, <2>3 DEF Active, Exists
<1>6. \A j \in Token : j # k => (Open(j)' <=> Open(j))
  BY <1>4, <1>5 DEF Open
<1>7. NewSession(u) = [user |-> u, expires |-> now + SessionMinutes]
      /\ now + SessionMinutes > now
  BY <1>0, ConfigAssumption DEF NewSession, TypeOK
<1>8. Open(k)'
  <2>1. sessions'[k] = [user |-> u, expires |-> now + SessionMinutes]
    BY <1>4, <1>7
  <2>2. sessions'[k] # NoSession
    <3>1. sessions'[k] \in Session
      BY <1>0, <1>1, <2>1, ConfigAssumption DEF Session, TypeOK
    <3>2. QED
      BY <3>1, NullAssumption
  <2>3. users'[u] # NoUser /\ (users'[u].active = users[u].active)
    BY <1>1, <1>2, RowsSurvive DEF Active, Exists
  <2>4. sessions'[k].user = u /\ sessions'[k].expires = now + SessionMinutes
    BY <2>1
  <2>5. users'[u] # NoUser /\ users'[u].active /\ u \in UserId
    BY <1>1, <2>3 DEF Active
  <2> HIDE DEF u
  <2>6. Active(sessions[k].user)'
    BY <2>4, <2>5 DEF Active, Exists
  <2>7. QED
    BY <1>4, <1>7, <2>2, <2>4, <2>6 DEF Open
<1>9. \A j \in Token : Grants'[j] = IF j = k THEN NewSession(u) ELSE Grants[j]
  BY <1>0, <1>4, <1>6, <1>8, GrantsNext, GrantTypes
<1>10. Grants' = [Grants EXCEPT ![k] = [user |-> u, expires |-> now + SessionMinutes]]
  BY <1>7, <1>9 DEF Grants
<1>11. Spent' = Spent \cup {k} /\ k \notin Spent
  BY <1>4 DEF Spent
<1>12. Barred' = Barred /\ u \notin Barred
  BY <1>1, <1>2, StandingKept DEF Barred, Active
<1>13. QED
  BY <1>1, <1>4, <1>10, <1>11, <1>12 DEF Promise!Issue

(* The first statement of a deactivation bars the account and so ends all  *)
(* its grants at once, though the rows are still there.                    *)
LEMMA MarkBars ==
  ASSUME IndInv, TypeOK', NEW t \in Thread, DeactivateMark(t)
  PROVE  [Promise!GNext]_(Promise!gvars)
<1> DEFINE v == req[t].target
<1>0. TypeOK
  BY DEF IndInv
<1>1. UNCHANGED <<sessions, now, issued>>
  BY DEF DeactivateMark
<1>2. CASE Exists(v)
  <2>1. v \in UserId /\ users[v] \in Row
    BY <1>0, <1>2 DEF Exists, TypeOK
  <2> DEFINE x == [users[v] EXCEPT !.active = FALSE]
  <2>2. x # NoUser /\ ~x.active
    BY <1>0, <2>1, RowUpdates, NullAssumption DEF Row
  <2>3. users' = [users EXCEPT ![v] = x]
    BY <1>2 DEF DeactivateMark
  <2> HIDE DEF x, v
  <2>4. \A u \in UserId : users'[u] = IF u = v THEN x ELSE users[u]
    BY <1>0, <2>1, <2>3 DEF TypeOK
  <2>5. Barred' = Barred \cup {v}
    BY <2>1, <2>2, <2>4 DEF Barred, Exists
  <2>6. \A k \in Token : Open(k)' <=> Open(k) /\ sessions[k].user # v
    BY <1>1, <2>2, <2>4 DEF Open, Active, Exists
  <2>7. \A k \in Token : Grants'[k] = IF Open(k) /\ sessions[k].user # v
                                        THEN sessions[k] ELSE NoSession
    BY <1>1, <2>6, GrantsNext
  <2>8. \A k \in Token :
          Grants'[k] = IF Grants[k] # NoSession /\ Grants[k].user = v
                         THEN NoSession ELSE Grants[k]
    BY <1>0, <2>7, GrantTypes
  <2>9. Grants' = [k \in Token |-> IF Grants[k] # NoSession /\ Grants[k].user = v
                                    THEN NoSession ELSE Grants[k]]
    BY <2>8 DEF Grants
  <2>10. Promise!Bar(v)
    BY <1>1, <2>5, <2>9 DEF Promise!Bar, Spent
  <2>11. QED
    BY <2>1, <2>10 DEF Promise!GNext
<1>3. CASE ~Exists(v)
  <2>1. users' = users
    BY <1>3 DEF DeactivateMark
  <2>2. QED
    BY <1>1, <2>1 DEF Grants, Granted, SessionUser, Active, Exists, Spent, Barred,
                      Promise!gvars
<1>4. QED
  BY <1>2, <1>3

LEMMA PromiseStep ==
  IndInv /\ KillersBarred /\ [Next]_vars => [Promise!GNext]_(Promise!gvars)
<1> SUFFICES ASSUME IndInv, KillersBarred, [Next]_vars
             PROVE  [Promise!GNext]_(Promise!gvars)
  OBVIOUS
<1>0. TypeOK'
  BY IndInvStep DEF IndInv
<1>1. CASE UNCHANGED vars
  BY <1>1 DEF vars, Grants, Granted, SessionUser, Active, Exists, Spent, Barred,
              Promise!gvars
<1>2. CASE ResetSessions \/ ResetUsers \/ ResetAdmin \/ Crash \/ Tick
  BY <1>0, <1>2, RestartKept
<1>3. CASE Purge
  BY <1>0, <1>3, PurgeKept
<1>4. ASSUME NEW k \in Token, Logout(k) PROVE [Promise!GNext]_(Promise!gvars)
  BY <1>0, <1>4, LogoutRevokes DEF Promise!GNext
<1>5. ASSUME NEW t \in Thread, Handler(t) PROVE [Promise!GNext]_(Promise!gvars)
  <2>1. CASE ~Complete(t)
    BY <1>0, <1>5, <2>1, ReadsKept
  <2>2. CASE DeactivateMark(t)
    BY <1>0, <2>2, MarkBars
  <2>3. CASE DeactivateKill(t)
    BY <1>0, <2>3, KillKept
  <2>4. ASSUME NEW k \in Token, LoginRight(t, k) PROVE [Promise!GNext]_(Promise!gvars)
    BY <1>0, <2>4, LoginIssues DEF Promise!GNext
  <2>5. QED
    BY <1>0, <2>1, <2>2, <2>3, <2>4, AccountStepsKept
<1>6. QED
  BY <1>1, <1>2, <1>3, <1>4, <1>5 DEF Next

(* Every behaviour of the accounts, seen through the tokens that open a    *)
(* session, is one of SessionGrants: whatever the threads, the purge, the  *)
(* clock, crashes and restarts do in between.                              *)
THEOREM PromiseTheorem == Spec => KeepsSessionPromise
BY PromiseInit, PromiseStep, Invariance, KillersInvariance, PTL
DEF Spec, KeepsSessionPromise, Promise!GSpec

-----------------------------------------------------------------------------
(* An active administrator.                                                *)
Chief(u) == Active(u) /\ users[u].role = "admin"

AdminInv == DeactivatorsAreAdmins /\ ActiveAdminRemains

(* A handler's second half leaves an active administrator as she is,       *)
(* unless it deactivates her.                                              *)
LEMMA ChiefsKept ==
  ASSUME IndInv, NEW t \in Thread, Complete(t), NEW u \in UserId, Chief(u),
         u # req[t].target \/ ~DeactivateMark(t)
  PROVE  Chief(u)'
<1>1. /\ users'[u] # NoUser /\ users'[u].role = users[u].role
      /\ users'[u].active = users[u].active
  BY RowsSurvive DEF Chief, Active, Exists
<1>2. QED
  BY <1>1 DEF Chief, Active, Exists

(* The start makes an administrator, if it is configured to.               *)
LEMMA ResetMakesChief ==
  ASSUME AdminRole = "admin", IndInv, ResetAdmin
  PROVE  \E u \in UserId : Chief(u)'
<1> DEFINE u == lastId + 1
<1>0. TypeOK
  BY DEF IndInv
<1>1. u \in UserId
  BY <1>0, BoundsAssumption DEF ResetAdmin, Insert, TypeOK, UserId
<1>2. users'[u] = NewRow(AdminName, AdminPassword, AdminRole)
  BY <1>0, <1>1 DEF ResetAdmin, Insert, TypeOK
<1>3. NewRow(AdminName, AdminPassword, AdminRole) # NoUser
  BY NewRowType, ConfigAssumption, NullAssumption DEF Role
<1>4. QED
  BY <1>1, <1>2, <1>3 DEF Chief, Active, Exists, NewRow

(* A request to deactivate is accepted from an active administrator only,  *)
(* and never against herself.                                              *)
LEMMA AuthoriseAdmits ==
  ASSUME IndInv, DeactivatorsAreAdmins, NEW t \in Thread,
         Handler(t), ~Complete(t)
  PROVE  DeactivatorsAreAdmins' /\ UNCHANGED <<proc, users>>
<1>0. req \in [Thread -> Request]
  BY DEF IndInv, TypeOK
<1>1. UNCHANGED <<proc, users>>
  BY DEF Handler, Authorise, LoginBegin
<1>2. PICK op \in Op, u \in UserId, v \in 0 .. MaxUserId :
        /\ req' = [req EXCEPT ![t] = [op |-> op, me |-> u, target |-> v]]
        /\ op = "deactivate" => Authorise(t, op, u, v)
  BY BoundsAssumption DEF Handler, Authorise, LoginBegin, Op, UserId
<1>3. op = "deactivate" => Active(u) /\ users[u].role = "admin" /\ u # v
  BY <1>2 DEF Authorise, Authenticated, SessionUser, KeyUser, AdminOp, NotSelf
<1>4. \A s \in Thread : req'[s] = IF s = t THEN [op |-> op, me |-> u, target |-> v]
                                           ELSE req[s]
  BY <1>0, <1>2
<1>5. QED
  BY <1>1, <1>3, <1>4 DEF DeactivatorsAreAdmins, Active, Exists

LEMMA AdminStep ==
  ASSUME \A t, u \in Thread : t = u, AdminRole = "admin"
  PROVE  IndInv /\ AdminInv /\ [Next]_vars => AdminInv'
<1> SUFFICES ASSUME IndInv, AdminInv, [Next]_vars PROVE AdminInv'
  OBVIOUS
<1>1. CASE ResetSessions \/ ResetUsers
  BY <1>1 DEF ResetSessions, ResetUsers, IndInv, NoRequestsWhenStopped, Idle,
              AdminInv, DeactivatorsAreAdmins, ActiveAdminRemains
<1>2. CASE ResetAdmin
  <2>1. ActiveAdminRemains'
    BY <1>2, ResetMakesChief DEF ActiveAdminRemains, Chief, Active, Exists
  <2>2. DeactivatorsAreAdmins'
    BY <1>2 DEF ResetAdmin, IndInv, NoRequestsWhenStopped, Idle, DeactivatorsAreAdmins
  <2>3. QED
    BY <2>1, <2>2 DEF AdminInv
<1>3. CASE Crash
  BY <1>3 DEF Crash, Idle, AdminInv, DeactivatorsAreAdmins, ActiveAdminRemains
<1>4. CASE Tick \/ Purge \/ (\E k \in Token : Logout(k)) \/ UNCHANGED vars
  BY <1>4 DEF Tick, Purge, Logout, vars, AdminInv, DeactivatorsAreAdmins,
              ActiveAdminRemains, Active, Exists
<1>5. ASSUME NEW t \in Thread, Handler(t), ~Complete(t) PROVE AdminInv'
  BY <1>5, AuthoriseAdmits DEF AdminInv, ActiveAdminRemains, Active, Exists
<1>6. ASSUME NEW t \in Thread, Complete(t) PROVE AdminInv'
  <2>1. DeactivatorsAreAdmins'
    BY <1>6, CompleteRequests DEF DeactivatorsAreAdmins
  <2>2. SUFFICES ASSUME proc = "up" PROVE \E u \in UserId : Chief(u)'
    BY <1>6, <2>1, CompleteRequests DEF AdminInv, ActiveAdminRemains, Chief, Active, Exists
  <2>3. CASE DeactivateMark(t)
    <3>1. Chief(req[t].me) /\ req[t].me # req[t].target
      BY <2>3 DEF DeactivateMark, AdminInv, DeactivatorsAreAdmins, Chief
    <3>2. req[t].me \in UserId
      BY <3>1 DEF Chief, Active, Exists
    <3>3. QED
      BY <1>6, <3>1, <3>2, ChiefsKept
  <2>4. CASE ~DeactivateMark(t)
    <3>1. PICK u \in UserId : Chief(u)
      BY <2>2 DEF AdminInv, ActiveAdminRemains, Chief
    <3>2. QED
      BY <1>6, <2>4, <3>1, ChiefsKept
  <2>5. QED
    BY <2>3, <2>4
<1>7. QED
  BY <1>1, <1>2, <1>3, <1>4, <1>5, <1>6 DEF Next

(* While handlers run one at a time, and the reset makes an administrator, *)
(* there is an active one whenever the server serves.  With two threads it *)
(* is false: two administrators can deactivate each other, both having     *)
(* been let in before either statement ran.                                *)
THEOREM AdminTheorem ==
  ASSUME \A t, u \in Thread : t = u, AdminRole = "admin"
  PROVE  Spec => []ActiveAdminRemains
<1>1. Init => AdminInv
  BY DEF Init, Idle, AdminInv, DeactivatorsAreAdmins, ActiveAdminRemains
<1>2. AdminInv => ActiveAdminRemains
  BY DEF AdminInv
<1>3. QED
  BY <1>1, <1>2, AdminStep, Invariance, PTL DEF Spec

=============================================================================
