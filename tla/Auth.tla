-------------------------------- MODULE Auth --------------------------------
(***************************************************************************)
(* User accounts, login sessions and account lockout: AuthManager          *)
(* (src/src/auth.cpp) together with the user-management handlers that call *)
(* it (src/src/router.cpp) and the account reset main() runs at every      *)
(* start (src/src/main.cpp).                                               *)
(*                                                                         *)
(* A connection thread first resolves its credentials (get_user), then     *)
(* runs the operation on what it read; AuthManager's mutex mu_ is held     *)
(* only inside each of the two calls, so other threads and the clock move  *)
(* between them.  A statement run outside an explicit transaction commits  *)
(* on its own, so a call made of several statements can be cut by a crash. *)
(* The clock is in minutes; 0 in "until" stands for the empty string.      *)
(***************************************************************************)
EXTENDS Naturals, Sequences

CONSTANTS
  MaxUserId,       \* bound: accounts ever created, the reset's included
  Name,            \* user names, equal up to case (COLLATE NOCASE)
  AdminName,       \* auth.admin_user
  Password,
  AdminPassword,   \* auth.admin_password
  AdminRole,       \* auth.admin_role; nothing makes it "admin"
  Token,           \* session tokens the random generator can return
  Key,             \* API keys the random generator can return
  Thread,          \* connection threads
  SessionMinutes,  \* app.session_timeout_minutes
  LockoutMinutes,  \* auth.lockout_minutes
  MaxAttempts,     \* auth.max_login_attempts
  ApiKeyEnabled,   \* security.api_key_enabled
  ApiKeyHeader,    \* security.api_key_header, as written in config.pson
  MaxTime,         \* bound: the last minute of the clock
  MaxTries,        \* bound: wrong passwords recorded against one account
  NoUser, NoSession, NoKey, Free

ASSUME BoundsAssumption ==
  /\ MaxUserId \in Nat /\ MaxTime \in Nat /\ MaxTries \in Nat
ASSUME ConfigAssumption ==
  /\ SessionMinutes \in Nat \ {0}
  /\ LockoutMinutes \in Nat
  /\ MaxAttempts \in Nat \ {0}
  /\ ApiKeyEnabled \in BOOLEAN
  /\ AdminName \in Name /\ AdminPassword \in Password

UserId == 1 .. MaxUserId
GivenRole == {"admin", "technician"}
Role == GivenRole \cup {AdminRole}

Row == [name : Name, pw : Password, role : Role, active : BOOLEAN,
        fails : Nat, until : Nat, key : Key \cup {NoKey}]
Session == [user : UserId, expires : Nat]

(* The names of the tables' missing rows are no rows.                      *)
ASSUME NullAssumption ==
  /\ NoUser \notin Row /\ NoSession \notin Session
  /\ NoKey \notin Key /\ Free \notin Thread
  /\ Token \cap Key = {}

VARIABLES
  proc,      \* "down", the two cuts inside reset_admin, or "up"
  users,     \* the users table
  sessions,  \* the sessions table
  lastId,    \* users' AUTOINCREMENT counter
  now,       \* wall clock
  mu,        \* holder of AuthManager::mu_
  req,       \* what each connection thread is doing
  issued,    \* random tokens and keys already handed out
  tries      \* history: when each wrong password since the last clear fell

vars == <<proc, users, sessions, lastId, now, mu, req, issued, tries>>

Op == {"idle", "login", "create", "deactivate", "kill", "chpw", "setpw",
       "apikey"}
Request == [op : Op, me : 0 .. MaxUserId, target : 0 .. MaxUserId]
Idle == [op |-> "idle", me |-> 0, target |-> 0]

TypeOK ==
  /\ proc \in {"down", "noSessions", "noUsers", "up"}
  /\ users \in [UserId -> Row \cup {NoUser}]
  /\ sessions \in [Token -> Session \cup {NoSession}]
  /\ lastId \in 0 .. MaxUserId
  /\ now \in Nat
  /\ mu \in Thread \cup {Free}
  /\ req \in [Thread -> Request]
  /\ issued \subseteq Token \cup Key
  /\ tries \in [UserId -> Seq(Nat)]

Exists(u) == u \in UserId /\ users[u] # NoUser
Active(u) == Exists(u) /\ users[u].active
Locked_Ignored(u) == FALSE  \* mutant: the lockout check is gone
Locked(u) == users[u].until > now
Earned_Late(fails) == fails > MaxAttempts  \* mutant: off by one
Earned(fails) == fails >= MaxAttempts
Taken(n) == \E u \in UserId : Exists(u) /\ users[u].name = n

NewRow(n, p, r) == [name |-> n, pw |-> p, role |-> r, active |-> TRUE,
                    fails |-> 0, until |-> 0, key |-> NoKey]

(* One more wrong password on a row, and the clearing of the count.        *)
Failed(r) ==
  [r EXCEPT !.fails = @ + 1,
            !.until = IF Earned(r.fails + 1) THEN now + LockoutMinutes ELSE @]
Cleared(r) == [r EXCEPT !.fails = 0, !.until = 0]

NewSession_NoUser(u) ==  \* mutant: user_id keeps its initial 0
  [user |-> 0, expires |-> now + SessionMinutes]
NewSession(u) == [user |-> u, expires |-> now + SessionMinutes]

Stale_Swapped(s) == now < s.expires  \* mutant: the comparison reversed
Stale(s) == s.expires < now

WithoutSessionsOf_Kept(u) == sessions  \* mutant: the DELETE is missing
WithoutSessionsOf(u) ==
  [k \in Token |-> IF sessions[k] # NoSession /\ sessions[k].user = u
                     THEN NoSession ELSE sessions[k]]

-----------------------------------------------------------------------------
(* Start of the process: reset_admin, one statement at a time, then serve. *)

Init ==
  /\ proc = "down"
  /\ users = [u \in UserId |-> NoUser]
  /\ sessions = [k \in Token |-> NoSession]
  /\ lastId = 0 /\ now = 0 /\ mu = Free
  /\ req = [t \in Thread |-> Idle]
  /\ issued = {}
  /\ tries = [u \in UserId |-> <<>>]

ResetSessions ==
  /\ proc = "down"
  /\ proc' = "noSessions"
  /\ sessions' = [k \in Token |-> NoSession]
  /\ UNCHANGED <<users, lastId, now, mu, req, issued, tries>>

ResetUsers ==
  /\ proc = "noSessions"
  /\ proc' = "noUsers"
  /\ users' = [u \in UserId |-> NoUser]
  /\ UNCHANGED <<sessions, lastId, now, mu, req, issued, tries>>

Insert(n, p, r) ==
  /\ lastId < MaxUserId
  /\ lastId' = lastId + 1
  /\ users' = [users EXCEPT ![lastId + 1] = NewRow(n, p, r)]

ResetAdmin ==
  /\ proc = "noUsers"
  /\ proc' = "up"
  /\ Insert(AdminName, AdminPassword, AdminRole)
  /\ UNCHANGED <<sessions, now, mu, req, issued, tries>>

(* The process dies, or shuts down, at any point; the database survives.   *)
Crash ==
  /\ proc # "down"
  /\ lastId < MaxUserId
  /\ proc' = "down"
  /\ mu' = Free
  /\ req' = [t \in Thread |-> Idle]
  /\ UNCHANGED <<users, sessions, lastId, now, issued, tries>>

Tick ==
  /\ now < MaxTime
  /\ now' = now + 1
  /\ UNCHANGED <<proc, users, sessions, lastId, mu, req, issued, tries>>

-----------------------------------------------------------------------------
(* get_user: a bearer token, else an API key when the feature is on.  The  *)
(* request parser lower-cases header names before the handler looks for    *)
(* the configured one.                                                     *)

HeaderName == {"X-API-Key", "x-api-key"}
ToLower(h) == IF h \in HeaderName THEN "x-api-key" ELSE h

SessionUser_Inactive(k, u) ==  \* mutant: users.active is not looked at
  /\ sessions[k] # NoSession /\ sessions[k].user = u
  /\ sessions[k].expires > now
SessionUser(k, u) ==
  /\ sessions[k] # NoSession /\ sessions[k].user = u
  /\ sessions[k].expires > now
  /\ Active(u)

KeyUser(k, h, u) ==
  /\ ApiKeyEnabled
  /\ ToLower(h) = ApiKeyHeader
  /\ Active(u) /\ users[u].key = k

Authenticated(u) ==
  \/ \E k \in Token : SessionUser(k, u)
  \/ \E k \in Key, h \in HeaderName : KeyUser(k, h, u)

Serving(t) == proc = "up" /\ req[t] = Idle /\ mu = Free

NotSelf_Dropped(op, u, target) == TRUE  \* mutant: anyone may be targeted
NotSelf(op, u, target) == op = "deactivate" => target # u

AdminOp == {"create", "deactivate", "setpw"}

(* The first half of a handler: get_user and the checks on what it read.   *)
Authorise(t, op, u, target) ==
  /\ Serving(t)
  /\ Authenticated(u)
  /\ op \in AdminOp => users[u].role = "admin"
  /\ NotSelf(op, u, target)
  /\ req' = [req EXCEPT ![t] = [op |-> op, me |-> u, target |-> target]]
  /\ UNCHANGED <<proc, users, sessions, lastId, now, mu, issued, tries>>

-----------------------------------------------------------------------------
(* login: the lookup and the checks, then the password, under one lock.    *)
(* bcrypt takes long enough for the clock to move in between.              *)

LoginBegin(t, u) ==
  /\ Serving(t)
  /\ Active(u) /\ ~Locked(u)
  /\ ~ Token \subseteq issued
  /\ mu' = t
  /\ req' = [req EXCEPT ![t] = [op |-> "login", me |-> u, target |-> 0]]
  /\ UNCHANGED <<proc, users, sessions, lastId, now, issued, tries>>

Finish(t) ==
  /\ mu' = Free
  /\ req' = [req EXCEPT ![t] = Idle]

LoginWrong(t) ==
  /\ req[t].op = "login"
  /\ LET u == req[t].me
     IN /\ \E p \in Password : p # users[u].pw
        /\ Len(tries[u]) < MaxTries
        /\ users' = [users EXCEPT ![u] = Failed(@)]
        /\ tries' = [tries EXCEPT ![u] = Append(@, now)]
  /\ Finish(t)
  /\ UNCHANGED <<proc, sessions, lastId, now, issued>>

ClearFailures(u) == tries' = [tries EXCEPT ![u] = <<>>]

LoginRight(t, k) ==
  /\ req[t].op = "login"
  /\ k \notin issued
  /\ LET u == req[t].me
     IN /\ users' = [users EXCEPT ![u] = Cleared(@)]
        /\ sessions' = [sessions EXCEPT ![k] = NewSession(u)]
        /\ ClearFailures(u)
  /\ issued' = issued \cup {k}
  /\ Finish(t)
  /\ UNCHANGED <<proc, lastId, now>>

-----------------------------------------------------------------------------
(* The second half of the handlers, each on the ids its request carries.   *)

(* A duplicate name breaks UNIQUE: step() turns the error into "no row",   *)
(* nothing is inserted and the handler answers 201 all the same.           *)
CreateUser(t) ==
  /\ req[t].op = "create" /\ mu = Free
  /\ \E n \in Name, p \in Password, r \in GivenRole :
       IF Taken(n) THEN UNCHANGED <<users, lastId>> ELSE Insert(n, p, r)
  /\ req' = [req EXCEPT ![t] = Idle]
  /\ UNCHANGED <<proc, sessions, now, mu, issued, tries>>

DeactivateMark(t) ==
  /\ req[t].op = "deactivate" /\ mu = Free
  /\ users' = IF Exists(req[t].target)
                THEN [users EXCEPT ![req[t].target].active = FALSE]
                ELSE users
  /\ mu' = t
  /\ req' = [req EXCEPT ![t].op = "kill"]
  /\ UNCHANGED <<proc, sessions, lastId, now, issued, tries>>

DeactivateKill(t) ==
  /\ req[t].op = "kill"
  /\ sessions' = WithoutSessionsOf(req[t].target)
  /\ Finish(t)
  /\ UNCHANGED <<proc, users, lastId, now, issued, tries>>

ChangePassword(t) ==
  /\ req[t].op = "chpw" /\ mu = Free
  /\ \E old \in Password, new \in Password :
       users' = IF users[req[t].me].pw = old
                  THEN [users EXCEPT ![req[t].me].pw = new] ELSE users
  /\ req' = [req EXCEPT ![t] = Idle]
  /\ UNCHANGED <<proc, sessions, lastId, now, mu, issued, tries>>

SetPassword(t) ==
  /\ req[t].op = "setpw" /\ mu = Free
  /\ IF Exists(req[t].target)
       THEN /\ \E new \in Password :
                 users' = [users EXCEPT
                   ![req[t].target] = [Cleared(@) EXCEPT !.pw = new]]
            /\ ClearFailures(req[t].target)
       ELSE UNCHANGED <<users, tries>>
  /\ req' = [req EXCEPT ![t] = Idle]
  /\ UNCHANGED <<proc, sessions, lastId, now, mu, issued>>

GenerateApiKey(t, k) ==
  /\ req[t].op = "apikey" /\ mu = Free
  /\ k \notin issued
  /\ users' = [users EXCEPT ![req[t].me].key = k]
  /\ issued' = issued \cup {k}
  /\ req' = [req EXCEPT ![t] = Idle]
  /\ UNCHANGED <<proc, sessions, lastId, now, mu, tries>>

(* logout deletes whatever token the body names, with no get_user first.   *)
Logout(k) ==
  /\ proc = "up" /\ mu = Free
  /\ sessions' = [sessions EXCEPT ![k] = NoSession]
  /\ UNCHANGED <<proc, users, lastId, now, mu, req, issued, tries>>

(* The background thread main() starts.                                    *)
Purge ==
  /\ proc = "up" /\ mu = Free
  /\ sessions' = [k \in Token |->
       IF sessions[k] # NoSession /\ Stale(sessions[k])
         THEN NoSession ELSE sessions[k]]
  /\ UNCHANGED <<proc, users, lastId, now, mu, req, issued, tries>>

-----------------------------------------------------------------------------
Complete(t) ==
  \/ CreateUser(t) \/ DeactivateMark(t) \/ DeactivateKill(t)
  \/ ChangePassword(t) \/ SetPassword(t)
  \/ \E k \in Key : GenerateApiKey(t, k)
  \/ LoginWrong(t) \/ \E k \in Token : LoginRight(t, k)

Handler(t) ==
  \/ \E op \in {"create", "chpw"}, u \in UserId : Authorise(t, op, u, 0)
  \/ \E op \in {"deactivate", "setpw"}, u, v \in UserId : Authorise(t, op, u, v)
  \/ \E u \in UserId : ~ Key \subseteq issued /\ Authorise(t, "apikey", u, 0)
  \/ \E u \in UserId : LoginBegin(t, u)
  \/ Complete(t)

Next ==
  \/ ResetSessions \/ ResetUsers \/ ResetAdmin \/ Crash \/ Tick
  \/ Purge \/ \E k \in Token : Logout(k)
  \/ \E t \in Thread : Handler(t)

Spec == Init /\ [][Next]_vars

=============================================================================
