----------------------------- MODULE AuthProofs -----------------------------
(***************************************************************************)
(* Proofs of the safety properties of AuthProps for every value of the     *)
(* constants: any number of threads, accounts, tokens and attempts.        *)
(***************************************************************************)
EXTENDS AuthProps, TLAPS

LEMMA InitInv == Init => IndInv
<1> SUFFICES ASSUME Init PROVE IndInv
  OBVIOUS
<1> USE BoundsAssumption, ConfigAssumption, NullAssumption DEF Init, UserId, Exists
<1>1. TypeOK
  BY DEF TypeOK, Request, Op, Idle
<1>2. LockDiscipline /\ NoRequestsWhenStopped
  BY DEF LockDiscipline, NoRequestsWhenStopped, Idle
<1>3. RequestersExist /\ IdsAboveCounterUnused /\ FailsCounted
  BY DEF RequestersExist, IdsAboveCounterUnused, FailsCounted, Idle
<1>4. ExhaustedIsLocked /\ LockoutSpacesGuesses /\ OnlyKillersLeaveSessions
  BY DEF ExhaustedIsLocked, LockoutSpacesGuesses, OnlyKillersLeaveSessions
<1>5. QED
  BY <1>1, <1>2, <1>3, <1>4 DEF IndInv

(* What the updates of a row keep.                                         *)
LEMMA RowUpdates ==
  ASSUME TypeOK, NEW r \in Row
  PROVE  /\ Failed(r) \in Row /\ Cleared(r) \in Row
         /\ [r EXCEPT !.active = FALSE] \in Row
         /\ \A p \in Password : [r EXCEPT !.pw = p] \in Row
         /\ \A k \in Key : [r EXCEPT !.key = k] \in Row
         /\ Failed(r).active = r.active
         /\ Failed(r).fails = r.fails + 1
         /\ Failed(r).until = IF r.fails + 1 >= MaxAttempts
                                THEN now + LockoutMinutes ELSE r.until
         /\ Cleared(r).active = r.active
         /\ Cleared(r).fails = 0 /\ Cleared(r).until = 0
<1> USE ConfigAssumption DEF Row
<1>1. Cleared(r) \in Row /\ Cleared(r).active = r.active
      /\ Cleared(r).fails = 0 /\ Cleared(r).until = 0
  BY DEF Cleared
<1>2. now + LockoutMinutes \in Nat /\ r.fails + 1 \in Nat
  BY DEF TypeOK
<1>3. Failed(r) \in Row /\ Failed(r).active = r.active
      /\ Failed(r).fails = r.fails + 1
      /\ Failed(r).until = IF r.fails + 1 >= MaxAttempts
                             THEN now + LockoutMinutes ELSE r.until
  BY <1>2 DEF Failed, Earned
<1>4. QED
  BY <1>1, <1>3

(* New rows and new requests have their types.                             *)
LEMMA NewRowType ==
  \A n \in Name, p \in Password, r \in Role : NewRow(n, p, r) \in Row
BY DEF NewRow, Row

LEMMA RequestTypes ==
  /\ Idle \in Request
  /\ \A op \in Op, u \in UserId, v \in 0 .. MaxUserId :
       [op |-> op, me |-> u, target |-> v] \in Request
BY BoundsAssumption DEF Idle, Request, Op, UserId

LEMMA RequesterRow ==
  ASSUME IndInv, NEW t \in Thread, req[t].op # "idle"
  PROVE  req[t].me \in UserId /\ users[req[t].me] \in Row
BY DEF IndInv, RequestersExist, Exists, TypeOK, Idle

(* Every step keeps the types.                                             *)
LEMMA TypeStep == IndInv /\ [Next]_vars => TypeOK'
<1> SUFFICES ASSUME IndInv, [Next]_vars PROVE TypeOK'
  OBVIOUS
<1>0. TypeOK
  BY DEF IndInv
<1>a. /\ \A t \in Thread : [req EXCEPT ![t] = Idle] \in [Thread -> Request]
      /\ Free \in Thread \cup {Free}
  BY <1>0, RequestTypes DEF TypeOK
<1>1. CASE ResetSessions \/ ResetUsers \/ Crash \/ Tick \/ UNCHANGED vars
  BY <1>0, <1>1, RequestTypes DEF ResetSessions, ResetUsers, Crash, Tick, vars, TypeOK
<1>2. CASE ResetAdmin
  <2>1. NewRow(AdminName, AdminPassword, AdminRole) \in Row
    BY NewRowType, ConfigAssumption DEF Role
  <2>2. QED
    BY <1>0, <1>2, <2>1, BoundsAssumption DEF ResetAdmin, Insert, TypeOK, UserId
<1>3. CASE Purge
  BY <1>0, <1>3 DEF Purge, TypeOK
<1>4. ASSUME NEW k \in Token, Logout(k) PROVE TypeOK'
  BY <1>0, <1>4 DEF Logout, TypeOK
<1>5. ASSUME NEW t \in Thread, NEW op \in Op, NEW u \in UserId,
             NEW v \in 0 .. MaxUserId, Authorise(t, op, u, v)
      PROVE  TypeOK'
  BY <1>0, <1>5, RequestTypes DEF Authorise, TypeOK
<1>6. ASSUME NEW t \in Thread, NEW u \in UserId, LoginBegin(t, u)
      PROVE  TypeOK'
  <2>1. [op |-> "login", me |-> u, target |-> 0] \in Request
    BY RequestTypes, BoundsAssumption DEF Op
  <2>2. QED
    BY <1>0, <1>6, <2>1 DEF LoginBegin, TypeOK
<1>7. ASSUME NEW t \in Thread, LoginWrong(t) PROVE TypeOK'
  <2>1. req[t].me \in UserId /\ users[req[t].me] \in Row
    BY <1>7, RequesterRow DEF LoginWrong
  <2>2. Failed(users[req[t].me]) \in Row
    BY <1>0, <2>1, RowUpdates
  <2>3. users' \in [UserId -> Row \cup {NoUser}]
    BY <1>0, <1>7, <2>1, <2>2 DEF LoginWrong, TypeOK
  <2>4. tries' \in [UserId -> Seq(Nat)]
    BY <1>0, <1>7, <2>1 DEF LoginWrong, TypeOK
  <2>5. QED
    BY <1>0, <1>a, <1>7, <2>3, <2>4 DEF LoginWrong, Finish, TypeOK
<1>8. ASSUME NEW t \in Thread, NEW k \in Token, LoginRight(t, k) PROVE TypeOK'
  <2>1. req[t].me \in UserId /\ users[req[t].me] \in Row
    BY <1>8, RequesterRow DEF LoginRight
  <2>2. Cleared(users[req[t].me]) \in Row
    BY <1>0, <2>1, RowUpdates
  <2>3. users' \in [UserId -> Row \cup {NoUser}]
    BY <1>0, <1>8, <2>1, <2>2 DEF LoginRight, TypeOK
  <2>4. tries' \in [UserId -> Seq(Nat)]
    BY <1>0, <1>8, <2>1 DEF LoginRight, ClearFailures, TypeOK
  <2>5. sessions' \in [Token -> Session \cup {NoSession}]
    BY <1>0, <1>8, <2>1, ConfigAssumption
    DEF LoginRight, NewSession, Session, TypeOK
  <2>6. QED
    BY <1>0, <1>a, <1>8, <2>3, <2>4, <2>5 DEF LoginRight, Finish, TypeOK
<1>9. ASSUME NEW t \in Thread, CreateUser(t) PROVE TypeOK'
  <2>1. PICK n \in Name, p \in Password, r \in Role :
          IF Taken(n) THEN UNCHANGED <<users, lastId>> ELSE Insert(n, p, r)
    BY <1>9 DEF CreateUser, Role
  <2>2. NewRow(n, p, r) \in Row
    BY NewRowType
  <2>3. users' \in [UserId -> Row \cup {NoUser}] /\ lastId' \in 0 .. MaxUserId
    <3>1. CASE Taken(n)
      BY <1>0, <2>1, <3>1 DEF TypeOK
    <3>2. CASE ~Taken(n)
      <4>1. Insert(n, p, r)
        BY <2>1, <3>2
      <4>2. QED
        BY <1>0, <2>2, <4>1, BoundsAssumption DEF Insert, TypeOK, UserId
    <3>3. QED
      BY <3>1, <3>2
  <2>4. QED
    BY <1>0, <1>a, <1>9, <2>3 DEF CreateUser, TypeOK
<1>10. ASSUME NEW t \in Thread, DeactivateMark(t) PROVE TypeOK'
  <2>1. users' \in [UserId -> Row \cup {NoUser}]
    <3>1. CASE Exists(req[t].target)
      <4>1. [users[req[t].target] EXCEPT !.active = FALSE] \in Row
        <5>1. users[req[t].target] \in Row
          BY <1>0, <3>1 DEF Exists, TypeOK
        <5>2. QED
          BY <1>0, <5>1, RowUpdates
      <4>2. QED
        BY <1>0, <1>10, <3>1, <4>1 DEF DeactivateMark, TypeOK
    <3>2. CASE ~Exists(req[t].target)
      BY <1>0, <1>10, <3>2 DEF DeactivateMark, TypeOK
    <3>3. QED
      BY <3>1, <3>2
  <2>2. [req[t] EXCEPT !.op = "kill"] \in Request
    BY <1>0 DEF TypeOK, Request, Op
  <2>3. QED
    BY <1>0, <1>10, <2>1, <2>2 DEF DeactivateMark, TypeOK
<1>11. ASSUME NEW t \in Thread, DeactivateKill(t) PROVE TypeOK'
  <2>1. sessions' \in [Token -> Session \cup {NoSession}]
    BY <1>0, <1>11 DEF DeactivateKill, WithoutSessionsOf, TypeOK
  <2>2. QED
    BY <1>0, <1>a, <1>11, <2>1 DEF DeactivateKill, Finish, TypeOK
<1>12. ASSUME NEW t \in Thread, ChangePassword(t) PROVE TypeOK'
  <2>1. req[t].me \in UserId /\ users[req[t].me] \in Row
    BY <1>12, RequesterRow DEF ChangePassword
  <2>2. \A p \in Password : [users[req[t].me] EXCEPT !.pw = p] \in Row
    BY <1>0, <2>1, RowUpdates
  <2>3. users' \in [UserId -> Row \cup {NoUser}]
    BY <1>0, <1>12, <2>1, <2>2 DEF ChangePassword, TypeOK
  <2>4. QED
    BY <1>0, <1>a, <1>12, <2>3 DEF ChangePassword, TypeOK
<1>13. ASSUME NEW t \in Thread, SetPassword(t) PROVE TypeOK'
  <2> DEFINE v == req[t].target
  <2>1. CASE Exists(v)
    <3>1. PICK new \in Password :
            users' = [users EXCEPT ![v] = [Cleared(@) EXCEPT !.pw = new]]
      BY <1>13, <2>1 DEF SetPassword
    <3>2. Cleared(users[v]) \in Row
      <4>1. users[v] \in Row
        BY <1>0, <2>1 DEF Exists, TypeOK
      <4>2. QED
        BY <1>0, <4>1, RowUpdates
    <3>3. [Cleared(users[v]) EXCEPT !.pw = new] \in Row
      BY <1>0, <3>2, RowUpdates
    <3>4. users' \in [UserId -> Row \cup {NoUser}]
      BY <1>0, <2>1, <3>1, <3>3 DEF TypeOK
    <3>5. tries' \in [UserId -> Seq(Nat)]
      <4>1. ClearFailures(v)
        BY <1>13, <2>1 DEF SetPassword
      <4>2. QED
        BY <1>0, <2>1, <4>1 DEF ClearFailures, Exists, TypeOK
    <3>6. QED
      BY <1>0, <1>a, <1>13, <3>4, <3>5 DEF SetPassword, TypeOK
  <2>2. CASE ~Exists(v)
    BY <1>0, <1>a, <1>13, <2>2 DEF SetPassword, TypeOK
  <2>3. QED
    BY <2>1, <2>2
<1>14. ASSUME NEW t \in Thread, NEW k \in Key, GenerateApiKey(t, k) PROVE TypeOK'
  <2>1. req[t].me \in UserId /\ users[req[t].me] \in Row
    BY <1>14, RequesterRow DEF GenerateApiKey
  <2>2. [users[req[t].me] EXCEPT !.key = k] \in Row
    BY <1>0, <2>1, RowUpdates
  <2>3. users' \in [UserId -> Row \cup {NoUser}]
    BY <1>0, <1>14, <2>1, <2>2 DEF GenerateApiKey, TypeOK
  <2>4. QED
    BY <1>0, <1>a, <1>14, <2>3 DEF GenerateApiKey, TypeOK
<1>15. ASSUME NEW t \in Thread, Handler(t) PROVE TypeOK'
  <2>1. {"create", "chpw", "deactivate", "setpw", "apikey"} \subseteq Op
        /\ 0 \in 0 .. MaxUserId /\ UserId \subseteq 0 .. MaxUserId
    BY BoundsAssumption DEF Op, UserId
  <2>2. QED
    BY <1>5, <1>6, <1>7, <1>8, <1>9, <1>10, <1>11, <1>12, <1>13, <1>14,
       <1>15, <2>1, ZenonT(60) DEF Handler, Complete
<1>16. QED
  BY <1>1, <1>2, <1>3, <1>4, <1>15 DEF Next

(* The mutex is held by the thread that is inside it, and by no one after  *)
(* a stop.                                                                 *)
LEMMA LockStep ==
  IndInv /\ [Next]_vars => LockDiscipline' /\ NoRequestsWhenStopped'
<1> SUFFICES ASSUME IndInv, [Next]_vars
             PROVE  LockDiscipline' /\ NoRequestsWhenStopped'
  OBVIOUS
<1> USE NullAssumption
    DEF IndInv, LockDiscipline, NoRequestsWhenStopped, TypeOK, Idle
<1>1. CASE ResetSessions \/ ResetUsers \/ ResetAdmin \/ Tick \/ Purge
           \/ UNCHANGED vars
  BY <1>1 DEF ResetSessions, ResetUsers, ResetAdmin, Tick, Purge, vars
<1>2. CASE Crash
  BY <1>2 DEF Crash
<1>3. CASE \E k \in Token : Logout(k)
  BY <1>3 DEF Logout
<1>4. ASSUME NEW t \in Thread, NEW op \in Op, NEW u \in UserId,
             NEW v \in 0 .. MaxUserId, Authorise(t, op, u, v),
             op \notin {"login", "kill"}
      PROVE  LockDiscipline' /\ NoRequestsWhenStopped'
  BY <1>4 DEF Authorise, Serving
<1>5. ASSUME NEW t \in Thread, NEW u \in UserId, LoginBegin(t, u)
      PROVE  LockDiscipline' /\ NoRequestsWhenStopped'
  BY <1>5 DEF LoginBegin, Serving
<1>6. ASSUME NEW t \in Thread, Complete(t)
      PROVE  LockDiscipline' /\ NoRequestsWhenStopped'
  <2>1. CASE LoginWrong(t) \/ (\E k \in Token : LoginRight(t, k))
             \/ DeactivateKill(t)
    BY <2>1 DEF LoginWrong, LoginRight, DeactivateKill, Finish
  <2>2. CASE CreateUser(t) \/ ChangePassword(t) \/ SetPassword(t)
             \/ \E k \in Key : GenerateApiKey(t, k)
    <3>1. /\ req[t].op \notin {"login", "kill"}
          /\ UNCHANGED <<proc, mu>>
          /\ req' = [req EXCEPT ![t] = Idle]
      <4>1. CASE CreateUser(t) \/ ChangePassword(t)
        BY <4>1 DEF CreateUser, ChangePassword
      <4>2. CASE SetPassword(t)
        BY <4>2 DEF SetPassword
      <4>3. CASE \E k \in Key : GenerateApiKey(t, k)
        BY <4>3 DEF GenerateApiKey
      <4>4. QED
        BY <2>2, <4>1, <4>2, <4>3
    <3>2. QED
      BY <3>1
  <2>3. CASE DeactivateMark(t)
    BY <2>3 DEF DeactivateMark, Request
  <2>4. QED
    BY <1>6, <2>1, <2>2, <2>3 DEF Complete
<1>7. ASSUME NEW t \in Thread, Handler(t)
      PROVE  LockDiscipline' /\ NoRequestsWhenStopped'
  <2>1. /\ {"create", "chpw", "deactivate", "setpw", "apikey"} \subseteq Op
        /\ {"create", "chpw", "deactivate", "setpw", "apikey"}
             \cap {"login", "kill"} = {}
        /\ 0 \in 0 .. MaxUserId /\ UserId \subseteq 0 .. MaxUserId
    BY BoundsAssumption DEF Op, UserId
  <2> HIDE DEF IndInv, LockDiscipline, NoRequestsWhenStopped, TypeOK
  <2>2. QED
    BY <1>4, <1>5, <1>6, <1>7, <2>1, ZenonT(60) DEF Handler
<1>8. QED
  BY <1>1, <1>2, <1>3, <1>7 DEF Next

(* The part of the invariant about the count of wrong passwords.           *)
Counts ==
  /\ IdsAboveCounterUnused /\ FailsCounted
  /\ ExhaustedIsLocked /\ LockoutSpacesGuesses

(* A step that touches neither counts, locks nor their history.            *)
LEMMA CountsFrame ==
  ASSUME Counts, TypeOK, UNCHANGED <<lastId, tries>>,
         \A u \in UserId : (users'[u] # NoUser) =>
           /\ users[u] # NoUser
           /\ users'[u].fails = users[u].fails
           /\ users'[u].until = users[u].until
  PROVE  Counts'
BY DEF Counts, IdsAboveCounterUnused, FailsCounted, ExhaustedIsLocked,
       LockoutSpacesGuesses, Exists, TypeOK

(* A new account starts with nothing counted.                              *)
LEMMA CountsInsert ==
  ASSUME Counts, TypeOK, UNCHANGED tries,
         NEW n \in Name, NEW q \in Password, NEW r \in Role, Insert(n, q, r)
  PROVE  Counts'
<1> USE BoundsAssumption, ConfigAssumption DEF Counts, TypeOK, UserId, Exists, Insert
<1>1. lastId + 1 \in UserId /\ tries[lastId + 1] = <<>>
  BY DEF IdsAboveCounterUnused
<1>2. users'[lastId + 1] = NewRow(n, q, r)
  OBVIOUS
<1>3. NewRow(n, q, r).fails = 0
  BY DEF NewRow
<1>4. IdsAboveCounterUnused'
  BY DEF IdsAboveCounterUnused
<1>5. FailsCounted' /\ ExhaustedIsLocked'
  <2>1. \A v \in UserId : v # lastId + 1 => users'[v] = users[v]
    OBVIOUS
  <2>2. Len(tries[lastId + 1]) = 0 /\ users'[lastId + 1].fails = 0
    BY <1>1, <1>2, <1>3
  <2>3. FailsCounted'
    BY <2>1, <2>2 DEF FailsCounted
  <2>4. ExhaustedIsLocked'
    BY <2>1, <2>2 DEF ExhaustedIsLocked
  <2>5. QED
    BY <2>3, <2>4
<1>6. LockoutSpacesGuesses'
  BY DEF LockoutSpacesGuesses
<1>7. QED
  BY <1>4, <1>5, <1>6

(* Clearing an account's row and its history together.                     *)
LEMMA CountsClear ==
  ASSUME Counts, TypeOK, UNCHANGED lastId, NEW v \in UserId, users[v] # NoUser,
         NEW x \in Row, x.fails = 0,
         users' = [users EXCEPT ![v] = x], ClearFailures(v)
  PROVE  Counts'
<1> USE ConfigAssumption DEF Counts, TypeOK, Exists, ClearFailures
<1>1. IdsAboveCounterUnused'
  BY DEF IdsAboveCounterUnused
<1>2. FailsCounted' /\ ExhaustedIsLocked'
  BY DEF FailsCounted, ExhaustedIsLocked
<1>3. LockoutSpacesGuesses'
  BY DEF LockoutSpacesGuesses
<1>4. QED
  BY <1>1, <1>2, <1>3

(* The step that counts a wrong password: the login was admitted, so the   *)
(* lock earned by an earlier failure has run out.                          *)
LEMMA CountsWrong ==
  ASSUME IndInv, Counts, NEW t \in Thread, LoginWrong(t)
  PROVE  Counts'
<1> DEFINE u == req[t].me
           m == Len(tries[u])
<1>0. TypeOK
  BY DEF IndInv
<1>1. /\ u \in UserId /\ users[u] \in Row /\ users[u] # NoUser
      /\ users[u].until <= now
  BY <1>0 DEF IndInv, RequestersExist, LoginWrong, Active, Exists, Locked,
              TypeOK, Row
<1>2. /\ users' = [users EXCEPT ![u] = Failed(users[u])]
      /\ tries' = [tries EXCEPT ![u] = Append(tries[u], now)]
      /\ UNCHANGED <<lastId, now>>
  BY DEF LoginWrong
<1>3. /\ users'[u] = Failed(users[u])
      /\ \A v \in UserId : v # u => users'[v] = users[v] /\ tries'[v] = tries[v]
      /\ tries[u] \in Seq(Nat) /\ m \in Nat
      /\ tries'[u] = Append(tries[u], now)
      /\ Len(tries'[u]) = m + 1
      /\ tries'[u][m + 1] = now
      /\ \A i \in 1 .. m : tries'[u][i] = tries[u][i]
  BY <1>0, <1>1, <1>2 DEF TypeOK
<1>4. /\ Failed(users[u]).fails = users[u].fails + 1
      /\ Failed(users[u]).until =
           IF users[u].fails + 1 >= MaxAttempts
             THEN now + LockoutMinutes ELSE users[u].until
  BY <1>0, <1>1, RowUpdates
<1>5. users[u].fails = m
  BY <1>1 DEF Counts, FailsCounted, Exists
<1>6. m >= MaxAttempts => now >= tries[u][m] + LockoutMinutes
  BY <1>1, <1>5 DEF Counts, ExhaustedIsLocked, Exists
<1>7. IdsAboveCounterUnused'
  BY <1>1, <1>2, <1>3, <1>0 DEF Counts, IdsAboveCounterUnused, TypeOK
<1>8. FailsCounted'
  BY <1>3, <1>4, <1>5 DEF Counts, FailsCounted, Exists
<1>9. ExhaustedIsLocked'
  BY <1>2, <1>3, <1>4, <1>5 DEF Counts, ExhaustedIsLocked, Exists
<1>10. LockoutSpacesGuesses'
  <2> SUFFICES ASSUME NEW v \in UserId, NEW i \in 1 .. Len(tries'[v]),
                      i > MaxAttempts
               PROVE  tries'[v][i] >= tries'[v][i - 1] + LockoutMinutes
    BY DEF LockoutSpacesGuesses
  <2>1. CASE v # u
    <3>1. tries'[v] = tries[v] /\ i \in 1 .. Len(tries[v])
      BY <1>3, <2>1
    <3>2. QED
      BY <3>1 DEF Counts, LockoutSpacesGuesses
  <2>2. CASE v = u /\ i = m + 1
    <3>1. m >= MaxAttempts /\ m \in 1 .. m /\ i - 1 = m
      BY <1>3, <2>2, ConfigAssumption
    <3>2. QED
      BY <1>3, <1>6, <2>2, <3>1
  <2>3. CASE v = u /\ i # m + 1
    <3>1. i \in 1 .. m /\ i - 1 \in 1 .. m
      BY <1>3, <2>3, ConfigAssumption
    <3>2. QED
      BY <1>3, <2>3, <3>1 DEF Counts, LockoutSpacesGuesses
  <2>4. QED
    BY <2>1, <2>2, <2>3
<1>11. QED
  BY <1>7, <1>8, <1>9, <1>10 DEF Counts

(* A row replaced by one with the same count and lock.                     *)
LEMMA RowReplaced ==
  ASSUME TypeOK, NEW v \in UserId, users[v] \in Row, NEW x, x # NoUser,
         x.fails = users[v].fails, x.until = users[v].until,
         users' = [users EXCEPT ![v] = x]
  PROVE  /\ \A u \in UserId : (users'[u] # NoUser) =>
              /\ users[u] # NoUser
              /\ users'[u].fails = users[u].fails
              /\ users'[u].until = users[u].until
         /\ \A u \in UserId : users[u] # NoUser => users'[u] # NoUser
<1>1. users[v] # NoUser
  BY NullAssumption
<1>2. \A u \in UserId : users'[u] = IF u = v THEN x ELSE users[u]
  BY DEF TypeOK
<1>3. QED
  BY <1>1, <1>2

(* What the steps that rewrite rows leave alone in every row, and what the *)
(* others leave alone altogether.                                          *)
LEMMA RowsKept ==
  ASSUME IndInv, NEW t \in Thread,
         \/ DeactivateMark(t) \/ ChangePassword(t)
         \/ \E k \in Key : GenerateApiKey(t, k)
  PROVE  /\ UNCHANGED <<lastId, tries>>
         /\ \A u \in UserId : (users'[u] # NoUser) =>
              /\ users[u] # NoUser
              /\ users'[u].fails = users[u].fails
              /\ users'[u].until = users[u].until
         /\ \A u \in UserId : users[u] # NoUser => users'[u] # NoUser
<1>0. TypeOK
  BY DEF IndInv
<1>1. \A r \in Row :
        /\ [r EXCEPT !.active = FALSE].fails = r.fails
        /\ [r EXCEPT !.active = FALSE].until = r.until
        /\ \A p \in Password : /\ [r EXCEPT !.pw = p].fails = r.fails
                               /\ [r EXCEPT !.pw = p].until = r.until
        /\ \A k \in Key : /\ [r EXCEPT !.key = k].fails = r.fails
                          /\ [r EXCEPT !.key = k].until = r.until
  BY DEF Row
<1>2. \A r \in Row : /\ [r EXCEPT !.active = FALSE] # NoUser
                     /\ \A p \in Password : [r EXCEPT !.pw = p] # NoUser
                     /\ \A k \in Key : [r EXCEPT !.key = k] # NoUser
  BY <1>0, RowUpdates, NullAssumption
<1>3. CASE DeactivateMark(t)
  <2>1. UNCHANGED <<lastId, tries>>
    BY <1>3 DEF DeactivateMark
  <2>2. CASE Exists(req[t].target)
    <3>1. /\ req[t].target \in UserId /\ users[req[t].target] \in Row
          /\ users' = [users EXCEPT ![req[t].target] =
                         [users[req[t].target] EXCEPT !.active = FALSE]]
      BY <1>0, <1>3, <2>2 DEF DeactivateMark, Exists, TypeOK
    <3>2. QED
      BY <1>0, <1>1, <1>2, <2>1, <3>1, RowReplaced
  <2>3. CASE ~Exists(req[t].target)
    BY <1>3, <2>1, <2>3 DEF DeactivateMark
  <2>4. QED
    BY <2>2, <2>3
<1>4. CASE ChangePassword(t)
  <2>1. req[t].me \in UserId /\ users[req[t].me] \in Row
    BY <1>4, RequesterRow DEF ChangePassword
  <2>2. PICK old \in Password, new \in Password :
          users' = IF users[req[t].me].pw = old
                     THEN [users EXCEPT ![req[t].me].pw = new] ELSE users
    BY <1>4 DEF ChangePassword
  <2>3. UNCHANGED <<lastId, tries>>
    BY <1>4 DEF ChangePassword
  <2>4. CASE users' = users
    BY <2>3, <2>4
  <2>5. CASE users' = [users EXCEPT ![req[t].me] =
                         [users[req[t].me] EXCEPT !.pw = new]]
    BY <1>0, <1>1, <1>2, <2>1, <2>3, <2>5, RowReplaced
  <2>6. QED
    BY <2>2, <2>4, <2>5
<1>5. ASSUME NEW k \in Key, GenerateApiKey(t, k)
      PROVE  /\ UNCHANGED <<lastId, tries>>
             /\ req[t].me \in UserId /\ users[req[t].me] \in Row
             /\ users' = [users EXCEPT ![req[t].me] =
                            [users[req[t].me] EXCEPT !.key = k]]
  BY <1>5, RequesterRow DEF GenerateApiKey
<1>6. CASE \E k \in Key : GenerateApiKey(t, k)
  <2>1. PICK k \in Key : GenerateApiKey(t, k)
    BY <1>6
  <2> DEFINE x == [users[req[t].me] EXCEPT !.key = k]
  <2>2. /\ UNCHANGED <<lastId, tries>>
        /\ req[t].me \in UserId /\ users[req[t].me] \in Row
        /\ users' = [users EXCEPT ![req[t].me] = x]
    BY <1>5, <2>1
  <2>3. /\ x # NoUser
        /\ x.fails = users[req[t].me].fails /\ x.until = users[req[t].me].until
    BY <1>1, <1>2, <2>2
  <2> HIDE DEF x
  <2>4. QED
    BY <1>0, <2>2, <2>3, RowReplaced
<1>7. QED
  BY <1>3, <1>4, <1>6

(* Every step keeps the counts.                                            *)
LEMMA CountsStep == IndInv /\ [Next]_vars => Counts'
<1> SUFFICES ASSUME IndInv, [Next]_vars PROVE Counts'
  OBVIOUS
<1>0. TypeOK /\ Counts
  BY DEF IndInv, Counts
<1>a. ASSUME UNCHANGED <<users, lastId, tries>> PROVE Counts'
  BY <1>0, <1>a, CountsFrame
<1>1. CASE ResetSessions \/ Crash \/ Tick \/ Purge \/ UNCHANGED vars
           \/ \E k \in Token : Logout(k)
  BY <1>1, <1>a DEF ResetSessions, Crash, Tick, Purge, Logout, vars
<1>2. CASE ResetUsers
  <2>1. UNCHANGED <<lastId, tries>> /\ \A u \in UserId : users'[u] = NoUser
    BY <1>2 DEF ResetUsers
  <2>2. QED
    BY <1>0, <2>1, CountsFrame
<1>3. CASE ResetAdmin
  BY <1>0, <1>3, CountsInsert, ConfigAssumption DEF ResetAdmin, Role
<1>4. ASSUME NEW t \in Thread, Handler(t), ~Complete(t) PROVE Counts'
  BY <1>4, <1>a DEF Handler, Authorise, LoginBegin
<1>5. ASSUME NEW t \in Thread, Complete(t) PROVE Counts'
  <2>1. CASE LoginWrong(t)
    BY <1>0, <2>1, CountsWrong
  <2>2. ASSUME NEW k \in Token, LoginRight(t, k) PROVE Counts'
    <3> DEFINE u == req[t].me
    <3>1. /\ u \in UserId /\ users[u] \in Row /\ users[u] # NoUser
      BY <2>2, RequesterRow, NullAssumption DEF LoginRight
    <3>2. Cleared(users[u]) \in Row /\ Cleared(users[u]).fails = 0
      BY <1>0, <3>1, RowUpdates
    <3>3. /\ users' = [users EXCEPT ![u] = Cleared(users[u])]
          /\ ClearFailures(u) /\ UNCHANGED lastId
      BY <2>2 DEF LoginRight
    <3> HIDE DEF u
    <3>4. QED
      BY <1>0, <3>1, <3>2, <3>3, CountsClear
  <2>3. CASE CreateUser(t)
    <3>1. UNCHANGED tries
      BY <2>3 DEF CreateUser
    <3>2. PICK n \in Name, p \in Password, r \in Role :
            IF Taken(n) THEN UNCHANGED <<users, lastId>> ELSE Insert(n, p, r)
      BY <2>3 DEF CreateUser, Role
    <3>3. CASE UNCHANGED <<users, lastId>>
      BY <1>a, <3>1, <3>3
    <3>4. CASE Insert(n, p, r)
      BY <1>0, <3>1, <3>4, CountsInsert
    <3>5. QED
      BY <3>2, <3>3, <3>4
  <2>4. CASE DeactivateMark(t) \/ ChangePassword(t)
             \/ \E k \in Key : GenerateApiKey(t, k)
    BY <1>0, <2>4, RowsKept, CountsFrame
  <2>5. CASE DeactivateKill(t)
    BY <1>a, <2>5 DEF DeactivateKill
  <2>6. CASE SetPassword(t)
    <3> DEFINE v == req[t].target
    <3>1. CASE Exists(v)
      <4>1. /\ \E new \in Password :
                 users' = [users EXCEPT ![v] = [Cleared(users[v]) EXCEPT !.pw = new]]
            /\ ClearFailures(v)
            /\ UNCHANGED lastId
        BY <2>6, <3>1 DEF SetPassword
      <4>2. PICK new \in Password :
              users' = [users EXCEPT ![v] = [Cleared(users[v]) EXCEPT !.pw = new]]
        BY <4>1
      <4>3. v \in UserId /\ users[v] # NoUser /\ users[v] \in Row
        BY <1>0, <3>1 DEF Exists, TypeOK
      <4>4. Cleared(users[v]) \in Row /\ Cleared(users[v]).fails = 0
        BY <1>0, <4>3, RowUpdates
      <4>5. /\ [Cleared(users[v]) EXCEPT !.pw = new] \in Row
            /\ [Cleared(users[v]) EXCEPT !.pw = new].fails = 0
        BY <4>4 DEF Row
      <4> HIDE DEF v
      <4>6. QED
        BY <1>0, <4>1, <4>2, <4>3, <4>5, CountsClear
    <3>2. CASE ~Exists(v)
      BY <1>a, <2>6, <3>2 DEF SetPassword
    <3>3. QED
      BY <3>1, <3>2
  <2>7. QED
    BY <1>5, <2>1, <2>2, <2>3, <2>4, <2>5, <2>6 DEF Complete
<1>6. QED
  BY <1>1, <1>2, <1>3, <1>4, <1>5 DEF Next

(* No request deletes an account or changes its role, new accounts are     *)
(* active, and only a deactivation changes which accounts are.             *)
LEMMA RowsSurvive ==
  ASSUME IndInv, NEW t \in Thread, Complete(t)
  PROVE  \A v \in UserId :
           /\ users[v] # NoUser =>
                /\ users'[v] # NoUser
                /\ users'[v].role = users[v].role
                /\ v # req[t].target \/ ~DeactivateMark(t)
                     => users'[v].active = users[v].active
           /\ users[v] = NoUser /\ users'[v] # NoUser => users'[v].active
<1>0. TypeOK
  BY DEF IndInv
<1> DEFINE Survive == \A v \in UserId :
                        /\ users[v] # NoUser =>
                             /\ users'[v] # NoUser
                             /\ users'[v].role = users[v].role
                             /\ v # req[t].target \/ ~DeactivateMark(t)
                                  => users'[v].active = users[v].active
                        /\ users[v] = NoUser /\ users'[v] # NoUser
                             => users'[v].active
<1>1. ASSUME NEW v \in UserId, NEW x \in Row, users[v] \in Row,
             x.role = users[v].role,
             v # req[t].target \/ ~DeactivateMark(t) => x.active = users[v].active,
             users' = [users EXCEPT ![v] = x]
      PROVE  Survive
  <2>1. x # NoUser /\ users[v] # NoUser
    BY <1>1, NullAssumption
  <2>2. \A u \in UserId : users'[u] = IF u = v THEN x ELSE users[u]
    BY <1>0, <1>1 DEF TypeOK
  <2>3. QED
    BY <1>1, <2>1, <2>2
<1>2. \A r \in Row : /\ \A p \in Password : /\ [r EXCEPT !.pw = p].active = r.active
                                             /\ [r EXCEPT !.pw = p].role = r.role
                     /\ \A k \in Key : /\ [r EXCEPT !.key = k].active = r.active
                                        /\ [r EXCEPT !.key = k].role = r.role
                     /\ [r EXCEPT !.active = FALSE].role = r.role
                     /\ Failed(r).role = r.role /\ Cleared(r).role = r.role
  BY DEF Row, Failed, Cleared
<1>3. CASE LoginWrong(t) \/ \E k \in Token : LoginRight(t, k)
  <2> DEFINE u == req[t].me
  <2>1. u \in UserId /\ users[u] \in Row
    BY <1>3, RequesterRow DEF LoginWrong, LoginRight
  <2>2. /\ Failed(users[u]) \in Row /\ Failed(users[u]).active = users[u].active
        /\ Cleared(users[u]) \in Row /\ Cleared(users[u]).active = users[u].active
    BY <1>0, <2>1, RowUpdates
  <2>a. Failed(users[u]).role = users[u].role /\ Cleared(users[u]).role = users[u].role
    BY <1>2, <2>1
  <2>3. \/ users' = [users EXCEPT ![u] = Failed(users[u])]
        \/ users' = [users EXCEPT ![u] = Cleared(users[u])]
    BY <1>3 DEF LoginWrong, LoginRight
  <2> HIDE DEF u, Survive
  <2>4. QED
    BY <1>1, <2>1, <2>2, <2>a, <2>3 DEF Survive
<1>4. CASE SetPassword(t)
  <2> DEFINE v == req[t].target
  <2>1. CASE Exists(v)
    <3>1. PICK new \in Password :
            users' = [users EXCEPT ![v] = [Cleared(users[v]) EXCEPT !.pw = new]]
      BY <1>4, <2>1 DEF SetPassword
    <3>2. v \in UserId /\ users[v] \in Row
      BY <1>0, <2>1 DEF Exists, TypeOK
    <3>3. Cleared(users[v]) \in Row /\ Cleared(users[v]).active = users[v].active
          /\ Cleared(users[v]).role = users[v].role
      BY <1>0, <1>2, <3>2, RowUpdates
    <3>4. /\ [Cleared(users[v]) EXCEPT !.pw = new] \in Row
          /\ [Cleared(users[v]) EXCEPT !.pw = new].active = users[v].active
          /\ [Cleared(users[v]) EXCEPT !.pw = new].role = users[v].role
      BY <1>0, <1>2, <3>3, RowUpdates
    <3> HIDE DEF v, Survive
    <3>5. QED
      BY <1>1, <3>1, <3>2, <3>4 DEF Survive
  <2>2. CASE ~Exists(v)
    BY <1>4, <2>2 DEF SetPassword
  <2>3. QED
    BY <2>1, <2>2
<1>5. CASE CreateUser(t)
  <2>1. \A n \in Name, p \in Password, r \in Role : NewRow(n, p, r) # NoUser
        /\ NewRow(n, p, r).active
    BY NewRowType, NullAssumption DEF NewRow
  <2>2. PICK n \in Name, p \in Password, r \in Role :
          IF Taken(n) THEN UNCHANGED <<users, lastId>> ELSE Insert(n, p, r)
    BY <1>5 DEF CreateUser, Role
  <2>3. CASE UNCHANGED <<users, lastId>>
    BY <2>3
  <2>4. CASE Insert(n, p, r)
    <3>1. lastId + 1 \in UserId /\ users[lastId + 1] = NoUser
      BY <1>0, <2>4, BoundsAssumption
      DEF Insert, IndInv, IdsAboveCounterUnused, TypeOK, UserId
    <3>2. \A v \in UserId : v # lastId + 1 => users'[v] = users[v]
      BY <1>0, <2>4 DEF Insert, TypeOK
    <3>3. users'[lastId + 1] = NewRow(n, p, r)
      BY <1>0, <2>4, <3>1 DEF Insert, TypeOK
    <3>4. QED
      BY <2>1, <3>1, <3>2, <3>3
  <2>5. QED
    BY <2>2, <2>3, <2>4
<1>6. CASE ChangePassword(t)
  <2> DEFINE u == req[t].me
  <2>1. u \in UserId /\ users[u] \in Row
    BY <1>6, RequesterRow DEF ChangePassword
  <2>2. PICK new \in Password :
          \/ users' = users
          \/ users' = [users EXCEPT ![u] = [users[u] EXCEPT !.pw = new]]
    BY <1>6 DEF ChangePassword
  <2>3. [users[u] EXCEPT !.pw = new] \in Row
        /\ [users[u] EXCEPT !.pw = new].active = users[u].active
        /\ [users[u] EXCEPT !.pw = new].role = users[u].role
    BY <1>0, <1>2, <2>1, RowUpdates
  <2> HIDE DEF u, Survive
  <2>4. CASE users' = users
    BY <2>4 DEF Survive
  <2>5. QED
    BY <1>1, <2>1, <2>2, <2>3, <2>4 DEF Survive
<1>7. CASE \E k \in Key : GenerateApiKey(t, k)
  <2> DEFINE u == req[t].me
  <2>1. PICK k \in Key : GenerateApiKey(t, k)
    BY <1>7
  <2>2. u \in UserId /\ users[u] \in Row
    BY <2>1, RequesterRow DEF GenerateApiKey
  <2>3. users' = [users EXCEPT ![u] = [users[u] EXCEPT !.key = k]]
    BY <2>1 DEF GenerateApiKey
  <2>4. [users[u] EXCEPT !.key = k] \in Row
        /\ [users[u] EXCEPT !.key = k].active = users[u].active
        /\ [users[u] EXCEPT !.key = k].role = users[u].role
    BY <1>0, <1>2, <2>2, RowUpdates
  <2> HIDE DEF u, Survive
  <2>5. QED
    BY <1>1, <2>2, <2>3, <2>4 DEF Survive
<1>8. CASE DeactivateKill(t)
  BY <1>8 DEF DeactivateKill
<1>9. CASE DeactivateMark(t)
  <2> DEFINE v == req[t].target
  <2>1. CASE Exists(v)
    <3>1. v \in UserId /\ users[v] \in Row
      BY <1>0, <2>1 DEF Exists, TypeOK
    <3>2. users' = [users EXCEPT ![v] = [users[v] EXCEPT !.active = FALSE]]
      BY <1>9, <2>1 DEF DeactivateMark
    <3>3. /\ [users[v] EXCEPT !.active = FALSE] \in Row
          /\ [users[v] EXCEPT !.active = FALSE].role = users[v].role
      BY <1>0, <1>2, <3>1, RowUpdates
    <3> HIDE DEF Survive
    <3>4. QED
      BY <1>1, <1>9, <3>1, <3>2, <3>3 DEF Survive
  <2>2. CASE ~Exists(v)
    BY <1>9, <2>2 DEF DeactivateMark
  <2>3. QED
    BY <2>1, <2>2
<1>10. QED
  BY <1>3, <1>4, <1>5, <1>6, <1>7, <1>8, <1>9 DEF Complete

(* The accounts a request has in hand stay, and an admitted login stays    *)
(* admitted: only the holder of the mutex writes the rows, and time only   *)
(* takes a lock away.                                                      *)
LEMMA RequestersStep == IndInv /\ [Next]_vars => RequestersExist'
<1> SUFFICES ASSUME IndInv, [Next]_vars PROVE RequestersExist'
  OBVIOUS
<1>0. TypeOK /\ RequestersExist /\ LockDiscipline /\ NoRequestsWhenStopped
  BY DEF IndInv
<1> DEFINE OK(s) == /\ req[s] # Idle => Exists(req[s].me)
                    /\ req[s].op = "login" =>
                         Active(req[s].me) /\ ~Locked(req[s].me)
<1>a. (\A s \in Thread : OK(s)') => RequestersExist'
  BY DEF RequestersExist
<1>b. \A s \in Thread : OK(s)
  BY <1>0 DEF RequestersExist
<1>c. Idle.op # "login"
  BY DEF Idle
<1>1. CASE ResetSessions \/ Purge \/ UNCHANGED vars
           \/ \E k \in Token : Logout(k)
  BY <1>1, <1>a, <1>b DEF ResetSessions, Purge, Logout, vars, Exists, Active, Locked
<1>2. CASE Tick
  <2>1. now \in Nat /\ now' = now + 1 /\ UNCHANGED <<users, req>>
    BY <1>0, <1>2 DEF Tick, TypeOK
  <2>2. ASSUME NEW s \in Thread PROVE OK(s)'
    <3>1. req[s].op = "login" => users[req[s].me].until \in Nat
      BY <1>0, <1>b DEF Active, Exists, TypeOK, Row
    <3>2. QED
      BY <1>b, <2>1, <3>1 DEF Exists, Active, Locked
  <2>3. QED
    BY <1>a, <2>2
<1>3. CASE ResetUsers \/ ResetAdmin \/ Crash
  <2>1. \A s \in Thread : req'[s] = Idle
    BY <1>0, <1>3 DEF ResetUsers, ResetAdmin, Crash, NoRequestsWhenStopped
  <2>2. QED
    BY <1>a, <1>c, <2>1
<1>4. ASSUME NEW t \in Thread, NEW op \in Op, NEW u \in UserId, NEW v,
             Authorise(t, op, u, v), op # "login"
      PROVE  RequestersExist'
  <2>1. Active(u) /\ UNCHANGED <<users, now>>
    BY <1>4 DEF Authorise, Authenticated, SessionUser, KeyUser
  <2>2. req' = [req EXCEPT ![t] = [op |-> op, me |-> u, target |-> v]]
    BY <1>4 DEF Authorise
  <2>3. QED
    BY <1>0, <1>a, <1>b, <1>4, <2>1, <2>2 DEF TypeOK, Exists, Active, Locked
<1>5. ASSUME NEW t \in Thread, NEW u \in UserId, LoginBegin(t, u)
      PROVE  RequestersExist'
  <2>1. Active(u) /\ ~Locked(u) /\ UNCHANGED <<users, now>>
        /\ req' = [req EXCEPT ![t] = [op |-> "login", me |-> u, target |-> 0]]
    BY <1>5 DEF LoginBegin
  <2>2. QED
    BY <1>0, <1>a, <1>b, <2>1 DEF TypeOK, Exists, Active, Locked
<1>6. ASSUME NEW t \in Thread, Complete(t) PROVE RequestersExist'
  <2>1. \A s \in Thread : s # t => req'[s] = req[s] /\ req[s].op # "login"
    <3>1. mu \in {Free, t}
      BY <1>0, <1>6, NullAssumption
      DEF Complete, CreateUser, DeactivateMark, DeactivateKill, ChangePassword,
          SetPassword, GenerateApiKey, LoginWrong, LoginRight, LockDiscipline
    <3>2. \A s \in Thread : s # t => req[s].op # "login"
      BY <1>0, <3>1, NullAssumption DEF LockDiscipline
    <3>3. \A s \in Thread : s # t => req'[s] = req[s]
      BY <1>0, <1>6
      DEF Complete, CreateUser, DeactivateMark, DeactivateKill, ChangePassword,
          SetPassword, GenerateApiKey, LoginWrong, LoginRight, Finish, TypeOK
    <3>4. QED
      BY <3>2, <3>3
  <2>2. req'[t].op # "login"
        /\ (req'[t] # Idle => req[t] # Idle /\ req'[t].me = req[t].me)
    <3>1. CASE DeactivateMark(t)
      <4>1. /\ req'[t] = [req[t] EXCEPT !.op = "kill"] /\ req[t] \in Request
            /\ req[t].op # "idle"
        BY <1>0, <3>1 DEF DeactivateMark, TypeOK
      <4>2. QED
        BY <4>1 DEF Request, Idle
    <3>2. CASE ~DeactivateMark(t)
      <4>1. req'[t] = Idle
        BY <1>0, <1>6, <3>2
        DEF Complete, CreateUser, DeactivateKill, ChangePassword, SetPassword,
            GenerateApiKey, LoginWrong, LoginRight, Finish, TypeOK
      <4>2. QED
        BY <1>c, <4>1
    <3>3. QED
      BY <3>1, <3>2
  <2>3. \A v \in UserId : users[v] # NoUser => users'[v] # NoUser
    BY <1>6, RowsSurvive
  <2>4. ASSUME NEW s \in Thread PROVE OK(s)'
    <3>1. CASE s = t
      BY <1>b, <2>2, <2>3, <3>1 DEF Exists
    <3>2. CASE s # t
      BY <1>b, <2>1, <2>3, <3>2 DEF Exists
    <3>3. QED
      BY <3>1, <3>2
  <2>5. QED
    BY <1>a, <2>4
<1>7. ASSUME NEW t \in Thread, Handler(t) PROVE RequestersExist'
  <2>1. /\ {"create", "chpw", "deactivate", "setpw", "apikey"} \subseteq Op
        /\ "login" \notin {"create", "chpw", "deactivate", "setpw", "apikey"}
    BY DEF Op
  <2>2. QED
    BY <1>4, <1>5, <1>6, <1>7, <2>1, ZenonT(60) DEF Handler
<1>8. QED
  BY <1>1, <1>2, <1>3, <1>7 DEF Next

(* A step that adds no session, loses no account, deactivates no one and   *)
(* leaves every deactivation in progress where it is.                      *)
LEMMA SessionsFrame ==
  ASSUME OnlyKillersLeaveSessions, proc' = proc,
         \A k \in Token : sessions'[k] # NoSession => sessions'[k] = sessions[k],
         \A u \in UserId : Exists(u) => Exists(u)',
         \A u \in UserId : Active(u) => Active(u)',
         \A s \in Thread : req[s].op = "kill" => req'[s] = req[s]
  PROVE  OnlyKillersLeaveSessions'
BY DEF OnlyKillersLeaveSessions, Exists, Active

LEMMA SessionsStep == IndInv /\ [Next]_vars => OnlyKillersLeaveSessions'
<1> SUFFICES ASSUME IndInv, [Next]_vars PROVE OnlyKillersLeaveSessions'
  OBVIOUS
<1>0. /\ TypeOK /\ RequestersExist /\ LockDiscipline /\ NoRequestsWhenStopped
      /\ OnlyKillersLeaveSessions
  BY DEF IndInv
<1>1. CASE ResetSessions
  BY <1>1 DEF ResetSessions, OnlyKillersLeaveSessions
<1>2. CASE ResetUsers \/ ResetAdmin
  BY <1>0, <1>2 DEF ResetUsers, ResetAdmin, OnlyKillersLeaveSessions
<1>3. CASE Crash
  BY <1>0, <1>3 DEF Crash, OnlyKillersLeaveSessions, Exists
<1>4. CASE Tick \/ Purge \/ UNCHANGED vars \/ \E k \in Token : Logout(k)
  <2>1. /\ UNCHANGED <<proc, users, req>>
        /\ \A k \in Token : sessions'[k] # NoSession => sessions'[k] = sessions[k]
    BY <1>0, <1>4 DEF Tick, Purge, vars, Logout, TypeOK
  <2>2. QED
    BY <1>0, <2>1, SessionsFrame DEF Exists, Active
<1>5. ASSUME NEW t \in Thread, Handler(t), ~Complete(t)
      PROVE  OnlyKillersLeaveSessions'
  <2>1. /\ UNCHANGED <<proc, users, sessions>>
        /\ req[t] = Idle /\ \A s \in Thread : s # t => req'[s] = req[s]
    BY <1>0, <1>5 DEF Handler, Authorise, LoginBegin, Serving, TypeOK
  <2>2. Idle.op # "kill"
    BY DEF Idle
  <2>3. QED
    BY <1>0, <2>1, <2>2, SessionsFrame DEF Exists, Active
<1>6. ASSUME NEW t \in Thread, Complete(t) PROVE OnlyKillersLeaveSessions'
  <2>1. \A s \in Thread : s # t => req'[s] = req[s]
    BY <1>0, <1>6
    DEF Complete, CreateUser, DeactivateMark, DeactivateKill, ChangePassword,
        SetPassword, GenerateApiKey, LoginWrong, LoginRight, Finish, TypeOK
  <2>2. proc' = proc
    BY <1>6
    DEF Complete, CreateUser, DeactivateMark, DeactivateKill, ChangePassword,
        SetPassword, GenerateApiKey, LoginWrong, LoginRight
  <2>3. /\ \A u \in UserId : Exists(u) => Exists(u)'
        /\ ~DeactivateMark(t) => \A u \in UserId : Active(u) => Active(u)'
    BY <1>6, RowsSurvive DEF Exists, Active
  <2>4. CASE \/ CreateUser(t) \/ ChangePassword(t) \/ SetPassword(t)
             \/ (\E k \in Key : GenerateApiKey(t, k)) \/ LoginWrong(t)
    <3>1. sessions' = sessions /\ req[t].op # "kill" /\ ~DeactivateMark(t)
      BY <2>4
      DEF CreateUser, ChangePassword, SetPassword, GenerateApiKey, LoginWrong,
          DeactivateMark
    <3>2. QED
      BY <1>0, <2>1, <2>2, <2>3, <3>1, SessionsFrame
  <2>5. ASSUME NEW k \in Token, LoginRight(t, k)
        PROVE  OnlyKillersLeaveSessions'
    <3>1. req[t].op = "login" /\ Active(req[t].me) /\ ~DeactivateMark(t)
      BY <1>0, <2>5 DEF LoginRight, RequestersExist, DeactivateMark
    <3>2. \A j \in Token : sessions'[j] =
            IF j = k THEN NewSession(req[t].me) ELSE sessions[j]
      BY <1>0, <2>5 DEF LoginRight, TypeOK
    <3>3. NewSession(req[t].me).user = req[t].me
      BY DEF NewSession
    <3>4. /\ req[t].me \in UserId
          /\ users'[req[t].me] # NoUser /\ users'[req[t].me].active
      BY <1>6, <3>1, RowsSurvive DEF Active, Exists
    <3>5. proc = "up"
      BY <1>0, <3>1 DEF NoRequestsWhenStopped, Idle
    <3>6. SUFFICES ASSUME NEW j \in Token, sessions'[j] # NoSession
                   PROVE  LET u == sessions'[j].user
                          IN /\ u \in UserId /\ users'[u] # NoUser
                             /\ \/ users'[u].active
                                \/ \E s \in Thread :
                                     req'[s].op = "kill" /\ req'[s].target = u
      BY <2>2, <3>5 DEF OnlyKillersLeaveSessions, Exists, Active
    <3>7. CASE j = k
      BY <3>2, <3>3, <3>4, <3>7
    <3>8. CASE j # k
      BY <1>0, <2>1, <2>3, <3>1, <3>2, <3>5, <3>6, <3>8
      DEF OnlyKillersLeaveSessions, Exists, Active
    <3>9. QED
      BY <3>7, <3>8
  <2>6. CASE DeactivateMark(t)
    <3>1. /\ sessions' = sessions /\ req[t].op = "deactivate"
          /\ req'[t] = [req[t] EXCEPT !.op = "kill"]
          /\ \A u \in UserId : u # req[t].target => users'[u] = users[u]
      BY <1>0, <2>6 DEF DeactivateMark, TypeOK
    <3>2. req'[t].op = "kill" /\ req'[t].target = req[t].target
      BY <1>0, <3>1 DEF TypeOK, Request
    <3>3. SUFFICES ASSUME NEW k \in Token, sessions[k] # NoSession
                   PROVE  LET u == sessions[k].user
                          IN /\ proc \in {"down", "up"}
                             /\ u \in UserId /\ users'[u] # NoUser
                             /\ proc = "up" =>
                                  \/ users'[u].active
                                  \/ \E s \in Thread :
                                       req'[s].op = "kill" /\ req'[s].target = u
      BY <2>2, <3>1 DEF OnlyKillersLeaveSessions, Exists, Active
    <3>4. CASE sessions[k].user = req[t].target
      BY <1>0, <2>3, <3>2, <3>3, <3>4 DEF OnlyKillersLeaveSessions, Exists
    <3>5. CASE sessions[k].user # req[t].target
      BY <1>0, <2>1, <2>3, <3>1, <3>3, <3>5
      DEF OnlyKillersLeaveSessions, Exists, Active
    <3>6. QED
      BY <3>4, <3>5
  <2>7. CASE DeactivateKill(t)
    <3>1. /\ users' = users
          /\ \A k \in Token : sessions'[k] # NoSession =>
               sessions'[k] = sessions[k] /\ sessions[k].user # req[t].target
      BY <1>0, <2>7 DEF DeactivateKill, WithoutSessionsOf, TypeOK
    <3>2. QED
      BY <1>0, <2>1, <2>2, <3>1 DEF OnlyKillersLeaveSessions, Exists, Active
  <2>8. QED
    BY <1>6, <2>4, <2>5, <2>6, <2>7 DEF Complete
<1>7. QED
  BY <1>1, <1>2, <1>3, <1>4, <1>5, <1>6 DEF Next

LEMMA IndInvStep == IndInv /\ [Next]_vars => IndInv'
BY TypeStep, LockStep, RequestersStep, CountsStep, SessionsStep
DEF IndInv, Counts

LEMMA Invariance == Spec => []IndInv
<1>1. QED
  BY InitInv, IndInvStep, PTL DEF Spec

(* Type correctness of accounts, sessions, requests and the clock.         *)
THEOREM TypeCorrect == Spec => []TypeOK
<1>1. IndInv => TypeOK
  BY DEF IndInv
<1>2. QED
  BY <1>1, Invariance, PTL

(* Once a deactivation has answered, no session of the account is left.    *)
THEOREM DeactivationTheorem == Spec => []DeactivationKillsSessions
<1>1. IndInv => DeactivationKillsSessions
  <2>1. SUFFICES ASSUME IndInv, proc = "up", mu = Free, NEW k \in Token,
                        sessions[k] # NoSession
                 PROVE  Active(sessions[k].user)
    BY DEF DeactivationKillsSessions
  <2>2. \A t \in Thread : req[t].op # "kill"
    BY <2>1, NullAssumption DEF IndInv, LockDiscipline
  <2>3. QED
    BY <2>1, <2>2 DEF IndInv, OnlyKillersLeaveSessions
<1>2. QED
  BY <1>1, Invariance, PTL

(* An account that used up its attempts carries the lock of its last       *)
(* failure.                                                                *)
THEOREM ExhaustedTheorem == Spec => []ExhaustedIsLocked
<1>1. IndInv => ExhaustedIsLocked
  BY DEF IndInv
<1>2. QED
  BY <1>1, Invariance, PTL

(* From the MaxAttempts-th on, wrong passwords are LockoutMinutes apart.   *)
THEOREM LockoutTheorem == Spec => []LockoutSpacesGuesses
<1>1. IndInv => LockoutSpacesGuesses
  BY DEF IndInv
<1>2. QED
  BY <1>1, Invariance, PTL

=============================================================================
