------------------------------ MODULE AuthProps ------------------------------
(***************************************************************************)
(* What user accounts, sessions and lockout must guarantee (module Auth).  *)
(***************************************************************************)
EXTENDS Auth

(* Once DELETE /api/users/:id has answered, the deactivated account has no *)
(* session row left, and none appears later: a login cannot slip between   *)
(* the two statements of deactivate_user, and a crash between them leaves  *)
(* rows only until the next start.                                         *)
DeactivationKillsSessions ==
  proc = "up" /\ mu = Free =>
    \A k \in Token : sessions[k] # NoSession => Active(sessions[k].user)

(* A wrong password counts against the account until a success or an       *)
(* administrator clears it, and no account is tried again while it is      *)
(* locked: from the MaxAttempts-th wrong password on, two wrong passwords  *)
(* are LockoutMinutes apart, whatever threads, restarts and the clock do   *)
(* (login, under one lock).                                                *)
LockoutSpacesGuesses ==
  \A u \in UserId : \A i \in 1 .. Len(tries[u]) :
    i > MaxAttempts => tries[u][i] >= tries[u][i - 1] + LockoutMinutes

(* The lock protects the pair (failed_logins, locked_until): outside a     *)
(* login, an account that has used up its attempts carries the lock its    *)
(* last failure earned.                                                    *)
ExhaustedIsLocked ==
  \A u \in UserId :
    Exists(u) /\ users[u].fails >= MaxAttempts =>
      /\ Len(tries[u]) = users[u].fails
      /\ users[u].until = tries[u][Len(tries[u])] + LockoutMinutes

(* An administrator may deactivate anyone but herself, so while handlers   *)
(* run one at a time an active administrator always remains, if the reset  *)
(* makes one: with AdminRole other than "admin" there never is any.        *)
ActiveAdminRemains ==
  proc = "up" => \E u \in UserId : Active(u) /\ users[u].role = "admin"

(* What the handlers see as sessions implements the abstract promise; the  *)
(* rows a purge deletes, or a deactivation has still to delete, are not    *)
(* sessions any more.                                                      *)
Granted(k) == \E u \in UserId : SessionUser(k, u)

Grants == [k \in Token |-> IF Granted(k) THEN sessions[k] ELSE NoSession]
Spent == issued \cap Token
Barred == {u \in UserId : Exists(u) /\ ~users[u].active}

Promise == INSTANCE SessionGrants WITH
  User <- UserId, NoGrant <- NoSession,
  grants <- Grants, spent <- Spent, barred <- Barred

KeepsSessionPromise == Promise!GSpec

-----------------------------------------------------------------------------
(* The inductive invariant behind LockoutSpacesGuesses, ExhaustedIsLocked  *)
(* and DeactivationKillsSessions (proved in AuthProofs).                   *)

(* mu_ is held exactly by the thread inside login or between the two       *)
(* statements of deactivate_user.                                          *)
LockDiscipline ==
  \A t \in Thread : req[t].op \in {"login", "kill"} <=> mu = t

(* Requests live only while the process serves.                            *)
NoRequestsWhenStopped ==
  proc # "up" => mu = Free /\ \A t \in Thread : req[t] = Idle

(* A request in progress is that of an account that exists, and a login    *)
(* past its checks is that of an active account that is not locked.        *)
RequestersExist ==
  \A t \in Thread :
    /\ req[t] # Idle => Exists(req[t].me)
    /\ req[t].op = "login" => Active(req[t].me) /\ ~Locked(req[t].me)

(* Ids above the AUTOINCREMENT counter were never used.                    *)
IdsAboveCounterUnused ==
  \A u \in UserId : u > lastId => users[u] = NoUser /\ tries[u] = <<>>

(* failed_logins counts the wrong passwords since the last clear.          *)
FailsCounted ==
  \A u \in UserId : Exists(u) => users[u].fails = Len(tries[u])

(* A session row outlives its account's deactivation only until the thread *)
(* that deactivates it runs its second statement; the start of the process *)
(* begins by deleting every row.                                           *)
OnlyKillersLeaveSessions ==
  \A k \in Token : sessions[k] # NoSession =>
    /\ proc \in {"down", "up"}
    /\ Exists(sessions[k].user)
    /\ proc = "up" =>
         \/ Active(sessions[k].user)
         \/ \E t \in Thread :
              req[t].op = "kill" /\ req[t].target = sessions[k].user

IndInv ==
  /\ TypeOK
  /\ LockDiscipline
  /\ NoRequestsWhenStopped
  /\ RequestersExist
  /\ IdsAboveCounterUnused
  /\ FailsCounted
  /\ ExhaustedIsLocked
  /\ LockoutSpacesGuesses
  /\ OnlyKillersLeaveSessions

(* What the promise about sessions needs besides: between its two          *)
(* statements a deactivation has barred its target already.                *)
KillersBarred ==
  \A t \in Thread : req[t].op = "kill" => ~Active(req[t].target)

(* What ActiveAdminRemains needs besides, while handlers run one at a      *)
(* time: whoever is about to deactivate an account is an active            *)
(* administrator, and not that account.                                    *)
DeactivatorsAreAdmins ==
  \A t \in Thread : req[t].op = "deactivate" =>
    /\ Active(req[t].me) /\ users[req[t].me].role = "admin"
    /\ req[t].me # req[t].target

-----------------------------------------------------------------------------
(* Fairness: the purge thread is a loop of its own, and lock_guard waits   *)
(* until the mutex is free; a handler that holds the mutex runs on.        *)
FairSpec ==
  /\ Spec
  /\ SF_vars(Purge)
  /\ \A t \in Thread : WF_vars(DeactivateKill(t) \/ LoginWrong(t)
                               \/ \E k \in Token : LoginRight(t, k))

(* The table does not fill up with dead sessions: a session past its time  *)
(* is deleted by the purge, unless the process stops first.                *)
ExpiredSessionsAreDeleted ==
  \A k \in Token :
    sessions[k] # NoSession /\ sessions[k].expires < now
      ~> sessions[k] = NoSession \/ proc = "down"

=============================================================================
