---------------------------- MODULE SessionGrants ----------------------------
(***************************************************************************)
(* What AuthManager promises about sessions, said without tables, locks,   *)
(* purges or restarts in the middle: a token is granted once, to a user    *)
(* who is not barred, for SessionMinutes and never longer; it ends at its  *)
(* time or at a logout, all of a user's tokens end in the one step that    *)
(* bars the user, and a restart ends every token.                          *)
(***************************************************************************)
EXTENDS Naturals

CONSTANTS User, Token, SessionMinutes, NoGrant

VARIABLES
  grants,   \* the tokens that open a session now
  spent,    \* tokens granted at any time
  barred,   \* deactivated users
  now

gvars == <<grants, spent, barred, now>>

Grant == [user : User, expires : Nat]

Ended == [k \in Token |-> NoGrant]

GInit == grants = Ended /\ spent = {} /\ barred = {} /\ now = 0

Issue(k, u) ==
  /\ k \notin spent /\ u \notin barred
  /\ grants' = [grants EXCEPT ![k] = [user |-> u,
                                       expires |-> now + SessionMinutes]]
  /\ spent' = spent \cup {k}
  /\ UNCHANGED <<barred, now>>

Revoke(k) ==
  /\ grants' = [grants EXCEPT ![k] = NoGrant]
  /\ UNCHANGED <<spent, barred, now>>

Bar(u) ==
  /\ barred' = barred \cup {u}
  /\ grants' = [k \in Token |-> IF grants[k] # NoGrant /\ grants[k].user = u
                                  THEN NoGrant ELSE grants[k]]
  /\ UNCHANGED <<spent, now>>

Pass ==
  /\ now' = now + 1
  /\ grants' = [k \in Token |-> IF grants[k] # NoGrant
                                   /\ grants[k].expires <= now'
                                  THEN NoGrant ELSE grants[k]]
  /\ UNCHANGED <<spent, barred>>

Restart ==
  /\ grants' = Ended
  /\ barred' \in {barred, {}}
  /\ UNCHANGED <<spent, now>>

GNext ==
  \/ \E k \in Token, u \in User : Issue(k, u)
  \/ \E k \in Token : Revoke(k)
  \/ \E u \in User : Bar(u)
  \/ Pass \/ Restart

GSpec == GInit /\ [][GNext]_gvars

=============================================================================
