----------------------------- MODULE RateLimiter -----------------------------
(***************************************************************************)
(* The login rate limiter: AuthManager::check_rate_limit (src/src/auth.cpp)*)
(* as the login handler uses it.  The thread reads the clock first and     *)
(* takes mu_ afterwards, and mu_ is held by every login while it runs      *)
(* bcrypt, so threads may be decided in another order than they were       *)
(* stamped, and long after.                                                *)
(*                                                                         *)
(* The limit is not per client, nor per address of a connection: it is per *)
(* key, and the key is what the request says in x-forwarded-for, else in   *)
(* x-real-ip, else a constant.  All clients that send neither header share *)
(* one key, and any client may name any key.                               *)
(*                                                                         *)
(* Nothing depends on the order of the vector the stamps are kept in, so   *)
(* it is a set; its elements carry their number among the key's admitted   *)
(* attempts, which the code does not keep, for two attempts may have the   *)
(* same stamp.                                                             *)
(***************************************************************************)
EXTENDS Integers, Sequences, FiniteSets

CONSTANTS
  Header,       \* what x-forwarded-for or x-real-ip may say
  Local,        \* "local", the key of a request with neither
  Thread,
  RateLimit,    \* security.rate_limit_login_per_minute
  Window,       \* the age beyond which an attempt is forgotten
  MaxTime,      \* bound: the last tick of the clock
  MaxWait,      \* the longest a stamped call waits for mu_
  Nobody        \* no such header; no call

Key == Header \cup {Local}

ASSUME LimiterAssumption ==
  /\ RateLimit \in Nat /\ Window \in Nat /\ MaxTime \in Nat
  /\ MaxWait \in Nat
  /\ Nobody \notin Key

VARIABLES
  now,       \* steady_clock
  call,      \* call[t]: the key a thread is asking for, and its stamp
  attempts,  \* rate_map_: per key, the attempts still remembered
  admitted   \* history: per key, when each admitted attempt was stamped
             \* and when it was admitted

vars == <<now, call, attempts, admitted>>

NoCall == [ip |-> Nobody, stamp |-> 0]

TypeOK ==
  /\ now \in Nat
  /\ call \in [Thread -> [ip : Key \cup {Nobody}, stamp : Nat]]
  /\ attempts \in [Key -> SUBSET [nth : Nat, stamp : Nat]]
  /\ \A i \in Key : IsFiniteSet(attempts[i])
  /\ admitted \in [Key -> Seq([stamp : Nat, at : Nat])]

Init ==
  /\ now = 0
  /\ call = [t \in Thread |-> NoCall]
  /\ attempts = [i \in Key |-> {}]
  /\ admitted = [i \in Key |-> <<>>]

Tick ==
  /\ now < MaxTime
  /\ \A t \in Thread : call[t] # NoCall => now - call[t].stamp < MaxWait
  /\ now' = now + 1
  /\ UNCHANGED <<call, attempts, admitted>>

(* The key the login handler makes of a request's headers.                 *)
KeyOf(forwarded, real) ==
  IF forwarded # Nobody THEN forwarded
  ELSE IF real # Nobody THEN real ELSE Local

(* The first line of check_rate_limit, before the mutex.                   *)
Stamp(t, key) ==
  /\ call[t] = NoCall
  /\ call' = [call EXCEPT ![t] = [ip |-> key, stamp |-> now]]
  /\ UNCHANGED <<now, attempts, admitted>>

(* A stamp later than the reading thread's own gives a negative age.       *)
Remembered_All(stamp, s) == s  \* mutant: nothing is ever forgotten
Remembered_Ages(stamp, s) ==  \* mutant: ages kept in place of stamps
  {[a EXCEPT !.stamp = stamp - @] : a \in s}
Remembered_Short(stamp, s) ==  \* mutant: forgotten one tick early
  {a \in s : stamp - a.stamp < Window}
Remembered(stamp, s) == {a \in s : stamp - a.stamp <= Window}

Full_Late(s) == Cardinality(s) > RateLimit  \* mutant: off by one
Full(s) == Cardinality(s) >= RateLimit

(* The rest of the call, under mu_: 429 when the window is full.           *)
Decide(t) ==
  /\ call[t] # NoCall
  /\ LET i == call[t].ip
         kept == Remembered(call[t].stamp, attempts[i])
     IN IF Full(kept)
          THEN /\ attempts' = [attempts EXCEPT ![i] = kept]
               /\ UNCHANGED admitted
          ELSE /\ attempts' = [attempts EXCEPT
                    ![i] = kept \cup {[nth |-> Len(admitted[i]) + 1,
                                       stamp |-> call[t].stamp]}]
               /\ admitted' = [admitted EXCEPT
                    ![i] = Append(@, [stamp |-> call[t].stamp, at |-> now])]
  /\ call' = [call EXCEPT ![t] = NoCall]
  /\ UNCHANGED now

Next ==
  \/ Tick
  \/ \E t \in Thread :
       \/ Decide(t)
       \/ \E forwarded, real \in Header \cup {Nobody} :
            Stamp(t, KeyOf(forwarded, real))

Spec == Init /\ [][Next]_vars

-----------------------------------------------------------------------------
(* At most RateLimit attempts under one key go on to the password check    *)
(* within Window less the longest wait for the mutex.  The stamp is taken  *)
(* before the wait, which costs as much of the documented window; calls    *)
(* decided out of the order of their stamps do not make it worse.          *)
LimitUpToWait ==
  \A i \in Key : \A j \in 1 .. Len(admitted[i]) :
    j > RateLimit =>
      admitted[i][j].at - admitted[i][j - RateLimit].at > Window - MaxWait

(* The memory kept for a key never exceeds the limit, whatever order the   *)
(* calls are decided in.                                                   *)
MemoryBounded == \A i \in Key : Cardinality(attempts[i]) <= RateLimit

(* An attempt is refused only if RateLimit admitted attempts under its key *)
(* are, by its own stamp, within the last Window.  Refusals do not count:  *)
(* a key nobody is admitted under is free again after Window, however many *)
(* attempts are refused meanwhile and whatever order they are decided in.  *)
(* Whose attempts fill the key is not said, for the code does not know.    *)
Refused(t) == call[t] # NoCall /\ call'[t] = NoCall /\ UNCHANGED admitted
RefusedOnlyWhenFull ==
  [][\A t \in Thread : Refused(t) =>
       Cardinality({j \in 1 .. Len(admitted[call[t].ip]) :
         call[t].stamp - admitted[call[t].ip][j].stamp <= Window})
       >= RateLimit]_vars

-----------------------------------------------------------------------------
(* The inductive invariant behind these properties (proved in              *)
(* RateLimiterProofs).                                                     *)

(* What is remembered was admitted, with the stamp that is remembered.     *)
RememberedWereAdmitted ==
  \A i \in Key : \A a \in attempts[i] :
    /\ a.nth \in 1 .. Len(admitted[i])
    /\ admitted[i][a.nth].stamp = a.stamp

(* No call waits for the mutex longer than MaxWait.                        *)
WaitsBounded ==
  \A t \in Thread : call[t] # NoCall =>
    /\ call[t].ip \in Key
    /\ call[t].stamp <= now /\ now - call[t].stamp <= MaxWait

(* Attempts are admitted one after the other, after their stamps but not   *)
(* longer than MaxWait after.                                              *)
AdmittedInOrder ==
  \A i \in Key : \A q \in 1 .. Len(admitted[i]) :
    LET e == admitted[i][q]
    IN  /\ e.stamp <= e.at /\ e.at - e.stamp <= MaxWait /\ e.at <= now
        /\ \A p \in 1 .. q : admitted[i][p].at <= e.at

(* An attempt is not forgotten within Window less the longest wait of the  *)
(* call that would forget it.                                              *)
RecentRemembered ==
  \A i \in Key : \A q \in 1 .. Len(admitted[i]) :
    now - admitted[i][q].at <= Window - MaxWait =>
      \E a \in attempts[i] : a.nth = q

IndInv ==
  /\ TypeOK
  /\ RememberedWereAdmitted
  /\ WaitsBounded
  /\ AdmittedInOrder
  /\ RecentRemembered
  /\ MemoryBounded
  /\ LimitUpToWait

=============================================================================
