-------------------------- MODULE RateLimiterProofs --------------------------
(***************************************************************************)
(* Proofs about the login limiter for any number of threads and keys  , *)
(* any limit, window and wait.                                             *)
(***************************************************************************)
EXTENDS RateLimiter, FiniteSetTheorems, TLAPS

(* What a call finds still remembered, and its two outcomes.               *)
Kept(t) == Remembered(call[t].stamp, attempts[call[t].ip])

Element(t) ==
  [nth |-> Len(admitted[call[t].ip]) + 1, stamp |-> call[t].stamp]

Refuse(t) ==
  /\ call[t] # NoCall /\ Full(Kept(t))
  /\ attempts' = [attempts EXCEPT ![call[t].ip] = Kept(t)]
  /\ call' = [call EXCEPT ![t] = NoCall]
  /\ UNCHANGED <<now, admitted>>

Admit(t) ==
  /\ call[t] # NoCall /\ ~Full(Kept(t))
  /\ attempts' = [attempts EXCEPT ![call[t].ip] = Kept(t) \cup {Element(t)}]
  /\ admitted' = [admitted EXCEPT ![call[t].ip] =
                    Append(admitted[call[t].ip], [stamp |-> call[t].stamp, at |-> now])]
  /\ call' = [call EXCEPT ![t] = NoCall]
  /\ UNCHANGED now

LEMMA DecideCases ==
  ASSUME NEW t \in Thread, Decide(t)
  PROVE  Refuse(t) \/ Admit(t)
BY DEF Decide, Refuse, Admit, Kept, Element

(* Whatever headers a request has, it asks for one key.                    *)
LEMMA NextCases ==
  ASSUME Next
  PROVE  \/ Tick
         \/ \E t \in Thread :
              Refuse(t) \/ Admit(t) \/ \E key \in Key : Stamp(t, key)
<1>1. \A forwarded, real \in Header \cup {Nobody} : KeyOf(forwarded, real) \in Key
  BY DEF KeyOf, Key
<1>2. QED
  BY <1>1, DecideCases DEF Next

-----------------------------------------------------------------------------
(* What is kept is a finite part of what was remembered.                   *)
LEMMA KeptIsPart ==
  ASSUME TypeOK, WaitsBounded, NEW t \in Thread, call[t] # NoCall
  PROVE  /\ call[t].ip \in Key /\ call[t].stamp \in Nat
         /\ Kept(t) \subseteq attempts[call[t].ip]
         /\ Kept(t) \subseteq [nth : Nat, stamp : Nat]
         /\ IsFiniteSet(Kept(t)) /\ Cardinality(Kept(t)) \in Nat
         /\ Cardinality(Kept(t)) <= Cardinality(attempts[call[t].ip])
         /\ \A a \in Kept(t) : call[t].stamp - a.stamp <= Window
<1>1. call[t].ip \in Key /\ call[t].stamp \in Nat
  BY DEF TypeOK, WaitsBounded
<1>2. IsFiniteSet(attempts[call[t].ip])
      /\ attempts[call[t].ip] \subseteq [nth : Nat, stamp : Nat]
  BY <1>1 DEF TypeOK
<1>3. Kept(t) \in SUBSET attempts[call[t].ip]
      /\ \A a \in Kept(t) : call[t].stamp - a.stamp <= Window
  BY DEF Kept, Remembered
<1>4. IsFiniteSet(Kept(t)) /\ Cardinality(Kept(t)) <= Cardinality(attempts[call[t].ip])
  BY <1>2, <1>3, FS_Subset
<1>5. Cardinality(Kept(t)) \in Nat
  BY <1>4, FS_CardinalityType
<1>6. QED
  BY <1>1, <1>2, <1>3, <1>4, <1>5

LEMMA SeqElements ==
  ASSUME NEW R, NEW s \in Seq(R)
  PROVE  Len(s) \in Nat /\ \A q \in 1 .. Len(s) : s[q] \in R
OBVIOUS

LEMMA AppendFacts ==
  ASSUME NEW R, NEW s \in Seq(R), NEW e \in R
  PROVE  /\ Append(s, e) \in Seq(R)
         /\ Len(Append(s, e)) = Len(s) + 1
         /\ \A q \in 1 .. Len(s) : Append(s, e)[q] = s[q]
         /\ Append(s, e)[Len(s) + 1] = e
OBVIOUS

LEMMA AdmittedTypes ==
  ASSUME TypeOK, NEW i \in Key
  PROVE  /\ admitted[i] \in Seq([stamp : Nat, at : Nat]) /\ Len(admitted[i]) \in Nat
         /\ \A q \in 1 .. Len(admitted[i]) :
              /\ q \in Nat /\ admitted[i][q] \in [stamp : Nat, at : Nat]
              /\ admitted[i][q].stamp \in Nat /\ admitted[i][q].at \in Nat
<1>1. admitted[i] \in Seq([stamp : Nat, at : Nat])
  BY DEF TypeOK
<1>2. Len(admitted[i]) \in Nat
      /\ \A q \in 1 .. Len(admitted[i]) : admitted[i][q] \in [stamp : Nat, at : Nat]
  BY <1>1, SeqElements
<1>3. QED
  BY <1>1, <1>2

(* A call still finds every attempt admitted within Window less the wait.  *)
LEMMA KeptRecent ==
  ASSUME IndInv, NEW t \in Thread, call[t] # NoCall,
         NEW q \in 1 .. Len(admitted[call[t].ip]),
         now - admitted[call[t].ip][q].at <= Window - MaxWait
  PROVE  \E a \in Kept(t) : a.nth = q
<1> DEFINE i == call[t].ip
<1>0. TypeOK /\ WaitsBounded
  BY DEF IndInv
<1>1. i \in Key /\ call[t].stamp \in Nat
  BY <1>0, KeptIsPart
<1>2. PICK a \in attempts[i] : a.nth = q
  BY <1>1 DEF IndInv, RecentRemembered
<1>3. a.stamp \in Nat /\ a.stamp = admitted[i][q].stamp
  BY <1>0, <1>1, <1>2, AdmittedTypes DEF IndInv, RememberedWereAdmitted, TypeOK
<1>4. /\ admitted[i][q].at \in Nat
      /\ admitted[i][q].at - a.stamp <= MaxWait
  BY <1>0, <1>1, <1>3, AdmittedTypes DEF IndInv, AdmittedInOrder
<1>5. call[t].stamp <= now
  BY DEF IndInv, WaitsBounded
<1>6. call[t].stamp - a.stamp <= Window
  <2>1. now \in Nat /\ Window \in Nat /\ MaxWait \in Nat
    BY <1>0, LimiterAssumption DEF TypeOK
  <2> DEFINE x == admitted[i][q].at
             y == a.stamp
             z == call[t].stamp
  <2>2. now - x <= Window - MaxWait /\ x - y <= MaxWait /\ z <= now
        /\ x \in Nat /\ y \in Nat /\ z \in Nat
    BY <1>1, <1>3, <1>4, <1>5
  <2> HIDE DEF x, y, z
  <2>3. z - y <= Window
    BY <2>1, <2>2
  <2>4. QED
    BY <2>3 DEF y, z
<1>7. QED
  BY <1>2, <1>6 DEF Kept, Remembered

(* So a call that is not refused comes more than that after the attempt    *)
(* RateLimit before it.                                                    *)
LEMMA LimitAtDecision ==
  ASSUME IndInv, NEW t \in Thread, call[t] # NoCall, ~Full(Kept(t)),
         Len(admitted[call[t].ip]) + 1 > RateLimit
  PROVE  /\ RateLimit > 0
         /\ now - admitted[call[t].ip][Len(admitted[call[t].ip]) + 1 - RateLimit].at
              > Window - MaxWait
<1> DEFINE i == call[t].ip
           n == Len(admitted[i])
           first == n + 1 - RateLimit
           K == Kept(t)
<1>0. TypeOK /\ WaitsBounded
  BY DEF IndInv
<1>1. i \in Key /\ IsFiniteSet(K) /\ Cardinality(K) \in Nat /\ n \in Nat
      /\ RateLimit \in Nat /\ Window \in Nat /\ MaxWait \in Nat /\ now \in Nat
  BY <1>0, KeptIsPart, LimiterAssumption DEF TypeOK
<1>2. Cardinality(K) < RateLimit
  BY <1>1 DEF Full
<1>3. RateLimit > 0 /\ first \in 1 .. n
  BY <1>1, <1>2
<1>4. \A q \in 1 .. n : admitted[i][q].at \in Nat
  BY <1>0, <1>1, AdmittedTypes
<1>5. ASSUME now - admitted[i][first].at <= Window - MaxWait PROVE FALSE
  <2>1. \A q \in first .. n : q \in 1 .. n /\ admitted[i][first].at <= admitted[i][q].at
    <3> SUFFICES ASSUME NEW q \in first .. n
                 PROVE  q \in 1 .. n /\ admitted[i][first].at <= admitted[i][q].at
      OBVIOUS
    <3>1. q \in 1 .. n /\ first \in 1 .. q
      BY <1>1, <1>3
    <3>2. QED
      BY <1>1, <3>1 DEF IndInv, AdmittedInOrder
  <2>2. \A q \in first .. n : now - admitted[i][q].at <= Window - MaxWait
    <3> SUFFICES ASSUME NEW q \in first .. n
                 PROVE  now - admitted[i][q].at <= Window - MaxWait
      OBVIOUS
    <3>1. admitted[i][q].at \in Nat /\ admitted[i][first].at \in Nat
          /\ admitted[i][first].at <= admitted[i][q].at
      BY <1>3, <1>4, <2>1
    <3> DEFINE x == admitted[i][q].at
               y == admitted[i][first].at
    <3>2. /\ x \in Nat /\ y \in Nat /\ y <= x /\ now - y <= Window - MaxWait
          /\ now \in Nat /\ Window - MaxWait \in Int
      BY <1>1, <1>5, <3>1
    <3> HIDE DEF x, y
    <3>3. now - x <= Window - MaxWait
      BY <3>2
    <3>4. QED
      BY <3>3 DEF x
  <2>3. \A q \in first .. n : \E a \in K : a.nth = q
    BY <2>1, <2>2, KeptRecent
  <2> DEFINE f == [q \in first .. n |-> CHOOSE a \in K : a.nth = q]
  <2>4. \A q \in first .. n : f[q] \in K /\ f[q].nth = q
    BY <2>3
  <2> HIDE DEF f, K
  <2>5. f \in Injection(first .. n, K)
    <3>1. f \in [first .. n -> K]
      BY <2>4 DEF f
    <3>2. QED
      BY <2>4, <3>1 DEF Injection, IsInjective
  <2>6. Cardinality(first .. n) <= Cardinality(K)
    BY <1>1, <2>5, FS_Injection
  <2>7. Cardinality(first .. n) = RateLimit
    <3>1. first \in Int /\ n \in Int /\ ~(first > n) /\ n - first + 1 = RateLimit
      BY <1>1, <1>3
    <3> HIDE DEF first, n
    <3>2. QED
      BY <3>1, FS_Interval
  <2>8. QED
    BY <1>1, <1>2, <2>6, <2>7
<1>6. admitted[i][first].at \in Nat
  BY <1>3, <1>4
<1>7. now - admitted[i][first].at > Window - MaxWait
  <2> DEFINE y == admitted[i][first].at
  <2>1. y \in Nat /\ ~(now - y <= Window - MaxWait)
    BY <1>5, <1>6
  <2> HIDE DEF y
  <2>2. now - y > Window - MaxWait
    BY <1>1, <2>1
  <2>3. QED
    BY <2>2 DEF y
<1>8. QED
  BY <1>3, <1>7

(* And a call that is refused finds RateLimit admitted attempts of its     *)
(* key within Window of its stamp.                                         *)
LEMMA RefusalIsDue ==
  ASSUME IndInv, NEW t \in Thread, call[t] # NoCall, Full(Kept(t))
  PROVE  Cardinality({j \in 1 .. Len(admitted[call[t].ip]) :
           call[t].stamp - admitted[call[t].ip][j].stamp <= Window}) >= RateLimit
<1> DEFINE i == call[t].ip
           K == Kept(t)
           J == {j \in 1 .. Len(admitted[i]) :
                   call[t].stamp - admitted[i][j].stamp <= Window}
           g == [a \in K |-> a.nth]
<1>0. TypeOK /\ WaitsBounded
  BY DEF IndInv
<1>1. /\ i \in Key /\ Len(admitted[i]) \in Nat /\ RateLimit \in Nat
      /\ K \subseteq attempts[i] /\ K \subseteq [nth : Nat, stamp : Nat]
      /\ Cardinality(K) \in Nat
      /\ \A a \in K : call[t].stamp - a.stamp <= Window
  BY <1>0, KeptIsPart, LimiterAssumption DEF TypeOK
<1>2. \A a \in K : a.nth \in J /\ a.stamp = admitted[i][a.nth].stamp
  BY <1>1 DEF IndInv, RememberedWereAdmitted
<1>3. \A a, b \in K : a.nth = b.nth => a = b
  BY <1>1, <1>2
<1>4. IsFiniteSet(J)
  <2>0. 1 \in Int /\ Len(admitted[i]) \in Int
    BY <1>1
  <2>1. IsFiniteSet(1 .. Len(admitted[i]))
    BY <2>0, FS_Interval
  <2>2. J \in SUBSET (1 .. Len(admitted[i]))
    OBVIOUS
  <2> HIDE DEF J
  <2>3. QED
    BY <2>1, <2>2, FS_Subset
<1>5. g \in Injection(K, J)
  <2> HIDE DEF K, J
  <2>1. g \in [K -> J]
    BY <1>2
  <2>2. QED
    BY <1>3, <2>1 DEF Injection, IsInjective
<1>6. Cardinality(J) \in Nat
  BY <1>4, FS_CardinalityType
<1>7. Cardinality(K) <= Cardinality(J)
  <2> HIDE DEF K, J, g
  <2>1. QED
    BY <1>4, <1>5, FS_Injection
<1>8. Cardinality(K) >= RateLimit
  BY DEF Full
<1>9. Cardinality(J) >= RateLimit
  <2> HIDE DEF K, J
  <2>1. QED
    BY <1>1, <1>6, <1>7, <1>8
<1>10. QED
  BY <1>9

-----------------------------------------------------------------------------
(* What the two outcomes write.                                            *)
LEMMA CallEffect ==
  ASSUME TypeOK, NEW t \in Thread, Refuse(t) \/ Admit(t)
  PROVE  /\ \A s \in Thread : call'[s] = IF s = t THEN NoCall ELSE call[s]
         /\ call' \in [Thread -> [ip : Key \cup {Nobody}, stamp : Nat]]
         /\ now' = now
<1>1. NoCall \in [ip : Key \cup {Nobody}, stamp : Nat]
  BY DEF NoCall
<1>2. call' = [call EXCEPT ![t] = NoCall] /\ now' = now
  BY DEF Refuse, Admit
<1>3. call \in [Thread -> [ip : Key \cup {Nobody}, stamp : Nat]]
  BY DEF TypeOK
<1>4. QED
  BY <1>1, <1>2, <1>3

LEMMA RefuseEffect ==
  ASSUME IndInv, NEW t \in Thread, Refuse(t)
  PROVE  /\ call[t].ip \in Key /\ call[t] # NoCall
         /\ \A j \in Key : attempts'[j] = IF j = call[t].ip THEN Kept(t) ELSE attempts[j]
         /\ admitted' = admitted
BY KeptIsPart DEF Refuse, IndInv, TypeOK

LEMMA AdmitEffect ==
  ASSUME IndInv, NEW t \in Thread, Admit(t)
  PROVE  LET i == call[t].ip
             n == Len(admitted[i])
             e == [stamp |-> call[t].stamp, at |-> now]
         IN  /\ i \in Key /\ n \in Nat /\ e \in [stamp : Nat, at : Nat]
             /\ \A j \in Key : j # i => attempts'[j] = attempts[j] /\ admitted'[j] = admitted[j]
             /\ attempts'[i] = Kept(t) \cup {Element(t)}
             /\ Element(t) \in [nth : Nat, stamp : Nat]
             /\ Element(t).nth = n + 1 /\ Element(t).stamp = call[t].stamp
             /\ admitted'[i] \in Seq([stamp : Nat, at : Nat])
             /\ Len(admitted'[i]) = n + 1
             /\ \A q \in 1 .. n : admitted'[i][q] = admitted[i][q]
             /\ admitted'[i][n + 1] = e
<1> DEFINE i == call[t].ip
           n == Len(admitted[i])
           e == [stamp |-> call[t].stamp, at |-> now]
<1>0. TypeOK /\ WaitsBounded /\ call[t] # NoCall
  BY DEF IndInv, Admit
<1>1. i \in Key /\ call[t].stamp \in Nat /\ now \in Nat
  BY <1>0, KeptIsPart DEF TypeOK
<1>2. n \in Nat /\ admitted[i] \in Seq([stamp : Nat, at : Nat])
  BY <1>0, <1>1, AdmittedTypes
<1>3. e \in [stamp : Nat, at : Nat]
  BY <1>1
<1>4. admitted' = [admitted EXCEPT ![i] = Append(admitted[i], e)]
  BY DEF Admit
<1>5. admitted'[i] = Append(admitted[i], e)
      /\ \A j \in Key : j # i => admitted'[j] = admitted[j]
  BY <1>0, <1>1, <1>4 DEF TypeOK
<1>6. attempts'[i] = Kept(t) \cup {Element(t)}
      /\ \A j \in Key : j # i => attempts'[j] = attempts[j]
  BY <1>0, <1>1 DEF Admit, TypeOK
<1>7. /\ Element(t) \in [nth : Nat, stamp : Nat]
      /\ Element(t).nth = n + 1 /\ Element(t).stamp = call[t].stamp
  BY <1>1, <1>2 DEF Element
<1> HIDE DEF e, n, i
<1>8. /\ Append(admitted[i], e) \in Seq([stamp : Nat, at : Nat])
      /\ Len(Append(admitted[i], e)) = Len(admitted[i]) + 1
      /\ \A q \in 1 .. Len(admitted[i]) : Append(admitted[i], e)[q] = admitted[i][q]
      /\ Append(admitted[i], e)[Len(admitted[i]) + 1] = e
  BY <1>2, <1>3, AppendFacts
<1>9. QED
  BY <1>1, <1>2, <1>3, <1>5, <1>6, <1>7, <1>8 DEF e, n, i

LEMMA TypeStep == IndInv /\ [Next]_vars => TypeOK'
<1> SUFFICES ASSUME IndInv, [Next]_vars PROVE TypeOK'
  OBVIOUS
<1>0. TypeOK /\ WaitsBounded
  BY DEF IndInv
<1>1. CASE Tick \/ UNCHANGED vars
  BY <1>0, <1>1 DEF Tick, vars, TypeOK
<1>2. ASSUME NEW t \in Thread, NEW i \in Key, Stamp(t, i) PROVE TypeOK'
  BY <1>0, <1>2 DEF Stamp, TypeOK
<1>3. ASSUME NEW t \in Thread, Refuse(t) PROVE TypeOK'
  <2>1. /\ Kept(t) \subseteq [nth : Nat, stamp : Nat] /\ IsFiniteSet(Kept(t))
        /\ call[t].ip \in Key
    BY <1>0, <1>3, KeptIsPart DEF Refuse
  <2>2. attempts' \in [Key -> SUBSET [nth : Nat, stamp : Nat]]
    BY <1>0, <1>3, <2>1 DEF Refuse, TypeOK
  <2>3. \A i \in Key : IsFiniteSet(attempts'[i])
    BY <1>0, <1>3, <2>1, RefuseEffect DEF TypeOK
  <2>4. QED
    BY <1>0, <1>3, <2>2, <2>3, CallEffect DEF Refuse, TypeOK
<1>4. ASSUME NEW t \in Thread, Admit(t) PROVE TypeOK'
  <2>1. /\ Kept(t) \subseteq [nth : Nat, stamp : Nat] /\ IsFiniteSet(Kept(t))
        /\ call[t].ip \in Key
    BY <1>0, <1>4, KeptIsPart DEF Admit
  <2>2. Element(t) \in [nth : Nat, stamp : Nat]
    BY <1>4, AdmitEffect
  <2>3. attempts' \in [Key -> SUBSET [nth : Nat, stamp : Nat]]
    BY <1>0, <1>4, <2>1, <2>2 DEF Admit, TypeOK
  <2>4. \A i \in Key : IsFiniteSet(attempts'[i])
    <3>1. IsFiniteSet(Kept(t) \cup {Element(t)})
      BY <2>1, FS_AddElement
    <3>2. QED
      BY <1>0, <1>4, <3>1, AdmitEffect DEF TypeOK
  <2>5. admitted' \in [Key -> Seq([stamp : Nat, at : Nat])]
    <3>1. /\ admitted'[call[t].ip] \in Seq([stamp : Nat, at : Nat])
          /\ \A j \in Key : j # call[t].ip => admitted'[j] = admitted[j]
      BY <1>4, AdmitEffect
    <3>2. admitted' = [j \in Key |-> admitted'[j]]
      BY <1>0, <1>4 DEF Admit, TypeOK
    <3>3. \A j \in Key : admitted'[j] \in Seq([stamp : Nat, at : Nat])
      BY <1>0, <3>1 DEF TypeOK
    <3>4. QED
      BY <3>2, <3>3
  <2>6. QED
    BY <1>0, <1>4, <2>3, <2>4, <2>5, CallEffect DEF TypeOK
<1>5. QED
  BY <1>1, <1>2, <1>3, <1>4, NextCases

LEMMA WaitsStep == IndInv /\ [Next]_vars => WaitsBounded'
<1> SUFFICES ASSUME IndInv, [Next]_vars PROVE WaitsBounded'
  OBVIOUS
<1>0. TypeOK /\ WaitsBounded
  BY DEF IndInv
<1>1. CASE Tick
  <2>1. \A t \in Thread : call[t].stamp \in Nat
    BY <1>0 DEF TypeOK
  <2>2. QED
    BY <1>0, <1>1, <2>1, LimiterAssumption DEF Tick, WaitsBounded, TypeOK
<1>2. ASSUME NEW t \in Thread, NEW i \in Key, Stamp(t, i) PROVE WaitsBounded'
  <2>1. \A s \in Thread : call'[s] = IF s = t THEN [ip |-> i, stamp |-> now] ELSE call[s]
    BY <1>0, <1>2 DEF Stamp, TypeOK
  <2>2. now' = now /\ now <= now /\ now - now <= MaxWait
    BY <1>0, <1>2, LimiterAssumption DEF Stamp, TypeOK
  <2>3. QED
    BY <1>0, <2>1, <2>2 DEF WaitsBounded
<1>3. ASSUME NEW t \in Thread, Refuse(t) \/ Admit(t) PROVE WaitsBounded'
  BY <1>0, <1>3, CallEffect DEF WaitsBounded
<1>4. CASE UNCHANGED vars
  BY <1>0, <1>4 DEF vars, WaitsBounded
<1>5. QED
  BY <1>1, <1>2, <1>3, <1>4, NextCases

(* What is remembered stays admitted: a decision keeps a part of it and    *)
(* adds the attempt it admits.                                             *)
LEMMA RememberedStep == IndInv /\ [Next]_vars => RememberedWereAdmitted'
<1> SUFFICES ASSUME IndInv, [Next]_vars PROVE RememberedWereAdmitted'
  OBVIOUS
<1>0. TypeOK /\ WaitsBounded /\ RememberedWereAdmitted
  BY DEF IndInv
<1>1. CASE UNCHANGED <<attempts, admitted>>
  BY <1>0, <1>1 DEF RememberedWereAdmitted
<1>2. ASSUME NEW t \in Thread, Refuse(t) PROVE RememberedWereAdmitted'
  <2>1. /\ Kept(t) \subseteq attempts[call[t].ip]
        /\ \A j \in Key : attempts'[j] = IF j = call[t].ip THEN Kept(t) ELSE attempts[j]
        /\ admitted' = admitted
    BY <1>0, <1>2, KeptIsPart, RefuseEffect
  <2>2. QED
    BY <1>0, <2>1 DEF RememberedWereAdmitted
<1>3. ASSUME NEW t \in Thread, Admit(t) PROVE RememberedWereAdmitted'
  <2> DEFINE i == call[t].ip
             n == Len(admitted[i])
             new == Element(t)
  <2>a. Kept(t) \subseteq attempts[i]
    BY <1>0, <1>3, KeptIsPart DEF Admit
  <2>b. /\ i \in Key /\ n \in Nat
        /\ \A j \in Key : j # i => attempts'[j] = attempts[j] /\ admitted'[j] = admitted[j]
        /\ attempts'[i] = Kept(t) \cup {new}
        /\ new.nth = n + 1 /\ new.stamp = call[t].stamp
        /\ Len(admitted'[i]) = n + 1
        /\ \A q \in 1 .. n : admitted'[i][q] = admitted[i][q]
        /\ admitted'[i][n + 1] = [stamp |-> call[t].stamp, at |-> now]
    BY <1>3, AdmitEffect
  <2>1. admitted'[i][n + 1].stamp = call[t].stamp
    BY <2>b
  <2>2. \A a \in Kept(t) : a.nth \in 1 .. n /\ admitted[i][a.nth].stamp = a.stamp
    BY <1>0, <2>a, <2>b DEF RememberedWereAdmitted
  <2> HIDE DEF i, n, new
  <2>3. \A a \in attempts'[i] :
          a.nth \in 1 .. Len(admitted'[i]) /\ admitted'[i][a.nth].stamp = a.stamp
    <3> SUFFICES ASSUME NEW a \in attempts'[i]
                 PROVE  a.nth \in 1 .. n + 1 /\ admitted'[i][a.nth].stamp = a.stamp
      BY <2>b
    <3>1. CASE a \in Kept(t)
      BY <2>b, <2>2, <3>1
    <3>2. CASE a = new
      BY <2>b, <2>1, <3>2
    <3>3. QED
      BY <2>b, <3>1, <3>2
  <2>4. QED
    BY <1>0, <2>b, <2>3 DEF RememberedWereAdmitted
<1>4. QED
  BY <1>1, <1>2, <1>3, NextCases DEF Tick, Stamp, vars

(* Admissions follow the clock.                                            *)
LEMMA OrderStep == IndInv /\ [Next]_vars => AdmittedInOrder'
<1> SUFFICES ASSUME IndInv, [Next]_vars PROVE AdmittedInOrder'
  OBVIOUS
<1>0. TypeOK /\ WaitsBounded /\ AdmittedInOrder
  BY DEF IndInv
<1>1. ASSUME admitted' = admitted, now' \in {now, now + 1} PROVE AdmittedInOrder'
  <2> SUFFICES ASSUME NEW i \in Key, NEW q \in 1 .. Len(admitted[i])
               PROVE  admitted[i][q].at <= now'
    BY <1>0, <1>1 DEF AdmittedInOrder
  <2>1. admitted[i][q].at \in Nat /\ now \in Nat /\ admitted[i][q].at <= now
    BY <1>0, AdmittedTypes DEF AdmittedInOrder, TypeOK
  <2>2. QED
    BY <1>1, <2>1
<1>2. ASSUME NEW t \in Thread, Admit(t) PROVE AdmittedInOrder'
  <2> DEFINE i == call[t].ip
             n == Len(admitted[i])
             e == [stamp |-> call[t].stamp, at |-> now]
  <2>1. /\ i \in Key /\ n \in Nat
        /\ \A j \in Key : j # i => admitted'[j] = admitted[j]
        /\ Len(admitted'[i]) = n + 1
        /\ \A q \in 1 .. n : admitted'[i][q] = admitted[i][q]
        /\ admitted'[i][n + 1] = e
    BY <1>2, AdmitEffect
  <2>2. now' = now /\ now \in Nat
    BY <1>0, <1>2 DEF Admit, TypeOK
  <2>3. e.at = now /\ e.stamp <= e.at /\ e.at - e.stamp <= MaxWait
    BY <1>0, <1>2 DEF Admit, WaitsBounded
  <2>4. \A q \in 1 .. n :
          /\ admitted[i][q].stamp <= admitted[i][q].at
          /\ admitted[i][q].at - admitted[i][q].stamp <= MaxWait
          /\ admitted[i][q].at <= now
          /\ \A p \in 1 .. q : admitted[i][p].at <= admitted[i][q].at
    BY <1>0, <2>1 DEF AdmittedInOrder
  <2> HIDE DEF i, n, e
  <2>5. ASSUME NEW q \in 1 .. n + 1
        PROVE  /\ admitted'[i][q].stamp <= admitted'[i][q].at
               /\ admitted'[i][q].at - admitted'[i][q].stamp <= MaxWait
               /\ admitted'[i][q].at <= now'
               /\ \A p \in 1 .. q : admitted'[i][p].at <= admitted'[i][q].at
    <3>1. CASE q \in 1 .. n
      <4>1. \A p \in 1 .. q : p \in 1 .. n
        BY <2>1, <3>1
      <4>2. QED
        BY <2>1, <2>2, <2>4, <3>1, <4>1
    <3>2. CASE q = n + 1
      <4>1. admitted'[i][q] = e
        BY <2>1, <3>2
      <4>2. ASSUME NEW p \in 1 .. q PROVE admitted'[i][p].at <= e.at
        <5>1. CASE p = n + 1
          BY <2>1, <2>2, <2>3, <5>1
        <5>2. CASE p \in 1 .. n
          BY <2>1, <2>3, <2>4, <5>2
        <5>3. QED
          BY <2>1, <3>2, <5>1, <5>2
      <4>3. e.at <= now'
        BY <2>2, <2>3
      <4>4. QED
        BY <2>3, <4>1, <4>2, <4>3
    <3>3. QED
      BY <2>1, <3>1, <3>2
  <2>6. ASSUME NEW j \in Key, j # i, NEW q \in 1 .. Len(admitted'[j])
        PROVE  /\ admitted'[j][q].stamp <= admitted'[j][q].at
               /\ admitted'[j][q].at - admitted'[j][q].stamp <= MaxWait
               /\ admitted'[j][q].at <= now'
               /\ \A p \in 1 .. q : admitted'[j][p].at <= admitted'[j][q].at
    BY <1>0, <2>1, <2>2, <2>6 DEF AdmittedInOrder
  <2>7. QED
    BY <2>1, <2>5, <2>6 DEF AdmittedInOrder
<1>3. QED
  BY <1>1, <1>2, NextCases DEF Tick, Stamp, Refuse, vars

(* A decision forgets nothing recent, and time makes nothing recent.       *)
LEMMA RecentStep == IndInv /\ [Next]_vars => RecentRemembered'
<1> SUFFICES ASSUME IndInv, [Next]_vars PROVE RecentRemembered'
  OBVIOUS
<1>0. TypeOK /\ WaitsBounded /\ RecentRemembered
  BY DEF IndInv
<1>1. ASSUME UNCHANGED <<attempts, admitted>>, now' \in {now, now + 1}
      PROVE  RecentRemembered'
  <2> SUFFICES ASSUME NEW i \in Key, NEW q \in 1 .. Len(admitted[i]),
                      now' - admitted[i][q].at <= Window - MaxWait
               PROVE  \E a \in attempts[i] : a.nth = q
    BY <1>1 DEF RecentRemembered
  <2> DEFINE x == admitted[i][q].at
  <2>a. x \in Nat
    BY <1>0, AdmittedTypes
  <2>1. x \in Nat /\ now \in Nat /\ Window - MaxWait \in Int
    BY <1>0, <2>a, LimiterAssumption DEF TypeOK
  <2>2. now' - x <= Window - MaxWait
    OBVIOUS
  <2> HIDE DEF x
  <2>3. now - x <= Window - MaxWait
    BY <1>1, <2>1, <2>2
  <2>4. QED
    BY <1>0, <2>3 DEF RecentRemembered, x
<1>2. ASSUME NEW t \in Thread, Refuse(t) PROVE RecentRemembered'
  <2> DEFINE i == call[t].ip
  <2>1. /\ i \in Key /\ call[t] # NoCall
        /\ \A j \in Key : attempts'[j] = IF j = i THEN Kept(t) ELSE attempts[j]
        /\ admitted' = admitted /\ now' = now
    BY <1>2, RefuseEffect DEF Refuse
  <2>2. \A q \in 1 .. Len(admitted[i]) : now - admitted[i][q].at <= Window - MaxWait =>
          \E a \in Kept(t) : a.nth = q
    BY <2>1, KeptRecent
  <2> HIDE DEF i
  <2>3. QED
    BY <1>0, <2>1, <2>2 DEF RecentRemembered
<1>3. ASSUME NEW t \in Thread, Admit(t) PROVE RecentRemembered'
  <2> DEFINE i == call[t].ip
             n == Len(admitted[i])
             new == Element(t)
  <2>1. /\ i \in Key /\ n \in Nat /\ call[t] # NoCall /\ now' = now
        /\ \A j \in Key : j # i => attempts'[j] = attempts[j] /\ admitted'[j] = admitted[j]
        /\ attempts'[i] = Kept(t) \cup {new}
        /\ new.nth = n + 1 /\ Len(admitted'[i]) = n + 1
        /\ \A q \in 1 .. n : admitted'[i][q] = admitted[i][q]
    BY <1>3, AdmitEffect DEF Admit
  <2>2. \A q \in 1 .. n : now - admitted[i][q].at <= Window - MaxWait =>
          \E a \in Kept(t) : a.nth = q
    BY <2>1, KeptRecent
  <2> HIDE DEF i, n, new
  <2>3. \A q \in 1 .. n + 1 : now - admitted'[i][q].at <= Window - MaxWait =>
          \E a \in attempts'[i] : a.nth = q
    <3> SUFFICES ASSUME NEW q \in 1 .. n + 1, now - admitted'[i][q].at <= Window - MaxWait
                 PROVE  \E a \in attempts'[i] : a.nth = q
      OBVIOUS
    <3>1. CASE q \in 1 .. n
      BY <2>1, <2>2, <3>1
    <3>2. CASE q = n + 1
      BY <2>1, <3>2
    <3>3. QED
      BY <2>1, <3>1, <3>2
  <2>4. QED
    BY <1>0, <2>1, <2>3 DEF RecentRemembered
<1>4. QED
  BY <1>1, <1>2, <1>3, NextCases DEF Tick, Stamp, vars

(* The memory never grows past the limit.                                  *)
LEMMA MemoryStep == IndInv /\ [Next]_vars => MemoryBounded'
<1> SUFFICES ASSUME IndInv, [Next]_vars PROVE MemoryBounded'
  OBVIOUS
<1>0. TypeOK /\ WaitsBounded /\ MemoryBounded
  BY DEF IndInv
<1>1. CASE UNCHANGED attempts
  BY <1>0, <1>1 DEF MemoryBounded
<1>2. ASSUME NEW t \in Thread, Refuse(t) PROVE MemoryBounded'
  <2>1. /\ call[t].ip \in Key
        /\ \A j \in Key : attempts'[j] = IF j = call[t].ip THEN Kept(t) ELSE attempts[j]
    BY <1>2, RefuseEffect
  <2>2. Cardinality(Kept(t)) <= RateLimit
    <3>1. /\ Cardinality(Kept(t)) \in Nat
          /\ Cardinality(Kept(t)) <= Cardinality(attempts[call[t].ip])
      BY <1>0, <1>2, KeptIsPart DEF Refuse
    <3>2. Cardinality(attempts[call[t].ip]) \in Nat
      BY <1>0, <2>1, FS_CardinalityType DEF TypeOK
    <3>3. Cardinality(attempts[call[t].ip]) <= RateLimit
      BY <1>0, <2>1 DEF MemoryBounded
    <3>4. QED
      BY <3>1, <3>2, <3>3, LimiterAssumption
  <2>3. QED
    BY <1>0, <2>1, <2>2 DEF MemoryBounded
<1>3. ASSUME NEW t \in Thread, Admit(t) PROVE MemoryBounded'
  <2> DEFINE K == Kept(t)
             L == Kept(t) \cup {Element(t)}
  <2>1. /\ call[t].ip \in Key /\ attempts'[call[t].ip] = L
        /\ \A j \in Key : j # call[t].ip => attempts'[j] = attempts[j]
    BY <1>3, AdmitEffect
  <2>2. IsFiniteSet(K) /\ Cardinality(K) \in Nat /\ ~(Cardinality(K) >= RateLimit)
    BY <1>0, <1>3, KeptIsPart DEF Admit, Full
  <2>3. Cardinality(L) = Cardinality(K) \/ Cardinality(L) = Cardinality(K) + 1
    BY <2>2, FS_AddElement
  <2> HIDE DEF K, L
  <2>4. Cardinality(L) <= RateLimit
    BY <2>2, <2>3, LimiterAssumption
  <2>5. QED
    BY <1>0, <2>1, <2>4 DEF MemoryBounded
<1>4. QED
  BY <1>1, <1>2, <1>3, NextCases DEF Tick, Stamp, vars

(* The only new pair of attempts RateLimit apart ends with the one being   *)
(* admitted.                                                               *)
LEMMA LimitStep == IndInv /\ [Next]_vars => LimitUpToWait'
<1> SUFFICES ASSUME IndInv, [Next]_vars PROVE LimitUpToWait'
  OBVIOUS
<1>0. TypeOK /\ WaitsBounded /\ LimitUpToWait /\ RateLimit \in Nat
  BY LimiterAssumption DEF IndInv
<1>1. CASE UNCHANGED admitted
  BY <1>0, <1>1 DEF LimitUpToWait
<1>2. ASSUME NEW t \in Thread, Admit(t) PROVE LimitUpToWait'
  <2> DEFINE i == call[t].ip
             n == Len(admitted[i])
             e == [stamp |-> call[t].stamp, at |-> now]
  <2>1. /\ i \in Key /\ n \in Nat
        /\ \A j \in Key : j # i => admitted'[j] = admitted[j]
        /\ Len(admitted'[i]) = n + 1
        /\ \A q \in 1 .. n : admitted'[i][q] = admitted[i][q]
        /\ admitted'[i][n + 1] = e
    BY <1>2, AdmitEffect
  <2>2. e.at = now
    OBVIOUS
  <2>3. n + 1 > RateLimit =>
          RateLimit > 0 /\ now - admitted[i][n + 1 - RateLimit].at > Window - MaxWait
    BY <1>2, LimitAtDecision DEF Admit
  <2> HIDE DEF i, n, e
  <2>4. ASSUME NEW q \in 1 .. n + 1, q > RateLimit
        PROVE  admitted'[i][q].at - admitted'[i][q - RateLimit].at > Window - MaxWait
    <3>1. CASE q \in 1 .. n
      <4>1. q - RateLimit \in 1 .. n
        BY <1>0, <2>1, <2>4, <3>1
      <4>2. admitted[i][q].at - admitted[i][q - RateLimit].at > Window - MaxWait
        BY <1>0, <2>1, <2>4, <3>1 DEF LimitUpToWait, n
      <4>3. QED
        BY <2>1, <3>1, <4>1, <4>2
    <3>2. CASE q = n + 1
      <4>1. q - RateLimit \in 1 .. n
        BY <1>0, <2>1, <2>3, <2>4, <3>2
      <4>2. /\ admitted'[i][q].at = now
            /\ admitted'[i][q - RateLimit] = admitted[i][n + 1 - RateLimit]
        <5>1. admitted'[i][q] = e
          BY <2>1, <3>2
        <5>2. admitted'[i][q - RateLimit] = admitted[i][q - RateLimit]
          BY <2>1, <4>1
        <5>3. admitted'[i][q].at = now
          BY <2>2, <5>1
        <5>4. q - RateLimit = n + 1 - RateLimit
          BY <1>0, <2>1, <3>2
        <5>5. QED
          BY <5>2, <5>3, <5>4
      <4>3. QED
        BY <2>3, <2>4, <3>2, <4>2
    <3>3. QED
      BY <2>1, <3>1, <3>2
  <2>5. ASSUME NEW j \in Key, j # i, NEW q \in 1 .. Len(admitted'[j]), q > RateLimit
        PROVE  admitted'[j][q].at - admitted'[j][q - RateLimit].at > Window - MaxWait
    BY <1>0, <2>1, <2>5 DEF LimitUpToWait
  <2>6. QED
    BY <2>1, <2>4, <2>5 DEF LimitUpToWait
<1>3. QED
  BY <1>1, <1>2, NextCases DEF Tick, Stamp, Refuse, vars

-----------------------------------------------------------------------------
LEMMA InitInv == Init => IndInv
<1> SUFFICES ASSUME Init PROVE IndInv
  OBVIOUS
<1>1. IsFiniteSet({}) /\ Cardinality({}) = 0
  BY FS_EmptySet
<1>2. \A i \in Key : attempts[i] = {} /\ admitted[i] = <<>>
  BY DEF Init
<1>3. TypeOK
  BY <1>1 DEF Init, TypeOK, NoCall
<1>4. MemoryBounded
  <2>1. 0 <= RateLimit
    BY LimiterAssumption
  <2>2. \A i \in Key : Cardinality(attempts[i]) = 0
    BY <1>1, <1>2
  <2>3. QED
    BY <2>1, <2>2 DEF MemoryBounded
<1>5. RememberedWereAdmitted
  BY <1>2 DEF RememberedWereAdmitted
<1>6. WaitsBounded
  BY DEF Init, WaitsBounded
<1>7. AdmittedInOrder /\ RecentRemembered /\ LimitUpToWait
  <2>1. \A i \in Key : 1 .. Len(admitted[i]) = {}
    BY <1>2
  <2>2. QED
    BY <2>1 DEF AdmittedInOrder, RecentRemembered, LimitUpToWait
<1>8. QED
  BY <1>3, <1>4, <1>5, <1>6, <1>7 DEF IndInv

LEMMA Invariance == Spec => []IndInv
<1>1. IndInv /\ [Next]_vars => IndInv'
  BY TypeStep, RememberedStep, WaitsStep, OrderStep, RecentStep, MemoryStep,
     LimitStep DEF IndInv
<1>2. QED
  BY InitInv, <1>1, PTL DEF Spec

(* Type correctness of the clock, the calls, the memory and the history.   *)
THEOREM TypeCorrect == Spec => []TypeOK
<1>1. IndInv => TypeOK
  BY DEF IndInv
<1>2. QED
  BY <1>1, Invariance, PTL

(* No key has more than RateLimit attempts remembered, in whatever         *)
(* order the calls are decided.                                            *)
THEOREM MemoryTheorem == Spec => []MemoryBounded
<1>1. IndInv => MemoryBounded
  BY DEF IndInv
<1>2. QED
  BY <1>1, Invariance, PTL

(* RateLimit admitted attempts under a key span more than Window less      *)
(* the longest wait for the mutex.                                         *)
THEOREM LimitTheorem == Spec => []LimitUpToWait
<1>1. IndInv => LimitUpToWait
  BY DEF IndInv
<1>2. QED
  BY <1>1, Invariance, PTL

(* The same, of one step.                                                  *)
LEMMA RefusedStep ==
  ASSUME IndInv, [Next]_vars, NEW t \in Thread, Refused(t)
  PROVE  Cardinality({j \in 1 .. Len(admitted[call[t].ip]) :
           call[t].stamp - admitted[call[t].ip][j].stamp <= Window}) >= RateLimit
<1>0. TypeOK
  BY DEF IndInv
<1>1. ~Tick /\ ~UNCHANGED vars
  BY DEF Tick, vars, Refused
<1>2. ASSUME NEW s \in Thread, NEW i \in Key, Stamp(s, i) PROVE FALSE
  <2>1. call'[s] = [ip |-> i, stamp |-> now]
        /\ \A u \in Thread : u # s => call'[u] = call[u]
    BY <1>0, <1>2 DEF Stamp, TypeOK
  <2>2. call'[s].ip = i
    BY <2>1
  <2>3. call'[s] # NoCall
    BY <2>2, LimiterAssumption DEF NoCall
  <2>4. QED
    BY <2>1, <2>3 DEF Refused
<1>3. PICK s \in Thread : Refuse(s) \/ Admit(s)
  BY <1>1, <1>2, NextCases
<1>4. s = t
  BY <1>0, <1>3, CallEffect DEF Refused
<1>5. ~Admit(t)
  <2> SUFFICES ASSUME Admit(t) PROVE FALSE
    OBVIOUS
  <2>1. Len(admitted'[call[t].ip]) = Len(admitted[call[t].ip]) + 1
        /\ Len(admitted[call[t].ip]) \in Nat
    BY AdmitEffect
  <2>2. QED
    BY <2>1 DEF Refused
<1>6. Refuse(t)
  BY <1>3, <1>4, <1>5
<1>7. QED
  BY <1>6, RefusalIsDue DEF Refuse

(* A refused attempt finds RateLimit admitted ones under its key within    *)
(* Window of its stamp, whoever made them.                                 *)
THEOREM RefusedTheorem == Spec => RefusedOnlyWhenFull
<1>1. IndInv /\ [Next]_vars =>
        [\A t \in Thread : Refused(t) =>
           Cardinality({j \in 1 .. Len(admitted[call[t].ip]) :
             call[t].stamp - admitted[call[t].ip][j].stamp <= Window})
           >= RateLimit]_vars
  BY RefusedStep
<1>2. QED
  BY <1>1, Invariance, PTL DEF Spec, RefusedOnlyWhenFull

=============================================================================
