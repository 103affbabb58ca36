--------------------------- MODULE LifecycleProofs ---------------------------
(***************************************************************************)
(* Proofs about Lifecycle, for any number of clients and of shutdown       *)
(* requests and both behaviours of accept.                                 *)
(***************************************************************************)
EXTENDS Lifecycle, FiniteSetTheorems, TLAPS

LEMMA InitInv == Init => IndInv
<1> SUFFICES ASSUME Init PROVE IndInv
  OBVIOUS
<1>1. TypeOK
  BY DEF Init, TypeOK
<1>2. LateIsLast /\ StopHasCause
  BY DEF Init, LateIsLast, StopHasCause
<1>3. ClosedBeforeStop /\ ClosesCounted /\ MainClosesAlone
  BY DEF Init, ClosedBeforeStop, ClosesCounted, MainClosesAlone
<1>4. QED
  BY <1>1, <1>2, <1>3 DEF IndInv

(* Every step of the main thread keeps the invariant.                      *)
LEMMA MainStep == IndInv /\ Main => IndInv'
<1> SUFFICES ASSUME IndInv, Main PROVE IndInv'
  OBVIOUS
<1> USE DEF IndInv, TypeOK, LateIsLast, ClosedBeforeStop,
  StopHasCause, Stopped, ClosesCounted, MainClosesAlone, AskedOnce
<1>1. CASE RunListen
  <2>1. CASE sock' = "open" /\ broke' = broke
    BY <1>1, <2>1 DEF RunListen
  <2>2. CASE sock' # "open" /\ broke' = TRUE
    BY <1>1, <2>2 DEF RunListen
  <2>3. QED
    BY <1>1, <2>1, <2>2 DEF RunListen
<1>2. CASE RunStart
  BY <1>2 DEF RunStart
<1>3. CASE RunLoop
  BY <1>3 DEF RunLoop, GoesOn
<1>4. CASE RunCall
  BY <1>4 DEF RunCall
<1>5. CASE AcceptWoken
  BY <1>5 DEF AcceptWoken, Accepting
<1>6. CASE MainClose
  BY <1>6 DEF MainClose
<1>7. CASE MainClosed
  BY <1>7 DEF MainClosed
<1>8. ASSUME NEW c \in Client, Accept(c) PROVE IndInv'
  BY <1>8 DEF Accept, Accepting
<1>9. QED
  BY <1>1, <1>2, <1>3, <1>4, <1>5, <1>6, <1>7, <1>8 DEF Main

(* So do a failure of accept, the signal, and every step of a client and   *)
(* of a thread that serves one.                                            *)
LEMMA OtherStep ==
  ASSUME IndInv,
         \/ AcceptFails \/ Signal
         \/ \E c \in Client : Arrive(c) \/ Serve(c)
         \/ \E c \in Client, x \in Closer : Shutdown(c, x)
  PROVE  IndInv'
<1> USE DEF IndInv, TypeOK, LateIsLast, ClosedBeforeStop,
  StopHasCause, Stopped, ClosesCounted, MainClosesAlone, AskedOnce
<1>1. CASE Signal
  BY <1>1 DEF Signal, Shut
<1>2. ASSUME NEW c \in Client, Arrive(c) \/ Serve(c) PROVE IndInv'
  BY <1>2 DEF Arrive, Serve, Outcomes
<1>3. ASSUME NEW c \in Client, NEW x \in Closer, Shutdown(c, x) PROVE IndInv'
  BY <1>3 DEF Shutdown
<1>4. CASE AcceptFails
  BY <1>4 DEF AcceptFails, Accepting
<1>5. QED
  BY <1>1, <1>2, <1>3, <1>4

(* And every step of a thread that shuts the server down.                  *)
LEMMA ShutdownStep ==
  ASSUME IndInv, NEW x \in Closer, CloserStep(x)
  PROVE  IndInv'
<1> USE DEF IndInv, TypeOK, LateIsLast, ClosedBeforeStop,
  StopHasCause, Stopped, ClosesCounted, MainClosesAlone, AskedOnce
<1>1. CASE CloserWakes(x)
  BY <1>1 DEF CloserWakes
<1>2. CASE CloserClosed(x)
  BY <1>2 DEF CloserClosed, Closed
<1>3. CASE CloserClears(x)
  BY <1>3 DEF CloserClears
<1>4. CASE CloserShuts(x)
  BY <1>4 DEF CloserShuts, Shut
<1>5. QED
  BY <1>1, <1>2, <1>3, <1>4 DEF CloserStep

LEMMA IndInvStep == IndInv /\ [Next]_vars => IndInv'
<1>1. IndInv /\ UNCHANGED vars => IndInv'
  BY DEF vars, IndInv, TypeOK, LateIsLast, ClosedBeforeStop,
    StopHasCause, Stopped, ClosesCounted, MainClosesAlone, AskedOnce
<1>2. QED
  BY <1>1, MainStep, OtherStep, ShutdownStep DEF Next

LEMMA Invariance == Spec => []IndInv
<1>1. QED
  BY InitInv, IndInvStep, PTL DEF Spec

(* Type correctness of the process's state.                                *)
THEOREM TypeCorrect == Spec => []TypeOK
<1>1. IndInv => TypeOK
  BY DEF IndInv
<1>2. QED
  BY <1>1, Invariance, PTL

(* At most one client is let in once running_ is cleared.                  *)
THEOREM LateClientTheorem == Spec => []AtMostOneLateClient
<1>1. IndInv => AtMostOneLateClient
  BY DEF IndInv, LateIsLast, AtMostOneLateClient
<1>2. QED
  BY <1>1, Invariance, PTL

(* If one thing ends the process the handle is closed once.                *)
THEOREM CloseTheorem == Spec => []HandleClosedOnce
<1>1. IndInv => HandleClosedOnce
  <2>1. SUFFICES ASSUME IndInv, Alone
                 PROVE  closes <= 1
    BY DEF HandleClosedOnce
  <2>2. CASE Asked = {}
    <3>1. \A x \in Closer : closer[x] = "none"
      BY <2>2 DEF Asked
    <3>2. closes = 0 \/ closes = 1
      BY <2>1, <3>1 DEF IndInv, MainClosesAlone
    <3>3. QED
      BY <3>2
  <2>3. CASE Cardinality(Asked) = 1 /\ signal = "none" /\ ~broke
    <3>1. IsFiniteSet(Asked)
      BY LifecycleAssumption, FS_Subset DEF Asked
    <3>2. \A x, y \in Asked : x = y
      BY <2>3, <3>1, FS_Singleton
    <3>3. AskedOnce
      BY <3>2 DEF AskedOnce, Asked
    <3>4. closes = 0 \/ closes = 1
      BY <2>1, <2>3, <3>3 DEF IndInv, ClosesCounted
    <3>5. QED
      BY <3>4
  <2>4. QED
    BY <2>1, <2>2, <2>3 DEF Alone
<1>2. QED
  BY <1>1, Invariance, PTL

=============================================================================
