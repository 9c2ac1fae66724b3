-------------------------- MODULE SemaphoreProofs ---------------------------
(* Theorems about Semaphore, for every finite set of threads: the          *)
(* assumption of each, which MCThreadPool makes of its constants.          *)
EXTENDS Semaphore, FiniteSetTheorems, TLAPS

(* A thread added to or taken from woken changes its size by one.          *)
LEMMA WokenSize ==
  ASSUME SemaphoreAssumption, NEW S \in SUBSET Threads, NEW t \in Threads
  PROVE  /\ Cardinality(S) \in Nat
         /\ t \notin S => Cardinality(S \cup {t}) = Cardinality(S) + 1
         /\ t \in S => Cardinality(S \ {t}) = Cardinality(S) - 1
<1>1. IsFiniteSet(S)
  BY FS_Subset DEF SemaphoreAssumption
<1> QED BY <1>1, FS_CardinalityType, FS_AddElement, FS_RemoveElement

(* NoLostWakeup is inductive once the types are known.                     *)
IInv == TypeOK /\ NoLostWakeup

LEMMA InitHolds == Init => IInv
  BY DEF Init, IInv, TypeOK, NoLostWakeup

LEMMA WaitHolds ==
  ASSUME SemaphoreAssumption, IInv, NEW t \in Threads, Wait(t) PROVE IInv'
<1>1. Cardinality(woken) \in Nat
  BY WokenSize DEF IInv, TypeOK
<1>2. CASE m_value = 0
  BY <1>1, <1>2
     DEF IInv, TypeOK, NoLostWakeup, Wait, TakeOrSleep, Idle, Blocked
<1>3. CASE m_value # 0
  BY <1>1, <1>3 DEF IInv, TypeOK, NoLostWakeup, Wait, TakeOrSleep
<1> QED BY <1>2, <1>3

(* The thread that resumes leaves woken: with a token, so that one token   *)
(* less is left to cover, or back to sleep because there is none.          *)
LEMMA ResumeHolds ==
  ASSUME SemaphoreAssumption, IInv, NEW t \in Threads, Resume(t) PROVE IInv'
<1>1. CASE m_value = 0
  BY <1>1, WokenSize
     DEF IInv, TypeOK, NoLostWakeup, Resume, Retest, TakeOrSleep
<1>2. CASE m_value # 0
  BY <1>2, WokenSize
     DEF IInv, TypeOK, NoLostWakeup, Resume, Retest, TakeOrSleep
<1> QED BY <1>1, <1>2

LEMMA NotifyHolds ==
  ASSUME SemaphoreAssumption, IInv, NEW t \in Threads, NotifyOne(t) PROVE IInv'
<1>1. CASE sleeping = {}
  BY <1>1 DEF IInv, TypeOK, NoLostWakeup, NotifyOne, NotifyCondition, Wake
<1>2. CASE sleeping # {}
  <2>1. PICK s \in sleeping : Wake(s)
    BY <1>2 DEF NotifyOne, NotifyCondition
  <2>2. s \in Threads /\ s \notin woken
    BY DEF IInv, TypeOK
  <2> QED
    BY <1>2, <2>1, <2>2, WokenSize
       DEF IInv, TypeOK, NoLostWakeup, NotifyOne, Wake
<1> QED BY <1>1, <1>2

LEMMA OthersHold ==
  ASSUME SemaphoreAssumption, IInv, NEW t \in Threads,
         TryWait(t) \/ Reset(t) \/ SpuriousWake(t)
  PROVE  IInv'
<1> Cardinality(woken) \in Nat
  BY WokenSize DEF IInv, TypeOK
<1>1. CASE TryWait(t)
  BY <1>1 DEF IInv, TypeOK, NoLostWakeup, TryWait
<1>2. CASE Reset(t)
  BY <1>2 DEF IInv, TypeOK, NoLostWakeup, Reset
<1>3. CASE SpuriousWake(t)
  BY <1>3, WokenSize DEF IInv, TypeOK, NoLostWakeup, SpuriousWake, Wake
<1> QED BY <1>1, <1>2, <1>3

(* The inductive invariant: types, and the tokens that sleepers are owed.  *)
THEOREM Inductive == ASSUME SemaphoreAssumption PROVE Spec => []IInv
<1>1. IInv /\ [Next]_vars => IInv'
  <2>1. ASSUME IInv, Next PROVE IInv'
    BY <2>1, WaitHolds, ResumeHolds, NotifyHolds, OthersHold DEF Next
  <2>2. ASSUME IInv, UNCHANGED vars PROVE IInv'
    BY <2>2 DEF vars, IInv, TypeOK, NoLostWakeup
  <2> QED BY <2>1, <2>2
<1> QED BY InitHolds, <1>1, PTL DEF Spec

(* m_value never goes below zero, although wait() decrements it after a    *)
(* wake-up that nobody may have meant.                                     *)
THEOREM Typing == ASSUME SemaphoreAssumption PROVE Spec => []TypeOK
<1>1. IInv => TypeOK
  BY DEF IInv
<1> QED BY <1>1, Inductive, PTL

(* However many threads call and are woken, no notification is lost.       *)
THEOREM NoWakeupIsLost ==
  ASSUME SemaphoreAssumption PROVE Spec => []NoLostWakeup
<1>1. IInv => NoLostWakeup
  BY DEF IInv
<1> QED BY <1>1, Inductive, PTL

-----------------------------------------------------------------------------
(* Every step of the condition-variable protocol is a step of the counting *)
(* semaphore, or changes nothing there.                                    *)

LEMMA StepRefines ==
  ASSUME TypeOK, [Next]_vars
  PROVE  [Counting!Next]_Counting!vars
<1> USE DEF TypeOK, Blocked
<1>1. ASSUME NEW t \in Threads, Wait(t)
      PROVE  [Counting!Next]_Counting!vars
  <2>1. CASE m_value = 0
    <3>1. Counting!Block(t)
      BY <1>1, <2>1 DEF Wait, TakeOrSleep, Idle, Counting!Block
    <3> QED BY <3>1 DEF Counting!Next
  <2>2. CASE m_value # 0
    <3>1. Counting!Pass
      BY <1>1, <2>2 DEF Wait, TakeOrSleep, Counting!Pass, Counting!Use
    <3> QED BY <3>1 DEF Counting!Next
  <2> QED BY <2>1, <2>2
<1>2. ASSUME NEW t \in Threads, Resume(t)
      PROVE  [Counting!Next]_Counting!vars
  <2>1. CASE m_value = 0
    BY <1>2, <2>1 DEF Resume, Retest, TakeOrSleep, Counting!vars
  <2>2. CASE m_value # 0
    <3>1. Counting!Grant(t)
      BY <1>2, <2>2
         DEF Resume, Retest, TakeOrSleep, Counting!Grant, Counting!Use
    <3> QED BY <3>1 DEF Counting!Next
  <2> QED BY <2>1, <2>2
<1>3. ASSUME NEW t \in Threads, TryWait(t)
      PROVE  [Counting!Next]_Counting!vars
  <2>1. Counting!Pass
    BY <1>3 DEF TryWait, Counting!Pass, Counting!Use
  <2> QED BY <2>1 DEF Counting!Next
<1>4. ASSUME NEW t \in Threads, NotifyOne(t)
      PROVE  [Counting!Next]_Counting!vars
  <2>1. UNCHANGED Blocked
    BY <1>4 DEF NotifyOne, NotifyCondition, Wake
  <2>2. Counting!Post
    BY <1>4, <2>1 DEF NotifyOne, Counting!Post
  <2> QED BY <2>2 DEF Counting!Next
<1>5. ASSUME NEW t \in Threads, Reset(t)
      PROVE  [Counting!Next]_Counting!vars
  <2>1. Counting!Clear
    BY <1>5 DEF Reset, Counting!Clear
  <2> QED BY <2>1 DEF Counting!Next
<1>6. ASSUME NEW t \in Threads, SpuriousWake(t)
      PROVE  [Counting!Next]_Counting!vars
  BY <1>6 DEF SpuriousWake, Wake, Counting!vars
<1>7. ASSUME UNCHANGED vars
      PROVE  [Counting!Next]_Counting!vars
  BY <1>7 DEF vars, Counting!vars
<1> QED BY <1>1, <1>2, <1>3, <1>4, <1>5, <1>6, <1>7 DEF Next

(* Semaphore implements CountingSemaphore, its fairness apart (that part   *)
(* of IsCountingSemaphore is model-checked).                               *)
THEOREM Implements ==
  ASSUME SemaphoreAssumption
  PROVE  Spec => Counting!Init /\ [][Counting!Next]_Counting!vars
<1>1. Init => Counting!Init
  BY DEF Init, Counting!Init, Blocked
<1>2. TypeOK /\ [Next]_vars => [Counting!Next]_Counting!vars
  BY StepRefines
<1> QED BY <1>1, <1>2, Typing, PTL DEF Spec
=============================================================================
