----------------------------- MODULE TaskProofs -----------------------------
(* Theorems about Task, for every set of waiting threads.                  *)
EXTENDS Task, TLAPS

LEMMA InitHolds == Init => TypeOK /\ NobodySleepsOnACompletedTask
  BY DEF Init, TypeOK, NobodySleepsOnACompletedTask

-----------------------------------------------------------------------------
(* A thread goes to sleep in three places, each time after a look at the   *)
(* status and, where it has a timeout, before its time is over.            *)

LEMMA TypeStep == TypeOK /\ [Next]_vars => TypeOK'
<1> SUFFICES ASSUME TypeOK, [Next]_vars PROVE TypeOK'
  OBVIOUS
<1> USE DEF TypeOK, Moves, ReturnOrSleep
<1>1. ASSUME NEW t \in Waiters, Wait(t) PROVE TypeOK'
  BY <1>1 DEF Wait
<1>2. ASSUME NEW t \in Waiters, WaitFor(t) PROVE TypeOK'
  BY <1>2 DEF WaitFor
<1>3. ASSUME NEW t \in Waiters, Elapse(t) PROVE TypeOK'
  BY <1>3 DEF Elapse
<1>4. ASSUME NEW t \in Waiters, Resume(t) PROVE TypeOK'
  BY <1>4 DEF Resume, NoTimeout, Retest
<1>5. ASSUME NEW t \in Waiters, TimeOut(t) PROVE TypeOK'
  BY <1>5 DEF TimeOut, FlagTimeout
<1>6. ASSUME NEW t \in Waiters, SpuriousWake(t) PROVE TypeOK'
  BY <1>6 DEF SpuriousWake
<1>7. ASSUME NEW s \in Outcome, Complete(s) PROVE TypeOK'
  BY <1>7 DEF Complete, NotifyAll
<1>8. ASSUME UNCHANGED vars PROVE TypeOK'
  BY <1>8 DEF vars
<1> QED BY <1>1, <1>2, <1>3, <1>4, <1>5, <1>6, <1>7, <1>8 DEF Next

(* A task that is completed stays so; its completion wakes every sleeper,  *)
(* and nobody goes to sleep behind it.                                     *)
LEMMA SleepersStep ==
  TypeOK /\ NobodySleepsOnACompletedTask /\ [Next]_vars
    => NobodySleepsOnACompletedTask'
<1> SUFFICES ASSUME TypeOK, NobodySleepsOnACompletedTask, [Next]_vars
             PROVE  NobodySleepsOnACompletedTask'
  OBVIOUS
<1> USE DEF TypeOK, NobodySleepsOnACompletedTask, Moves, ReturnOrSleep
<1>1. ASSUME NEW t \in Waiters, Wait(t) \/ WaitFor(t) \/ Resume(t)
      PROVE  NobodySleepsOnACompletedTask'
  <2>1. m_status' = m_status /\ ReturnOrSleep(t)
    BY <1>1 DEF Wait, WaitFor, Resume, Retest
  <2> QED BY <2>1
<1>2. ASSUME NEW t \in Waiters, Elapse(t) \/ TimeOut(t) \/ SpuriousWake(t)
      PROVE  NobodySleepsOnACompletedTask'
  BY <1>2 DEF Elapse, TimeOut, SpuriousWake
<1>3. ASSUME NEW s \in Outcome, Complete(s)
      PROVE  NobodySleepsOnACompletedTask'
  BY <1>3 DEF Complete, NotifyAll
<1>4. ASSUME UNCHANGED vars PROVE NobodySleepsOnACompletedTask'
  BY <1>4 DEF vars
<1> QED BY <1>1, <1>2, <1>3, <1>4 DEF Next

(* A thread leaves its wait by Resume or by TimeOut.                       *)
LEMMA ReturnStep ==
  ASSUME TypeOK, Next, NEW t \in Waiters, Returns(t)
  PROVE  Resume(t) \/ TimeOut(t)
<1> USE DEF TypeOK, Returns, Waiting, Moves, ReturnOrSleep
<1>1. ASSUME NEW u \in Waiters, Wait(u) \/ WaitFor(u) \/ Elapse(u)
               \/ SpuriousWake(u)
      PROVE  FALSE
  BY <1>1 DEF Wait, WaitFor, Elapse, SpuriousWake
<1>2. ASSUME NEW u \in Waiters, Resume(u) \/ TimeOut(u) PROVE u = t
  BY <1>2 DEF Resume, Retest, TimeOut
<1>3. ASSUME NEW s \in Outcome, Complete(s) PROVE FALSE
  BY <1>3 DEF Complete, NotifyAll
<1> QED BY <1>1, <1>2, <1>3 DEF Next

-----------------------------------------------------------------------------

(* No thread sleeps through its own timeout.                               *)
THEOREM Typing == Spec => []TypeOK
<1>1. Init => TypeOK
  BY InitHolds
<1> QED BY <1>1, TypeStep, PTL DEF Spec

(* However many threads wait for a task, none of them sleeps once it is    *)
(* completed, whatever wakes them in between.                              *)
THEOREM NobodyIsForgotten == Spec => []NobodySleepsOnACompletedTask
<1>1. Init => NobodySleepsOnACompletedTask
  BY InitHolds
<1> QED BY <1>1, SleepersStep, Typing, PTL DEF Spec

(* A wait that returns from a pending task has run into its timeout, and   *)
(* the flag says so, although other threads write the same flag.           *)
THEOREM PendingHasAReason == Spec => PendingMeansTimedOut
<1>1. ASSUME TypeOK, Next, NEW t \in Waiters, Returns(t), m_status' = "Pending"
      PROVE  timed[t] /\ overdue[t] /\ m_timeout'
  <2>1. CASE TimeOut(t)
    BY <2>1 DEF TimeOut, FlagTimeout
  <2>2. CASE Resume(t)
    <3>1. waitPc'[t] = "sleeping"
      BY <1>1, <2>2 DEF TypeOK, Resume, Retest, ReturnOrSleep, Moves
    <3> QED BY <1>1, <3>1 DEF Returns, Waiting
  <2> QED BY <1>1, <2>1, <2>2, ReturnStep
<1>2. TypeOK /\ [Next]_vars
        => [\A t \in Waiters : Returns(t) /\ m_status' = "Pending"
              => timed[t] /\ overdue[t] /\ m_timeout']_vars
  BY <1>1
<1> QED BY <1>2, Typing, PTL DEF Spec, PendingMeansTimedOut
=============================================================================
