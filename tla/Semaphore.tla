----------------------------- MODULE Semaphore ------------------------------
(* Class Semaphore (include/wepp/semaphore.inl): an int, a mutex and a     *)
(* condition variable.                                                     *)
(*                                                                         *)
(* The mutex is held for the whole of every call but for the inside of     *)
(* m_condition.wait(), so a call is one step up to that wait, and what     *)
(* follows the wait is another.  reset() takes no mutex; its only caller   *)
(* (ThreadPool::start, under the pool's own mutex) never overlaps another  *)
(* call on the same semaphore, so it is one step as well.                  *)
EXTENDS Naturals, FiniteSets

CONSTANTS
  Threads,
  MaxValue   (* bound on m_value: notifyOne() is not called beyond it      *)

SemaphoreAssumption == IsFiniteSet(Threads) /\ MaxValue \in Nat

VARIABLES
  m_value,
  sleeping,  (* threads inside m_condition.wait()                          *)
  woken      (* threads on their way out of it, before they lock m_mutex   *)

vars == <<m_value, sleeping, woken>>

TypeOK ==
  /\ m_value \in Nat
  /\ sleeping \subseteq Threads /\ woken \subseteq Threads
  /\ sleeping \cap woken = {}

Init == m_value = 0 /\ sleeping = {} /\ woken = {}

Blocked == sleeping \cup woken

Idle(t) == t \notin Blocked

(* while (!m_value) m_condition.wait(lock); --m_value;                     *)
TakeOrSleep(t) ==
  IF m_value = 0
    THEN sleeping' = sleeping \cup {t} /\ UNCHANGED m_value
    ELSE m_value' = m_value - 1 /\ UNCHANGED sleeping

Wait(t) == Idle(t) /\ TakeOrSleep(t) /\ UNCHANGED woken

(* Faulty: "if" in place of "while".                                       *)
TakeUntested(t) == m_value' = m_value - 1 /\ UNCHANGED sleeping

(* Back at the head of the loop.                                           *)
Retest(t) == TakeOrSleep(t)

Resume(t) == t \in woken /\ woken' = woken \ {t} /\ Retest(t)

(* tryWait(); on a value of 0 it only returns false.                       *)
TryWait(t) ==
  /\ Idle(t)
  /\ m_value # 0
  /\ m_value' = m_value - 1
  /\ UNCHANGED <<sleeping, woken>>

Wake(s) == sleeping' = sleeping \ {s} /\ woken' = woken \cup {s}

(* Faulty: notify the condition only when m_value was 0.                   *)
NotifyFirst ==
  \/ m_value = 0 /\ \E s \in sleeping : Wake(s)
  \/ (m_value # 0 \/ sleeping = {}) /\ UNCHANGED <<sleeping, woken>>

(* m_condition.notify_one(): some sleeping thread, if there is one.        *)
NotifyCondition ==
  \/ \E s \in sleeping : Wake(s)
  \/ sleeping = {} /\ UNCHANGED <<sleeping, woken>>

NotifyOne(t) ==
  /\ Idle(t)
  /\ m_value < MaxValue
  /\ m_value' = m_value + 1
  /\ NotifyCondition

Reset(t) == Idle(t) /\ m_value' = 0 /\ UNCHANGED <<sleeping, woken>>

(* A condition variable may return from a wait nobody has notified.        *)
SpuriousWake(s) == s \in sleeping /\ Wake(s) /\ UNCHANGED m_value

Next ==
  \E t \in Threads :
    \/ Wait(t) \/ Resume(t) \/ TryWait(t) \/ NotifyOne(t) \/ Reset(t)
    \/ SpuriousWake(t)

(* A thread that was notified gets the mutex back.                         *)
Fairness == \A t \in Threads : WF_vars(Resume(t))

Spec == Init /\ [][Next]_vars

FairSpec == Spec /\ Fairness

-----------------------------------------------------------------------------

(* While a thread sleeps, every token that is left has a thread awake to   *)
(* take it: no notification is lost, although a thread that calls wait()   *)
(* or tryWait() may take the token of one that was notified.               *)
NoLostWakeup == sleeping # {} => m_value <= Cardinality(woken)

(* The semaphore is a counting semaphore: a thread is blocked from the     *)
(* moment it finds m_value 0 until it has decremented it, and a token does *)
(* not lie unused for ever while a thread is blocked.                      *)
Counting ==
  INSTANCE CountingSemaphore WITH value <- m_value, blocked <- Blocked

IsCountingSemaphore == Counting!Spec
=============================================================================
