-------------------------------- MODULE Task --------------------------------
(* One shared state of class Task (include/wepp/task.inl): the tasks that  *)
(* wait for it and the controllers that complete it.                       *)
(*                                                                         *)
(* Every function holds m_mutex from end to end but for the inside of      *)
(* m_condition.wait() and wait_until(), so a call is one step up to that   *)
(* wait and what follows the wait is another.  The value of the task is    *)
(* written by the controller before it completes the task and is not       *)
(* modelled.                                                               *)
EXTENDS Naturals

CONSTANTS
  Waiters   (* threads with a Task of the shared state                     *)

VARIABLES
  m_status, m_timeout,
  waitPc,   (* where each thread is in its wait                            *)
  timed,    (* the wait has a timeout                                      *)
  overdue   (* ... which has been reached                                  *)

vars == <<m_status, m_timeout, waitPc, timed, overdue>>

Outcome == {"Successful", "Failed"}

(* Types, and: a thread whose time is over is not left sleeping.           *)
TypeOK ==
  /\ m_status \in Outcome \cup {"Pending"}
  /\ m_timeout \in BOOLEAN
  /\ waitPc \in [Waiters -> {"idle", "sleeping", "woken"}]
  /\ timed \in [Waiters -> BOOLEAN] /\ overdue \in [Waiters -> BOOLEAN]
  /\ \A t \in Waiters : timed[t] /\ overdue[t] => waitPc[t] # "sleeping"

Init ==
  /\ m_status = "Pending" /\ m_timeout = FALSE
  /\ waitPc = [t \in Waiters |-> "idle"]
  /\ timed = [t \in Waiters |-> FALSE]
  /\ overdue = [t \in Waiters |-> FALSE]

Moves(t, pc) == waitPc' = [waitPc EXCEPT ![t] = pc]

(* while (m_status == Pending) wait: return or go (back) to sleep.         *)
ReturnOrSleep(t) ==
  Moves(t, IF m_status = "Pending" THEN "sleeping" ELSE "idle")

Wait(t) ==
  /\ waitPc[t] = "idle"
  /\ timed' = [timed EXCEPT ![t] = FALSE]
  /\ ReturnOrSleep(t)
  /\ UNCHANGED <<m_status, m_timeout, overdue>>

WaitFor(t) ==
  /\ waitPc[t] = "idle"
  /\ m_timeout' = FALSE
  /\ timed' = [timed EXCEPT ![t] = TRUE]
  /\ overdue' = [overdue EXCEPT ![t] = FALSE]
  /\ ReturnOrSleep(t)
  /\ UNCHANGED m_status

(* now + timeout is reached: a sleeping thread wakes up.                   *)
Elapse(t) ==
  /\ waitPc[t] # "idle" /\ timed[t] /\ ~overdue[t]
  /\ overdue' = [overdue EXCEPT ![t] = TRUE]
  /\ Moves(t, "woken")
  /\ UNCHANGED <<m_status, m_timeout, timed>>

(* Faulty: "if" in place of "while".                                       *)
ReturnAnyway(t) == Moves(t, "idle")

(* Back at the head of the loop.                                           *)
Retest(t) == ReturnOrSleep(t)

(* Faulty: what wait_until() returns is not looked at.                     *)
AnyReturn(t) == TRUE

(* wait(), or wait_until() that does not return cv_status::timeout: when   *)
(* the time is over, only a thread that was notified may be told so.       *)
NoTimeout(t) == timed[t] /\ overdue[t] => m_status # "Pending"

Resume(t) ==
  /\ waitPc[t] = "woken"
  /\ NoTimeout(t)
  /\ Retest(t)
  /\ UNCHANGED <<m_status, m_timeout, timed, overdue>>

(* Faulty: break without setting the flag.                                 *)
GiveUpSilently == UNCHANGED m_timeout

FlagTimeout == m_timeout' = TRUE

(* wait_until() returned cv_status::timeout: the status is not looked at.  *)
TimeOut(t) ==
  /\ waitPc[t] = "woken" /\ timed[t] /\ overdue[t]
  /\ FlagTimeout
  /\ Moves(t, "idle")
  /\ UNCHANGED <<m_status, timed, overdue>>

(* Faulty: m_condition.notify_one().                                       *)
NotifyOne ==
  \E t \in Waiters :
    /\ waitPc[t] = "sleeping" \/ \A u \in Waiters : waitPc[u] # "sleeping"
    /\ waitPc' = [waitPc EXCEPT ![t] = IF @ = "sleeping" THEN "woken" ELSE @]

NotifyAll ==
  waitPc' = [t \in Waiters |->
               IF waitPc[t] = "sleeping" THEN "woken" ELSE waitPc[t]]

(* finish() and fail(): a completed task may be completed again, and then  *)
(* changes its outcome.                                                    *)
Complete(s) ==
  /\ m_status' = s
  /\ NotifyAll
  /\ UNCHANGED <<m_timeout, timed, overdue>>

SpuriousWake(t) ==
  /\ waitPc[t] = "sleeping"
  /\ Moves(t, "woken")
  /\ UNCHANGED <<m_status, m_timeout, timed, overdue>>

Next ==
  \/ \E t \in Waiters :
       \/ Wait(t) \/ WaitFor(t) \/ Elapse(t) \/ Resume(t) \/ TimeOut(t)
       \/ SpuriousWake(t)
  \/ \E s \in Outcome : Complete(s)

(* Time passes and a thread that was woken gets the mutex back.  Nobody    *)
(* need complete the task.                                                 *)
Fairness ==
  \A t \in Waiters : WF_vars(Elapse(t)) /\ WF_vars(Resume(t) \/ TimeOut(t))

Spec == Init /\ [][Next]_vars

FairSpec == Spec /\ Fairness

-----------------------------------------------------------------------------

Waiting(t) == waitPc[t] # "idle"

Returns(t) == Waiting(t) /\ ~Waiting(t)'

(* Nobody sleeps on a completed task, however many threads waited for it.  *)
NobodySleepsOnACompletedTask ==
  m_status # "Pending" => \A t \in Waiters : waitPc[t] # "sleeping"

(* Whatever woke the thread, a wait returns from a pending task for one    *)
(* reason only: it has a timeout, its time is over, and the timeout flag   *)
(* says so.                                                                *)
PendingMeansTimedOut ==
  [][\A t \in Waiters : Returns(t) /\ m_status' = "Pending"
       => timed[t] /\ overdue[t] /\ m_timeout']_vars

(* Every wait with a timeout returns, and so does every wait for a task    *)
(* that is completed.                                                      *)
WaitersReturn ==
  \A t \in Waiters :
    (Waiting(t) /\ (timed[t] \/ m_status # "Pending")) ~> ~Waiting(t)
=============================================================================
