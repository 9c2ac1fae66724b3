---------------------------- MODULE MCThreadPool ----------------------------
(* The pool, or one of the two classes its threads wait with: a semaphore  *)
(* or a task.  Two callers, two workers and three works let a work wait    *)
(* for a worker, a worker be handed a second work, and a stop() overlap an *)
(* enqueue() and an execute().                                             *)
EXTENDS ThreadPool

CONSTANTS Threads, MaxValue, Waiters

VARIABLES
  part,                                            (* which of the three   *)
  m_value, sleeping, woken,                        (* of the semaphore     *)
  m_status, m_timeout, waitPc, timed, overdue      (* of the task          *)

semaphoreVars == <<m_value, sleeping, woken>>

stateVars == <<m_status, m_timeout, waitPc, timed, overdue>>

Semaphores == INSTANCE Semaphore

Tasks == INSTANCE Task

ASSUME ThreadsAssumption == Semaphores!SemaphoreAssumption

CONSTANTS c1, c2, w1, w2, x1, x2, x3, t1, t2, t3, t4, t5

MCCallers == {c1, c2}
MCWorkers == {w1, w2}
MCWorks   == {x1, x2, x3}

(* Five threads, and four tokens in the configuration: two threads         *)
(* notified at once, a third that takes a token before them, and threads   *)
(* that go on sleeping.                                                    *)
MCThreads == {t1, t2, t3, t4, t5}

(* Two waits with timeouts that share the timeout flag and one without,    *)
(* and one thread more than notify_one() could wake.                       *)
MCWaiters == {t1, t2, t3}

-----------------------------------------------------------------------------

MCInit ==
  /\ Init /\ Semaphores!Init /\ Tasks!Init
  /\ part \in {"pool", "semaphore", "task"}

OnPool == part = "pool" /\ UNCHANGED <<part, semaphoreVars, stateVars>>

OnSemaphore == part = "semaphore" /\ UNCHANGED <<part, vars, stateVars>>

OnTask == part = "task" /\ UNCHANGED <<part, vars, semaphoreVars>>

MCNext ==
  (OnPool /\ Next) \/ (OnSemaphore /\ Semaphores!Next) \/ (OnTask /\ Tasks!Next)

MCSpec == MCInit /\ [][MCNext]_<<part, vars, semaphoreVars, stateVars>>

(* Nothing these ask for can be done in the parts that were not chosen.    *)
MCFairSpec == MCSpec /\ Fairness /\ Semaphores!Fairness /\ Tasks!Fairness

TypesOK == TypeOK /\ Semaphores!TypeOK /\ Tasks!TypeOK

-----------------------------------------------------------------------------
(* Properties of modules Semaphore and Task, under their names there.      *)

(* No notification of a semaphore is lost.                                 *)
NoLostWakeup == Semaphores!NoLostWakeup

(* The semaphore is a counting semaphore.                                  *)
IsCountingSemaphore == Semaphores!IsCountingSemaphore

(* Nobody sleeps on a completed task.                                      *)
NobodySleepsOnACompletedTask == Tasks!NobodySleepsOnACompletedTask

(* A wait returns from a pending task only when its time is over, and the  *)
(* flag says so.                                                           *)
PendingMeansTimedOut == Tasks!PendingMeansTimedOut

(* A wait that has a timeout, or whose task is completed, returns.         *)
WaitersReturn == Tasks!WaitersReturn
=============================================================================
