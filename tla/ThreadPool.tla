----------------------------- MODULE ThreadPool -----------------------------
(***************************************************************************)
(* Priv::ThreadPool and its Priv::ThreadWorker objects                     *)
(* (include/wepp/priv/threadPool.inl).                                     *)
(*                                                                         *)
(* Three kinds of threads meet on the pool's m_mutex:                      *)
(*   - callers, which start, stop, fill and finally destroy the pool;      *)
(*   - the pool thread (m_thread), which allocates the workers, pairs work *)
(*     with idle workers and destroys the workers at the end;              *)
(*   - one thread per worker, which executes the work it is given.         *)
(*                                                                         *)
(* m_mutex is a variable because three critical sections last longer than  *)
(* one step: start() waits for the pool thread to come up, the pool thread *)
(* allocates the workers one at a time, and cleanup() joins every worker.  *)
(* Every other critical section is one step, taken while m_mutex is free.  *)
(* A Semaphore is the counter that module Semaphore shows it to be.        *)
(*                                                                         *)
(* std::thread cannot be assigned while it is joinable, and m_thread is    *)
(* joined by the destructor only: the pool thread starts at most once and  *)
(* a second successful start() calls std::terminate.                       *)
(***************************************************************************)
EXTENDS Naturals, Sequences, FiniteSets

CONSTANTS
  Callers,   (* threads that call the public functions                     *)
  Workers,   (* the m_minWorkers workers the pool allocates                *)
  Works,     (* argument tuples; each is enqueued at most once (the bound) *)
  Free,      (* m_mutex is not locked                                      *)
  Pool,      (* the pool thread, as the owner of m_mutex                   *)
  NoArgs     (* std::tuple<Args...>(): no work                             *)

ASSUME PoolAssumption ==
  /\ Workers # {} /\ IsFiniteSet(Workers)
  /\ Free \notin Callers /\ Pool \notin Callers /\ Free # Pool
  /\ NoArgs \notin Works

VARIABLES
  m_mutex, m_started, m_stopped, m_startedTask, m_stoppedTask,
  m_workerSet, m_workerQueue, m_workQueue,
  m_availableSemaphore, m_enqueueSemaphore,
  poolPc,       (* control point of the pool thread                        *)
  callerPc,     (* control point of each caller                            *)
  m_running,    (* the m_running flag of each worker                       *)
  m_args,       (* the m_args tuple of each worker                         *)
  m_semaphore,  (* the m_semaphore of each worker                          *)
  workerPc,     (* control point of each worker's thread                   *)
  destroyed,    (* workers whose destructor has begun                      *)
  executed,     (* history: executions begun with each argument tuple      *)
  submitted,    (* history: works enqueued so far                          *)
  stranded      (* history: works in the queue when start() reset tokens   *)

callerVars == <<callerPc, submitted>>
taskVars   == <<m_startedTask, m_stoppedTask>>
flagVars   == <<m_started, m_stopped>>
queueVars  == <<m_workerSet, m_workerQueue, m_workQueue>>
tokenVars  == <<m_availableSemaphore, m_enqueueSemaphore>>
workerVars == <<m_running, m_args, m_semaphore, workerPc, destroyed, executed>>

vars == <<m_mutex, flagVars, taskVars, queueVars, tokenVars, poolPc,
          callerVars, workerVars, stranded>>

Status == {"Pending", "Successful"}

PoolControl ==
  {"none", "boot", "allocate", "allocating", "enqueueWait", "availableWait",
   "dispatch", "cleanup", "deleting", "exited", "terminated"}

CallerControl ==
  {"idle", "starting", "stopWait", "joining", "destroyed", "terminated"}

WorkerControl ==
  {"unborn", "waiting", "executing", "returning", "resetting", "exited",
   "terminated"}

TypeOK ==
  /\ m_mutex \in Callers \cup {Free, Pool}
  /\ m_started \in BOOLEAN /\ m_stopped \in BOOLEAN
  /\ m_startedTask \in Status /\ m_stoppedTask \in Status
  /\ m_workerSet \in SUBSET Workers
  /\ m_workerQueue \in Seq(Workers)
  /\ m_workQueue \in Seq(Works)
  /\ m_availableSemaphore \in Nat /\ m_enqueueSemaphore \in Nat
  /\ poolPc \in PoolControl
  /\ callerPc \in [Callers -> CallerControl]
  /\ m_running \in [Workers -> BOOLEAN]
  /\ m_args \in [Workers -> Works \cup {NoArgs}]
  /\ m_semaphore \in [Workers -> Nat]
  /\ workerPc \in [Workers -> WorkerControl]
  /\ destroyed \in SUBSET Workers
  /\ executed \in [Works \cup {NoArgs} -> Nat]
  /\ submitted \in SUBSET Works
  /\ stranded \in Nat

Init ==
  /\ m_mutex = Free
  /\ m_started = FALSE /\ m_stopped = TRUE
  /\ m_startedTask = "Pending" /\ m_stoppedTask = "Pending"
  /\ m_workerSet = {} /\ m_workerQueue = <<>> /\ m_workQueue = <<>>
  /\ m_availableSemaphore = 0 /\ m_enqueueSemaphore = 0
  /\ poolPc = "none"
  /\ callerPc = [c \in Callers |-> "idle"]
  /\ m_running = [w \in Workers |-> FALSE]
  /\ m_args = [w \in Workers |-> NoArgs]
  /\ m_semaphore = [w \in Workers |-> 0]
  /\ workerPc = [w \in Workers |-> "unborn"]
  /\ destroyed = {}
  /\ executed = [x \in Works \cup {NoArgs} |-> 0]
  /\ submitted = {}
  /\ stranded = 0

-----------------------------------------------------------------------------
(* A definition whose comment begins with "Faulty" is not part of the      *)
(* specification: it is a slip the code could have had, put in the place   *)
(* of the definition after it to see that a property notices.              *)

(* Faulty: wait() that does not block.                                     *)
HasTokenOrNot(n) == n >= 0

(* Faulty: a semaphore that only remembers whether it was notified.        *)
NotifyBinary(n) == 1

(* Semaphore::wait() may return; the value after Semaphore::notifyOne().   *)

HasToken(n) == n > 0

Notify(n) == n + 1

-----------------------------------------------------------------------------
(* Callers.  The pool may be used until some caller runs its destructor.   *)

InUse == \A c \in Callers : callerPc[c] \in {"idle", "starting"}

Locks(c) == m_mutex = Free /\ InUse /\ callerPc[c] = "idle"

(* start() has passed its guard.  A refused start() only returns a failed  *)
(* task of its own: a stuttering step.                                     *)
MayStart(c) == Locks(c) /\ ~m_started /\ m_stopped

(* start(), up to threadSemaphore.wait(): m_mutex stays locked.            *)
Start(c) ==
  /\ MayStart(c)
  /\ poolPc = "none"
  /\ m_mutex' = c
  /\ m_startedTask' = "Pending"
  /\ m_enqueueSemaphore' = 0 /\ m_availableSemaphore' = 0
  /\ stranded' = Len(m_workQueue)
  /\ poolPc' = "boot"
  /\ callerPc' = [callerPc EXCEPT ![c] = "starting"]
  /\ UNCHANGED <<flagVars, m_stoppedTask, queueVars, submitted, workerVars>>

(* std::terminate: no thread takes another step.                           *)
Terminate ==
  /\ poolPc' = "terminated"
  /\ callerPc' = [c \in Callers |-> "terminated"]
  /\ workerPc' = [w \in Workers |-> "terminated"]

(* The same call on a pool that ran before assigns a joinable m_thread.    *)
StartAgain(c) ==
  /\ MayStart(c)
  /\ poolPc # "none"
  /\ Terminate
  /\ m_startedTask' = "Pending"
  /\ m_enqueueSemaphore' = 0 /\ m_availableSemaphore' = 0
  /\ UNCHANGED <<m_mutex, flagVars, m_stoppedTask, queueVars, submitted,
                 m_running, m_args, m_semaphore, destroyed, executed,
                 stranded>>

(* start(0, ...) throws, after it has replaced m_startedTask.              *)
StartWithoutWorkers(c) ==
  /\ MayStart(c)
  /\ m_startedTask' = "Pending"
  /\ UNCHANGED <<m_mutex, flagVars, m_stoppedTask, queueVars, tokenVars,
                 poolPc, callerVars, workerVars, stranded>>

(* threadSemaphore.wait() returns once the pool thread has signalled it.   *)
StartReturns(c) ==
  /\ callerPc[c] = "starting"
  /\ poolPc # "boot"
  /\ m_mutex' = Free
  /\ callerPc' = [callerPc EXCEPT ![c] = "idle"]
  /\ UNCHANGED <<flagVars, taskVars, queueVars, tokenVars, poolPc, submitted,
                 workerVars, stranded>>

(* The part of stop() past its guard.  The two notifications only enable   *)
(* the pool thread, so the handler is one step.                            *)
RequestStop ==
  /\ m_stoppedTask' = "Pending"
  /\ m_started' = FALSE
  /\ m_enqueueSemaphore' = Notify(m_enqueueSemaphore)
  /\ m_availableSemaphore' = Notify(m_availableSemaphore)

MayStop == m_started /\ ~m_stopped

(* A refused stop() returns a finished task of its own and changes nothing.*)
Stop(c) ==
  /\ Locks(c)
  /\ MayStop
  /\ RequestStop
  /\ UNCHANGED <<m_mutex, m_stopped, m_startedTask, queueVars, poolPc,
                 callerVars, workerVars, stranded>>

Enqueue(c, x) ==
  /\ Locks(c)
  /\ x \notin submitted
  /\ submitted' = submitted \cup {x}
  /\ m_workQueue' = Append(m_workQueue, x)
  /\ m_enqueueSemaphore' = Notify(m_enqueueSemaphore)
  /\ UNCHANGED <<m_mutex, flagVars, taskVars, m_workerSet, m_workerQueue,
                 m_availableSemaphore, poolPc, callerPc, workerVars,
                 stranded>>

(* ~ThreadPool(): stop().wait(), then join m_thread.  The task of a refused*)
(* stop() is already finished.  No other call may overlap a destructor.    *)
Destroy(c) ==
  /\ Locks(c)
  /\ \/ /\ MayStop
        /\ RequestStop
        /\ callerPc' = [callerPc EXCEPT ![c] = "stopWait"]
     \/ /\ ~MayStop
        /\ callerPc' = [callerPc EXCEPT ![c] = "joining"]
        /\ UNCHANGED <<m_stoppedTask, m_started, tokenVars>>
  /\ UNCHANGED <<m_mutex, m_stopped, m_startedTask, queueVars, poolPc,
                 submitted, workerVars, stranded>>

DestroyJoins(c) ==
  /\ callerPc[c] = "stopWait"
  /\ m_stoppedTask # "Pending"
  /\ callerPc' = [callerPc EXCEPT ![c] = "joining"]
  /\ UNCHANGED <<m_mutex, flagVars, taskVars, queueVars, tokenVars, poolPc,
                 submitted, workerVars, stranded>>

DestroyReturns(c) ==
  /\ callerPc[c] = "joining"
  /\ poolPc \in {"none", "exited"}
  /\ callerPc' = [callerPc EXCEPT ![c] = "destroyed"]
  /\ UNCHANGED <<m_mutex, flagVars, taskVars, queueVars, tokenVars, poolPc,
                 submitted, workerVars, stranded>>

-----------------------------------------------------------------------------
(* The pool thread.                                                        *)

Boot ==
  /\ poolPc = "boot"
  /\ m_started' = TRUE /\ m_stopped' = FALSE
  /\ poolPc' = "allocate"
  /\ UNCHANGED <<m_mutex, taskVars, queueVars, tokenVars, callerVars,
                 workerVars, stranded>>

LockForAllocation ==
  /\ poolPc = "allocate"
  /\ m_mutex = Free
  /\ m_mutex' = Pool
  /\ poolPc' = "allocating"
  /\ UNCHANGED <<flagVars, taskVars, queueVars, tokenVars, callerVars,
                 workerVars, stranded>>

(* new T(this, ...): the constructor returns when the worker's thread has  *)
(* set m_running.                                                          *)
Allocate(w) ==
  /\ poolPc = "allocating"
  /\ w \notin m_workerSet
  /\ m_workerSet' = m_workerSet \cup {w}
  /\ m_workerQueue' = Append(m_workerQueue, w)
  /\ m_availableSemaphore' = Notify(m_availableSemaphore)
  /\ m_running' = [m_running EXCEPT ![w] = TRUE]
  /\ workerPc' = [workerPc EXCEPT ![w] = "waiting"]
  /\ UNCHANGED <<m_mutex, flagVars, taskVars, m_workQueue,
                 m_enqueueSemaphore, poolPc, callerVars, m_args, m_semaphore,
                 destroyed, executed, stranded>>

(* while (m_started): a stop() may have come first.                        *)
LoopOrLeave == poolPc' = IF m_started THEN "enqueueWait" ELSE "cleanup"

Allocated ==
  /\ poolPc = "allocating"
  /\ m_workerSet = Workers
  /\ m_mutex' = Free
  /\ m_startedTask' = "Successful"
  /\ LoopOrLeave
  /\ UNCHANGED <<flagVars, m_stoppedTask, queueVars, tokenVars, callerVars,
                 workerVars, stranded>>

AwaitWork ==
  /\ poolPc = "enqueueWait"
  /\ HasToken(m_enqueueSemaphore)
  /\ m_enqueueSemaphore' = m_enqueueSemaphore - 1
  /\ poolPc' = "availableWait"
  /\ UNCHANGED <<m_mutex, flagVars, taskVars, queueVars,
                 m_availableSemaphore, callerVars, workerVars, stranded>>

(* Faulty: no test of m_started behind the two waits.                      *)
DispatchAlways == poolPc' = "dispatch"

(* if (!m_started) break;                                                  *)
DispatchOrLeave == poolPc' = IF m_started THEN "dispatch" ELSE "cleanup"

(* m_availableSemaphore.wait(), and the test behind it.                    *)
AwaitWorker ==
  /\ poolPc = "availableWait"
  /\ HasToken(m_availableSemaphore)
  /\ m_availableSemaphore' = m_availableSemaphore - 1
  /\ DispatchOrLeave
  /\ UNCHANGED <<m_mutex, flagVars, taskVars, queueVars, m_enqueueSemaphore,
                 callerVars, workerVars, stranded>>

(* Faulty: front() without pop().                                          *)
KeepWorker == UNCHANGED m_workerQueue

KeepWork == UNCHANGED m_workQueue

PopWorker == m_workerQueue' = Tail(m_workerQueue)

PopWork == m_workQueue' = Tail(m_workQueue)

(* Pop a worker and a work, and worker->work(...): fill m_args and notify. *)
Dispatch ==
  /\ poolPc = "dispatch"
  /\ m_mutex = Free
  /\ PopWorker
  /\ PopWork
  /\ LET w == Head(m_workerQueue)
     IN /\ m_args' = [m_args EXCEPT ![w] = Head(m_workQueue)]
        /\ m_semaphore' = [m_semaphore EXCEPT ![w] = Notify(@)]
  /\ LoopOrLeave
  /\ UNCHANGED <<m_mutex, flagVars, taskVars, m_workerSet, tokenVars,
                 callerVars, m_running, workerPc, destroyed, executed,
                 stranded>>

LockForCleanup ==
  /\ poolPc = "cleanup"
  /\ m_mutex = Free
  /\ m_mutex' = Pool
  /\ poolPc' = "deleting"
  /\ UNCHANGED <<flagVars, taskVars, queueVars, tokenVars, callerVars,
                 workerVars, stranded>>

(* Faulty: a destructor that does not join.                                *)
Detached == TRUE

(* ~ThreadWorker() joins the worker's thread before the loop moves on.     *)
Joined == \A w \in destroyed : workerPc[w] = "exited"

(* Faulty: ~ThreadWorker() that only clears m_running.                     *)
FreeNoWorker(w) == UNCHANGED m_semaphore

(* ~ThreadWorker() frees the worker's thread from its wait.                *)
FreeWorker(w) == m_semaphore' = [m_semaphore EXCEPT ![w] = Notify(@)]

Delete(w) ==
  /\ poolPc = "deleting"
  /\ Joined
  /\ w \in m_workerSet \ destroyed
  /\ destroyed' = destroyed \cup {w}
  /\ m_running' = [m_running EXCEPT ![w] = FALSE]
  /\ FreeWorker(w)
  /\ UNCHANGED <<m_mutex, flagVars, taskVars, queueVars, tokenVars, poolPc,
                 callerVars, m_args, workerPc, executed, stranded>>

FinishCleanup ==
  /\ poolPc = "deleting"
  /\ Joined
  /\ destroyed = m_workerSet
  /\ m_workerSet' = {} /\ m_workerQueue' = <<>> /\ m_workQueue' = <<>>
  /\ m_stopped' = TRUE
  /\ m_stoppedTask' = "Successful"
  /\ m_mutex' = Free
  /\ poolPc' = "exited"
  /\ UNCHANGED <<m_started, m_startedTask, tokenVars, callerVars, workerVars,
                 stranded>>

-----------------------------------------------------------------------------
(* The workers.                                                            *)

(* m_semaphore.wait(); if (!m_running) break; execute(m_args...).          *)
Wake(w) ==
  /\ workerPc[w] = "waiting"
  /\ HasToken(m_semaphore[w])
  /\ m_semaphore' = [m_semaphore EXCEPT ![w] = @ - 1]
  /\ IF m_running[w]
       THEN /\ workerPc' = [workerPc EXCEPT ![w] = "executing"]
            /\ executed' = [executed EXCEPT ![m_args[w]] = @ + 1]
       ELSE /\ workerPc' = [workerPc EXCEPT ![w] = "exited"]
            /\ UNCHANGED executed
  /\ UNCHANGED <<m_mutex, flagVars, taskVars, queueVars, tokenVars, poolPc,
                 callerVars, m_running, m_args, destroyed, stranded>>

(* execute() returns: the work is done.                                    *)
Complete(w) ==
  /\ workerPc[w] = "executing"
  /\ workerPc' = [workerPc EXCEPT ![w] = "returning"]
  /\ UNCHANGED <<m_mutex, flagVars, taskVars, queueVars, tokenVars, poolPc,
                 callerVars, m_running, m_args, m_semaphore, destroyed,
                 executed, stranded>>

(* m_pool->returnWorker(this), which throws if the pool does not own it.  *)
ReturnWorker(w) ==
  /\ workerPc[w] = "returning"
  /\ m_mutex = Free
  /\ IF w \in m_workerSet
       THEN /\ m_workerQueue' = Append(m_workerQueue, w)
            /\ m_availableSemaphore' = Notify(m_availableSemaphore)
            /\ workerPc' = [workerPc EXCEPT ![w] = "resetting"]
            /\ UNCHANGED <<poolPc, callerPc>>
       ELSE /\ Terminate
            /\ UNCHANGED <<m_workerQueue, m_availableSemaphore>>
  /\ UNCHANGED <<m_mutex, flagVars, taskVars, m_workerSet, m_workQueue,
                 m_enqueueSemaphore, submitted, m_running, m_args,
                 m_semaphore, destroyed, executed, stranded>>

(* m_args = std::tuple<Args...>(); then while (m_running).  The worker is  *)
(* in the queue already: this write and Dispatch's write of m_args are not *)
(* ordered by any mutex.                                                   *)
ResetArgs(w) ==
  /\ workerPc[w] = "resetting"
  /\ m_args' = [m_args EXCEPT ![w] = NoArgs]
  /\ workerPc' = [workerPc EXCEPT ![w] =
                    IF m_running[w] THEN "waiting" ELSE "exited"]
  /\ UNCHANGED <<m_mutex, flagVars, taskVars, queueVars, tokenVars, poolPc,
                 callerVars, m_running, m_semaphore, destroyed, executed,
                 stranded>>

-----------------------------------------------------------------------------

CallerStep(c) ==
  \/ Start(c) \/ StartAgain(c) \/ StartWithoutWorkers(c) \/ StartReturns(c)
  \/ Stop(c)
  \/ \E x \in Works : Enqueue(c, x)
  \/ Destroy(c) \/ DestroyJoins(c) \/ DestroyReturns(c)

PoolStep ==
  \/ Boot \/ LockForAllocation \/ Allocated
  \/ AwaitWork \/ AwaitWorker \/ Dispatch
  \/ LockForCleanup \/ FinishCleanup
  \/ \E w \in Workers : Allocate(w) \/ Delete(w)

WorkerStep(w) == Wake(w) \/ Complete(w) \/ ReturnWorker(w) \/ ResetArgs(w)

Next ==
  \/ \E c \in Callers : CallerStep(c)
  \/ PoolStep
  \/ \E w \in Workers : WorkerStep(w)

(* The scheduler runs every thread that can take a step.  A caller need    *)
(* not make another call, but a call it has begun goes on, and execute()   *)
(* returns (its callback and its peer are assumed to).                     *)
CallReturns(c) == StartReturns(c) \/ DestroyJoins(c) \/ DestroyReturns(c)

Fairness ==
  /\ \A c \in Callers : WF_vars(CallReturns(c))
  /\ WF_vars(PoolStep)
  /\ \A w \in Workers : WF_vars(WorkerStep(w))

Spec == Init /\ [][Next]_vars

FairSpec == Spec /\ Fairness

-----------------------------------------------------------------------------
(* Properties.                                                             *)

Queued(w) == \E i \in DOMAIN m_workerQueue : m_workerQueue[i] = w

Waiting(x) == \E i \in DOMAIN m_workQueue : m_workQueue[i] = x

(* The pool thread pops both queues only when both hold something: the     *)
(* tokens of the two semaphores never run ahead of the queues, although    *)
(* start() resets the tokens and keeps the queues, and stop() adds tokens  *)
(* without adding to the queues (front() of an empty std::queue is         *)
(* undefined behaviour).                                                   *)
DispatchFindsBoth ==
  poolPc = "dispatch" => m_workerQueue # <<>> /\ m_workQueue # <<>>

(* A worker in m_workerQueue is there once, is owned by the pool and has   *)
(* finished its last execute() with no notification left over: nothing is  *)
(* dispatched to a worker that is still executing.                         *)
QueuedWorkersAreIdle ==
  poolPc # "deleting" =>
    /\ \A i, j \in DOMAIN m_workerQueue :
         m_workerQueue[i] = m_workerQueue[j] => i = j
    /\ \A w \in Workers : Queued(w) =>
         /\ w \in m_workerSet
         /\ workerPc[w] \in {"waiting", "resetting"}
         /\ m_semaphore[w] = 0

(* What a worker was notified of and has not begun, and what it executes.  *)
Given ==
  [w \in Workers |->
     IF m_running[w] /\ m_semaphore[w] > 0
          /\ workerPc[w] \in {"waiting", "resetting"}
       THEN m_args[w] ELSE NoArgs]

Doing ==
  [w \in Workers |-> IF workerPc[w] = "executing" THEN m_args[w] ELSE NoArgs]

Begun == {x \in Works : executed[x] > 0}

WorkQueueOf ==
  INSTANCE WorkQueue WITH
    waiting <- m_workQueue, given <- Given, doing <- Doing, begun <- Begun

(* To its callers the pool is the queue WorkQueue describes: under every   *)
(* order of enqueue(), start(), stop() and the workers' returns no work is *)
(* handed out twice, out of order, to two workers or to one that has a     *)
(* work under way, none is begun twice, the arguments of an execute() stay *)
(* what they are until it returns, and cleanup() drops the queue when all  *)
(* workers are done.                                                       *)
IsWorkQueue == WorkQueueOf!Spec

(* When the pool's destructor has returned, no thread of the pool runs.    *)
DestroyedIsQuiescent ==
  (\E c \in Callers : callerPc[c] = "destroyed") =>
    /\ poolPc \in {"none", "exited"}
    /\ \A w \in Workers : workerPc[w] \in {"unborn", "exited"}

(* While the pool is not stopped, enqueued work is dispatched: the queue   *)
(* comes down to the works that start() found there, whose tokens it threw *)
(* away.                                                                   *)
BacklogDrains ==
  (poolPc = "enqueueWait" /\ m_started)
    ~> (~m_started \/ Len(m_workQueue) <= stranded)

(* A stop whose cleanup finds no worker inside execute() or returnWorker() *)
(* completes, and the destructor that waits for it returns.                *)
IdlePoolStops ==
  (poolPc = "deleting" /\ \A w \in Workers :
      workerPc[w] \notin {"executing", "returning"} /\ m_semaphore[w] = 0)
    ~> (m_stoppedTask = "Successful" /\ poolPc = "exited")

(* "Task controller for indicating completion of pool stoppage"            *)
(* (threadPool.hpp:225): a stop() that was accepted is completed.          *)
StopCompletes ==
  (~m_started /\ poolPc \notin {"none", "boot"} /\ m_stoppedTask = "Pending")
    ~> (m_stoppedTask = "Successful" \/ poolPc = "terminated")

(* "Enqueue work and pass it to worker when any worker is available."      *)
(* (threadPool.hpp:186): a worker executes the arguments it was handed,    *)
(* never an empty tuple.                                                   *)
WorkReachesWorker == executed[NoArgs] = 0

=============================================================================
