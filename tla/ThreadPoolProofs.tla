-------------------------- MODULE ThreadPoolProofs --------------------------
(* Theorems about ThreadPool, for every set of callers, workers and works. *)
EXTENDS ThreadPool, TLAPS

(* The tokens of the two semaphores never run ahead of the two queues, the *)
(* tokens the pool thread has taken included.  A stop() breaks the bound,  *)
(* and start() restores it before the pool thread can see m_started.       *)
Held(b) == IF b THEN 1 ELSE 0

TokensCovered ==
  /\ poolPc = "boot" =>
       /\ m_mutex # Free
       /\ m_enqueueSemaphore = 0 /\ m_availableSemaphore = 0
  /\ m_started =>
       /\ m_enqueueSemaphore + Held(poolPc \in {"availableWait", "dispatch"})
            <= Len(m_workQueue)
       /\ m_availableSemaphore + Held(poolPc = "dispatch")
            <= Len(m_workerQueue)

(* The flags and the control point of the pool thread agree.               *)
FlagsAgree ==
  /\ m_started =>
       poolPc \notin {"none", "boot", "cleanup", "deleting", "exited"}
  /\ m_stopped => poolPc \in {"none", "boot", "exited", "terminated"}

Unborn(w) == workerPc[w] = "unborn" /\ m_semaphore[w] = 0

(* A worker the pool owns runs, and is notified at most once at a time.    *)
InService(w) ==
  /\ m_running[w]
  /\ workerPc[w] \in {"waiting", "executing", "returning", "resetting"}
  /\ m_semaphore[w] <= 1
  /\ workerPc[w] \in {"executing", "returning"} => m_semaphore[w] = 0

(* What each phase of the pool thread knows of the workers.                *)
Phases ==
  /\ poolPc \in {"none", "boot", "allocate"} =>
       m_workerSet = {} /\ m_workerQueue = <<>>
  /\ poolPc \notin {"exited", "terminated"} =>
       \A w \in Workers \ m_workerSet : Unborn(w)
  /\ poolPc \notin {"deleting", "exited", "terminated"} =>
       \A w \in m_workerSet : InService(w)
  /\ poolPc = "exited" =>
       m_workerQueue = <<>>
         /\ \A w \in Workers : workerPc[w] \in {"unborn", "exited"}
  /\ poolPc = "terminated" =>
       m_workerQueue = <<>> /\ \A w \in Workers : workerPc[w] = "terminated"

(* A work is in one place: in the queue, with one worker that was notified *)
(* of it and has not begun, or executed.                                   *)
InFlight(w, x) == m_running[w] /\ m_semaphore[w] > 0 /\ m_args[w] = x

WorkInOnePlace ==
  /\ \A w \in Workers : m_running[w] =>
       /\ m_semaphore[w] <= 1
       /\ workerPc[w] \in {"executing", "returning"} => m_semaphore[w] = 0
  /\ \A x \in Works :
       Waiting(x) \/ executed[x] > 0 => x \in submitted
  /\ \A x \in Works, w \in Workers : InFlight(w, x) =>
       /\ x \in submitted
       /\ ~Waiting(x) /\ executed[x] = 0
       /\ \A v \in Workers : InFlight(v, x) => v = w

(* No work is handed out twice: it is executed at most once, is not in     *)
(* m_workQueue any more when it is, and waits there in one place only.     *)
ExecutedAtMostOnce ==
  /\ \A i, j \in DOMAIN m_workQueue : m_workQueue[i] = m_workQueue[j] => i = j
  /\ \A x \in Works : executed[x] <= 1 /\ (executed[x] = 1 => ~Waiting(x))

IInv ==
  /\ TypeOK
  /\ TokensCovered
  /\ FlagsAgree
  /\ Phases
  /\ DispatchFindsBoth
  /\ QueuedWorkersAreIdle
  /\ WorkInOnePlace
  /\ ExecutedAtMostOnce
  /\ DestroyedIsQuiescent

-----------------------------------------------------------------------------
(* The three operators on sequences the pool uses its queues with.         *)

LEMMA HeadIsFirst ==
  ASSUME NEW S, NEW q \in Seq(S), q # <<>>
  PROVE  1 \in DOMAIN q /\ Head(q) = q[1] /\ Head(q) \in S
  OBVIOUS

LEMMA TailShifts ==
  ASSUME NEW S, NEW q \in Seq(S), q # <<>>, NEW i \in DOMAIN Tail(q)
  PROVE  i + 1 \in DOMAIN q /\ Tail(q)[i] = q[i + 1] /\ i \in Nat \ {0}
  OBVIOUS

LEMMA AppendAdds ==
  ASSUME NEW S, NEW q \in Seq(S), NEW e, NEW i \in DOMAIN Append(q, e)
  PROVE  \/ i \in DOMAIN q /\ Append(q, e)[i] = q[i]
         \/ i \notin DOMAIN q /\ i = Len(q) + 1 /\ Append(q, e)[i] = e
  OBVIOUS

-----------------------------------------------------------------------------
(* Every step preserves every part of IInv.                                *)

LEMMA TypeStep == IInv /\ [Next]_vars => TypeOK'
<1> SUFFICES ASSUME IInv, [Next]_vars PROVE TypeOK'
  OBVIOUS
<1> USE DEF IInv, TypeOK, DispatchFindsBoth, Status, PoolControl,
           CallerControl, WorkerControl,
           vars, flagVars, taskVars, queueVars, tokenVars, callerVars,
           workerVars
<1>1. ASSUME NEW c \in Callers, Start(c) PROVE TypeOK'
  BY <1>1 DEF Start, MayStart, Locks
<1>2. ASSUME NEW c \in Callers, StartAgain(c) PROVE TypeOK'
  BY <1>2 DEF StartAgain, MayStart, Locks, Terminate
<1>3. ASSUME NEW c \in Callers, StartWithoutWorkers(c) PROVE TypeOK'
  BY <1>3 DEF StartWithoutWorkers, MayStart, Locks
<1>4. ASSUME NEW c \in Callers, StartReturns(c) PROVE TypeOK'
  BY <1>4 DEF StartReturns
<1>5. ASSUME NEW c \in Callers, Stop(c) PROVE TypeOK'
  <2>1. m_stopped' = m_stopped /\ m_started' = FALSE
          /\ m_stoppedTask' = "Pending"
    BY <1>5 DEF Stop, Locks, MayStop, RequestStop, Notify
  <2>2. m_enqueueSemaphore' \in Nat /\ m_availableSemaphore' \in Nat
    BY <1>5 DEF Stop, Locks, MayStop, RequestStop, Notify
  <2>3. UNCHANGED <<m_mutex, m_startedTask, queueVars, poolPc, callerVars,
                    workerVars, stranded>>
    BY <1>5 DEF Stop, Locks, MayStop, RequestStop, Notify
  <2> QED BY <2>1, <2>2, <2>3
<1>6. ASSUME NEW c \in Callers, Destroy(c) PROVE TypeOK'
  <2>1. m_stopped' = m_stopped /\ m_started' \in BOOLEAN
          /\ m_stoppedTask' \in Status
    BY <1>6, Zenon DEF Destroy, Locks, MayStop, RequestStop, Notify
  <2>2. m_enqueueSemaphore' \in Nat /\ m_availableSemaphore' \in Nat
    BY <1>6 DEF Destroy, Locks, MayStop, RequestStop, Notify
  <2>3. callerPc' \in [Callers -> CallerControl]
    BY <1>6 DEF Destroy, Locks, MayStop, RequestStop, Notify
  <2>4. UNCHANGED <<m_mutex, m_startedTask, queueVars, poolPc, submitted,
                    workerVars, stranded>>
    BY <1>6 DEF Destroy, Locks, MayStop, RequestStop, Notify
  <2> QED BY <2>1, <2>2, <2>3, <2>4
<1>7. ASSUME NEW c \in Callers, DestroyJoins(c) PROVE TypeOK'
  BY <1>7 DEF DestroyJoins
<1>8. ASSUME NEW c \in Callers, DestroyReturns(c) PROVE TypeOK'
  BY <1>8 DEF DestroyReturns
<1>9. ASSUME NEW c \in Callers, NEW x \in Works, Enqueue(c, x) PROVE TypeOK'
  BY <1>9 DEF Enqueue, Locks, Notify
<1>10. ASSUME Boot PROVE TypeOK'
  BY <1>10 DEF Boot
<1>11. ASSUME LockForAllocation PROVE TypeOK'
  BY <1>11 DEF LockForAllocation
<1>12. ASSUME Allocated PROVE TypeOK'
  BY <1>12 DEF Allocated, LoopOrLeave
<1>13. ASSUME AwaitWork PROVE TypeOK'
  BY <1>13 DEF AwaitWork, HasToken
<1>14. ASSUME AwaitWorker PROVE TypeOK'
  BY <1>14 DEF AwaitWorker, HasToken, DispatchOrLeave
<1>15. ASSUME Dispatch PROVE TypeOK'
  <2>1. m_workerQueue # <<>> /\ m_workQueue # <<>>
    BY <1>15 DEF Dispatch
  <2>2. Head(m_workerQueue) \in Workers /\ Head(m_workQueue) \in Works
    BY <2>1, HeadIsFirst
  <2>3. m_workerQueue' \in Seq(Workers) /\ m_workQueue' \in Seq(Works)
    BY <1>15, <2>1 DEF Dispatch, PopWorker, PopWork
  <2>4. m_args' \in [Workers -> Works \cup {NoArgs}]
    BY <1>15, <2>2 DEF Dispatch
  <2>5. m_semaphore' \in [Workers -> Nat]
    BY <1>15, <2>2 DEF Dispatch, Notify
  <2>6. poolPc' \in PoolControl
    BY <1>15 DEF Dispatch, LoopOrLeave
  <2>7. UNCHANGED <<m_mutex, flagVars, taskVars, m_workerSet, tokenVars,
                    callerVars, m_running, workerPc, destroyed, executed,
                    stranded>>
    BY <1>15 DEF Dispatch
  <2> QED BY <2>3, <2>4, <2>5, <2>6, <2>7
<1>16. ASSUME LockForCleanup PROVE TypeOK'
  BY <1>16 DEF LockForCleanup
<1>17. ASSUME FinishCleanup PROVE TypeOK'
  BY <1>17 DEF FinishCleanup
<1>18. ASSUME NEW w \in Workers, Allocate(w) PROVE TypeOK'
  BY <1>18 DEF Allocate, Notify
<1>19. ASSUME NEW w \in Workers, Delete(w) PROVE TypeOK'
  BY <1>19 DEF Delete, FreeWorker, Notify
<1>20. ASSUME NEW w \in Workers, Wake(w) PROVE TypeOK'
  <2>1. executed' \in [Works \cup {NoArgs} -> Nat]
    <3>1. CASE m_running[w]
      <4>1. m_args[w] \in Works \cup {NoArgs}
        OBVIOUS
      <4>2. executed[m_args[w]] + 1 \in Nat
        BY <4>1
      <4>3. executed' =
              [executed EXCEPT ![m_args[w]] = executed[m_args[w]] + 1]
        BY <1>20, <3>1 DEF Wake, HasToken
      <4> QED BY <4>1, <4>2, <4>3
    <3>2. CASE ~m_running[w]
      BY <1>20, <3>2 DEF Wake, HasToken
    <3> QED BY <3>1, <3>2
  <2>2. m_semaphore' \in [Workers -> Nat]
    BY <1>20 DEF Wake, HasToken
  <2>3. workerPc' \in [Workers -> WorkerControl]
    BY <1>20 DEF Wake, HasToken
  <2>4. UNCHANGED <<m_mutex, flagVars, taskVars, queueVars, tokenVars, poolPc,
                    callerVars, m_running, m_args, destroyed, stranded>>
    BY <1>20 DEF Wake, HasToken
  <2> QED BY <2>1, <2>2, <2>3, <2>4
<1>21. ASSUME NEW w \in Workers, Complete(w) PROVE TypeOK'
  BY <1>21 DEF Complete
<1>22. ASSUME NEW w \in Workers, ReturnWorker(w) PROVE TypeOK'
  <2>1. m_workerQueue' \in Seq(Workers) /\ m_availableSemaphore' \in Nat
    <3>1. CASE w \in m_workerSet
      <4>1. m_workerQueue' = Append(m_workerQueue, w)
            /\ m_availableSemaphore' = m_availableSemaphore + 1
        BY <1>22, <3>1 DEF ReturnWorker, Notify, Terminate
      <4> QED BY <4>1
    <3>2. CASE w \notin m_workerSet
      BY <1>22, <3>2 DEF ReturnWorker, Notify, Terminate
    <3> QED BY <3>1, <3>2
  <2>2. poolPc' \in PoolControl
    BY <1>22 DEF ReturnWorker, Notify, Terminate
  <2>3. callerPc' \in [Callers -> CallerControl]
    BY <1>22 DEF ReturnWorker, Notify, Terminate
  <2>4. workerPc' \in [Workers -> WorkerControl]
    BY <1>22 DEF ReturnWorker, Notify, Terminate
  <2>5. UNCHANGED <<m_mutex, flagVars, taskVars, m_workerSet, m_workQueue,
                    m_enqueueSemaphore, submitted, m_running, m_args,
                    m_semaphore, destroyed, executed, stranded>>
    BY <1>22 DEF ReturnWorker, Notify, Terminate
  <2> QED BY <2>1, <2>2, <2>3, <2>4, <2>5
<1>23. ASSUME NEW w \in Workers, ResetArgs(w) PROVE TypeOK'
  BY <1>23 DEF ResetArgs
<1>24. ASSUME UNCHANGED vars PROVE TypeOK'
  BY <1>24
<1>25. QED
  BY <1>1, <1>2, <1>3, <1>4, <1>5, <1>6, <1>7, <1>8, <1>9, <1>10, <1>11, <1>12,
     <1>13, <1>14, <1>15, <1>16, <1>17, <1>18, <1>19, <1>20, <1>21, <1>22,
     <1>23, <1>24
  DEF Next, CallerStep, PoolStep, WorkerStep

LEMMA TokensStep == IInv /\ [Next]_vars => TokensCovered'
<1> SUFFICES ASSUME IInv, [Next]_vars PROVE TokensCovered'
  OBVIOUS
<1> USE DEF IInv, TypeOK, TokensCovered, FlagsAgree, Phases, Held,
           DispatchFindsBoth,
           vars, flagVars, taskVars, queueVars, tokenVars, callerVars,
           workerVars
<1>1. ASSUME NEW c \in Callers, Start(c) PROVE TokensCovered'
  BY <1>1, PoolAssumption DEF Start, MayStart, Locks
<1>2. ASSUME NEW c \in Callers, StartAgain(c) PROVE TokensCovered'
  BY <1>2 DEF StartAgain, MayStart, Locks, Terminate
<1>3. ASSUME NEW c \in Callers, StartWithoutWorkers(c) PROVE TokensCovered'
  BY <1>3 DEF StartWithoutWorkers, MayStart, Locks
<1>4. ASSUME NEW c \in Callers, StartReturns(c) PROVE TokensCovered'
  BY <1>4 DEF StartReturns
<1>5. ASSUME NEW c \in Callers, Stop(c) PROVE TokensCovered'
  BY <1>5 DEF Stop, Locks, MayStop, RequestStop, Notify
<1>6. ASSUME NEW c \in Callers, Destroy(c) PROVE TokensCovered'
  BY <1>6 DEF Destroy, Locks, MayStop, RequestStop, Notify
<1>7. ASSUME NEW c \in Callers, DestroyJoins(c) PROVE TokensCovered'
  BY <1>7 DEF DestroyJoins
<1>8. ASSUME NEW c \in Callers, DestroyReturns(c) PROVE TokensCovered'
  BY <1>8 DEF DestroyReturns
<1>9. ASSUME NEW c \in Callers, NEW x \in Works, Enqueue(c, x)
     PROVE  TokensCovered'
  BY <1>9 DEF Enqueue, Locks, Notify
<1>10. ASSUME Boot PROVE TokensCovered'
  BY <1>10 DEF Boot
<1>11. ASSUME LockForAllocation PROVE TokensCovered'
  BY <1>11 DEF LockForAllocation
<1>12. ASSUME Allocated PROVE TokensCovered'
  BY <1>12 DEF Allocated, LoopOrLeave
<1>13. ASSUME AwaitWork PROVE TokensCovered'
  BY <1>13 DEF AwaitWork, HasToken
<1>14. ASSUME AwaitWorker PROVE TokensCovered'
  BY <1>14 DEF AwaitWorker, HasToken, DispatchOrLeave
<1>15. ASSUME Dispatch PROVE TokensCovered'
  BY <1>15 DEF Dispatch, PopWorker, PopWork, Notify, LoopOrLeave
<1>16. ASSUME LockForCleanup PROVE TokensCovered'
  BY <1>16 DEF LockForCleanup
<1>17. ASSUME FinishCleanup PROVE TokensCovered'
  BY <1>17 DEF FinishCleanup
<1>18. ASSUME NEW w \in Workers, Allocate(w) PROVE TokensCovered'
  BY <1>18 DEF Allocate, Notify
<1>19. ASSUME NEW w \in Workers, Delete(w) PROVE TokensCovered'
  BY <1>19 DEF Delete, FreeWorker, Notify
<1>20. ASSUME NEW w \in Workers, Wake(w) PROVE TokensCovered'
  BY <1>20 DEF Wake, HasToken
<1>21. ASSUME NEW w \in Workers, Complete(w) PROVE TokensCovered'
  BY <1>21 DEF Complete
<1>22. ASSUME NEW w \in Workers, ReturnWorker(w) PROVE TokensCovered'
  BY <1>22 DEF ReturnWorker, Notify, Terminate
<1>23. ASSUME NEW w \in Workers, ResetArgs(w) PROVE TokensCovered'
  BY <1>23 DEF ResetArgs
<1>24. ASSUME UNCHANGED vars PROVE TokensCovered'
  BY <1>24
<1>25. QED
  BY <1>1, <1>2, <1>3, <1>4, <1>5, <1>6, <1>7, <1>8, <1>9, <1>10, <1>11, <1>12,
     <1>13, <1>14, <1>15, <1>16, <1>17, <1>18, <1>19, <1>20, <1>21, <1>22,
     <1>23, <1>24
  DEF Next, CallerStep, PoolStep, WorkerStep

LEMMA FlagsStep == IInv /\ [Next]_vars => FlagsAgree'
<1> SUFFICES ASSUME IInv, [Next]_vars PROVE FlagsAgree'
  OBVIOUS
<1> USE DEF IInv, TypeOK, TokensCovered, FlagsAgree, Phases,
           vars, flagVars, taskVars, queueVars, tokenVars, callerVars,
           workerVars
<1>1. ASSUME NEW c \in Callers, Start(c) PROVE FlagsAgree'
  BY <1>1 DEF Start, MayStart, Locks
<1>2. ASSUME NEW c \in Callers, StartAgain(c) PROVE FlagsAgree'
  BY <1>2 DEF StartAgain, MayStart, Locks, Terminate
<1>3. ASSUME NEW c \in Callers, StartWithoutWorkers(c) PROVE FlagsAgree'
  BY <1>3 DEF StartWithoutWorkers, MayStart, Locks
<1>4. ASSUME NEW c \in Callers, StartReturns(c) PROVE FlagsAgree'
  BY <1>4 DEF StartReturns
<1>5. ASSUME NEW c \in Callers, Stop(c) PROVE FlagsAgree'
  BY <1>5 DEF Stop, Locks, MayStop, RequestStop, Notify
<1>6. ASSUME NEW c \in Callers, Destroy(c) PROVE FlagsAgree'
  BY <1>6 DEF Destroy, Locks, MayStop, RequestStop, Notify
<1>7. ASSUME NEW c \in Callers, DestroyJoins(c) PROVE FlagsAgree'
  BY <1>7 DEF DestroyJoins
<1>8. ASSUME NEW c \in Callers, DestroyReturns(c) PROVE FlagsAgree'
  BY <1>8 DEF DestroyReturns
<1>9. ASSUME NEW c \in Callers, NEW x \in Works, Enqueue(c, x)
     PROVE  FlagsAgree'
  BY <1>9 DEF Enqueue, Locks, Notify
<1>10. ASSUME Boot PROVE FlagsAgree'
  BY <1>10 DEF Boot
<1>11. ASSUME LockForAllocation PROVE FlagsAgree'
  BY <1>11 DEF LockForAllocation
<1>12. ASSUME Allocated PROVE FlagsAgree'
  BY <1>12 DEF Allocated, LoopOrLeave
<1>13. ASSUME AwaitWork PROVE FlagsAgree'
  BY <1>13 DEF AwaitWork, HasToken
<1>14. ASSUME AwaitWorker PROVE FlagsAgree'
  BY <1>14 DEF AwaitWorker, HasToken, DispatchOrLeave
<1>15. ASSUME Dispatch PROVE FlagsAgree'
  BY <1>15 DEF Dispatch, PopWorker, PopWork, Notify, LoopOrLeave
<1>16. ASSUME LockForCleanup PROVE FlagsAgree'
  BY <1>16 DEF LockForCleanup
<1>17. ASSUME FinishCleanup PROVE FlagsAgree'
  BY <1>17 DEF FinishCleanup
<1>18. ASSUME NEW w \in Workers, Allocate(w) PROVE FlagsAgree'
  BY <1>18 DEF Allocate, Notify
<1>19. ASSUME NEW w \in Workers, Delete(w) PROVE FlagsAgree'
  BY <1>19 DEF Delete, FreeWorker, Notify
<1>20. ASSUME NEW w \in Workers, Wake(w) PROVE FlagsAgree'
  BY <1>20 DEF Wake, HasToken
<1>21. ASSUME NEW w \in Workers, Complete(w) PROVE FlagsAgree'
  BY <1>21 DEF Complete
<1>22. ASSUME NEW w \in Workers, ReturnWorker(w) PROVE FlagsAgree'
  BY <1>22 DEF ReturnWorker, Notify, Terminate
<1>23. ASSUME NEW w \in Workers, ResetArgs(w) PROVE FlagsAgree'
  BY <1>23 DEF ResetArgs
<1>24. ASSUME UNCHANGED vars PROVE FlagsAgree'
  BY <1>24
<1>25. QED
  BY <1>1, <1>2, <1>3, <1>4, <1>5, <1>6, <1>7, <1>8, <1>9, <1>10, <1>11, <1>12,
     <1>13, <1>14, <1>15, <1>16, <1>17, <1>18, <1>19, <1>20, <1>21, <1>22,
     <1>23, <1>24
  DEF Next, CallerStep, PoolStep, WorkerStep

LEMMA DispatchStep == IInv /\ [Next]_vars => DispatchFindsBoth'
<1> SUFFICES ASSUME IInv, [Next]_vars PROVE DispatchFindsBoth'
  OBVIOUS
<1> USE DEF IInv, TypeOK, TokensCovered, FlagsAgree, DispatchFindsBoth, Held,
           vars, flagVars, taskVars, queueVars, tokenVars, callerVars,
           workerVars
<1>1. ASSUME NEW c \in Callers, Start(c) PROVE DispatchFindsBoth'
  BY <1>1 DEF Start, MayStart, Locks
<1>2. ASSUME NEW c \in Callers, StartAgain(c) PROVE DispatchFindsBoth'
  BY <1>2 DEF StartAgain, MayStart, Locks, Terminate
<1>3. ASSUME NEW c \in Callers, StartWithoutWorkers(c) PROVE DispatchFindsBoth'
  BY <1>3 DEF StartWithoutWorkers, MayStart, Locks
<1>4. ASSUME NEW c \in Callers, StartReturns(c) PROVE DispatchFindsBoth'
  BY <1>4 DEF StartReturns
<1>5. ASSUME NEW c \in Callers, Stop(c) PROVE DispatchFindsBoth'
  BY <1>5 DEF Stop, Locks, MayStop, RequestStop, Notify
<1>6. ASSUME NEW c \in Callers, Destroy(c) PROVE DispatchFindsBoth'
  BY <1>6 DEF Destroy, Locks, MayStop, RequestStop, Notify
<1>7. ASSUME NEW c \in Callers, DestroyJoins(c) PROVE DispatchFindsBoth'
  BY <1>7 DEF DestroyJoins
<1>8. ASSUME NEW c \in Callers, DestroyReturns(c) PROVE DispatchFindsBoth'
  BY <1>8 DEF DestroyReturns
<1>9. ASSUME NEW c \in Callers, NEW x \in Works, Enqueue(c, x)
     PROVE  DispatchFindsBoth'
  BY <1>9 DEF Enqueue, Locks, Notify
<1>10. ASSUME Boot PROVE DispatchFindsBoth'
  BY <1>10 DEF Boot
<1>11. ASSUME LockForAllocation PROVE DispatchFindsBoth'
  BY <1>11 DEF LockForAllocation
<1>12. ASSUME Allocated PROVE DispatchFindsBoth'
  BY <1>12 DEF Allocated, LoopOrLeave
<1>13. ASSUME AwaitWork PROVE DispatchFindsBoth'
  BY <1>13 DEF AwaitWork, HasToken
<1>14. ASSUME AwaitWorker PROVE DispatchFindsBoth'
  BY <1>14 DEF AwaitWorker, HasToken, DispatchOrLeave
<1>15. ASSUME Dispatch PROVE DispatchFindsBoth'
  BY <1>15 DEF Dispatch, PopWorker, PopWork, Notify, LoopOrLeave
<1>16. ASSUME LockForCleanup PROVE DispatchFindsBoth'
  BY <1>16 DEF LockForCleanup
<1>17. ASSUME FinishCleanup PROVE DispatchFindsBoth'
  BY <1>17 DEF FinishCleanup
<1>18. ASSUME NEW w \in Workers, Allocate(w) PROVE DispatchFindsBoth'
  BY <1>18 DEF Allocate, Notify
<1>19. ASSUME NEW w \in Workers, Delete(w) PROVE DispatchFindsBoth'
  BY <1>19 DEF Delete, FreeWorker, Notify
<1>20. ASSUME NEW w \in Workers, Wake(w) PROVE DispatchFindsBoth'
  BY <1>20 DEF Wake, HasToken
<1>21. ASSUME NEW w \in Workers, Complete(w) PROVE DispatchFindsBoth'
  BY <1>21 DEF Complete
<1>22. ASSUME NEW w \in Workers, ReturnWorker(w) PROVE DispatchFindsBoth'
  BY <1>22 DEF ReturnWorker, Notify, Terminate
<1>23. ASSUME NEW w \in Workers, ResetArgs(w) PROVE DispatchFindsBoth'
  BY <1>23 DEF ResetArgs
<1>24. ASSUME UNCHANGED vars PROVE DispatchFindsBoth'
  BY <1>24
<1>25. QED
  BY <1>1, <1>2, <1>3, <1>4, <1>5, <1>6, <1>7, <1>8, <1>9, <1>10, <1>11, <1>12,
     <1>13, <1>14, <1>15, <1>16, <1>17, <1>18, <1>19, <1>20, <1>21, <1>22,
     <1>23, <1>24
  DEF Next, CallerStep, PoolStep, WorkerStep

LEMMA PhasesStep == IInv /\ [Next]_vars => Phases'
<1> SUFFICES ASSUME IInv, [Next]_vars PROVE Phases'
  OBVIOUS
<1> USE DEF IInv, TypeOK, TokensCovered, FlagsAgree, Phases, InService,
           Unborn, Joined,
           vars, flagVars, taskVars, queueVars, tokenVars, callerVars,
           workerVars
<1>1. ASSUME NEW c \in Callers, Start(c) PROVE Phases'
  BY <1>1 DEF Start, MayStart, Locks
<1>2. ASSUME NEW c \in Callers, StartAgain(c) PROVE Phases'
  BY <1>2 DEF StartAgain, MayStart, Locks, Terminate
<1>3. ASSUME NEW c \in Callers, StartWithoutWorkers(c) PROVE Phases'
  BY <1>3 DEF StartWithoutWorkers, MayStart, Locks
<1>4. ASSUME NEW c \in Callers, StartReturns(c) PROVE Phases'
  BY <1>4 DEF StartReturns
<1>5. ASSUME NEW c \in Callers, Stop(c) PROVE Phases'
  BY <1>5 DEF Stop, Locks, MayStop, RequestStop, Notify
<1>6. ASSUME NEW c \in Callers, Destroy(c) PROVE Phases'
  BY <1>6 DEF Destroy, Locks, MayStop, RequestStop, Notify
<1>7. ASSUME NEW c \in Callers, DestroyJoins(c) PROVE Phases'
  BY <1>7 DEF DestroyJoins
<1>8. ASSUME NEW c \in Callers, DestroyReturns(c) PROVE Phases'
  BY <1>8 DEF DestroyReturns
<1>9. ASSUME NEW c \in Callers, NEW x \in Works, Enqueue(c, x) PROVE Phases'
  BY <1>9 DEF Enqueue, Locks, Notify
<1>10. ASSUME Boot PROVE Phases'
  BY <1>10 DEF Boot
<1>11. ASSUME LockForAllocation PROVE Phases'
  BY <1>11 DEF LockForAllocation
<1>12. ASSUME Allocated PROVE Phases'
  BY <1>12 DEF Allocated, LoopOrLeave
<1>13. ASSUME AwaitWork PROVE Phases'
  BY <1>13 DEF AwaitWork, HasToken
<1>14. ASSUME AwaitWorker PROVE Phases'
  BY <1>14 DEF AwaitWorker, HasToken, DispatchOrLeave
<1>15. ASSUME Dispatch PROVE Phases'
  <2> DEFINE v == Head(m_workerQueue)
  <2>1. v \in m_workerSet /\ m_semaphore[v] = 0
        /\ workerPc[v] \in {"waiting", "resetting"}
    BY <1>15, HeadIsFirst
       DEF Dispatch, PopWorker, PopWork, Notify, LoopOrLeave,
           DispatchFindsBoth, QueuedWorkersAreIdle, Queued
  <2>2. m_semaphore' = [m_semaphore EXCEPT ![v] = 1]
    BY <1>15, <2>1 DEF Dispatch, PopWorker, PopWork, Notify, LoopOrLeave
  <2>3. poolPc' \in {"enqueueWait", "cleanup"}
        /\ UNCHANGED <<m_workerSet, m_running, workerPc>>
    BY <1>15 DEF Dispatch, PopWorker, PopWork, Notify, LoopOrLeave
  <2> QED BY <1>15, <2>1, <2>2, <2>3 DEF Dispatch
<1>16. ASSUME LockForCleanup PROVE Phases'
  BY <1>16 DEF LockForCleanup
<1>17. ASSUME FinishCleanup PROVE Phases'
  BY <1>17 DEF FinishCleanup
<1>18. ASSUME NEW w \in Workers, Allocate(w) PROVE Phases'
  BY <1>18 DEF Allocate, Notify
<1>19. ASSUME NEW w \in Workers, Delete(w) PROVE Phases'
  BY <1>19 DEF Delete, FreeWorker, Notify
<1>20. ASSUME NEW w \in Workers, Wake(w) PROVE Phases'
  <2>1. UNCHANGED <<poolPc, m_workerSet, m_workerQueue, m_running>>
    BY <1>20 DEF Wake, HasToken
  <2>2. m_semaphore' = [m_semaphore EXCEPT ![w] = m_semaphore[w] - 1]
        /\ m_semaphore[w] > 0
        /\ workerPc[w] = "waiting"
    BY <1>20 DEF Wake, HasToken
  <2>3. CASE m_running[w]
    <3>1. workerPc' = [workerPc EXCEPT ![w] = "executing"]
      BY <1>20, <2>3 DEF Wake, HasToken
    <3> QED BY <2>1, <2>2, <2>3, <3>1
  <2>4. CASE ~m_running[w]
    <3>1. workerPc' = [workerPc EXCEPT ![w] = "exited"]
      BY <1>20, <2>4 DEF Wake, HasToken
    <3> QED BY <2>1, <2>2, <2>4, <3>1
  <2> QED BY <2>3, <2>4
<1>21. ASSUME NEW w \in Workers, Complete(w) PROVE Phases'
  BY <1>21 DEF Complete
<1>22. ASSUME NEW w \in Workers, ReturnWorker(w) PROVE Phases'
  BY <1>22 DEF ReturnWorker, Notify, Terminate
<1>23. ASSUME NEW w \in Workers, ResetArgs(w) PROVE Phases'
  BY <1>23 DEF ResetArgs
<1>24. ASSUME UNCHANGED vars PROVE Phases'
  BY <1>24
<1>25. QED
  BY <1>1, <1>2, <1>3, <1>4, <1>5, <1>6, <1>7, <1>8, <1>9, <1>10, <1>11, <1>12,
     <1>13, <1>14, <1>15, <1>16, <1>17, <1>18, <1>19, <1>20, <1>21, <1>22,
     <1>23, <1>24
  DEF Next, CallerStep, PoolStep, WorkerStep

LEMMA IdleStep == IInv /\ [Next]_vars => QueuedWorkersAreIdle'
<1> SUFFICES ASSUME IInv, [Next]_vars PROVE QueuedWorkersAreIdle'
  OBVIOUS
<1> USE DEF IInv, TypeOK, FlagsAgree, Phases, InService, Unborn,
           QueuedWorkersAreIdle, Queued,
           vars, flagVars, taskVars, queueVars, tokenVars, callerVars,
           workerVars
<1>1. ASSUME NEW c \in Callers, Start(c) PROVE QueuedWorkersAreIdle'
  BY <1>1 DEF Start, MayStart, Locks
<1>2. ASSUME NEW c \in Callers, StartAgain(c) PROVE QueuedWorkersAreIdle'
  BY <1>2 DEF StartAgain, MayStart, Locks, Terminate
<1>3. ASSUME NEW c \in Callers, StartWithoutWorkers(c)
     PROVE  QueuedWorkersAreIdle'
  BY <1>3 DEF StartWithoutWorkers, MayStart, Locks
<1>4. ASSUME NEW c \in Callers, StartReturns(c) PROVE QueuedWorkersAreIdle'
  BY <1>4 DEF StartReturns
<1>5. ASSUME NEW c \in Callers, Stop(c) PROVE QueuedWorkersAreIdle'
  BY <1>5 DEF Stop, Locks, MayStop, RequestStop, Notify
<1>6. ASSUME NEW c \in Callers, Destroy(c) PROVE QueuedWorkersAreIdle'
  BY <1>6 DEF Destroy, Locks, MayStop, RequestStop, Notify
<1>7. ASSUME NEW c \in Callers, DestroyJoins(c) PROVE QueuedWorkersAreIdle'
  BY <1>7 DEF DestroyJoins
<1>8. ASSUME NEW c \in Callers, DestroyReturns(c) PROVE QueuedWorkersAreIdle'
  BY <1>8 DEF DestroyReturns
<1>9. ASSUME NEW c \in Callers, NEW x \in Works, Enqueue(c, x)
     PROVE  QueuedWorkersAreIdle'
  BY <1>9 DEF Enqueue, Locks, Notify
<1>10. ASSUME Boot PROVE QueuedWorkersAreIdle'
  BY <1>10 DEF Boot
<1>11. ASSUME LockForAllocation PROVE QueuedWorkersAreIdle'
  BY <1>11 DEF LockForAllocation
<1>12. ASSUME Allocated PROVE QueuedWorkersAreIdle'
  BY <1>12 DEF Allocated, LoopOrLeave
<1>13. ASSUME AwaitWork PROVE QueuedWorkersAreIdle'
  BY <1>13 DEF AwaitWork, HasToken
<1>14. ASSUME AwaitWorker PROVE QueuedWorkersAreIdle'
  BY <1>14 DEF AwaitWorker, HasToken, DispatchOrLeave
<1>15. ASSUME Dispatch PROVE QueuedWorkersAreIdle'
  <2>1. m_workerQueue # <<>> /\ m_workerQueue' = Tail(m_workerQueue)
        /\ poolPc = "dispatch"
    BY <1>15
       DEF Dispatch, PopWorker, PopWork, Notify, LoopOrLeave, DispatchFindsBoth
  <2>2. \A i, j \in DOMAIN m_workerQueue' :
          m_workerQueue'[i] = m_workerQueue'[j] => i = j
    BY <2>1, TailShifts
  <2>3. ASSUME NEW v \in Workers, Queued(v)'
        PROVE  Queued(v) /\ v # Head(m_workerQueue)
    BY <2>1, <2>3, TailShifts, HeadIsFirst
  <2>4. UNCHANGED <<m_workerSet, workerPc>>
    BY <1>15 DEF Dispatch, PopWorker, PopWork, Notify, LoopOrLeave
  <2>5. \A v \in Workers :
          v # Head(m_workerQueue) => m_semaphore'[v] = m_semaphore[v]
    BY <1>15 DEF Dispatch, PopWorker, PopWork, Notify, LoopOrLeave
  <2> QED BY <2>1, <2>2, <2>3, <2>4, <2>5
<1>16. ASSUME LockForCleanup PROVE QueuedWorkersAreIdle'
  BY <1>16 DEF LockForCleanup
<1>17. ASSUME FinishCleanup PROVE QueuedWorkersAreIdle'
  BY <1>17 DEF FinishCleanup
<1>18. ASSUME NEW w \in Workers, Allocate(w) PROVE QueuedWorkersAreIdle'
  BY <1>18 DEF Allocate, Notify
<1>19. ASSUME NEW w \in Workers, Delete(w) PROVE QueuedWorkersAreIdle'
  BY <1>19 DEF Delete, FreeWorker, Notify
<1>20. ASSUME NEW w \in Workers, Wake(w) PROVE QueuedWorkersAreIdle'
  BY <1>20 DEF Wake, HasToken
<1>21. ASSUME NEW w \in Workers, Complete(w) PROVE QueuedWorkersAreIdle'
  BY <1>21 DEF Complete
<1>22. ASSUME NEW w \in Workers, ReturnWorker(w) PROVE QueuedWorkersAreIdle'
  <2>1. CASE poolPc = "deleting"
    BY <1>22, <2>1 DEF ReturnWorker, Notify, Terminate
  <2>2. CASE poolPc # "deleting"
    <3>1. w \in m_workerSet /\ ~Queued(w) /\ m_semaphore[w] = 0
      BY <1>22, <2>2 DEF ReturnWorker, Notify, Terminate
    <3>2. m_workerQueue' = Append(m_workerQueue, w)
          /\ UNCHANGED <<m_workerSet, m_semaphore, poolPc>>
          /\ workerPc' = [workerPc EXCEPT ![w] = "resetting"]
      BY <1>22, <3>1 DEF ReturnWorker, Notify, Terminate
    <3>3. \A i, j \in DOMAIN m_workerQueue' :
            m_workerQueue'[i] = m_workerQueue'[j] => i = j
      BY <2>2, <3>1, <3>2, AppendAdds
    <3>4. ASSUME NEW v \in Workers, Queued(v)'
          PROVE  Queued(v) \/ v = w
      BY <3>2, <3>4, AppendAdds
    <3> QED BY <2>2, <3>1, <3>2, <3>3, <3>4
  <2> QED BY <2>1, <2>2
<1>23. ASSUME NEW w \in Workers, ResetArgs(w) PROVE QueuedWorkersAreIdle'
  BY <1>23 DEF ResetArgs
<1>24. ASSUME UNCHANGED vars PROVE QueuedWorkersAreIdle'
  BY <1>24
<1>25. QED
  BY <1>1, <1>2, <1>3, <1>4, <1>5, <1>6, <1>7, <1>8, <1>9, <1>10, <1>11, <1>12,
     <1>13, <1>14, <1>15, <1>16, <1>17, <1>18, <1>19, <1>20, <1>21, <1>22,
     <1>23, <1>24
  DEF Next, CallerStep, PoolStep, WorkerStep

LEMMA WorkStep ==
  IInv /\ [Next]_vars => (WorkInOnePlace /\ ExecutedAtMostOnce)'
<1> SUFFICES ASSUME IInv, [Next]_vars
    PROVE (WorkInOnePlace /\ ExecutedAtMostOnce)'
  OBVIOUS
<1> USE DEF IInv, TypeOK, WorkInOnePlace, ExecutedAtMostOnce, Waiting, 
           InFlight,
           Phases, InService, Unborn,
           vars, flagVars, taskVars, queueVars, tokenVars, callerVars,
           workerVars
<1>1. ASSUME NEW c \in Callers, Start(c)
     PROVE  (WorkInOnePlace /\ ExecutedAtMostOnce)'
  BY <1>1 DEF Start, MayStart, Locks
<1>2. ASSUME NEW c \in Callers, StartAgain(c)
     PROVE  (WorkInOnePlace /\ ExecutedAtMostOnce)'
  BY <1>2 DEF StartAgain, MayStart, Locks, Terminate
<1>3. ASSUME NEW c \in Callers, StartWithoutWorkers(c)
     PROVE  (WorkInOnePlace /\ ExecutedAtMostOnce)'
  BY <1>3 DEF StartWithoutWorkers, MayStart, Locks
<1>4. ASSUME NEW c \in Callers, StartReturns(c)
     PROVE  (WorkInOnePlace /\ ExecutedAtMostOnce)'
  BY <1>4 DEF StartReturns
<1>5. ASSUME NEW c \in Callers, Stop(c)
     PROVE  (WorkInOnePlace /\ ExecutedAtMostOnce)'
  BY <1>5 DEF Stop, Locks, MayStop, RequestStop, Notify
<1>6. ASSUME NEW c \in Callers, Destroy(c)
     PROVE  (WorkInOnePlace /\ ExecutedAtMostOnce)'
  BY <1>6 DEF Destroy, Locks, MayStop, RequestStop, Notify
<1>7. ASSUME NEW c \in Callers, DestroyJoins(c)
     PROVE  (WorkInOnePlace /\ ExecutedAtMostOnce)'
  BY <1>7 DEF DestroyJoins
<1>8. ASSUME NEW c \in Callers, DestroyReturns(c)
     PROVE  (WorkInOnePlace /\ ExecutedAtMostOnce)'
  BY <1>8 DEF DestroyReturns
<1>9. ASSUME NEW c \in Callers, NEW x \in Works, Enqueue(c, x)
     PROVE  (WorkInOnePlace /\ ExecutedAtMostOnce)'
  BY <1>9 DEF Enqueue, Locks, Notify
<1>10. ASSUME Boot PROVE (WorkInOnePlace /\ ExecutedAtMostOnce)'
  BY <1>10 DEF Boot
<1>11. ASSUME LockForAllocation PROVE (WorkInOnePlace /\ ExecutedAtMostOnce)'
  BY <1>11 DEF LockForAllocation
<1>12. ASSUME Allocated PROVE (WorkInOnePlace /\ ExecutedAtMostOnce)'
  BY <1>12 DEF Allocated, LoopOrLeave
<1>13. ASSUME AwaitWork PROVE (WorkInOnePlace /\ ExecutedAtMostOnce)'
  BY <1>13 DEF AwaitWork, HasToken
<1>14. ASSUME AwaitWorker PROVE (WorkInOnePlace /\ ExecutedAtMostOnce)'
  BY <1>14 DEF AwaitWorker, HasToken, DispatchOrLeave
<1>15. ASSUME Dispatch PROVE (WorkInOnePlace /\ ExecutedAtMostOnce)'
  <2> DEFINE v == Head(m_workerQueue)
  <2> DEFINE y == Head(m_workQueue)
  <2>1. m_workerQueue # <<>> /\ m_workQueue # <<>>
        /\ m_workQueue' = Tail(m_workQueue)
    BY <1>15
       DEF Dispatch, PopWorker, PopWork, Notify, LoopOrLeave, DispatchFindsBoth
  <2>2. v \in Workers /\ m_semaphore[v] = 0 /\ y \in Works /\ Waiting(y)
    BY <1>15, <2>1, HeadIsFirst
       DEF Dispatch, PopWorker, PopWork, Notify, LoopOrLeave,
           QueuedWorkersAreIdle, Queued
  <2>3. m_args' = [m_args EXCEPT ![v] = y]
        /\ m_semaphore' = [m_semaphore EXCEPT ![v] = 1]
        /\ UNCHANGED <<m_running, executed, submitted>>
    BY <1>15, <2>2 DEF Dispatch, PopWorker, PopWork, Notify, LoopOrLeave
  <2>4. \A i, j \in DOMAIN m_workQueue' :
          m_workQueue'[i] = m_workQueue'[j] => i = j
    BY <2>1, TailShifts
  <2>5. ASSUME NEW x \in Works, Waiting(x)'
        PROVE  Waiting(x) /\ x # y
    BY <2>1, <2>5, TailShifts, HeadIsFirst
  <2>6. ASSUME NEW x \in Works, NEW u \in Workers, InFlight(u, x)'
        PROVE  (u = v /\ x = y) \/ (u # v /\ InFlight(u, x) /\ x # y)
    BY <2>2, <2>3, <2>6
  <2>7. executed[y] = 0 /\ \A u \in Workers : ~InFlight(u, y)
    BY <2>2
  <2>8. \A u \in Workers : m_running'[u] =>
          /\ m_semaphore'[u] <= 1
          /\ workerPc'[u] \in {"executing", "returning"} => m_semaphore'[u] = 0
    <3>1. workerPc' = workerPc /\ workerPc[v] \in {"waiting", "resetting"}
      BY <1>15, <2>1, HeadIsFirst
         DEF Dispatch, QueuedWorkersAreIdle, Queued
    <3> QED BY <2>2, <2>3, <3>1
  <2>9. \A x \in Works : Waiting(x)' \/ executed'[x] > 0 => x \in submitted'
    BY <2>3, <2>5
  <2>10. ASSUME NEW x \in Works, NEW u \in Workers, InFlight(u, x)'
         PROVE  /\ x \in submitted'
                /\ ~Waiting(x)' /\ executed'[x] = 0
                /\ \A t \in Workers : InFlight(t, x)' => t = u
    BY <2>2, <2>3, <2>5, <2>6, <2>7, <2>10
  <2>11. \A x \in Works :
           executed'[x] <= 1 /\ (executed'[x] = 1 => ~Waiting(x)')
    BY <2>3, <2>5
  <2> QED BY <2>4, <2>8, <2>9, <2>10, <2>11
<1>16. ASSUME LockForCleanup PROVE (WorkInOnePlace /\ ExecutedAtMostOnce)'
  BY <1>16 DEF LockForCleanup
<1>17. ASSUME FinishCleanup PROVE (WorkInOnePlace /\ ExecutedAtMostOnce)'
  BY <1>17 DEF FinishCleanup
<1>18. ASSUME NEW w \in Workers, Allocate(w)
     PROVE  (WorkInOnePlace /\ ExecutedAtMostOnce)'
  BY <1>18 DEF Allocate, Notify
<1>19. ASSUME NEW w \in Workers, Delete(w)
     PROVE  (WorkInOnePlace /\ ExecutedAtMostOnce)'
  BY <1>19 DEF Delete, FreeWorker, Notify
<1>20. ASSUME NEW w \in Workers, Wake(w)
     PROVE  (WorkInOnePlace /\ ExecutedAtMostOnce)'
  <2>1. m_semaphore' = [m_semaphore EXCEPT ![w] = m_semaphore[w] - 1]
        /\ m_semaphore[w] > 0
        /\ UNCHANGED <<m_running, m_args, m_workQueue, submitted>>
    BY <1>20 DEF Wake, HasToken
  <2>2. \A x \in Works, u \in Workers :
          InFlight(u, x)' => InFlight(u, x) /\ u # w
    BY <2>1
  <2>3. \A u \in Workers : m_running'[u] =>
          /\ m_semaphore'[u] <= 1
          /\ workerPc'[u] \in {"executing", "returning"} => m_semaphore'[u] = 0
    <3>1. \A u \in Workers \ {w} : workerPc'[u] = workerPc[u]
      BY <1>20 DEF Wake, HasToken
    <3> QED BY <2>1, <3>1
  <2>4. CASE m_running[w] /\ m_args[w] \in Works
    <3>1. executed' = [executed EXCEPT ![m_args[w]] = executed[m_args[w]] + 1]
      BY <1>20, <2>4 DEF Wake, HasToken
    <3>2. InFlight(w, m_args[w]) /\ executed[m_args[w]] = 0
      BY <2>1, <2>4
    <3> QED BY <2>1, <2>2, <2>3, <2>4, <3>1, <3>2
  <2>5. CASE ~(m_running[w] /\ m_args[w] \in Works)
    <3>1. \A x \in Works : executed'[x] = executed[x]
      BY <1>20, <2>5 DEF Wake, HasToken
    <3> QED BY <2>1, <2>2, <2>3, <3>1
  <2> QED BY <2>4, <2>5
<1>21. ASSUME NEW w \in Workers, Complete(w)
     PROVE  (WorkInOnePlace /\ ExecutedAtMostOnce)'
  BY <1>21 DEF Complete
<1>22. ASSUME NEW w \in Workers, ReturnWorker(w)
     PROVE  (WorkInOnePlace /\ ExecutedAtMostOnce)'
  BY <1>22 DEF ReturnWorker, Notify, Terminate
<1>23. ASSUME NEW w \in Workers, ResetArgs(w)
     PROVE  (WorkInOnePlace /\ ExecutedAtMostOnce)'
  BY <1>23, PoolAssumption DEF ResetArgs
<1>24. ASSUME UNCHANGED vars PROVE (WorkInOnePlace /\ ExecutedAtMostOnce)'
  BY <1>24
<1>25. QED
  BY <1>1, <1>2, <1>3, <1>4, <1>5, <1>6, <1>7, <1>8, <1>9, <1>10, <1>11, <1>12,
     <1>13, <1>14, <1>15, <1>16, <1>17, <1>18, <1>19, <1>20, <1>21, <1>22,
     <1>23, <1>24
  DEF Next, CallerStep, PoolStep, WorkerStep

LEMMA QuiescentStep == IInv /\ [Next]_vars => DestroyedIsQuiescent'
<1> SUFFICES ASSUME IInv, [Next]_vars PROVE DestroyedIsQuiescent'
  OBVIOUS
<1> USE DEF IInv, TypeOK, DestroyedIsQuiescent, FlagsAgree, Phases, Unborn,
           vars, flagVars, taskVars, queueVars, tokenVars, callerVars,
           workerVars
<1>1. ASSUME NEW c \in Callers, Start(c) PROVE DestroyedIsQuiescent'
  BY <1>1 DEF Start, MayStart, Locks, InUse
<1>2. ASSUME NEW c \in Callers, StartAgain(c) PROVE DestroyedIsQuiescent'
  BY <1>2 DEF StartAgain, MayStart, Locks, Terminate, InUse
<1>3. ASSUME NEW c \in Callers, StartWithoutWorkers(c)
     PROVE  DestroyedIsQuiescent'
  BY <1>3 DEF StartWithoutWorkers, MayStart, Locks, InUse
<1>4. ASSUME NEW c \in Callers, StartReturns(c) PROVE DestroyedIsQuiescent'
  BY <1>4 DEF StartReturns
<1>5. ASSUME NEW c \in Callers, Stop(c) PROVE DestroyedIsQuiescent'
  BY <1>5 DEF Stop, Locks, MayStop, RequestStop, Notify, InUse
<1>6. ASSUME NEW c \in Callers, Destroy(c) PROVE DestroyedIsQuiescent'
  BY <1>6 DEF Destroy, Locks, MayStop, RequestStop, Notify, InUse
<1>7. ASSUME NEW c \in Callers, DestroyJoins(c) PROVE DestroyedIsQuiescent'
  BY <1>7 DEF DestroyJoins
<1>8. ASSUME NEW c \in Callers, DestroyReturns(c) PROVE DestroyedIsQuiescent'
  BY <1>8 DEF DestroyReturns
<1>9. ASSUME NEW c \in Callers, NEW x \in Works, Enqueue(c, x)
     PROVE  DestroyedIsQuiescent'
  BY <1>9 DEF Enqueue, Locks, Notify, InUse
<1>10. ASSUME Boot PROVE DestroyedIsQuiescent'
  BY <1>10 DEF Boot
<1>11. ASSUME LockForAllocation PROVE DestroyedIsQuiescent'
  BY <1>11 DEF LockForAllocation
<1>12. ASSUME Allocated PROVE DestroyedIsQuiescent'
  BY <1>12 DEF Allocated, LoopOrLeave
<1>13. ASSUME AwaitWork PROVE DestroyedIsQuiescent'
  BY <1>13 DEF AwaitWork, HasToken
<1>14. ASSUME AwaitWorker PROVE DestroyedIsQuiescent'
  BY <1>14 DEF AwaitWorker, HasToken, DispatchOrLeave
<1>15. ASSUME Dispatch PROVE DestroyedIsQuiescent'
  BY <1>15 DEF Dispatch, PopWorker, PopWork, Notify, LoopOrLeave
<1>16. ASSUME LockForCleanup PROVE DestroyedIsQuiescent'
  BY <1>16 DEF LockForCleanup
<1>17. ASSUME FinishCleanup PROVE DestroyedIsQuiescent'
  BY <1>17 DEF FinishCleanup
<1>18. ASSUME NEW w \in Workers, Allocate(w) PROVE DestroyedIsQuiescent'
  BY <1>18 DEF Allocate, Notify
<1>19. ASSUME NEW w \in Workers, Delete(w) PROVE DestroyedIsQuiescent'
  BY <1>19 DEF Delete, FreeWorker, Notify
<1>20. ASSUME NEW w \in Workers, Wake(w) PROVE DestroyedIsQuiescent'
  BY <1>20 DEF Wake, HasToken
<1>21. ASSUME NEW w \in Workers, Complete(w) PROVE DestroyedIsQuiescent'
  BY <1>21 DEF Complete
<1>22. ASSUME NEW w \in Workers, ReturnWorker(w) PROVE DestroyedIsQuiescent'
  BY <1>22 DEF ReturnWorker, Notify, Terminate
<1>23. ASSUME NEW w \in Workers, ResetArgs(w) PROVE DestroyedIsQuiescent'
  BY <1>23 DEF ResetArgs
<1>24. ASSUME UNCHANGED vars PROVE DestroyedIsQuiescent'
  BY <1>24
<1>25. QED
  BY <1>1, <1>2, <1>3, <1>4, <1>5, <1>6, <1>7, <1>8, <1>9, <1>10, <1>11, <1>12,
     <1>13, <1>14, <1>15, <1>16, <1>17, <1>18, <1>19, <1>20, <1>21, <1>22,
     <1>23, <1>24
  DEF Next, CallerStep, PoolStep, WorkerStep

LEMMA InitIsSafe == Init => IInv
<1> SUFFICES ASSUME Init PROVE IInv
  OBVIOUS
<1> USE DEF Init
<1>1. TypeOK
  <2>1. /\ m_workerQueue \in Seq(Workers) /\ m_workQueue \in Seq(Works)
        /\ m_availableSemaphore \in Nat /\ m_enqueueSemaphore \in Nat
        /\ m_semaphore \in [Workers -> Nat] /\ stranded \in Nat
        /\ executed \in [Works \cup {NoArgs} -> Nat]
    OBVIOUS
  <2>2. /\ m_started \in BOOLEAN /\ m_stopped \in BOOLEAN
        /\ m_running \in [Workers -> BOOLEAN]
    BY Zenon
  <2>3. /\ poolPc \in PoolControl /\ callerPc \in [Callers -> CallerControl]
        /\ workerPc \in [Workers -> WorkerControl]
        /\ m_startedTask \in Status /\ m_stoppedTask \in Status
    BY DEF PoolControl, CallerControl, WorkerControl, Status
  <2>4. /\ m_mutex \in Callers \cup {Free, Pool}
        /\ m_workerSet \in SUBSET Workers /\ destroyed \in SUBSET Workers
        /\ submitted \in SUBSET Works
        /\ m_args \in [Workers -> Works \cup {NoArgs}]
    OBVIOUS
  <2> QED BY <2>1, <2>2, <2>3, <2>4 DEF TypeOK
<1>2. TokensCovered /\ FlagsAgree
  BY DEF TokensCovered, FlagsAgree
<1>3. Phases
  BY DEF Phases, Unborn
<1>4. DispatchFindsBoth /\ QueuedWorkersAreIdle /\ DestroyedIsQuiescent
  BY DEF DispatchFindsBoth, QueuedWorkersAreIdle, Queued, DestroyedIsQuiescent
<1>5. WorkInOnePlace /\ ExecutedAtMostOnce
  BY DEF WorkInOnePlace, ExecutedAtMostOnce, Waiting, InFlight
<1> QED BY <1>1, <1>2, <1>3, <1>4, <1>5 DEF IInv

(* IInv is inductive: all the safety theorems follow from it.              *)
THEOREM Inductive == Spec => []IInv
<1>1. IInv /\ [Next]_vars => IInv'
  BY TypeStep, TokensStep, FlagsStep, PhasesStep, DispatchStep, IdleStep,
     WorkStep, QuiescentStep DEF IInv
<1> QED BY InitIsSafe, <1>1, PTL DEF Spec

-----------------------------------------------------------------------------

(* Every variable keeps its type; no semaphore goes below zero.            *)
THEOREM Typing == Spec => []TypeOK
<1>1. IInv => TypeOK
  BY DEF IInv
<1> QED BY <1>1, Inductive, PTL

(* The pool thread never pops an empty queue, for any number of restarts,  *)
(* early stops and works enqueued while the pool is not running.           *)
THEOREM DispatchIsSafe == Spec => []DispatchFindsBoth
<1>1. IInv => DispatchFindsBoth
  BY DEF IInv
<1> QED BY <1>1, Inductive, PTL

(* A worker is dispatched to only when it is idle, owned by the pool and   *)
(* has no unread notification.                                             *)
THEOREM OnlyIdleWorkersAreDispatched == Spec => []QueuedWorkersAreIdle
<1>1. IInv => QueuedWorkersAreIdle
  BY DEF IInv
<1> QED BY <1>1, Inductive, PTL

(* No work is executed twice.                                              *)
THEOREM NothingIsExecutedTwice == Spec => []ExecutedAtMostOnce
<1>1. IInv => ExecutedAtMostOnce
  BY DEF IInv
<1> QED BY <1>1, Inductive, PTL

(* When ~ThreadPool() returns, no thread of the pool is left running.      *)
THEOREM DestructionLeavesNoThread == Spec => []DestroyedIsQuiescent
<1>1. IInv => DestroyedIsQuiescent
  BY DEF IInv
<1> QED BY <1>1, Inductive, PTL

-----------------------------------------------------------------------------
(* The pool implements WorkQueue.                                          *)

(* The steps that the queue does not see.                                  *)
LEMMA NothingMoves ==
  UNCHANGED <<m_workQueue, submitted, m_running, m_args, m_semaphore, workerPc,
              executed>>
    => UNCHANGED WorkQueueOf!vars
  BY DEF WorkQueueOf!vars, Given, Doing, Begun

LEMMA GivenIs ==
  ASSUME NEW w \in Workers
  PROVE  /\ Given[w] = IF m_running[w] /\ m_semaphore[w] > 0
                            /\ workerPc[w] \in {"waiting", "resetting"}
                         THEN m_args[w] ELSE NoArgs
         /\ Doing[w] = IF workerPc[w] = "executing" THEN m_args[w] ELSE NoArgs
  BY DEF Given, Doing

LEMMA GivenIsThen ==
  ASSUME NEW w \in Workers
  PROVE  /\ Given'[w] = IF m_running'[w] /\ m_semaphore'[w] > 0
                             /\ workerPc'[w] \in {"waiting", "resetting"}
                          THEN m_args'[w] ELSE NoArgs
         /\ Doing'[w] = IF workerPc'[w] = "executing"
                          THEN m_args'[w] ELSE NoArgs
  BY DEF Given, Doing

(* A step that touches one worker only.                                    *)
LEMMA OtherWorkersStay ==
  ASSUME NEW w \in Workers,
         \A v \in Workers \ {w} :
           /\ m_running'[v] = m_running[v] /\ m_args'[v] = m_args[v]
           /\ m_semaphore'[v] = m_semaphore[v] /\ workerPc'[v] = workerPc[v]
  PROVE  /\ Given' = [Given EXCEPT ![w] = Given'[w]]
         /\ Doing' = [Doing EXCEPT ![w] = Doing'[w]]
         /\ Given'[w] = Given[w] => Given' = Given
         /\ Doing'[w] = Doing[w] => Doing' = Doing
<1>1. PICK f, g, h, k : f = Given /\ g = Given' /\ h = Doing /\ k = Doing'
  OBVIOUS
<1>2. \A v \in Workers \ {w} : g[v] = f[v] /\ k[v] = h[v]
  BY <1>1, GivenIs, GivenIsThen
<1>3. /\ f = [v \in Workers |-> f[v]] /\ g = [v \in Workers |-> g[v]]
      /\ h = [v \in Workers |-> h[v]] /\ k = [v \in Workers |-> k[v]]
  BY <1>1 DEF Given, Doing
<1>4. g = [f EXCEPT ![w] = g[w]] /\ k = [h EXCEPT ![w] = k[w]]
  BY <1>2, <1>3
<1>5. g[w] = f[w] => g = f
  BY <1>2, <1>3
<1>6. k[w] = h[w] => k = h
  BY <1>2, <1>3
<1> QED BY <1>1, <1>4, <1>5, <1>6

LEMMA StepRefines ==
  IInv /\ [Next]_vars => [WorkQueueOf!Next]_WorkQueueOf!vars
<1> SUFFICES ASSUME IInv, [Next]_vars
             PROVE  [WorkQueueOf!Next]_WorkQueueOf!vars
  OBVIOUS
<1> USE DEF vars, flagVars, taskVars, queueVars, tokenVars, callerVars,
           workerVars
<1>0. TypeOK
  BY DEF IInv
<1>1. ASSUME NEW c \in Callers,
             \/ Start(c) \/ StartWithoutWorkers(c) \/ StartReturns(c)
             \/ Stop(c) \/ Destroy(c) \/ DestroyJoins(c) \/ DestroyReturns(c)
      PROVE  [WorkQueueOf!Next]_WorkQueueOf!vars
  BY <1>1, NothingMoves
     DEF Start, StartWithoutWorkers, StartReturns, Stop, Destroy, DestroyJoins,
         DestroyReturns
<1>2. ASSUME NEW c \in Callers, StartAgain(c)
      PROVE  [WorkQueueOf!Next]_WorkQueueOf!vars
  <2>1. /\ poolPc \in {"exited", "terminated"}
        /\ UNCHANGED <<m_workQueue, submitted, executed>>
        /\ workerPc' = [w \in Workers |-> "terminated"]
    BY <1>2
       DEF StartAgain, MayStart, Locks, Terminate, IInv, FlagsAgree,
           TokensCovered
  <2>2. \A w \in Workers : workerPc[w] \in {"unborn", "exited", "terminated"}
    BY <2>1 DEF IInv, Phases
  <2>3. /\ \A w \in Workers : Given[w] = NoArgs /\ Doing[w] = NoArgs
        /\ \A w \in Workers : Given'[w] = NoArgs /\ Doing'[w] = NoArgs
    BY <2>1, <2>2, GivenIs, GivenIsThen
  <2>4. Given' = Given /\ Doing' = Doing
    <3>1. PICK f, g, h, k : f = Given /\ g = Given' /\ h = Doing /\ k = Doing'
      OBVIOUS
    <3>2. /\ f = [v \in Workers |-> f[v]] /\ g = [v \in Workers |-> g[v]]
          /\ h = [v \in Workers |-> h[v]] /\ k = [v \in Workers |-> k[v]]
      BY <3>1 DEF Given, Doing
    <3>3. \A v \in Workers : f[v] = g[v] /\ h[v] = k[v]
      BY <2>3, <3>1
    <3> QED BY <3>1, <3>2, <3>3
  <2> QED BY <2>1, <2>4 DEF WorkQueueOf!vars, Begun
<1>3. ASSUME NEW c \in Callers, NEW x \in Works, Enqueue(c, x)
      PROVE  [WorkQueueOf!Next]_WorkQueueOf!vars
  <2>1. UNCHANGED <<Given, Doing, Begun>>
    BY <1>3 DEF Enqueue, Given, Doing, Begun
  <2>2. WorkQueueOf!Submit(x)
    BY <1>3, <2>1 DEF Enqueue, WorkQueueOf!Submit
  <2> QED BY <2>2 DEF WorkQueueOf!Next
<1>4. ASSUME \/ Boot \/ LockForAllocation \/ Allocated \/ AwaitWork
             \/ AwaitWorker \/ LockForCleanup
      PROVE  [WorkQueueOf!Next]_WorkQueueOf!vars
  BY <1>4, NothingMoves
     DEF Boot, LockForAllocation, Allocated, AwaitWork, AwaitWorker,
         LockForCleanup
<1>5. ASSUME NEW w \in Workers, Allocate(w)
      PROVE  [WorkQueueOf!Next]_WorkQueueOf!vars
  <2>1. Unborn(w)
    BY <1>5 DEF Allocate, IInv, Phases
  <2>2. /\ UNCHANGED <<m_args, m_semaphore, m_workQueue, submitted, executed>>
        /\ m_running' = [m_running EXCEPT ![w] = TRUE]
        /\ workerPc' = [workerPc EXCEPT ![w] = "waiting"]
    BY <1>5 DEF Allocate
  <2>3. Given'[w] = NoArgs /\ Doing'[w] = NoArgs /\ Doing[w] = NoArgs
    BY <1>0, <2>1, <2>2, GivenIs, GivenIsThen DEF TypeOK, Unborn
  <2>4. /\ Given' = [Given EXCEPT ![w] = Given'[w]]
        /\ Doing' = [Doing EXCEPT ![w] = Doing'[w]]
    BY <1>0, <2>2, OtherWorkersStay DEF TypeOK
  <2>5. Doing' = Doing
    BY <2>3, <2>4 DEF Doing
  <2>6. WorkQueueOf!Forget(w)
    BY <2>2, <2>3, <2>4, <2>5 DEF WorkQueueOf!Forget, Begun
  <2> QED BY <2>6 DEF WorkQueueOf!Next
<1>6. ASSUME Dispatch
      PROVE  [WorkQueueOf!Next]_WorkQueueOf!vars
  <2>1. /\ m_workerQueue # <<>> /\ m_workQueue # <<>>
        /\ m_workerQueue \in Seq(Workers) /\ m_workQueue \in Seq(Works)
    BY <1>6, <1>0 DEF Dispatch, IInv, DispatchFindsBoth, TypeOK
  <2>2. PICK w \in Workers, x \in Works :
          w = Head(m_workerQueue) /\ x = Head(m_workQueue) /\ Queued(w)
    BY <2>1, HeadIsFirst DEF Queued
  <2>3. /\ w \in m_workerSet /\ workerPc[w] \in {"waiting", "resetting"}
        /\ m_semaphore[w] = 0 /\ m_running[w]
    BY <1>6, <2>2
       DEF Dispatch, IInv, QueuedWorkersAreIdle, Phases, InService
  <2>4. /\ m_args' = [m_args EXCEPT ![w] = x]
        /\ m_semaphore' = [m_semaphore EXCEPT ![w] = 1]
        /\ UNCHANGED <<m_running, workerPc, submitted, executed>>
        /\ m_workQueue' = Tail(m_workQueue)
    BY <1>6, <2>2, <2>3 DEF Dispatch, PopWork, Notify
  <2>5. /\ Given[w] = NoArgs /\ Doing[w] = NoArgs
        /\ Given'[w] = x /\ Doing'[w] = NoArgs
    BY <1>0, <2>3, <2>4, GivenIs, GivenIsThen DEF TypeOK
  <2>6. /\ Given' = [Given EXCEPT ![w] = Given'[w]]
        /\ Doing' = [Doing EXCEPT ![w] = Doing'[w]]
    BY <1>0, <2>4, OtherWorkersStay DEF TypeOK
  <2>7. Doing' = Doing
    BY <2>5, <2>6 DEF Doing
  <2>8. WorkQueueOf!Give(w)
    BY <2>1, <2>2, <2>4, <2>5, <2>6, <2>7
       DEF WorkQueueOf!Give, WorkQueueOf!Idle, Begun
  <2> QED BY <2>8 DEF WorkQueueOf!Next
<1>7. ASSUME NEW w \in Workers, Delete(w)
      PROVE  [WorkQueueOf!Next]_WorkQueueOf!vars
  <2>1. /\ UNCHANGED <<m_args, workerPc, m_workQueue, submitted, executed>>
        /\ m_running' = [m_running EXCEPT ![w] = FALSE]
        /\ m_semaphore' = [m_semaphore EXCEPT ![w] = Notify(@)]
    BY <1>7 DEF Delete, FreeWorker
  <2>2. Given'[w] = NoArgs /\ Doing'[w] = Doing[w]
    BY <1>0, <2>1, GivenIs, GivenIsThen DEF TypeOK
  <2>3. /\ Given' = [Given EXCEPT ![w] = Given'[w]]
        /\ Doing' = [Doing EXCEPT ![w] = Doing'[w]]
    BY <1>0, <2>1, OtherWorkersStay DEF TypeOK
  <2>4. Doing' = Doing
    BY <2>2, <2>3 DEF Doing
  <2>5. WorkQueueOf!Forget(w)
    BY <2>1, <2>2, <2>3, <2>4 DEF WorkQueueOf!Forget, Begun
  <2> QED BY <2>5 DEF WorkQueueOf!Next
<1>8. ASSUME FinishCleanup
      PROVE  [WorkQueueOf!Next]_WorkQueueOf!vars
  <2>1. \A w \in Workers : workerPc[w] = "exited" \/ Unborn(w)
    BY <1>8 DEF FinishCleanup, Joined, IInv, Phases
  <2>2. \A w \in Workers : Given[w] = NoArgs /\ Doing[w] = NoArgs
    BY <2>1, GivenIs DEF Unborn
  <2>3. UNCHANGED <<Given, Doing, Begun, submitted>> /\ m_workQueue' = <<>>
    BY <1>8 DEF FinishCleanup, Given, Doing, Begun
  <2>4. WorkQueueOf!GiveUp
    BY <2>2, <2>3 DEF WorkQueueOf!GiveUp, WorkQueueOf!Idle
  <2> QED BY <2>4 DEF WorkQueueOf!Next
<1>9. ASSUME NEW w \in Workers, Wake(w)
      PROVE  [WorkQueueOf!Next]_WorkQueueOf!vars
  <2>1. /\ UNCHANGED <<m_running, m_args, m_workQueue, submitted>>
        /\ m_semaphore' = [m_semaphore EXCEPT ![w] = m_semaphore[w] - 1]
        /\ m_semaphore[w] > 0 /\ workerPc[w] = "waiting"
    BY <1>9 DEF Wake, HasToken
  <2>2. \A v \in Workers \ {w} : workerPc'[v] = workerPc[v]
    BY <1>0, <1>9 DEF Wake, TypeOK
  <2>3. /\ Given' = [Given EXCEPT ![w] = Given'[w]]
        /\ Doing' = [Doing EXCEPT ![w] = Doing'[w]]
    BY <1>0, <2>1, <2>2, OtherWorkersStay DEF TypeOK
  <2>4. Doing[w] = NoArgs
    BY <2>1, GivenIs
  <2>5. CASE m_running[w] /\ m_args[w] \in Works
    <3>1. PICK x \in Works : x = m_args[w]
      BY <2>5
    <3>2. /\ workerPc'[w] = "executing"
          /\ executed' = [executed EXCEPT ![x] = executed[x] + 1]
      BY <1>0, <1>9, <2>5, <3>1 DEF Wake, TypeOK
    <3>3. Given[w] = x /\ Given'[w] = NoArgs /\ Doing'[w] = x
      BY <2>1, <2>5, <3>1, <3>2, GivenIs, GivenIsThen
    <3>4. executed[x] = 0
      BY <2>1, <2>5, <3>1 DEF IInv, WorkInOnePlace, InFlight
    <3>5. x \notin Begun /\ Begun' = Begun \cup {x}
      BY <1>0, <3>1, <3>2, <3>4 DEF Begun, TypeOK
    <3>6. WorkQueueOf!Begin(w)
      BY <2>1, <2>3, <2>4, <3>3, <3>5 DEF WorkQueueOf!Begin
    <3> QED BY <3>6 DEF WorkQueueOf!Next
  <2>6. CASE ~(m_running[w] /\ m_args[w] \in Works)
    <3>1. Given[w] = NoArgs /\ Given'[w] = NoArgs /\ Doing'[w] = NoArgs
      <4>1. CASE m_running[w]
        <5>1. m_args[w] = NoArgs /\ workerPc'[w] = "executing"
          BY <1>0, <1>9, <2>6, <4>1 DEF Wake, TypeOK
        <5> QED BY <2>1, <5>1, GivenIs, GivenIsThen
      <4>2. CASE ~m_running[w]
        <5>1. workerPc'[w] = "exited"
          BY <1>0, <1>9, <4>2 DEF Wake, TypeOK
        <5> QED BY <2>1, <4>2, <5>1, GivenIs, GivenIsThen
      <4> QED BY <4>1, <4>2
    <3>2. Given' = Given /\ Doing' = Doing
      BY <1>0, <2>1, <2>2, <2>4, <3>1, OtherWorkersStay DEF TypeOK
    <3>3. Begun' = Begun
      BY <1>0, <1>9, <2>6 DEF Wake, Begun, TypeOK
    <3> QED BY <2>1, <3>2, <3>3 DEF WorkQueueOf!vars
  <2> QED BY <2>5, <2>6
<1>10. ASSUME NEW w \in Workers, Complete(w)
       PROVE  [WorkQueueOf!Next]_WorkQueueOf!vars
  <2>1. /\ UNCHANGED <<m_running, m_args, m_semaphore, m_workQueue, submitted,
                       executed>>
        /\ workerPc' = [workerPc EXCEPT ![w] = "returning"]
        /\ workerPc[w] = "executing"
    BY <1>10 DEF Complete
  <2>2. Given[w] = NoArgs /\ Given'[w] = NoArgs /\ Doing'[w] = NoArgs
    BY <1>0, <2>1, GivenIs, GivenIsThen DEF TypeOK
  <2>3. /\ Given' = [Given EXCEPT ![w] = Given'[w]]
        /\ Doing' = [Doing EXCEPT ![w] = Doing'[w]]
    BY <1>0, <2>1, OtherWorkersStay DEF TypeOK
  <2>4. Given' = Given
    BY <1>0, <2>1, <2>2, OtherWorkersStay DEF TypeOK
  <2>5. WorkQueueOf!Finish(w)
    BY <2>1, <2>2, <2>3, <2>4 DEF WorkQueueOf!Finish, Begun
  <2> QED BY <2>5 DEF WorkQueueOf!Next
<1>11. ASSUME NEW w \in Workers, ReturnWorker(w)
       PROVE  [WorkQueueOf!Next]_WorkQueueOf!vars
  <2>1. w \in m_workerSet
    BY <1>11 DEF ReturnWorker, IInv, Phases, Unborn
  <2>2. /\ UNCHANGED <<m_running, m_args, m_semaphore, m_workQueue, submitted,
                       executed>>
        /\ workerPc' = [workerPc EXCEPT ![w] = "resetting"]
        /\ workerPc[w] = "returning"
    BY <1>11, <2>1 DEF ReturnWorker
  <2>3. m_running[w] => m_semaphore[w] = 0
    BY <2>2 DEF IInv, WorkInOnePlace
  <2>4. /\ Given[w] = NoArgs /\ Given'[w] = NoArgs
        /\ Doing[w] = NoArgs /\ Doing'[w] = NoArgs
    BY <1>0, <2>2, <2>3, GivenIs, GivenIsThen DEF TypeOK
  <2>5. Given' = Given /\ Doing' = Doing
    BY <1>0, <2>2, <2>4, OtherWorkersStay DEF TypeOK
  <2> QED BY <2>2, <2>5 DEF WorkQueueOf!vars, Begun
<1>12. ASSUME NEW w \in Workers, ResetArgs(w)
       PROVE  [WorkQueueOf!Next]_WorkQueueOf!vars
  <2>1. /\ UNCHANGED <<m_running, m_semaphore, m_workQueue, submitted,
                       executed>>
        /\ m_args' = [m_args EXCEPT ![w] = NoArgs]
        /\ workerPc[w] = "resetting"
    BY <1>12 DEF ResetArgs
  <2>2. PICK e \in {"waiting", "exited"} :
          workerPc' = [workerPc EXCEPT ![w] = e]
    BY <1>12 DEF ResetArgs
  <2>3. Given'[w] = NoArgs /\ Doing[w] = NoArgs /\ Doing'[w] = NoArgs
    BY <1>0, <2>1, <2>2, GivenIs, GivenIsThen DEF TypeOK
  <2>4. /\ Given' = [Given EXCEPT ![w] = Given'[w]]
        /\ Doing' = [Doing EXCEPT ![w] = Doing'[w]]
    BY <1>0, <2>1, <2>2, OtherWorkersStay DEF TypeOK
  <2>5. Doing' = Doing
    BY <2>3, <2>4 DEF Doing
  <2>6. WorkQueueOf!Forget(w)
    BY <2>1, <2>3, <2>4, <2>5 DEF WorkQueueOf!Forget, Begun
  <2> QED BY <2>6 DEF WorkQueueOf!Next
<1>13. ASSUME UNCHANGED vars
       PROVE  [WorkQueueOf!Next]_WorkQueueOf!vars
  BY <1>13, NothingMoves
<1> QED
  BY <1>1, <1>2, <1>3, <1>4, <1>5, <1>6, <1>7, <1>8, <1>9, <1>10, <1>11,
     <1>12, <1>13 DEF Next, CallerStep, PoolStep, WorkerStep

(* The pool hands out works as WorkQueue does: for any callers, workers and*)
(* works, every step of it is one of the queue or none.                    *)
THEOREM Implements == Spec => IsWorkQueue
<1>1. Init => WorkQueueOf!Init
  BY DEF Init, WorkQueueOf!Init, Given, Doing, Begun
<1>2. IInv /\ [Next]_vars => [WorkQueueOf!Next]_WorkQueueOf!vars
  BY StepRefines
<1> QED
  BY <1>1, <1>2, Inductive, PTL DEF Spec, IsWorkQueue, WorkQueueOf!Spec
=============================================================================
