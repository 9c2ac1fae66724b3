------------------------------- MODULE Server --------------------------------
(* Http::Server (source/wepp/http/server.cpp): a main thread that starts   *)
(* the receive pool and the listener, and then passes one connection after *)
(* the other from the listener to the pool.                                *)
(*                                                                         *)
(* The listener is module TcpListener, with the server as its only caller. *)
(* Of the receive pool the server uses start(), enqueue() and the          *)
(* destructor, so it has here what these meet of module ThreadPool: its    *)
(* thread, which hands the connections it was given to idle workers and    *)
(* destroys the workers at the end, and what has become of each            *)
(* connection.  execute() need not return: it waits in recv() for its      *)
(* peer.                                                                   *)
(*                                                                         *)
(* m_stopQueueMutex is a variable because stop() changes the listener and  *)
(* m_running in two steps, and handleStop() waits for a task while it has  *)
(* the mutex.  m_running is read without it.                               *)
EXTENDS Naturals, Sequences, FiniteSets

CONSTANTS
  Tasks, Conns, NoConn, Foreign, MaxErrors,   (* as in TcpListener         *)
  poolMin                                     (* the workers of the pool   *)

ASSUME ServerAssumption ==
  /\ Tasks \subseteq Nat \ {0}
  /\ NoConn \notin Conns /\ Foreign \notin Conns \cup {NoConn}
  /\ MaxErrors \in Nat /\ poolMin \in Nat \ {0}

VARIABLES
  m_running, m_stopped, m_stopTask,
  m_stopQueueMutex,  (* who has it: nobody, a stop(), or the main thread   *)
  startTask,         (* status of the task of start()                      *)
  mainPc,            (* control point of the main thread                   *)
  listenTask,        (* its listen task; 0 for none, or a refused one      *)
  destructor,        (* control point of ~Server                           *)
  enqueued,          (* connections given to the receive pool              *)
  (* the receive pool                                                      *)
  poolStarted,       (* its m_started                                      *)
  poolPc,            (* control point of its thread                        *)
  work,              (* what has become of each connection in the pool     *)
  (* the listener                                                          *)
  listenerRunning, listenerStopTask, listenerStartTask, listenerPc,
  listenerDestructor,
  m_listenSempahore, m_listenQueue, m_handle, taskStatus, taskSocket,
  connection, socket, backlog, arrived, closes, wasted

Listener ==
  INSTANCE TcpListener WITH
    m_running <- listenerRunning, m_stopTask <- listenerStopTask,
    startTask <- listenerStartTask, threadPc <- listenerPc,
    destructor <- listenerDestructor

listenerVars ==
  <<listenerRunning, listenerStopTask, listenerStartTask, listenerPc,
    listenerDestructor, m_listenSempahore, m_listenQueue, m_handle,
    taskStatus, taskSocket, connection, socket, backlog, arrived, closes,
    wasted>>

serverVars == <<m_running, m_stopped, m_stopTask, m_stopQueueMutex, startTask,
                mainPc, listenTask, destructor, enqueued>>

poolVars == <<poolStarted, poolPc, work>>

vars == <<serverVars, poolVars, listenerVars>>

TypeOK ==
  /\ m_running \in BOOLEAN /\ m_stopped \in BOOLEAN
  /\ {m_stopTask, startTask} \subseteq Listener!Status
  /\ m_stopQueueMutex \in {"free", "stop", "main"}
  /\ mainPc \in {"none", "pool", "listener", "listenerWait", "failed",
                 "running", "started", "loop", "listen", "listenWait",
                 "handle", "handleStop", "stopWait", "exited", "terminated"}
  /\ listenTask \in Tasks \cup {0}
  /\ destructor \in {"none", "waiting", "joining", "pool", "members"}
  /\ enqueued \in Seq(Conns)
  /\ poolStarted \in BOOLEAN
  /\ poolPc \in {"none", "waiting", "dispatch", "cleanup", "exited"}
  /\ work \in [Conns -> {"none", "given", "executing", "returned"}]
  /\ m_stopQueueMutex = "main" <=> mainPc = "stopWait"
  /\ Listener!TypeOK

Init ==
  /\ m_running = FALSE /\ m_stopped = TRUE
  /\ m_stopTask = "Pending" /\ startTask = "Pending"
  /\ m_stopQueueMutex = "free"
  /\ mainPc = "none" /\ listenTask = 0
  /\ destructor = "none"
  /\ enqueued = <<>>
  /\ poolStarted = FALSE /\ poolPc = "none"
  /\ work = [k \in Conns |-> "none"]
  /\ Listener!Init

-----------------------------------------------------------------------------
(* Callers.  No call is made once the destructor has begun.                *)

Called == destructor = "none" /\ m_stopQueueMutex = "free"
            /\ mainPc # "terminated"

(* A refused start() only returns a task of its own: a stuttering step.    *)
MayStart == Called /\ ~m_running /\ m_stopped

Start ==
  /\ MayStart
  /\ mainPc = "none"
  /\ m_stopped' = FALSE
  /\ m_stopTask' = "Pending"
  /\ startTask' = "Pending"
  /\ mainPc' = "pool"
  /\ UNCHANGED <<m_running, m_stopQueueMutex, listenTask, destructor,
                 enqueued, poolVars, listenerVars>>

(* std::terminate: m_thread is joined by the destructor only.              *)
StartAgain ==
  /\ MayStart
  /\ mainPc # "none"
  /\ m_stopped' = FALSE
  /\ m_stopTask' = "Pending"
  /\ mainPc' = "terminated"
  /\ UNCHANGED <<m_running, m_stopQueueMutex, startTask, listenTask,
                 destructor, enqueued, poolVars, listenerVars>>

(* stop() up to m_listener.stop(), or all of it when m_stopped.            *)
BeginStop ==
  IF m_stopped
    THEN m_stopTask' = "Successful" /\ UNCHANGED m_stopQueueMutex
           /\ UNCHANGED listenerVars
    ELSE m_stopQueueMutex' = "stop" /\ Listener!Stop /\ UNCHANGED m_stopTask

Stop ==
  /\ Called
  /\ BeginStop
  /\ UNCHANGED <<m_running, m_stopped, startTask, mainPc, listenTask,
                 destructor, enqueued, poolVars>>

(* Faulty: stop() that leaves m_running alone.                             *)
StopsListenerOnly == UNCHANGED m_running

ClearsRunning == m_running' = FALSE

(* ... m_running = false;                                                  *)
EndStop ==
  /\ m_stopQueueMutex = "stop"
  /\ ClearsRunning
  /\ m_stopQueueMutex' = "free"
  /\ UNCHANGED <<m_stopped, m_stopTask, startTask, mainPc, listenTask,
                 destructor, enqueued, poolVars, listenerVars>>

(* ~Server(): stop().wait(), join, and the destructors of the members, the *)
(* last one declared first: m_receivePool, and in the end m_listener.      *)
Destroy ==
  /\ Called
  /\ BeginStop
  /\ destructor' = "waiting"
  /\ UNCHANGED <<m_running, m_stopped, startTask, mainPc, listenTask,
                 enqueued, poolVars>>

DestroyJoins ==
  /\ destructor = "waiting" /\ m_stopQueueMutex # "stop"
  /\ m_stopTask # "Pending"
  /\ destructor' = "joining"
  /\ UNCHANGED <<m_running, m_stopped, m_stopTask, m_stopQueueMutex,
                 startTask, mainPc, listenTask, enqueued, poolVars,
                 listenerVars>>

(* ~ReceivePool() up to its waits for the pool: stop(), which returns a    *)
(* finished task when the pool was never started.                          *)
DestroyPool ==
  /\ destructor = "joining" /\ mainPc \in {"none", "exited"}
  /\ destructor' = "pool"
  /\ poolStarted' = FALSE
  /\ UNCHANGED <<m_running, m_stopped, m_stopTask, m_stopQueueMutex,
                 startTask, mainPc, listenTask, enqueued, poolPc, work,
                 listenerVars>>

(* The pool's thread is joined; ~TcpListener().                            *)
DestroyMembers ==
  /\ destructor = "pool" /\ poolPc \in {"none", "exited"}
  /\ destructor' = "members"
  /\ Listener!Destroy
  /\ UNCHANGED <<m_running, m_stopped, m_stopTask, m_stopQueueMutex,
                 startTask, mainPc, listenTask, enqueued, poolVars>>

Destroyed == destructor = "members" /\ listenerDestructor = "done"

-----------------------------------------------------------------------------
(* The main thread.                                                        *)

(* What most of its steps do: go from one control point to another, with   *)
(* no other variable of the server changed.                                *)
Goes(from, to) ==
  /\ mainPc = from /\ mainPc' = to
  /\ UNCHANGED <<m_stopTask, destructor>>

OnlyMain ==
  UNCHANGED <<m_running, m_stopped, m_stopQueueMutex, startTask, enqueued>>

(* m_receivePool.start(...).wait(), on a pool that was never started: its  *)
(* workers are allocated.                                                  *)
StartPool ==
  /\ Goes("pool", "listener")
  /\ poolStarted' = TRUE /\ poolPc' = "waiting" /\ UNCHANGED work
  /\ OnlyMain /\ UNCHANGED <<listenTask, listenerVars>>

StartListener ==
  /\ Goes("listener", "listenerWait")
  /\ Listener!Start
  /\ OnlyMain /\ UNCHANGED <<listenTask, poolVars>>

ListenerStarted ==
  /\ Goes("listenerWait", "running")
  /\ listenerStartTask = "Successful"
  /\ OnlyMain /\ UNCHANGED <<listenTask, poolVars, listenerVars>>

ListenerFailed ==
  /\ Goes("listenerWait", "failed")
  /\ listenerStartTask = "Failed"
  /\ m_stopped' = TRUE
  /\ UNCHANGED <<m_running, m_stopQueueMutex, startTask, listenTask, enqueued,
                 poolVars, listenerVars>>

(* Faulty: return without task.fail().                                     *)
StartForgotten == UNCHANGED startTask

StartFailed == startTask' = "Failed"

FailStart ==
  /\ Goes("failed", "exited")
  /\ StartFailed
  /\ UNCHANGED <<m_running, m_stopped, m_stopQueueMutex, listenTask, enqueued,
                 poolVars, listenerVars>>

(* m_running is set whatever has become of it since start().               *)
SetRunning ==
  /\ Goes("running", "started")
  /\ m_running' = TRUE /\ m_stopped' = FALSE
  /\ UNCHANGED <<m_stopQueueMutex, startTask, listenTask, enqueued,
                 poolVars, listenerVars>>

FinishStart ==
  /\ Goes("started", "loop")
  /\ startTask' = "Successful"
  /\ UNCHANGED <<m_running, m_stopped, m_stopQueueMutex, listenTask, enqueued,
                 poolVars, listenerVars>>

LoopOrLeave ==
  /\ Goes("loop", IF m_running THEN "listen" ELSE "handleStop")
  /\ OnlyMain /\ UNCHANGED <<listenTask, poolVars, listenerVars>>

Listen(t) ==
  /\ Goes("listen", "listenWait")
  /\ listenerRunning /\ Listener!Listen(t)
  /\ listenTask' = t
  /\ OnlyMain /\ UNCHANGED poolVars

(* A listener that does not run returns a failed task and changes nothing. *)
(* The task needs no number: the main thread may get any number of them.   *)
ListenRefused ==
  /\ Goes("listen", "listenWait")
  /\ ~listenerRunning
  /\ listenTask' = 0
  /\ OnlyMain /\ UNCHANGED <<poolVars, listenerVars>>

Successful == listenTask # 0 /\ taskStatus[listenTask] = "Successful"

ListenReturns ==
  /\ Goes("listenWait", IF m_running THEN "handle" ELSE "handleStop")
  /\ listenTask # 0 => taskStatus[listenTask] # "Pending"
  /\ OnlyMain /\ UNCHANGED <<listenTask, poolVars, listenerVars>>

(* Faulty: the connection is not passed on.                                *)
DropConnection == UNCHANGED enqueued

EnqueueConnection ==
  IF Successful
    THEN enqueued' = Append(enqueued, taskSocket[listenTask])
    ELSE UNCHANGED enqueued

Handle ==
  /\ Goes("handle", "loop")
  /\ EnqueueConnection
  /\ UNCHANGED <<m_running, m_stopped, m_stopQueueMutex, startTask,
                 listenTask, poolVars, listenerVars>>

(* Faulty: the listener is left to the stop() that was called.             *)
LeaveListener == UNCHANGED listenerVars

StopListener == Listener!Stop

(* handleStop(): m_listener.stop().wait(), under the mutex.                *)
HandleStop ==
  /\ Goes("handleStop", "stopWait")
  /\ m_stopQueueMutex = "free"
  /\ m_stopQueueMutex' = "main"
  /\ StopListener
  /\ UNCHANGED <<m_running, m_stopped, startTask, listenTask, enqueued,
                 poolVars>>

(* Faulty: return with the mutex locked.                                   *)
KeepMutex == UNCHANGED m_stopQueueMutex

Unlock == m_stopQueueMutex' = "free"

(* Faulty: return without m_stopTask.finish().                             *)
ForgetStopTask == UNCHANGED m_stopTask

FinishStopTask == m_stopTask' = "Successful"

Stopped ==
  /\ mainPc = "stopWait" /\ mainPc' = "exited"
  /\ listenerStopTask # "Pending"
  /\ m_stopped' = TRUE
  /\ FinishStopTask
  /\ Unlock
  /\ UNCHANGED <<m_running, startTask, listenTask, destructor, enqueued,
                 poolVars, listenerVars>>

-----------------------------------------------------------------------------
(* The receive pool (include/wepp/priv/threadPool.inl).  Which arguments a *)
(* worker finds, and its return to a pool that is gone, are questions of   *)
(* module ThreadPool.                                                      *)

OnlyPool == UNCHANGED <<serverVars, listenerVars>>

(* The connection at the front of m_workQueue.                             *)
IsFront(k) ==
  \E i \in DOMAIN enqueued :
    /\ enqueued[i] = k /\ work[k] = "none"
    /\ \A j \in 1..i - 1 : work[enqueued[j]] # "none"

HasIdleWorker ==
  Cardinality({k \in Conns : work[k] \in {"given", "executing"}}) < poolMin

(* Both waits, and if (!m_started) break behind them: the token of a stop  *)
(* that finds the thread here ends them.                                   *)
AwaitWork ==
  /\ poolPc = "waiting"
  /\ \/ /\ poolStarted /\ HasIdleWorker
        /\ \E k \in Conns : IsFront(k)
        /\ poolPc' = "dispatch"
     \/ /\ ~poolStarted
        /\ poolPc' = "cleanup"
  /\ UNCHANGED <<poolStarted, work>> /\ OnlyPool

(* worker->work(socket), and while (m_started).                            *)
Dispatch(k) ==
  /\ poolPc = "dispatch" /\ IsFront(k)
  /\ work' = [work EXCEPT ![k] = "given"]
  /\ poolPc' = IF poolStarted THEN "waiting" ELSE "cleanup"
  /\ UNCHANGED poolStarted /\ OnlyPool

(* A worker comes out of its wait; cleanup() may have begun, but has not   *)
(* come to this worker.                                                    *)
Execute(k) ==
  /\ work[k] = "given" /\ poolPc # "exited"
  /\ work' = [work EXCEPT ![k] = "executing"]
  /\ UNCHANGED <<poolStarted, poolPc>> /\ OnlyPool

(* execute() has returned and returnWorker() gets the pool's m_mutex, which*)
(* cleanup() keeps to its end.                                             *)
ReturnWorker(k) ==
  /\ work[k] = "executing" /\ poolPc # "cleanup"
  /\ work' = [work EXCEPT ![k] = "returned"]
  /\ UNCHANGED <<poolStarted, poolPc>> /\ OnlyPool

(* cleanup() has joined every worker; those that execute come to an end    *)
(* only through returnWorker().                                            *)
FinishCleanup ==
  /\ poolPc = "cleanup"
  /\ \A k \in Conns : work[k] # "executing"
  /\ poolPc' = "exited"
  /\ UNCHANGED <<poolStarted, work>> /\ OnlyPool

-----------------------------------------------------------------------------

MainStep ==
  \/ StartPool \/ StartListener \/ ListenerStarted \/ ListenerFailed
  \/ FailStart \/ SetRunning \/ FinishStart \/ LoopOrLeave
  \/ \E t \in Tasks : Listen(t)
  \/ ListenRefused \/ ListenReturns \/ Handle \/ HandleStop \/ Stopped

PoolStep ==
  /\ mainPc # "terminated"
  /\ AwaitWork \/ FinishCleanup \/ \E k \in Conns : Dispatch(k)

WorkerStep ==
  /\ mainPc # "terminated"
  /\ \E k \in Conns : Execute(k) \/ ReturnWorker(k)

ListenerStep ==
  /\ mainPc # "terminated"
  /\ Listener!ThreadStep \/ Listener!DestructorStep
  /\ UNCHANGED <<serverVars, poolVars>>

NetworkStep ==
  /\ mainPc # "terminated"
  /\ \/ Listener!AcceptError \/ Listener!AcceptForeign
     \/ \E k \in Conns : Listener!Connect(k)
  /\ UNCHANGED <<serverVars, poolVars>>

CallReturns == EndStop \/ DestroyJoins \/ DestroyPool \/ DestroyMembers

Next ==
  \/ Start \/ StartAgain \/ Stop \/ Destroy
  \/ CallReturns \/ MainStep \/ PoolStep \/ WorkerStep
  \/ ListenerStep \/ NetworkStep

Spec == Init /\ [][Next]_vars

(* The threads are scheduled, calls that have begun go on, and a thread    *)
(* that waits for a mutex gets it if it is free again and again; nobody    *)
(* need call, no connection need arrive, no accept() need fail and no      *)
(* worker need come back from its peer.                                    *)
FairSpec ==
  /\ Spec
  /\ WF_vars(MainStep) /\ WF_vars(ListenerStep) /\ WF_vars(CallReturns)
  /\ WF_vars(PoolStep)
  /\ SF_vars(HandleStop)

-----------------------------------------------------------------------------
(* Properties.                                                             *)

(* Between the listener and the pool no connection is lost and none is     *)
(* handed over twice, but for the one the main thread has in its hands     *)
(* when the server is stopped.                                             *)
ConnectionsReachThePool ==
  /\ \A i, j \in DOMAIN enqueued : enqueued[i] = enqueued[j] => i = j
  /\ \A i \in DOMAIN enqueued : enqueued[i] \in arrived
  /\ \A t \in Tasks \ {listenTask} : taskStatus[t] = "Successful" =>
       \E i \in DOMAIN enqueued : enqueued[i] = taskSocket[t]

(* The task of start() is decided, whatever stop() calls come in between.  *)
StartIsDecided ==
  (mainPc = "pool") ~> (startTask # "Pending" \/ mainPc = "terminated")

(* A stop() of a server that has come up, and whose listener it stopped,   *)
(* completes: the main thread leaves its loop whatever it is waiting for.  *)
StopOfRunningServerCompletes ==
  (m_stopQueueMutex = "stop" /\ m_running /\ ~listenerRunning)
    ~> (m_stopTask = "Successful")

(* A main thread that has left its loop ends, and the listener with it,    *)
(* even if the stop() that ended the loop came before the listener was     *)
(* started.                                                                *)
HandleStopEndsListener ==
  (mainPc = "handleStop")
    ~> (mainPc = "terminated"
          \/ (mainPc = "exited" /\ listenerPc = "exited"))

(* ~Server() of a server that runs, has been stopped, or has never run,    *)
(* gets to its end with all the threads at theirs, unless a worker that    *)
(* executes keeps ~ReceivePool() from returning: cleanup() joins the       *)
(* worker with the mutex that its returnWorker() needs.                    *)
CleanupHangs == poolPc = "cleanup" /\ \E k \in Conns : work[k] = "executing"

DestructorReturns ==
  (destructor = "waiting"
     /\ (m_stopTask = "Successful"
           \/ (m_stopQueueMutex = "stop" /\ m_running /\ ~listenerRunning)))
    ~> (\/ CleanupHangs
        \/ Destroyed /\ {mainPc, poolPc, listenerPc} \subseteq {"none", "exited"})

(* "Asynchronous function for stopping the server." (server.hpp:88): a     *)
(* stop() that found the server not stopped stops it, when start() is      *)
(* under way as well.                                                      *)
StopIsNotLost ==
  (m_stopQueueMutex = "stop")
    ~> (m_stopTask # "Pending" \/ mainPc = "terminated")
=============================================================================
