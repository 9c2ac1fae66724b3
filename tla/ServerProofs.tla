---------------------------- MODULE ServerProofs ----------------------------
(* Theorems about Server, for every set of listen tasks and of connections.*)
EXTENDS Server, TLAPS

(* What a step of the server changes of its listener, or leaves alone.     *)
LEMMA ListenerIsOneVariable ==
  ASSUME UNCHANGED listenerVars PROVE UNCHANGED Listener!vars
BY DEF listenerVars, Listener!vars, Listener!flagVars, Listener!queueVars,
       Listener!stopVars, Listener!kernelVars

(* The pool's threads only change the pool.                                *)
LEMMA PoolIsApart ==
  ASSUME PoolStep \/ WorkerStep PROVE UNCHANGED <<serverVars, listenerVars>>
BY DEF PoolStep, WorkerStep, AwaitWork, Dispatch, Execute, ReturnWorker,
       FinishCleanup, OnlyPool

LEMMA StepUsesListener == [Next]_vars => [Listener!Next]_(Listener!vars)
<1> SUFFICES ASSUME [Next]_vars PROVE [Listener!Next]_(Listener!vars)
  OBVIOUS
<1>1. ASSUME UNCHANGED listenerVars
      PROVE  [Listener!Next]_(Listener!vars)
  BY <1>1, ListenerIsOneVariable
<1>2. ASSUME Listener!Start \/ Listener!Stop \/ Listener!Destroy
               \/ Listener!ThreadStep \/ Listener!DestructorStep
               \/ Listener!AcceptError \/ Listener!AcceptForeign
      PROVE  [Listener!Next]_(Listener!vars)
  BY <1>2 DEF Listener!Next
<1>3. ASSUME NEW t \in Tasks, Listener!Listen(t)
      PROVE  [Listener!Next]_(Listener!vars)
  BY <1>3 DEF Listener!Next
<1>4. ASSUME NEW k \in Conns, Listener!Connect(k)
      PROVE  [Listener!Next]_(Listener!vars)
  BY <1>4 DEF Listener!Next
<1>5. CASE Start \/ StartAgain \/ EndStop \/ DestroyJoins \/ DestroyPool
  BY <1>1, <1>5 DEF Start, StartAgain, EndStop, DestroyJoins, DestroyPool
<1>6. CASE Stop \/ Destroy
  BY <1>1, <1>2, <1>6 DEF Stop, Destroy, BeginStop
<1>7. CASE DestroyMembers
  BY <1>2, <1>7 DEF DestroyMembers
<1>8. CASE MainStep
  <2>1. CASE StartListener \/ HandleStop
    BY <1>2, <2>1 DEF StartListener, HandleStop, StopListener
  <2>2. ASSUME NEW t \in Tasks, Listen(t)
        PROVE  [Listener!Next]_(Listener!vars)
    BY <1>3, <2>2 DEF Listen
  <2>3. CASE StartPool \/ ListenerStarted \/ ListenerFailed \/ FailStart
               \/ SetRunning \/ FinishStart \/ LoopOrLeave
    BY <1>1, <2>3 DEF StartPool, ListenerStarted, ListenerFailed, FailStart,
         SetRunning, FinishStart, LoopOrLeave
  <2>4. CASE ListenRefused \/ ListenReturns \/ Handle \/ Stopped
    BY <1>1, <2>4 DEF ListenRefused, ListenReturns, Handle, Stopped
  <2> QED BY <1>8, <2>1, <2>2, <2>3, <2>4 DEF MainStep
<1>9. CASE ListenerStep \/ NetworkStep
  BY <1>2, <1>4, <1>9 DEF ListenerStep, NetworkStep
<1>10. CASE PoolStep \/ WorkerStep
  BY <1>1, <1>10, PoolIsApart
<1>11. CASE UNCHANGED vars
  BY <1>1, <1>11 DEF vars
<1> QED
  BY <1>5, <1>6, <1>7, <1>8, <1>9, <1>10, <1>11 DEF Next, CallReturns

(* The server uses its listener in no other way than module TcpListener    *)
(* describes: what is proved of every listener holds of the server's.      *)
THEOREM UsesItsListener == Spec => Listener!Spec
<1>1. Init => Listener!Init
  BY DEF Init
<1> QED BY <1>1, StepUsesListener, PTL DEF Spec, Listener!Spec

-----------------------------------------------------------------------------
(* What is proved of every listener, read with the names of this one.      *)

Proved ==
  INSTANCE TcpListenerProofs WITH
    m_running <- listenerRunning, m_stopTask <- listenerStopTask,
    startTask <- listenerStartTask, threadPc <- listenerPc,
    destructor <- listenerDestructor

LEMMA ListenerFits == Proved!ListenerAssumption
BY ServerAssumption DEF Proved!ListenerAssumption

(* Listener and Proved are two instances of the same definitions.          *)
LEMMA SameInit == Listener!Init => Proved!Init
BY Zenon
   DEF Listener!Init, Proved!Init

LEMMA SameVars == UNCHANGED Listener!vars => UNCHANGED Proved!vars
BY Zenon
   DEF Listener!vars, Proved!vars, Listener!flagVars, Proved!flagVars,
       Listener!queueVars, Proved!queueVars, Listener!stopVars,
       Proved!stopVars, Listener!kernelVars, Proved!kernelVars

LEMMA SameNext == Listener!Next => Proved!Next
BY Zenon
   DEF Listener!flagVars, Proved!flagVars, Listener!queueVars,
       Proved!queueVars, Listener!stopVars, Proved!stopVars,
       Listener!Next, Proved!Next, Listener!Start, Proved!Start,
       Listener!StartAgain, Proved!StartAgain, Listener!Stop, Proved!Stop,
       Listener!Destroy, Proved!Destroy, Listener!DestructorStep,
       Proved!DestructorStep, Listener!Listen, Proved!Listen,
       Listener!ThreadStep, Proved!ThreadStep, Listener!AcceptError,
       Proved!AcceptError, Listener!AcceptForeign, Proved!AcceptForeign,
       Listener!Connect, Proved!Connect, Listener!MayStart, Proved!MayStart,
       Listener!kernelVars, Proved!kernelVars, Listener!InUse, Proved!InUse,
       Listener!StopEffect, Proved!StopEffect, Listener!DestroyJoins,
       Proved!DestroyJoins, Listener!DestroyReturns, Proved!DestroyReturns,
       Listener!NextTask, Proved!NextTask, Listener!AnnounceTask,
       Proved!AnnounceTask, Listener!CreateSocket, Proved!CreateSocket,
       Listener!BindSocket, Proved!BindSocket, Listener!ListenSocket,
       Proved!ListenSocket, Listener!FinishStart, Proved!FinishStart,
       Listener!AwaitTask, Proved!AwaitTask, Listener!CopyHandle,
       Proved!CopyHandle, Listener!Accept, Proved!Accept,
       Listener!AcceptClosed, Proved!AcceptClosed, Listener!Judge,
       Proved!Judge, Listener!Reject, Proved!Reject, Listener!Serve,
       Proved!Serve, Listener!StopListen, Proved!StopListen,
       Listener!FailStart, Proved!FailStart, Listener!AcceptReturnsInvalid,
       Proved!AcceptReturnsInvalid, Listener!Goes, Proved!Goes,
       Listener!CloseHandle, Proved!CloseHandle, Listener!NotifyThread,
       Proved!NotifyThread, Listener!GoesWhileRunning,
       Proved!GoesWhileRunning, Listener!TakeToken, Proved!TakeToken,
       Listener!Rejects, Proved!Rejects, Listener!TokenGone, Proved!TokenGone,
       Listener!Front, Proved!Front, Listener!ClearRunning,
       Proved!ClearRunning, Listener!FailTasks, Proved!FailTasks,
       Listener!StartFailed, Proved!StartFailed, Listener!Queued,
       Proved!Queued

LEMMA SameTypeOK == Proved!TypeOK => Listener!TypeOK
BY Zenon
   DEF Listener!TypeOK, Proved!TypeOK, Listener!Status, Proved!Status,
       Listener!ThreadControl, Proved!ThreadControl

LEMMA SameAcceptFindsTask == Proved!AcceptFindsTask => Listener!AcceptFindsTask
BY Zenon
   DEF Listener!AcceptFindsTask, Proved!AcceptFindsTask

LEMMA SamePendingTasksAreQueued ==
  Proved!PendingTasksAreQueued => Listener!PendingTasksAreQueued
BY Zenon
   DEF Listener!PendingTasksAreQueued, Proved!PendingTasksAreQueued,
       Listener!Queued, Proved!Queued

LEMMA SameServedTasksHoldSockets ==
  Proved!ServedTasksHoldSockets => Listener!ServedTasksHoldSockets
BY Zenon
   DEF Listener!ServedTasksHoldSockets, Proved!ServedTasksHoldSockets

LEMMA ListenerIsProved == Spec => Proved!Spec
<1>1. [Listener!Next]_(Listener!vars) => [Proved!Next]_(Proved!vars)
  BY SameNext, SameVars
<1>2. Listener!Spec => Proved!Spec
  BY SameInit, <1>1, PTL DEF Listener!Spec, Proved!Spec
<1> QED BY UsesItsListener, <1>2

(* What the server relies on.                                              *)
ListenerHolds ==
  /\ Listener!TypeOK
  /\ Listener!AcceptFindsTask
  /\ Listener!PendingTasksAreQueued
  /\ Listener!ServedTasksHoldSockets

LEMMA ListenerKeeps == Spec => []ListenerHolds
<1>1. /\ Proved!Spec => []Proved!TypeOK
      /\ Proved!Spec => []Proved!AcceptFindsTask
  BY ListenerFits, Proved!Typing, Proved!ServingIsSafe, PTL
<1>2. /\ Proved!Spec => []Proved!PendingTasksAreQueued
      /\ Proved!Spec => []Proved!ServedTasksHoldSockets
  BY ListenerFits, Proved!NoTaskIsForgotten, Proved!ConnectionsAreNotShared,
     PTL
<1>3. Proved!TypeOK /\ Proved!AcceptFindsTask
        /\ Proved!PendingTasksAreQueued /\ Proved!ServedTasksHoldSockets
      => ListenerHolds
  BY SameTypeOK, SameAcceptFindsTask, SamePendingTasksAreQueued,
     SameServedTasksHoldSockets DEF ListenerHolds
<1> QED BY ListenerIsProved, <1>1, <1>2, <1>3, PTL

-----------------------------------------------------------------------------
(* The way of a connection: from its listen task into the pool.            *)

Served(t) == taskStatus[t] = "Successful"

HandedOver(t) == \E i \in DOMAIN enqueued : enqueued[i] = taskSocket[t]

(* One listen task is pending at a time: the one the main thread waits for.*)
OneTaskWaits ==
  /\ listenTask \in Tasks \cup {0}
  /\ mainPc \in {"none", "pool", "listener", "listenerWait", "failed",
                 "running", "started"} => listenTask = 0
  /\ \A t \in Tasks : taskStatus[t] = "Pending" =>
       t = listenTask /\ mainPc \in {"listenWait", "terminated"}

(* What is in the pool are the connections of served tasks, each once; of  *)
(* the main thread's own task before Handle not yet, behind it for sure.   *)
PoolHoldsServed ==
  /\ enqueued \in Seq(Conns)
  /\ \A i, j \in DOMAIN enqueued : enqueued[i] = enqueued[j] => i = j
  /\ \A i \in DOMAIN enqueued :
       \E t \in Tasks : Served(t) /\ enqueued[i] = taskSocket[t]
  /\ \A t \in Tasks \ {listenTask} : Served(t) => HandedOver(t)
  /\ mainPc \in {"loop", "listen"} /\ Successful => HandedOver(listenTask)
  /\ mainPc \in {"listenWait", "handle"} /\ Successful =>
       ~HandedOver(listenTask)

SInv == OneTaskWaits /\ PoolHoldsServed

LEMMA InitHolds == Init => SInv
BY DEF Init, SInv, OneTaskWaits, PoolHoldsServed, Successful, Served,
       HandedOver, Listener!Init

LEMMA SInvHolds == SInv /\ ListenerHolds => ConnectionsReachThePool
BY DEF SInv, OneTaskWaits, PoolHoldsServed, ListenerHolds, Served, HandedOver,
       Listener!ServedTasksHoldSockets, ConnectionsReachThePool

(* What the listener does by itself, or on a start() or stop(), to its     *)
(* tasks: only pending ones change.                                        *)
Decided ==
  \A t \in Tasks :
    /\ taskStatus[t] # "Pending" =>
         taskStatus'[t] = taskStatus[t] /\ taskSocket'[t] = taskSocket[t]
    /\ taskStatus'[t] = "Pending" => taskStatus[t] = "Pending"

LEMMA UnchangedIsDecided ==
  ASSUME UNCHANGED <<taskStatus, taskSocket>> PROVE Decided
BY DEF Decided

LEMMA QueueIsPending ==
  ASSUME ListenerHolds, NEW i \in DOMAIN m_listenQueue
  PROVE  m_listenQueue[i] \in Tasks /\ taskStatus[m_listenQueue[i]] = "Pending"
<1>1. m_listenQueue \in Seq(Tasks)
  BY DEF ListenerHolds, Listener!TypeOK
<1>2. m_listenQueue[i] \in Tasks
  BY <1>1
<1> QED
  BY <1>2 DEF ListenerHolds, Listener!PendingTasksAreQueued, Listener!Queued

LEMMA ServeDecides ==
  ASSUME ListenerHolds, Listener!Serve PROVE Decided
<1>1. m_listenQueue \in Seq(Tasks) /\ m_listenQueue # <<>>
  BY DEF ListenerHolds, Listener!TypeOK, Listener!AcceptFindsTask,
         Listener!Serve
<1>2. 1 \in DOMAIN m_listenQueue /\ Head(m_listenQueue) = m_listenQueue[1]
  BY <1>1
<1>3. Listener!Front \in Tasks /\ taskStatus[Listener!Front] = "Pending"
  BY <1>2, QueueIsPending DEF Listener!Front
<1>4. /\ taskStatus \in [Tasks -> Listener!Status \cup {"Unused"}]
      /\ taskSocket \in [Tasks -> Conns \cup {NoConn}]
  BY DEF ListenerHolds, Listener!TypeOK
<1> QED BY <1>3, <1>4 DEF Decided, Listener!Serve

LEMMA StopListenDecides ==
  ASSUME ListenerHolds, Listener!StopListen PROVE Decided
<1>1. taskStatus' = [t \in Tasks |-> IF Listener!Queued(t) THEN "Failed"
                                                         ELSE taskStatus[t]]
  BY DEF Listener!StopListen, Listener!FailTasks
<1>2. \A t \in Tasks : Listener!Queued(t) => taskStatus[t] = "Pending"
  BY DEF ListenerHolds, Listener!PendingTasksAreQueued
<1>3. taskSocket' = taskSocket
  BY DEF Listener!StopListen
<1> QED BY <1>1, <1>2, <1>3 DEF Decided

LEMMA CallDecides ==
  ASSUME Listener!Start \/ Listener!Stop \/ Listener!Destroy PROVE Decided
<1>1. UNCHANGED <<taskStatus, taskSocket>>
  BY DEF Listener!Start, Listener!Stop, Listener!Destroy, Listener!queueVars
<1> QED BY <1>1, UnchangedIsDecided

LEMMA ListenerDecides ==
  ASSUME ListenerHolds, ListenerStep \/ NetworkStep PROVE Decided
<1> USE DEF Listener!queueVars
<1>1. ASSUME NEW k \in Conns, Listener!Connect(k) PROVE Decided
  BY <1>1, UnchangedIsDecided DEF Listener!Connect
<1>2. CASE Listener!AcceptError \/ Listener!AcceptForeign
             \/ Listener!AcceptClosed \/ Listener!Accept
  BY <1>2, UnchangedIsDecided
     DEF Listener!AcceptError, Listener!AcceptForeign, Listener!AcceptClosed,
         Listener!Accept, Listener!AcceptReturnsInvalid
<1>3. CASE Listener!DestructorStep
  BY <1>3, UnchangedIsDecided
     DEF Listener!DestructorStep, Listener!DestroyJoins,
         Listener!DestroyReturns
<1>4. CASE Listener!CreateSocket \/ Listener!BindSocket
             \/ Listener!ListenSocket \/ Listener!FinishStart
  BY <1>4, UnchangedIsDecided
     DEF Listener!CreateSocket, Listener!BindSocket, Listener!ListenSocket,
         Listener!FinishStart
<1>5. CASE Listener!AwaitTask \/ Listener!CopyHandle \/ Listener!Judge
             \/ Listener!Reject \/ Listener!FailStart
  BY <1>5, UnchangedIsDecided
     DEF Listener!AwaitTask, Listener!CopyHandle, Listener!Judge,
         Listener!Reject, Listener!FailStart
<1>6. Listener!ThreadStep => Decided
  BY <1>2, <1>4, <1>5, ServeDecides, StopListenDecides DEF Listener!ThreadStep
<1> QED BY <1>1, <1>2, <1>3, <1>6 DEF ListenerStep, NetworkStep

-----------------------------------------------------------------------------
(* Every step preserves SInv.                                              *)

(* The listener moves and the main thread does not: the one task that may  *)
(* be served now is the main thread's, with a connection of its own.       *)
LEMMA ListenerMoves ==
  ASSUME SInv, ListenerHolds', Decided,
         UNCHANGED <<mainPc, listenTask, enqueued>>
  PROVE  SInv'
<1> USE DEF SInv, Served, Successful, HandedOver
<1>1. OneTaskWaits'
  BY DEF OneTaskWaits, Decided
<1>2. \A t \in Tasks :
        Served(t) => Served(t)' /\ taskSocket'[t] = taskSocket[t]
  BY DEF Decided
<1>3. \A t \in Tasks : Served(t)' /\ t # listenTask => Served(t)
  BY DEF Decided, OneTaskWaits
<1>4. \A t \in Tasks \ {listenTask} : Served(t)' => HandedOver(t)'
  BY <1>2, <1>3 DEF PoolHoldsServed
<1>5. \A i \in DOMAIN enqueued' :
        \E t \in Tasks : Served(t)' /\ enqueued'[i] = taskSocket'[t]
  BY <1>2 DEF PoolHoldsServed
<1>6. ASSUME mainPc \in {"loop", "listen"}, Successful'
      PROVE  HandedOver(listenTask)'
  <2>1. listenTask \in Tasks /\ taskStatus[listenTask] # "Pending"
    BY <1>6 DEF OneTaskWaits
  <2>2. Successful /\ taskSocket'[listenTask] = taskSocket[listenTask]
    BY <1>6, <2>1 DEF Decided
  <2> QED BY <1>6, <2>2 DEF PoolHoldsServed
<1>7. ASSUME mainPc \in {"listenWait", "handle"}, Successful'
      PROVE  ~HandedOver(listenTask)'
  <2>1. listenTask \in Tasks
    BY <1>7 DEF OneTaskWaits
  <2>2. CASE Successful
    BY <1>7, <2>1, <2>2 DEF PoolHoldsServed, Decided
  <2>3. CASE ~Successful
    <3>1. \A t \in Tasks : Served(t) => t # listenTask
      BY <1>7, <2>3
    <3>2. \A t \in Tasks :
            Served(t) => taskSocket'[t] # taskSocket'[listenTask]
      BY <1>7, <2>1, <3>1
         DEF ListenerHolds, Listener!ServedTasksHoldSockets
    <3> QED BY <1>2, <3>2 DEF PoolHoldsServed
  <2> QED BY <2>2, <2>3
<1> QED BY <1>1, <1>4, <1>5, <1>6, <1>7 DEF PoolHoldsServed

(* The main thread moves and no listen task does.                          *)
LEMMA MainMoves ==
  ASSUME SInv,
         \/ Start \/ StartAgain \/ StartPool \/ StartListener
         \/ ListenerStarted \/ ListenerFailed \/ FailStart \/ SetRunning
         \/ FinishStart \/ LoopOrLeave \/ ListenReturns \/ HandleStop
         \/ Stopped
  PROVE  SInv'
<1> USE DEF SInv, OneTaskWaits, PoolHoldsServed, Served, Successful,
          HandedOver, Goes, OnlyMain, listenerVars
<1>1. CASE Start \/ StartPool \/ StartListener \/ ListenerStarted
             \/ ListenerFailed \/ FailStart \/ SetRunning \/ FinishStart
  <2>1. UNCHANGED <<taskStatus, taskSocket, listenTask, enqueued>>
    BY <1>1 DEF Start, StartPool, StartListener, ListenerStarted,
         ListenerFailed, FailStart, SetRunning, FinishStart, Listener!Start,
         Listener!queueVars
  <2>2. /\ mainPc \in {"none", "pool", "listener", "listenerWait", "failed",
                       "running", "started"}
        /\ mainPc' \in {"pool", "listener", "listenerWait", "failed",
                        "running", "started", "loop", "exited"}
    BY <1>1 DEF Start, StartPool, StartListener, ListenerStarted,
         ListenerFailed, FailStart, SetRunning, FinishStart
  <2> QED BY <2>1, <2>2
<1>2. CASE StartAgain
  BY <1>2 DEF StartAgain
<1>3. CASE LoopOrLeave
  BY <1>3 DEF LoopOrLeave
<1>4. CASE ListenReturns
  <2>1. UNCHANGED <<taskStatus, taskSocket, listenTask, enqueued>>
    BY <1>4 DEF ListenReturns
  <2>2. \A t \in Tasks : taskStatus[t] # "Pending"
    BY <1>4, ServerAssumption DEF ListenReturns
  <2>3. mainPc = "listenWait" /\ mainPc' \in {"handle", "handleStop"}
    BY <1>4 DEF ListenReturns
  <2> QED BY <2>1, <2>2, <2>3
<1>5. CASE HandleStop \/ Stopped
  <2>1. UNCHANGED <<taskStatus, taskSocket, listenTask, enqueued>>
    BY <1>5 DEF HandleStop, Stopped, StopListener, Listener!Stop,
         Listener!queueVars
  <2>2. mainPc \in {"handleStop", "stopWait"}
          /\ mainPc' \in {"stopWait", "exited"}
    BY <1>5 DEF HandleStop, Stopped
  <2> QED BY <2>1, <2>2
<1> QED BY <1>1, <1>2, <1>3, <1>4, <1>5

(* The next listen task begins when the last one is settled.               *)
LEMMA ListenMoves ==
  ASSUME SInv, ListenerHolds, ListenRefused \/ \E t \in Tasks : Listen(t)
  PROVE  SInv'
<1> USE DEF SInv, OneTaskWaits, PoolHoldsServed, Served, Successful,
          HandedOver, Goes, OnlyMain
<1>1. CASE ListenRefused
  BY <1>1 DEF ListenRefused, listenerVars
<1>2. ASSUME NEW t \in Tasks, Listen(t) PROVE SInv'
  <2>1. /\ mainPc = "listen" /\ mainPc' = "listenWait" /\ listenTask' = t
        /\ enqueued' = enqueued /\ taskSocket' = taskSocket
        /\ taskStatus[t] = "Unused"
        /\ taskStatus' = [taskStatus EXCEPT ![t] = "Pending"]
    BY <1>2 DEF Listen, Listener!Listen, Listener!NextTask
  <2>2. taskStatus \in [Tasks -> Listener!Status \cup {"Unused"}]
    BY DEF ListenerHolds, Listener!TypeOK
  <2>3. taskStatus'[t] = "Pending"
          /\ \A s \in Tasks \ {t} : taskStatus'[s] = taskStatus[s]
    BY <2>1, <2>2
  <2>4. OneTaskWaits'
    BY <2>1, <2>3
  <2>5. \A s \in Tasks : Served(s)' <=> Served(s)
    BY <2>1, <2>3
  <2>6. \A s \in Tasks : Served(s) => HandedOver(s)
    BY <2>1, ServerAssumption
  <2>7. ~Successful'
    BY <2>1, <2>3
  <2> QED BY <2>1, <2>4, <2>5, <2>6, <2>7
<1> QED BY <1>1, <1>2

(* Handle: the connection of the main thread's task goes into the pool.    *)
LEMMA HandleMoves ==
  ASSUME SInv, ListenerHolds, Handle PROVE SInv'
<1> USE DEF SInv, Served, Successful, HandedOver
<1>1. /\ mainPc = "handle" /\ mainPc' = "loop"
      /\ UNCHANGED <<taskStatus, taskSocket, listenTask>>
  BY DEF Handle, Goes, listenerVars
<1>2. OneTaskWaits'
  BY <1>1 DEF OneTaskWaits
<1>3. CASE ~Successful
  <2>1. enqueued' = enqueued
    BY <1>3 DEF Handle, EnqueueConnection
  <2> QED BY <1>1, <1>2, <1>3, <2>1 DEF PoolHoldsServed
<1>4. CASE Successful
  <2> DEFINE c == taskSocket[listenTask]
  <2>1. enqueued' = Append(enqueued, c)
    BY <1>4 DEF Handle, EnqueueConnection
  <2>2. listenTask \in Tasks
    BY <1>4 DEF OneTaskWaits
  <2>3. c \in Conns
    BY <1>4, <2>2 DEF ListenerHolds, Listener!ServedTasksHoldSockets,
                      Listener!TypeOK
  <2>4. /\ enqueued' \in Seq(Conns)
        /\ Len(enqueued) + 1 \in DOMAIN enqueued'
        /\ enqueued'[Len(enqueued) + 1] = c
        /\ \A i \in DOMAIN enqueued :
             i \in DOMAIN enqueued' /\ enqueued'[i] = enqueued[i]
        /\ \A i \in DOMAIN enqueued' :
             i \in DOMAIN enqueued \/ i = Len(enqueued) + 1
    BY <2>1, <2>3 DEF PoolHoldsServed
  <2> HIDE DEF c
  <2>5. \A i \in DOMAIN enqueued : enqueued[i] # c
    BY <1>1, <1>4 DEF PoolHoldsServed, c
  <2>6. \A i, j \in DOMAIN enqueued' : enqueued'[i] = enqueued'[j] => i = j
    BY <2>4, <2>5 DEF PoolHoldsServed
  <2>7. \A i \in DOMAIN enqueued' :
          \E t \in Tasks : Served(t)' /\ enqueued'[i] = taskSocket'[t]
    BY <1>1, <1>4, <2>2, <2>4 DEF PoolHoldsServed, c
  <2>8. \A t \in Tasks \ {listenTask} : Served(t) => HandedOver(t)'
    BY <1>1, <2>4 DEF PoolHoldsServed
  <2>9. HandedOver(listenTask)'
    BY <1>1, <2>4 DEF c
  <2> QED BY <1>1, <1>2, <2>4, <2>6, <2>7, <2>8, <2>9 DEF PoolHoldsServed
<1> QED BY <1>3, <1>4

LEMMA SInvStep ==
  SInv /\ ListenerHolds /\ ListenerHolds' /\ [Next]_vars => SInv'
<1> SUFFICES ASSUME SInv, ListenerHolds, ListenerHolds', [Next]_vars
             PROVE  SInv'
  OBVIOUS
<1>1. CASE Stop \/ Destroy \/ DestroyMembers
  <2>1. Decided
    BY <1>1, CallDecides, UnchangedIsDecided
       DEF Stop, Destroy, DestroyMembers, BeginStop, listenerVars
  <2>2. UNCHANGED <<mainPc, listenTask, enqueued>>
    BY <1>1 DEF Stop, Destroy, DestroyMembers
  <2> QED BY <2>1, <2>2, ListenerMoves
<1>2. CASE EndStop \/ DestroyJoins \/ DestroyPool \/ PoolStep \/ WorkerStep
             \/ UNCHANGED vars
  <2>1. UNCHANGED <<taskStatus, taskSocket, mainPc, listenTask, enqueued>>
    BY <1>2, PoolIsApart
       DEF EndStop, DestroyJoins, DestroyPool, vars, serverVars, listenerVars
  <2> QED BY <2>1, UnchangedIsDecided, ListenerMoves
<1>3. CASE ListenerStep \/ NetworkStep
  <2>1. UNCHANGED <<mainPc, listenTask, enqueued>>
    BY <1>3 DEF ListenerStep, NetworkStep, serverVars
  <2> QED BY <1>3, <2>1, ListenerDecides, ListenerMoves
<1>4. CASE Start \/ StartAgain \/ MainStep
  BY <1>4, MainMoves, ListenMoves, HandleMoves DEF MainStep
<1> QED BY <1>1, <1>2, <1>3, <1>4 DEF Next, CallReturns

(* m_stopQueueMutex belongs to one thread at a time, and to the main thread*)
(* exactly while it waits inside handleStop().                             *)
LEMMA TypeStep ==
  TypeOK /\ SInv' /\ ListenerHolds' /\ [Next]_vars => TypeOK'
<1> SUFFICES ASSUME TypeOK, SInv', ListenerHolds', [Next]_vars
             PROVE  TypeOK'
  OBVIOUS
<1> USE DEF TypeOK, Goes, OnlyMain, Called, MayStart, Listener!Status, poolVars
<1>1. Listener!TypeOK' /\ enqueued' \in Seq(Conns)
        /\ listenTask' \in Tasks \cup {0}
  BY DEF ListenerHolds, SInv, PoolHoldsServed, OneTaskWaits
<1>2. CASE Start \/ StartAgain
  BY <1>1, <1>2 DEF Start, StartAgain
<1>3. CASE Stop \/ Destroy
  <2>1. /\ mainPc' = mainPc
        /\ m_stopQueueMutex' = "main" <=> mainPc' = "stopWait"
    BY <1>3 DEF Stop, Destroy, BeginStop
  <2> QED BY <1>1, <1>3, <2>1 DEF Stop, Destroy, BeginStop
<1>4. CASE EndStop
  BY <1>1, <1>4 DEF EndStop, ClearsRunning
<1>5. CASE DestroyJoins \/ DestroyPool \/ DestroyMembers
  BY <1>1, <1>5 DEF DestroyJoins, DestroyPool, DestroyMembers
<1>6. CASE MainStep
  <2>1. CASE StartPool \/ StartListener \/ ListenerStarted \/ ListenerFailed
    BY <1>1, <2>1 DEF StartPool, StartListener, ListenerStarted,
         ListenerFailed
  <2>2. CASE FailStart \/ SetRunning \/ FinishStart \/ LoopOrLeave
    BY <1>1, <2>2 DEF FailStart, StartFailed, SetRunning, FinishStart,
         LoopOrLeave
  <2>3. CASE ListenRefused \/ \E t \in Tasks : Listen(t)
    BY <1>1, <2>3 DEF ListenRefused, Listen
  <2>4. CASE ListenReturns \/ Handle
    BY <1>1, <2>4 DEF ListenReturns, Handle
  <2>5. CASE HandleStop
    BY <1>1, <2>5 DEF HandleStop
  <2>6. CASE Stopped
    BY <1>1, <2>6 DEF Stopped, Unlock, FinishStopTask
  <2> QED BY <1>6, <2>1, <2>2, <2>3, <2>4, <2>5, <2>6 DEF MainStep
<1>7. CASE ListenerStep \/ NetworkStep \/ UNCHANGED vars
  <2>1. UNCHANGED <<serverVars, poolVars>>
    BY <1>7 DEF ListenerStep, NetworkStep, vars
  <2> QED BY <1>1, <2>1 DEF serverVars
<1>8. CASE PoolStep \/ WorkerStep
  <2>1. UNCHANGED serverVars
    BY <1>8, PoolIsApart
  <2>2. /\ poolStarted' \in BOOLEAN
        /\ poolPc' \in {"waiting", "dispatch", "cleanup", "exited", poolPc}
        /\ work' \in [Conns -> {"none", "given", "executing", "returned"}]
    BY <1>8 DEF PoolStep, WorkerStep, AwaitWork, Dispatch, Execute,
         ReturnWorker, FinishCleanup
  <2> QED BY <1>1, <2>1, <2>2 DEF serverVars
<1> QED BY <1>2, <1>3, <1>4, <1>5, <1>6, <1>7, <1>8 DEF Next, CallReturns

-----------------------------------------------------------------------------
(* Both theorems rest on the invariants of the listener (ListenerKeeps).   *)

(* The inductive invariant of the server, beside that of its listener.     *)
THEOREM Inductive == Spec => []SInv
  BY InitHolds, SInvStep, ListenerKeeps, PTL DEF Spec

(* Types, and who has m_stopQueueMutex: stop() and handleStop() never both.*)
THEOREM Typing == Spec => []TypeOK
<1>1. Init /\ ListenerHolds => TypeOK
  <2>1. Init => enqueued \in Seq(Conns)
    BY InitHolds DEF SInv, PoolHoldsServed
  <2> QED BY <2>1 DEF Init, TypeOK, ListenerHolds, Listener!Status
<1> QED BY <1>1, TypeStep, Inductive, ListenerKeeps, PTL DEF Spec

(* No connection is lost between the listener and the pool or reaches it   *)
(* twice, whenever stop() comes.                                           *)
THEOREM NoConnectionIsLost == Spec => []ConnectionsReachThePool
  BY Inductive, SInvHolds, ListenerKeeps, PTL
=============================================================================
