---------------------------- MODULE TcpListener -----------------------------
(* Socket::TcpListener (source/wepp/socket/tcpListener.cpp): a thread that *)
(* accepts one connection for each listen() and hands it to the oldest     *)
(* listen task.                                                            *)
(*                                                                         *)
(* start(), stop() and listen() run under m_mutex from end to end and wait *)
(* for nothing: each is one step, whoever calls it.  Between its own       *)
(* critical sections the listen thread reads m_running and m_handle        *)
(* without m_mutex, so every such read is a step.  The kernel's part is    *)
(* external: connections arrive and wait in the backlog of a listening     *)
(* socket, accept() on a socket that was shut down fails, and accept() on  *)
(* an open one may fail too.                                               *)
(*                                                                         *)
(* m_listenThread is joined by the destructor only, so that a start() that *)
(* is not refused on a listener that ran before calls std::terminate.      *)
EXTENDS Naturals, Sequences

CONSTANTS
  Tasks,      (* listen tasks, numbered in the order of the calls (bound)  *)
  Conns,      (* connections that arrive; each arrives once (bound)        *)
  NoConn,     (* accept() returned no valid handle                         *)
  Foreign,    (* accept() returned a connection of somebody else's socket  *)
  MaxErrors   (* bound on the accept() calls that fail on an open socket   *)

ASSUME ListenerAssumption ==
  /\ Tasks \subseteq Nat
  /\ NoConn \notin Conns /\ Foreign \notin Conns \cup {NoConn}
  /\ MaxErrors \in Nat

VARIABLES
  m_running, m_listenSempahore, m_listenQueue, m_stopTask,
  m_handle,     (* TRUE: m_handle is not 0                                 *)
  taskStatus,   (* status of each listen task; "Unused" before the call    *)
  taskSocket,   (* the connection in the value of each listen task         *)
  startTask,    (* status of the task of the start() that was not refused  *)
  threadPc,     (* control point of the listen thread                      *)
  connection,   (* its local variable                                      *)
  destructor,   (* control point of ~TcpListener                           *)
  socket,       (* external: the kernel's socket                           *)
  backlog,      (* external: connections accept() has not taken yet        *)
  arrived,      (* external: connections that have arrived so far          *)
  closes,       (* history: how often the socket was closed                *)
  wasted        (* history: tokens used up by an accept() that failed      *)

flagVars   == <<m_running, m_handle>>
queueVars  == <<m_listenQueue, taskStatus, taskSocket>>
stopVars   == <<m_stopTask, destructor>>
kernelVars == <<socket, backlog, arrived, closes>>

vars == <<flagVars, m_listenSempahore, queueVars, stopVars, startTask,
          threadPc, connection, kernelVars, wasted>>

Status == {"Pending", "Successful", "Failed"}

ThreadControl ==
  {"none", "boot", "bind", "listen", "listening", "wait", "copy", "accept",
   "accepted", "rejected", "serve", "stopListen", "stopFailed", "failStart",
   "exited", "terminated"}

TypeOK ==
  /\ m_running \in BOOLEAN /\ m_handle \in BOOLEAN
  /\ m_listenSempahore \in Nat
  /\ m_listenQueue \in Seq(Tasks)
  /\ taskStatus \in [Tasks -> Status \cup {"Unused"}]
  /\ taskSocket \in [Tasks -> Conns \cup {NoConn}]
  /\ m_stopTask \in Status /\ startTask \in Status
  /\ threadPc \in ThreadControl
  /\ connection \in Conns \cup {NoConn, Foreign}
  /\ destructor \in {"none", "waiting", "joining", "done"}
  /\ socket \in {"none", "open", "listening", "closed"}
  /\ backlog \in Seq(Conns) /\ arrived \in SUBSET Conns
  /\ closes \in Nat /\ wasted \in 0..MaxErrors

Init ==
  /\ m_running = FALSE /\ m_handle = FALSE
  /\ m_listenSempahore = 0
  /\ m_listenQueue = <<>>
  /\ taskStatus = [t \in Tasks |-> "Unused"]
  /\ taskSocket = [t \in Tasks |-> NoConn]
  /\ m_stopTask = "Pending" /\ startTask = "Pending"
  /\ threadPc = "none" /\ connection = NoConn
  /\ destructor = "none"
  /\ socket = "none" /\ backlog = <<>> /\ arrived = {}
  /\ closes = 0 /\ wasted = 0

-----------------------------------------------------------------------------
(* Public functions; none is called once the destructor has begun.         *)

InUse == destructor = "none" /\ threadPc # "terminated"

(* A refused start() only returns a failed task: a stuttering step.        *)
MayStart == InUse /\ ~m_running

Start ==
  /\ MayStart
  /\ threadPc = "none"
  /\ m_stopTask' = "Pending"
  /\ m_running' = TRUE
  /\ startTask' = "Pending"
  /\ threadPc' = "boot"
  /\ UNCHANGED <<m_handle, m_listenSempahore, queueVars, destructor,
                 connection, kernelVars, wasted>>

(* std::terminate: the new thread is assigned to a joinable one.  With the *)
(* process its socket goes away.                                           *)
StartAgain ==
  /\ MayStart
  /\ threadPc # "none"
  /\ m_stopTask' = "Pending"
  /\ m_running' = TRUE
  /\ threadPc' = "terminated"
  /\ socket' = "closed" /\ backlog' = <<>>
  /\ UNCHANGED <<m_handle, m_listenSempahore, queueVars, destructor,
                 startTask, connection, arrived, closes, wasted>>

(* Faulty: the handle is closed and kept.                                  *)
CloseAndKeep ==
  IF m_handle
    THEN /\ socket' = "closed" /\ backlog' = <<>> /\ closes' = closes + 1
         /\ UNCHANGED m_handle
    ELSE UNCHANGED <<m_handle, socket, backlog, closes>>

(* if (m_handle) { WeppCloseSocket(m_handle); m_handle = 0; }              *)
CloseHandle ==
  IF m_handle
    THEN /\ socket' = "closed" /\ backlog' = <<>> /\ closes' = closes + 1
         /\ m_handle' = FALSE
    ELSE UNCHANGED <<m_handle, socket, backlog, closes>>

(* Faulty: stop() without the notification.                                *)
NotifyNobody == UNCHANGED m_listenSempahore

NotifyThread == m_listenSempahore' = m_listenSempahore + 1

(* stop(): the second of two calls finishes the task of the first.         *)
StopEffect ==
  IF m_running
    THEN m_running' = FALSE /\ CloseHandle /\ NotifyThread
           /\ UNCHANGED m_stopTask
    ELSE m_stopTask' = "Successful"
           /\ UNCHANGED <<flagVars, m_listenSempahore, socket, backlog,
                          closes>>

Stop ==
  /\ InUse
  /\ StopEffect
  /\ UNCHANGED <<queueVars, destructor, startTask, threadPc, connection,
                 arrived, wasted>>

(* The task of the next listen() call.                                     *)
NextTask(t) ==
  /\ taskStatus[t] = "Unused"
  /\ \A s \in Tasks : s < t => taskStatus[s] # "Unused"

(* Faulty: listen() notifies only when the queue was empty.                *)
AnnounceFirst ==
  IF m_listenQueue = <<>> THEN m_listenSempahore' = m_listenSempahore + 1
                          ELSE UNCHANGED m_listenSempahore

AnnounceTask == m_listenSempahore' = m_listenSempahore + 1

Listen(t) ==
  /\ InUse
  /\ NextTask(t)
  /\ IF m_running
       THEN /\ taskStatus' = [taskStatus EXCEPT ![t] = "Pending"]
            /\ m_listenQueue' = Append(m_listenQueue, t)
            /\ AnnounceTask
       ELSE /\ taskStatus' = [taskStatus EXCEPT ![t] = "Failed"]
            /\ UNCHANGED <<m_listenQueue, m_listenSempahore>>
  /\ UNCHANGED <<flagVars, taskSocket, stopVars, startTask, threadPc,
                 connection, kernelVars, wasted>>

(* ~TcpListener(): stop().wait(), then join.                               *)
Destroy ==
  /\ InUse
  /\ StopEffect
  /\ destructor' = "waiting"
  /\ UNCHANGED <<queueVars, startTask, threadPc, connection, arrived, wasted>>

DestroyJoins ==
  /\ destructor = "waiting" /\ m_stopTask # "Pending"
  /\ destructor' = "joining"
  /\ UNCHANGED <<flagVars, m_listenSempahore, queueVars, m_stopTask, startTask,
                 threadPc, connection, kernelVars, wasted>>

DestroyReturns ==
  /\ destructor = "joining" /\ threadPc \in {"none", "exited"}
  /\ destructor' = "done"
  /\ UNCHANGED <<flagVars, m_listenSempahore, queueVars, m_stopTask, startTask,
                 threadPc, connection, kernelVars, wasted>>

-----------------------------------------------------------------------------
(* The listen thread.  From here on, Goes(pc) moves it.                    *)

Goes(pc) == threadPc' = pc

(* inet_pton and ::socket, each of which may fail.                         *)
CreateSocket ==
  /\ threadPc = "boot"
  /\ \/ m_handle' = TRUE /\ socket' = "open" /\ Goes("bind")
     \/ UNCHANGED <<m_handle, socket>> /\ Goes("stopFailed")
  /\ UNCHANGED <<m_running, m_listenSempahore, queueVars, stopVars, startTask,
                 connection, backlog, arrived, closes, wasted>>

(* ::bind(m_handle) and ::listen(m_handle) read m_handle without m_mutex:  *)
(* after a stop() they are called on handle 0 and fail.                    *)
BindSocket ==
  /\ threadPc = "bind"
  /\ \/ m_handle /\ Goes("listen")
     \/ Goes("stopFailed")
  /\ UNCHANGED <<flagVars, m_listenSempahore, queueVars, stopVars, startTask,
                 connection, kernelVars, wasted>>

ListenSocket ==
  /\ threadPc = "listen"
  /\ \/ m_handle /\ socket' = "listening" /\ Goes("listening")
     \/ UNCHANGED socket /\ Goes("stopFailed")
  /\ UNCHANGED <<flagVars, m_listenSempahore, queueVars, stopVars, startTask,
                 connection, backlog, arrived, closes, wasted>>

(* while (m_running), and the tests of m_running behind the two waits.     *)
GoesWhileRunning(pc) == Goes(IF m_running THEN pc ELSE "stopListen")

FinishStart ==
  /\ threadPc = "listening"
  /\ startTask' = "Successful"
  /\ GoesWhileRunning("wait")
  /\ UNCHANGED <<flagVars, m_listenSempahore, queueVars, stopVars, connection,
                 kernelVars, wasted>>

(* Faulty: a wait() that does not block.                                   *)
TakeAnyway == m_listenSempahore' = m_listenSempahore - 1

TakeToken ==
  m_listenSempahore > 0 /\ m_listenSempahore' = m_listenSempahore - 1

AwaitTask ==
  /\ threadPc = "wait"
  /\ TakeToken
  /\ GoesWhileRunning("copy")
  /\ UNCHANGED <<flagVars, queueVars, stopVars, startTask, connection,
                 kernelVars, wasted>>

(* listenHandler = m_handle, under m_mutex.                                *)
CopyHandle ==
  /\ threadPc = "copy"
  /\ GoesWhileRunning("accept")
  /\ UNCHANGED <<flagVars, m_listenSempahore, queueVars, stopVars, startTask,
                 connection, kernelVars, wasted>>

Accept ==
  /\ threadPc = "accept"
  /\ backlog # <<>>
  /\ connection' = Head(backlog) /\ backlog' = Tail(backlog)
  /\ Goes("accepted")
  /\ UNCHANGED <<flagVars, m_listenSempahore, queueVars, stopVars, startTask,
                 socket, arrived, closes, wasted>>

AcceptReturnsInvalid ==
  /\ threadPc = "accept"
  /\ connection' = NoConn
  /\ Goes("accepted")
  /\ UNCHANGED <<flagVars, m_listenSempahore, queueVars, stopVars, startTask,
                 kernelVars>>

(* stop() has closed the socket.                                           *)
AcceptClosed ==
  AcceptReturnsInvalid /\ socket = "closed" /\ UNCHANGED wasted

(* accept() fails by itself: the token of the task in front is used up and *)
(* the task stays in front.                                                *)
AcceptError ==
  /\ AcceptReturnsInvalid /\ socket = "listening"
  /\ wasted < MaxErrors
  /\ wasted' = wasted + 1

(* The number that was copied from m_handle, whose socket stop() closed    *)
(* since, is that of another listening socket of the process by now, on    *)
(* which a connection waits.  (On one without, accept() would block.)      *)
AcceptForeign ==
  /\ threadPc = "accept" /\ socket = "closed"
  /\ connection' = Foreign
  /\ Goes("accepted")
  /\ UNCHANGED <<flagVars, m_listenSempahore, queueVars, stopVars, startTask,
                 kernelVars, wasted>>

(* Faulty: only the handle is looked at.                                   *)
RejectsInvalid == connection = NoConn

(* WeppIsSocketInvalid(connection) || !m_running                           *)
Rejects == connection = NoConn \/ ~m_running

Judge ==
  /\ threadPc = "accepted"
  /\ Goes(IF Rejects THEN "rejected" ELSE "serve")
  /\ UNCHANGED <<flagVars, m_listenSempahore, queueVars, stopVars, startTask,
                 connection, kernelVars, wasted>>

(* Faulty: give the token back twice over: to the queue and to accept().   *)
TokenBack == m_listenSempahore' = m_listenSempahore + 2

TokenGone == UNCHANGED m_listenSempahore

(* Both ways out, the connection is not closed and no task is told.        *)
Reject ==
  /\ threadPc = "rejected"
  /\ TokenGone
  /\ GoesWhileRunning("wait")
  /\ UNCHANGED <<flagVars, queueVars, stopVars, startTask, connection,
                 kernelVars, wasted>>

(* Faulty: the newest task in front.                                       *)
Newest == m_listenQueue[Len(m_listenQueue)]

Front == Head(m_listenQueue)

(* Set the value of the front task, pop it and finish it.                  *)
Serve ==
  /\ threadPc = "serve"
  /\ taskSocket' = [taskSocket EXCEPT ![Front] = connection]
  /\ taskStatus' = [taskStatus EXCEPT ![Front] = "Successful"]
  /\ m_listenQueue' = Tail(m_listenQueue)
  /\ GoesWhileRunning("wait")
  /\ UNCHANGED <<flagVars, m_listenSempahore, stopVars, startTask, connection,
                 kernelVars, wasted>>

Queued(t) == \E i \in DOMAIN m_listenQueue : m_listenQueue[i] = t

(* Faulty: the queue is emptied and its tasks are not failed.              *)
ForgetTasks == UNCHANGED taskStatus

FailTasks ==
  taskStatus' = [t \in Tasks |-> IF Queued(t) THEN "Failed" ELSE taskStatus[t]]

(* Faulty: stopListen() that leaves m_running to stop().                   *)
KeepRunning == UNCHANGED m_running

ClearRunning == m_running' = FALSE

(* stopListen(), at the end of the loop or of a start that failed.         *)
StopListen ==
  /\ threadPc \in {"stopListen", "stopFailed"}
  /\ ClearRunning
  /\ CloseHandle
  /\ FailTasks
  /\ m_listenQueue' = <<>>
  /\ m_stopTask' = "Successful"
  /\ Goes(IF threadPc = "stopFailed" THEN "failStart" ELSE "exited")
  /\ UNCHANGED <<m_listenSempahore, taskSocket, destructor, startTask,
                 connection, arrived, wasted>>

StartFailed == startTask' = "Failed"

FailStart ==
  /\ threadPc = "failStart"
  /\ StartFailed
  /\ Goes("exited")
  /\ UNCHANGED <<flagVars, m_listenSempahore, queueVars, stopVars, connection,
                 kernelVars, wasted>>

-----------------------------------------------------------------------------
(* The network.                                                            *)

Connect(k) ==
  /\ socket = "listening"
  /\ k \notin arrived
  /\ arrived' = arrived \cup {k}
  /\ backlog' = Append(backlog, k)
  /\ UNCHANGED <<flagVars, m_listenSempahore, queueVars, stopVars, startTask,
                 threadPc, connection, socket, closes, wasted>>

-----------------------------------------------------------------------------

ThreadStep ==
  \/ CreateSocket \/ BindSocket \/ ListenSocket \/ FinishStart
  \/ AwaitTask \/ CopyHandle \/ Accept \/ AcceptClosed \/ Judge \/ Reject
  \/ Serve \/ StopListen \/ FailStart

DestructorStep == DestroyJoins \/ DestroyReturns

Next ==
  \/ Start \/ StartAgain \/ Stop \/ Destroy \/ DestructorStep
  \/ \E t \in Tasks : Listen(t)
  \/ ThreadStep \/ AcceptError \/ AcceptForeign
  \/ \E k \in Conns : Connect(k)

Spec == Init /\ [][Next]_vars

(* The listen thread and a destructor that has begun are scheduled; nobody *)
(* need call, no connection need arrive and no accept() need fail.         *)
FairSpec == Spec /\ WF_vars(ThreadStep) /\ WF_vars(DestructorStep)

-----------------------------------------------------------------------------
(* Properties.                                                             *)

(* The thread has a connection that no task was given yet.                 *)
InHand == threadPc \in {"accepted", "serve"} /\ connection \in Conns

Offered == (IF InHand THEN <<connection>> ELSE <<>>) \o backlog

AcceptQueueOf ==
  INSTANCE AcceptQueue WITH
    open <- m_running, waiting <- m_listenQueue, offered <- Offered,
    status <- taskStatus, value <- taskSocket

(* To its callers the listener is the queue AcceptQueue describes: calls   *)
(* are answered in order, with the connections in order, each of which     *)
(* goes to one call; no call gets a connection of a socket that is not the *)
(* listener's; and of the connections a stop() finds, one at most, which   *)
(* the thread had in its hands, is handed out after it.                    *)
IsAcceptQueue == AcceptQueueOf!Spec

(* The thread never reads the front of an empty queue: every token it has  *)
(* taken, but for the one of stop(), still has its task in the queue, in   *)
(* whatever order listen(), stop() and failing accept() calls come.        *)
AcceptFindsTask == threadPc = "serve" => m_listenQueue # <<>>

(* A listen task is in the queue exactly as long as it is pending, so that *)
(* nobody waits for a task the listener has forgotten.                     *)
PendingTasksAreQueued ==
  \A t \in Tasks : (taskStatus[t] = "Pending") <=> Queued(t)

(* A listen task succeeds with a connection of its own as its value, and   *)
(* with no socket that accept() did not return.                            *)
ServedTasksHoldSockets ==
  \A s, t \in Tasks : taskStatus[t] = "Successful" =>
    /\ taskSocket[t] \in arrived
    /\ taskSocket[s] = taskSocket[t] => s = t

(* Connections go to the listen tasks in the order of the calls: a task is *)
(* not served while an earlier one waits.                                  *)
ServedInOrder ==
  [][\A s, t \in Tasks :
       s < t /\ taskStatus[s] = "Pending" /\ taskStatus[t] = "Pending"
         => taskStatus'[t] # "Successful"]_vars

(* The socket is closed once at most (the number of a closed handle may    *)
(* already belong to another file), although stop() and stopListen() both  *)
(* close it.                                                               *)
ClosedOnce == closes <= 1

(* What the thread leaves behind: no open socket, nobody waiting, and a    *)
(* listener that refuses every later listen().                             *)
ExitLeavesNothing ==
  threadPc \in {"failStart", "exited"} =>
    /\ ~m_running /\ socket \in {"none", "closed"}
    /\ \A t \in Tasks : taskStatus[t] # "Pending"
    /\ m_stopTask # "Pending"

(* A stop at any moment, even while the socket is being set up or inside   *)
(* accept(), ends the thread, and a destructor returns.                    *)
StopCompletes ==
  (~m_running /\ threadPc # "none")
    ~> (threadPc = "terminated"
          \/ (threadPc = "exited" /\ destructor \in {"none", "done"}))

(* While the listener runs and connections wait, listen tasks are served:  *)
(* no more of them stay behind than failing accept() calls used up tokens. *)
TasksAreServed ==
  (m_running /\ backlog # <<>> /\ Len(m_listenQueue) > wasted)
    ~> (~m_running \/ backlog = <<>> \/ Len(m_listenQueue) <= wasted)

(* "Task containg a tcp socket. Call wait() on the task to wait for        *)
(* incoming connection." (tcpListener.hpp:105): a connection that comes in *)
(* ends the wait of a listen task.                                         *)
ConnectionEndsWait ==
  (m_running /\ backlog # <<>> /\ m_listenQueue # <<>>)
    ~> (~m_running \/ backlog = <<>> \/ m_listenQueue = <<>>)
=============================================================================
