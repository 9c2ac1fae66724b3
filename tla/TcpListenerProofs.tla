-------------------------- MODULE TcpListenerProofs --------------------------
(* Theorems about TcpListener, for every set of listen tasks and of        *)
(* connections.                                                            *)
EXTENDS TcpListener, TLAPS

(* The thread has a token in its hands, and a task to serve for it.        *)
Holding ==
  \/ threadPc \in {"copy", "accept", "serve"}
  \/ threadPc = "accepted" /\ connection # NoConn

(* Without a stop, the tasks in the queue are as many as the tokens that   *)
(* are left, in the thread's hands or wasted.  After a stop the thread     *)
(* serves the token in its hands and takes no other.                       *)
TokensMatch ==
  /\ m_running /\ threadPc # "terminated" =>
       Len(m_listenQueue)
         = m_listenSempahore + (IF Holding THEN 1 ELSE 0) + wasted
  /\ Holding => m_listenQueue # <<>>

(* Before the first start() nothing has happened; after the end of the     *)
(* thread nothing is left.                                                 *)
Phases ==
  /\ threadPc = "none" =>
       ~m_running /\ m_listenSempahore = 0 /\ wasted = 0
  /\ threadPc \in {"none", "failStart", "exited"} =>
       ~m_running /\ m_listenQueue = <<>>
  /\ threadPc \in {"failStart", "exited"} => m_stopTask # "Pending"
  /\ threadPc = "boot" => wasted = 0

(* m_handle is not 0 exactly while the kernel's socket is there, which is  *)
(* closed once.                                                            *)
HandleIsSocket ==
  /\ threadPc # "terminated" =>
       (m_handle <=> socket \in {"open", "listening"})
  /\ threadPc \in {"none", "boot"} => socket = "none"
  /\ threadPc \in {"failStart", "exited"} => ~m_handle
  /\ m_handle => closes = 0
  /\ socket = "none" => closes = 0
  /\ socket = "closed" /\ threadPc # "terminated" => ~m_running
  /\ threadPc = "accepted" /\ connection = Foreign => ~m_running
  /\ closes <= 1

(* The calls of listen() take the tasks in order.                          *)
CalledInOrder ==
  /\ \A s, t \in Tasks :
       s < t /\ taskStatus[t] # "Unused" => taskStatus[s] # "Unused"
  /\ \A i, j \in DOMAIN m_listenQueue :
       i < j => m_listenQueue[i] < m_listenQueue[j]

(* A connection is in one place: in the backlog, in the thread's hands, or *)
(* in the value of one task.                                               *)
ConnectionInOnePlace ==
  /\ threadPc = "serve" => connection \in Conns
  /\ \A i \in DOMAIN backlog : backlog[i] \in arrived
  /\ \A i, j \in DOMAIN backlog : backlog[i] = backlog[j] => i = j
  /\ InHand =>
       /\ connection \in arrived
       /\ \A i \in DOMAIN backlog : backlog[i] # connection
  /\ \A t \in Tasks :
       IF taskStatus[t] = "Successful"
         THEN /\ taskSocket[t] \in arrived
              /\ \A i \in DOMAIN backlog : backlog[i] # taskSocket[t]
              /\ InHand => taskSocket[t] # connection
         ELSE taskSocket[t] = NoConn

IInv ==
  /\ TypeOK
  /\ TokensMatch
  /\ Phases
  /\ HandleIsSocket
  /\ CalledInOrder
  /\ PendingTasksAreQueued
  /\ ConnectionInOnePlace
  /\ ServedTasksHoldSockets

-----------------------------------------------------------------------------
(* What the thread does to its queues, element by element.                 *)

LEMMA Empty ==
  ASSUME NEW S
  PROVE  <<>> \in Seq(S) /\ DOMAIN <<>> = {} /\ Len(<<>>) = 0
  OBVIOUS

LEMMA Elements ==
  ASSUME NEW S, NEW q \in Seq(S), NEW i \in DOMAIN q
  PROVE  q[i] \in S
  OBVIOUS

LEMMA TailShifts ==
  ASSUME NEW S, NEW q \in Seq(S), q # <<>>
  PROVE  /\ Tail(q) \in Seq(S) /\ Head(q) = q[1] /\ q[1] \in S
         /\ 1 \in DOMAIN q /\ Len(Tail(q)) = Len(q) - 1
         /\ \A i \in DOMAIN Tail(q) :
              i + 1 \in DOMAIN q /\ Tail(q)[i] = q[i + 1] /\ i \in Nat \ {0}
         /\ \A i \in DOMAIN q : i # 1 => i - 1 \in DOMAIN Tail(q)
                                         /\ Tail(q)[i - 1] = q[i]
  OBVIOUS

LEMMA AppendAdds ==
  ASSUME NEW S, NEW q \in Seq(S), NEW e \in S
  PROVE  /\ Append(q, e) \in Seq(S)
         /\ Len(q) + 1 \in DOMAIN Append(q, e) /\ Append(q, e)[Len(q) + 1] = e
         /\ \A i \in DOMAIN q :
              i \in DOMAIN Append(q, e) /\ Append(q, e)[i] = q[i]
                /\ i <= Len(q)
         /\ \A i \in DOMAIN Append(q, e) :
              i \in Nat /\ (i \in DOMAIN q \/ i = Len(q) + 1)
  OBVIOUS

-----------------------------------------------------------------------------
(* Every step preserves every part of IInv.                                *)

LEMMA TypeStep == IInv /\ [Next]_vars => TypeOK'
<1> SUFFICES ASSUME IInv, [Next]_vars PROVE TypeOK'
  OBVIOUS
<1> USE DEF IInv, TypeOK, Status, ThreadControl, flagVars, queueVars, stopVars,
          kernelVars
<1>1. ASSUME Start PROVE TypeOK'
  BY <1>1 DEF Start, MayStart, InUse
<1>2. ASSUME StartAgain PROVE TypeOK'
  BY <1>2 DEF StartAgain, MayStart, InUse
<1>3. ASSUME Stop PROVE TypeOK'
  <2>1. m_running' \in BOOLEAN /\ m_stopTask' \in Status
    BY <1>3 DEF Stop, StopEffect
  <2>2. m_listenSempahore' \in Nat
    BY <1>3 DEF Stop, StopEffect, NotifyThread
  <2>3. /\ m_handle' \in BOOLEAN /\ closes' \in Nat /\ backlog' \in Seq(Conns)
        /\ socket' \in {"none", "open", "listening", "closed"}
    <3>1. CASE m_running /\ m_handle
      <4>1. m_handle' = FALSE /\ closes' = closes + 1
              /\ backlog' = <<>> /\ socket' = "closed"
        BY <1>3, <3>1 DEF Stop, StopEffect, CloseHandle
      <4>2. backlog' \in Seq(Conns)
        BY <4>1, Empty, Zenon
      <4>3. closes' \in Nat
        BY <4>1
      <4> QED BY <4>1, <4>2, <4>3, Zenon
    <3>2. CASE ~(m_running /\ m_handle)
      BY <1>3, <3>2 DEF Stop, StopEffect, CloseHandle
    <3> QED BY <3>1, <3>2
  <2>4. UNCHANGED <<m_listenQueue, taskStatus, taskSocket, destructor,
                    startTask, threadPc, connection, arrived, wasted>>
    BY <1>3 DEF Stop
  <2> QED BY <2>1, <2>2, <2>3, <2>4
<1>4. ASSUME Destroy PROVE TypeOK'
  <2>1. m_running' \in BOOLEAN /\ m_stopTask' \in Status
    BY <1>4 DEF Destroy, StopEffect
  <2>2. m_listenSempahore' \in Nat
    BY <1>4 DEF Destroy, StopEffect, NotifyThread
  <2>3. /\ m_handle' \in BOOLEAN /\ closes' \in Nat /\ backlog' \in Seq(Conns)
        /\ socket' \in {"none", "open", "listening", "closed"}
    <3>1. CASE m_running /\ m_handle
      <4>1. m_handle' = FALSE /\ closes' = closes + 1
              /\ backlog' = <<>> /\ socket' = "closed"
        BY <1>4, <3>1 DEF Destroy, StopEffect, CloseHandle
      <4>2. backlog' \in Seq(Conns)
        BY <4>1, Empty, Zenon
      <4>3. closes' \in Nat
        BY <4>1
      <4> QED BY <4>1, <4>2, <4>3, Zenon
    <3>2. CASE ~(m_running /\ m_handle)
      BY <1>4, <3>2 DEF Destroy, StopEffect, CloseHandle
    <3> QED BY <3>1, <3>2
  <2>4. /\ destructor' = "waiting"
        /\ UNCHANGED <<m_listenQueue, taskStatus, taskSocket, startTask,
                       threadPc, connection, arrived, wasted>>
    BY <1>4 DEF Destroy
  <2> QED BY <2>1, <2>2, <2>3, <2>4
<1>5. ASSUME DestroyJoins PROVE TypeOK'
  BY <1>5 DEF DestroyJoins
<1>6. ASSUME DestroyReturns PROVE TypeOK'
  BY <1>6 DEF DestroyReturns
<1>7. ASSUME NEW u \in Tasks, Listen(u) PROVE TypeOK'
  <2>1. CASE m_running
    <3>1. m_listenQueue' \in Seq(Tasks)
      <4>1. m_listenQueue' = Append(m_listenQueue, u)
        BY <1>7, <2>1 DEF Listen
      <4>2. m_listenQueue \in Seq(Tasks)
        OBVIOUS
      <4> QED BY <4>1, <4>2, AppendAdds
    <3> QED BY <1>7, <2>1, <3>1 DEF Listen, AnnounceTask
  <2>2. CASE ~m_running
    BY <1>7, <2>2 DEF Listen
  <2> QED BY <2>1, <2>2
<1>8. ASSUME CreateSocket PROVE TypeOK'
  BY <1>8 DEF CreateSocket, Goes
<1>9. ASSUME BindSocket PROVE TypeOK'
  BY <1>9 DEF BindSocket, Goes
<1>10. ASSUME ListenSocket PROVE TypeOK'
  BY <1>10 DEF ListenSocket, Goes
<1>11. ASSUME FinishStart PROVE TypeOK'
  BY <1>11 DEF FinishStart, Goes, GoesWhileRunning
<1>12. ASSUME AwaitTask PROVE TypeOK'
  BY <1>12 DEF AwaitTask, TakeToken, Goes, GoesWhileRunning
<1>13. ASSUME CopyHandle PROVE TypeOK'
  BY <1>13 DEF CopyHandle, Goes, GoesWhileRunning
<1>14. ASSUME Accept PROVE TypeOK'
  BY <1>14 DEF Accept, Goes
<1>15. ASSUME AcceptClosed PROVE TypeOK'
  BY <1>15 DEF AcceptClosed, AcceptReturnsInvalid, Goes
<1>16. ASSUME AcceptError PROVE TypeOK'
  BY <1>16, ListenerAssumption DEF AcceptError, AcceptReturnsInvalid, Goes
<1>24. ASSUME AcceptForeign PROVE TypeOK'
  BY <1>24, ListenerAssumption DEF AcceptForeign, Goes
<1>17. ASSUME Judge PROVE TypeOK'
  BY <1>17 DEF Judge, Rejects, Goes
<1>18. ASSUME Reject PROVE TypeOK'
  BY <1>18 DEF Reject, TokenGone, Goes, GoesWhileRunning
<1>19. ASSUME Serve PROVE TypeOK'
  <2>1. m_listenQueue # <<>>
    BY <1>19 DEF Serve, TokensMatch, Holding
  <2>2. Front \in Tasks /\ m_listenQueue' \in Seq(Tasks)
    BY <1>19, <2>1, TailShifts DEF Serve, Front
  <2>3. /\ taskStatus' \in [Tasks -> Status \cup {"Unused"}]
        /\ taskSocket' \in [Tasks -> Conns \cup {NoConn}]
    BY <1>19, <2>2 DEF Serve, ConnectionInOnePlace
  <2>4. threadPc' \in ThreadControl
    BY <1>19 DEF Serve, GoesWhileRunning, Goes
  <2> QED BY <1>19, <2>2, <2>3, <2>4 DEF Serve
<1>20. ASSUME StopListen PROVE TypeOK'
  <2>1. taskStatus' \in [Tasks -> Status \cup {"Unused"}]
    BY <1>20 DEF StopListen, FailTasks
  <2>2. threadPc' \in ThreadControl
    BY <1>20 DEF StopListen, Goes
  <2>3. m_listenQueue' \in Seq(Tasks)
    BY <1>20 DEF StopListen
  <2>4. m_running' = FALSE /\ m_stopTask' = "Successful"
          /\ UNCHANGED <<m_listenSempahore, taskSocket, destructor, startTask,
                         connection, arrived, wasted>>
    BY <1>20 DEF StopListen, ClearRunning
  <2>5. /\ m_handle' \in BOOLEAN /\ closes' \in Nat /\ backlog' \in Seq(Conns)
        /\ socket' \in {"none", "open", "listening", "closed"}
    <3>1. CASE m_handle
      <4>1. m_handle' = FALSE /\ closes' = closes + 1
              /\ backlog' = <<>> /\ socket' = "closed"
        BY <1>20, <3>1 DEF StopListen, CloseHandle
      <4>2. backlog' \in Seq(Conns)
        BY <4>1, Empty, Zenon
      <4>3. closes' \in Nat
        BY <4>1
      <4> QED BY <4>1, <4>2, <4>3, Zenon
    <3>2. CASE ~m_handle
      BY <1>20, <3>2 DEF StopListen, CloseHandle
    <3> QED BY <3>1, <3>2
  <2> QED BY <2>1, <2>2, <2>3, <2>4, <2>5
<1>21. ASSUME FailStart PROVE TypeOK'
  BY <1>21 DEF FailStart, StartFailed, Goes
<1>22. ASSUME NEW k \in Conns, Connect(k) PROVE TypeOK'
  BY <1>22 DEF Connect
<1>23. ASSUME UNCHANGED vars PROVE TypeOK'
  BY <1>23 DEF vars
<1> QED
  BY <1>1, <1>2, <1>3, <1>4, <1>5, <1>6, <1>7, <1>8, <1>9, <1>10, <1>11,
     <1>12, <1>13, <1>14, <1>15, <1>16, <1>17, <1>18, <1>19, <1>20, <1>21,
     <1>22, <1>23, <1>24
     DEF Next, ThreadStep, DestructorStep

LEMMA TokensStep == IInv /\ [Next]_vars => TokensMatch'
<1> SUFFICES ASSUME IInv, [Next]_vars PROVE TokensMatch'
  OBVIOUS
<1> USE DEF IInv, TypeOK, TokensMatch, Phases, HandleIsSocket, Holding,
          flagVars, queueVars, stopVars, kernelVars
<1>1. ASSUME Start PROVE TokensMatch'
  BY <1>1 DEF Start, MayStart, InUse
<1>2. ASSUME StartAgain PROVE TokensMatch'
  BY <1>2 DEF StartAgain, MayStart, InUse
<1>3. ASSUME Stop PROVE TokensMatch'
  BY <1>3 DEF Stop, StopEffect, CloseHandle, NotifyThread, InUse
<1>4. ASSUME Destroy PROVE TokensMatch'
  BY <1>4 DEF Destroy, StopEffect, CloseHandle, NotifyThread, InUse
<1>5. ASSUME DestroyJoins PROVE TokensMatch'
  BY <1>5 DEF DestroyJoins
<1>6. ASSUME DestroyReturns PROVE TokensMatch'
  BY <1>6 DEF DestroyReturns
<1>7. ASSUME NEW u \in Tasks, Listen(u) PROVE TokensMatch'
  BY <1>7 DEF Listen, NextTask, AnnounceTask, InUse
<1>8. ASSUME CreateSocket PROVE TokensMatch'
  BY <1>8 DEF CreateSocket, Goes
<1>9. ASSUME BindSocket PROVE TokensMatch'
  BY <1>9 DEF BindSocket, Goes
<1>10. ASSUME ListenSocket PROVE TokensMatch'
  BY <1>10 DEF ListenSocket, Goes
<1>11. ASSUME FinishStart PROVE TokensMatch'
  BY <1>11 DEF FinishStart, Goes, GoesWhileRunning
<1>12. ASSUME AwaitTask PROVE TokensMatch'
  BY <1>12 DEF AwaitTask, TakeToken, Goes, GoesWhileRunning
<1>13. ASSUME CopyHandle PROVE TokensMatch'
  BY <1>13 DEF CopyHandle, Goes, GoesWhileRunning
<1>14. ASSUME Accept PROVE TokensMatch'
  BY <1>14, ListenerAssumption, TailShifts DEF Accept, Goes
<1>15. ASSUME AcceptClosed PROVE TokensMatch'
  BY <1>15 DEF AcceptClosed, AcceptReturnsInvalid, Goes
<1>16. ASSUME AcceptError PROVE TokensMatch'
  BY <1>16 DEF AcceptError, AcceptReturnsInvalid, Goes
<1>24. ASSUME AcceptForeign PROVE TokensMatch'
  BY <1>24, ListenerAssumption DEF AcceptForeign, Goes
<1>17. ASSUME Judge PROVE TokensMatch'
  BY <1>17 DEF Judge, Rejects, Goes
<1>18. ASSUME Reject PROVE TokensMatch'
  BY <1>18 DEF Reject, TokenGone, Goes, GoesWhileRunning
<1>19. ASSUME Serve PROVE TokensMatch'
  BY <1>19 DEF Serve, Front, Goes, GoesWhileRunning
<1>20. ASSUME StopListen PROVE TokensMatch'
  BY <1>20 DEF StopListen, ClearRunning, CloseHandle, FailTasks, Goes
<1>21. ASSUME FailStart PROVE TokensMatch'
  BY <1>21 DEF FailStart, StartFailed, Goes
<1>22. ASSUME NEW k \in Conns, Connect(k) PROVE TokensMatch'
  BY <1>22 DEF Connect
<1>23. ASSUME UNCHANGED vars PROVE TokensMatch'
  BY <1>23 DEF vars
<1> QED
  BY <1>1, <1>2, <1>3, <1>4, <1>5, <1>6, <1>7, <1>8, <1>9, <1>10, <1>11,
     <1>12, <1>13, <1>14, <1>15, <1>16, <1>17, <1>18, <1>19, <1>20, <1>21,
     <1>22, <1>23, <1>24
     DEF Next, ThreadStep, DestructorStep

LEMMA PhasesStep == IInv /\ [Next]_vars => Phases'
<1> SUFFICES ASSUME IInv, [Next]_vars PROVE Phases'
  OBVIOUS
<1> USE DEF IInv, TypeOK, Phases, HandleIsSocket, TokensMatch, Holding,
          flagVars, queueVars, stopVars, kernelVars
<1>1. ASSUME Start PROVE Phases'
  BY <1>1 DEF Start, MayStart, InUse
<1>2. ASSUME StartAgain PROVE Phases'
  BY <1>2 DEF StartAgain, MayStart, InUse
<1>3. ASSUME Stop PROVE Phases'
  BY <1>3 DEF Stop, StopEffect, CloseHandle, NotifyThread, InUse
<1>4. ASSUME Destroy PROVE Phases'
  BY <1>4 DEF Destroy, StopEffect, CloseHandle, NotifyThread, InUse
<1>5. ASSUME DestroyJoins PROVE Phases'
  BY <1>5 DEF DestroyJoins
<1>6. ASSUME DestroyReturns PROVE Phases'
  BY <1>6 DEF DestroyReturns
<1>7. ASSUME NEW u \in Tasks, Listen(u) PROVE Phases'
  BY <1>7 DEF Listen, NextTask, AnnounceTask, InUse
<1>8. ASSUME CreateSocket PROVE Phases'
  BY <1>8 DEF CreateSocket, Goes
<1>9. ASSUME BindSocket PROVE Phases'
  BY <1>9 DEF BindSocket, Goes
<1>10. ASSUME ListenSocket PROVE Phases'
  BY <1>10 DEF ListenSocket, Goes
<1>11. ASSUME FinishStart PROVE Phases'
  BY <1>11 DEF FinishStart, Goes, GoesWhileRunning
<1>12. ASSUME AwaitTask PROVE Phases'
  BY <1>12 DEF AwaitTask, TakeToken, Goes, GoesWhileRunning
<1>13. ASSUME CopyHandle PROVE Phases'
  BY <1>13 DEF CopyHandle, Goes, GoesWhileRunning
<1>14. ASSUME Accept PROVE Phases'
  BY <1>14 DEF Accept, Goes
<1>15. ASSUME AcceptClosed PROVE Phases'
  BY <1>15 DEF AcceptClosed, AcceptReturnsInvalid, Goes
<1>16. ASSUME AcceptError PROVE Phases'
  BY <1>16 DEF AcceptError, AcceptReturnsInvalid, Goes
<1>24. ASSUME AcceptForeign PROVE Phases'
  BY <1>24, ListenerAssumption DEF AcceptForeign, Goes
<1>17. ASSUME Judge PROVE Phases'
  BY <1>17 DEF Judge, Rejects, Goes
<1>18. ASSUME Reject PROVE Phases'
  BY <1>18 DEF Reject, TokenGone, Goes, GoesWhileRunning
<1>19. ASSUME Serve PROVE Phases'
  BY <1>19 DEF Serve, Front, Goes, GoesWhileRunning
<1>20. ASSUME StopListen PROVE Phases'
  BY <1>20 DEF StopListen, ClearRunning, CloseHandle, FailTasks, Goes
<1>21. ASSUME FailStart PROVE Phases'
  BY <1>21 DEF FailStart, StartFailed, Goes
<1>22. ASSUME NEW k \in Conns, Connect(k) PROVE Phases'
  BY <1>22 DEF Connect
<1>23. ASSUME UNCHANGED vars PROVE Phases'
  BY <1>23 DEF vars
<1> QED
  BY <1>1, <1>2, <1>3, <1>4, <1>5, <1>6, <1>7, <1>8, <1>9, <1>10, <1>11,
     <1>12, <1>13, <1>14, <1>15, <1>16, <1>17, <1>18, <1>19, <1>20, <1>21,
     <1>22, <1>23, <1>24
     DEF Next, ThreadStep, DestructorStep

LEMMA HandleStep == IInv /\ [Next]_vars => HandleIsSocket'
<1> SUFFICES ASSUME IInv, [Next]_vars PROVE HandleIsSocket'
  OBVIOUS
<1> USE DEF IInv, TypeOK, Phases, HandleIsSocket, flagVars, queueVars,
          stopVars, kernelVars
<1>1. ASSUME Start PROVE HandleIsSocket'
  BY <1>1 DEF Start, MayStart, InUse
<1>2. ASSUME StartAgain PROVE HandleIsSocket'
  BY <1>2 DEF StartAgain, MayStart, InUse
<1>3. ASSUME Stop PROVE HandleIsSocket'
  BY <1>3 DEF Stop, StopEffect, CloseHandle, NotifyThread, InUse
<1>4. ASSUME Destroy PROVE HandleIsSocket'
  BY <1>4 DEF Destroy, StopEffect, CloseHandle, NotifyThread, InUse
<1>5. ASSUME DestroyJoins PROVE HandleIsSocket'
  BY <1>5 DEF DestroyJoins
<1>6. ASSUME DestroyReturns PROVE HandleIsSocket'
  BY <1>6 DEF DestroyReturns
<1>7. ASSUME NEW u \in Tasks, Listen(u) PROVE HandleIsSocket'
  BY <1>7 DEF Listen, NextTask, AnnounceTask, InUse
<1>8. ASSUME CreateSocket PROVE HandleIsSocket'
  BY <1>8 DEF CreateSocket, Goes
<1>9. ASSUME BindSocket PROVE HandleIsSocket'
  BY <1>9 DEF BindSocket, Goes
<1>10. ASSUME ListenSocket PROVE HandleIsSocket'
  BY <1>10 DEF ListenSocket, Goes
<1>11. ASSUME FinishStart PROVE HandleIsSocket'
  BY <1>11 DEF FinishStart, Goes, GoesWhileRunning
<1>12. ASSUME AwaitTask PROVE HandleIsSocket'
  BY <1>12 DEF AwaitTask, TakeToken, Goes, GoesWhileRunning
<1>13. ASSUME CopyHandle PROVE HandleIsSocket'
  BY <1>13 DEF CopyHandle, Goes, GoesWhileRunning
<1>14. ASSUME Accept PROVE HandleIsSocket'
  BY <1>14, ListenerAssumption, TailShifts DEF Accept, Goes
<1>15. ASSUME AcceptClosed PROVE HandleIsSocket'
  BY <1>15, ListenerAssumption DEF AcceptClosed, AcceptReturnsInvalid, Goes
<1>16. ASSUME AcceptError PROVE HandleIsSocket'
  BY <1>16, ListenerAssumption DEF AcceptError, AcceptReturnsInvalid, Goes
<1>24. ASSUME AcceptForeign PROVE HandleIsSocket'
  BY <1>24, ListenerAssumption DEF AcceptForeign, Goes
<1>17. ASSUME Judge PROVE HandleIsSocket'
  BY <1>17 DEF Judge, Rejects, Goes
<1>18. ASSUME Reject PROVE HandleIsSocket'
  BY <1>18 DEF Reject, TokenGone, Goes, GoesWhileRunning
<1>19. ASSUME Serve PROVE HandleIsSocket'
  BY <1>19 DEF Serve, Front, Goes, GoesWhileRunning
<1>20. ASSUME StopListen PROVE HandleIsSocket'
  BY <1>20 DEF StopListen, ClearRunning, CloseHandle, FailTasks, Goes
<1>21. ASSUME FailStart PROVE HandleIsSocket'
  BY <1>21 DEF FailStart, StartFailed, Goes
<1>22. ASSUME NEW k \in Conns, Connect(k) PROVE HandleIsSocket'
  BY <1>22 DEF Connect
<1>23. ASSUME UNCHANGED vars PROVE HandleIsSocket'
  BY <1>23 DEF vars
<1> QED
  BY <1>1, <1>2, <1>3, <1>4, <1>5, <1>6, <1>7, <1>8, <1>9, <1>10, <1>11,
     <1>12, <1>13, <1>14, <1>15, <1>16, <1>17, <1>18, <1>19, <1>20, <1>21,
     <1>22, <1>23, <1>24
     DEF Next, ThreadStep, DestructorStep

LEMMA OrderStep == IInv /\ [Next]_vars => CalledInOrder'
<1> SUFFICES ASSUME IInv, [Next]_vars PROVE CalledInOrder'
  OBVIOUS
<1> USE DEF IInv, TypeOK, Phases, CalledInOrder, PendingTasksAreQueued, Queued,
          TokensMatch, Holding, flagVars, queueVars, stopVars, kernelVars
<1>1. ASSUME Start PROVE CalledInOrder'
  BY <1>1 DEF Start, MayStart, InUse
<1>2. ASSUME StartAgain PROVE CalledInOrder'
  BY <1>2 DEF StartAgain, MayStart, InUse
<1>3. ASSUME Stop PROVE CalledInOrder'
  BY <1>3 DEF Stop, StopEffect, CloseHandle, NotifyThread, InUse
<1>4. ASSUME Destroy PROVE CalledInOrder'
  BY <1>4 DEF Destroy, StopEffect, CloseHandle, NotifyThread, InUse
<1>5. ASSUME DestroyJoins PROVE CalledInOrder'
  BY <1>5 DEF DestroyJoins
<1>6. ASSUME DestroyReturns PROVE CalledInOrder'
  BY <1>6 DEF DestroyReturns
<1>7. ASSUME NEW u \in Tasks, Listen(u) PROVE CalledInOrder'
  <2>1. \A t \in Tasks : taskStatus[t] # "Unused" => t < u
    BY <1>7, ListenerAssumption DEF Listen, NextTask
  <2>2. taskStatus' \in [Tasks -> Status \cup {"Unused"}]
          /\ taskStatus'[u] # "Unused"
          /\ \A t \in Tasks : t # u => taskStatus'[t] = taskStatus[t]
    BY <1>7 DEF Listen, Status
  <2>3. \A s, t \in Tasks :
          s < t /\ taskStatus'[t] # "Unused" => taskStatus'[s] # "Unused"
    BY <1>7, <2>1, <2>2 DEF Listen, NextTask
  <2>4. CASE m_running
    <3>1. m_listenQueue' = Append(m_listenQueue, u)
      BY <1>7, <2>4 DEF Listen
    <3>2. \A i \in DOMAIN m_listenQueue :
            m_listenQueue[i] \in Tasks /\ m_listenQueue[i] < u
      BY <2>1
    <3>3. \A i, j \in DOMAIN m_listenQueue' :
            i < j => m_listenQueue'[i] < m_listenQueue'[j]
      BY <3>1, <3>2, AppendAdds
    <3> QED BY <2>3, <3>3
  <2>5. CASE ~m_running
    BY <1>7, <2>3, <2>5 DEF Listen
  <2> QED BY <2>4, <2>5
<1>8. ASSUME CreateSocket PROVE CalledInOrder'
  BY <1>8 DEF CreateSocket, Goes
<1>9. ASSUME BindSocket PROVE CalledInOrder'
  BY <1>9 DEF BindSocket, Goes
<1>10. ASSUME ListenSocket PROVE CalledInOrder'
  BY <1>10 DEF ListenSocket, Goes
<1>11. ASSUME FinishStart PROVE CalledInOrder'
  BY <1>11 DEF FinishStart, Goes, GoesWhileRunning
<1>12. ASSUME AwaitTask PROVE CalledInOrder'
  BY <1>12 DEF AwaitTask, TakeToken, Goes, GoesWhileRunning
<1>13. ASSUME CopyHandle PROVE CalledInOrder'
  BY <1>13 DEF CopyHandle, Goes, GoesWhileRunning
<1>14. ASSUME Accept PROVE CalledInOrder'
  BY <1>14 DEF Accept, Goes
<1>15. ASSUME AcceptClosed PROVE CalledInOrder'
  BY <1>15 DEF AcceptClosed, AcceptReturnsInvalid, Goes
<1>16. ASSUME AcceptError PROVE CalledInOrder'
  BY <1>16 DEF AcceptError, AcceptReturnsInvalid, Goes
<1>24. ASSUME AcceptForeign PROVE CalledInOrder'
  BY <1>24, ListenerAssumption DEF AcceptForeign, Goes
<1>17. ASSUME Judge PROVE CalledInOrder'
  BY <1>17 DEF Judge, Rejects, Goes
<1>18. ASSUME Reject PROVE CalledInOrder'
  BY <1>18 DEF Reject, TokenGone, Goes, GoesWhileRunning
<1>19. ASSUME Serve PROVE CalledInOrder'
  BY <1>19 DEF Serve, Front, Goes, GoesWhileRunning
<1>20. ASSUME StopListen PROVE CalledInOrder'
  BY <1>20 DEF StopListen, ClearRunning, CloseHandle, FailTasks, Goes
<1>21. ASSUME FailStart PROVE CalledInOrder'
  BY <1>21 DEF FailStart, StartFailed, Goes
<1>22. ASSUME NEW k \in Conns, Connect(k) PROVE CalledInOrder'
  BY <1>22 DEF Connect
<1>23. ASSUME UNCHANGED vars PROVE CalledInOrder'
  BY <1>23 DEF vars
<1> QED
  BY <1>1, <1>2, <1>3, <1>4, <1>5, <1>6, <1>7, <1>8, <1>9, <1>10, <1>11,
     <1>12, <1>13, <1>14, <1>15, <1>16, <1>17, <1>18, <1>19, <1>20, <1>21,
     <1>22, <1>23, <1>24
     DEF Next, ThreadStep, DestructorStep

LEMMA QueuedStep == IInv /\ [Next]_vars => PendingTasksAreQueued'
<1> SUFFICES ASSUME IInv, [Next]_vars PROVE PendingTasksAreQueued'
  OBVIOUS
<1> USE DEF IInv, TypeOK, CalledInOrder, PendingTasksAreQueued, Queued,
          TokensMatch, Holding, flagVars, queueVars, stopVars, kernelVars
<1>1. ASSUME Start PROVE PendingTasksAreQueued'
  BY <1>1 DEF Start, MayStart, InUse
<1>2. ASSUME StartAgain PROVE PendingTasksAreQueued'
  BY <1>2 DEF StartAgain, MayStart, InUse
<1>3. ASSUME Stop PROVE PendingTasksAreQueued'
  BY <1>3 DEF Stop, StopEffect, CloseHandle, NotifyThread, InUse
<1>4. ASSUME Destroy PROVE PendingTasksAreQueued'
  BY <1>4 DEF Destroy, StopEffect, CloseHandle, NotifyThread, InUse
<1>5. ASSUME DestroyJoins PROVE PendingTasksAreQueued'
  BY <1>5 DEF DestroyJoins
<1>6. ASSUME DestroyReturns PROVE PendingTasksAreQueued'
  BY <1>6 DEF DestroyReturns
<1>7. ASSUME NEW u \in Tasks, Listen(u) PROVE PendingTasksAreQueued'
  <2>1. taskStatus[u] = "Unused"
    BY <1>7 DEF Listen, NextTask
  <2>2. CASE m_running
    <3>1. /\ m_listenQueue' = Append(m_listenQueue, u)
          /\ taskStatus' = [taskStatus EXCEPT ![u] = "Pending"]
      BY <1>7, <2>2 DEF Listen
    <3>2. Queued(u)' /\ taskStatus'[u] = "Pending"
      BY <3>1, AppendAdds
    <3>3. ASSUME NEW t \in Tasks, t # u PROVE Queued(t)' <=> Queued(t)
      BY <3>1, <3>3, AppendAdds
    <3> QED BY <3>1, <3>2, <3>3
  <2>3. CASE ~m_running
    BY <1>7, <2>1, <2>3 DEF Listen
  <2> QED BY <2>2, <2>3
<1>8. ASSUME CreateSocket PROVE PendingTasksAreQueued'
  BY <1>8 DEF CreateSocket, Goes
<1>9. ASSUME BindSocket PROVE PendingTasksAreQueued'
  BY <1>9 DEF BindSocket, Goes
<1>10. ASSUME ListenSocket PROVE PendingTasksAreQueued'
  BY <1>10 DEF ListenSocket, Goes
<1>11. ASSUME FinishStart PROVE PendingTasksAreQueued'
  BY <1>11 DEF FinishStart, Goes, GoesWhileRunning
<1>12. ASSUME AwaitTask PROVE PendingTasksAreQueued'
  BY <1>12 DEF AwaitTask, TakeToken, Goes, GoesWhileRunning
<1>13. ASSUME CopyHandle PROVE PendingTasksAreQueued'
  BY <1>13 DEF CopyHandle, Goes, GoesWhileRunning
<1>14. ASSUME Accept PROVE PendingTasksAreQueued'
  BY <1>14 DEF Accept, Goes
<1>15. ASSUME AcceptClosed PROVE PendingTasksAreQueued'
  BY <1>15 DEF AcceptClosed, AcceptReturnsInvalid, Goes
<1>16. ASSUME AcceptError PROVE PendingTasksAreQueued'
  BY <1>16 DEF AcceptError, AcceptReturnsInvalid, Goes
<1>24. ASSUME AcceptForeign PROVE PendingTasksAreQueued'
  BY <1>24, ListenerAssumption DEF AcceptForeign, Goes
<1>17. ASSUME Judge PROVE PendingTasksAreQueued'
  BY <1>17 DEF Judge, Rejects, Goes
<1>18. ASSUME Reject PROVE PendingTasksAreQueued'
  BY <1>18 DEF Reject, TokenGone, Goes, GoesWhileRunning
<1>19. ASSUME Serve PROVE PendingTasksAreQueued'
  <2>1. m_listenQueue # <<>>
    BY <1>19 DEF Serve
  <2>2. Front \in Tasks /\ Front = m_listenQueue[1]
    BY <2>1, TailShifts DEF Front
  <2>3. /\ m_listenQueue' = Tail(m_listenQueue)
        /\ taskStatus' = [taskStatus EXCEPT ![Front] = "Successful"]
    BY <1>19 DEF Serve
  <2>4. \A t \in Tasks : t = Front => ~Queued(t)'
    <3>1. ASSUME NEW i \in DOMAIN Tail(m_listenQueue)
          PROVE  Tail(m_listenQueue)[i] # m_listenQueue[1]
      <4>1. /\ i + 1 \in DOMAIN m_listenQueue /\ 1 \in DOMAIN m_listenQueue
            /\ 1 < i + 1 /\ Tail(m_listenQueue)[i] = m_listenQueue[i + 1]
        BY <2>1, TailShifts
      <4>2. m_listenQueue[1] < m_listenQueue[i + 1]
        BY <4>1
      <4>3. m_listenQueue[1] \in Nat /\ m_listenQueue[i + 1] \in Nat
        BY <4>1, Elements, ListenerAssumption
      <4> QED BY <4>1, <4>2, <4>3
    <3> QED BY <2>2, <2>3, <3>1
  <2>5. ASSUME NEW t \in Tasks, t # Front PROVE Queued(t)' <=> Queued(t)
    <3>1. ASSUME Queued(t) PROVE Queued(t)'
      <4>1. PICK i \in DOMAIN m_listenQueue : m_listenQueue[i] = t
        BY <3>1
      <4>2. i # 1
        BY <2>2, <2>5, <4>1
      <4>3. i - 1 \in DOMAIN m_listenQueue' /\ m_listenQueue'[i - 1] = t
        BY <2>1, <2>3, <4>1, <4>2, TailShifts
      <4> QED BY <4>3
    <3>2. ASSUME Queued(t)' PROVE Queued(t)
      BY <2>1, <2>3, <3>2, TailShifts
    <3> QED BY <3>1, <3>2
  <2>6. /\ taskStatus'[Front] = "Successful"
        /\ \A t \in Tasks : t # Front => taskStatus'[t] = taskStatus[t]
    BY <2>2, <2>3
  <2> QED BY <2>2, <2>4, <2>5, <2>6
<1>20. ASSUME StopListen PROVE PendingTasksAreQueued'
  BY <1>20 DEF StopListen, ClearRunning, CloseHandle, FailTasks, Goes
<1>21. ASSUME FailStart PROVE PendingTasksAreQueued'
  BY <1>21 DEF FailStart, StartFailed, Goes
<1>22. ASSUME NEW k \in Conns, Connect(k) PROVE PendingTasksAreQueued'
  BY <1>22 DEF Connect
<1>23. ASSUME UNCHANGED vars PROVE PendingTasksAreQueued'
  BY <1>23 DEF vars
<1> QED
  BY <1>1, <1>2, <1>3, <1>4, <1>5, <1>6, <1>7, <1>8, <1>9, <1>10, <1>11,
     <1>12, <1>13, <1>14, <1>15, <1>16, <1>17, <1>18, <1>19, <1>20, <1>21,
     <1>22, <1>23, <1>24
     DEF Next, ThreadStep, DestructorStep

LEMMA ConnStep == IInv /\ [Next]_vars => ConnectionInOnePlace'
<1> SUFFICES ASSUME IInv, [Next]_vars PROVE ConnectionInOnePlace'
  OBVIOUS
<1> USE DEF IInv, TypeOK, HandleIsSocket, ConnectionInOnePlace, InHand,
          TokensMatch, Holding, flagVars, queueVars, stopVars, kernelVars
<1>1. ASSUME Start PROVE ConnectionInOnePlace'
  BY <1>1 DEF Start, MayStart, InUse
<1>2. ASSUME StartAgain PROVE ConnectionInOnePlace'
  BY <1>2 DEF StartAgain, MayStart, InUse
<1>3. ASSUME Stop PROVE ConnectionInOnePlace'
  BY <1>3 DEF Stop, StopEffect, CloseHandle, NotifyThread, InUse
<1>4. ASSUME Destroy PROVE ConnectionInOnePlace'
  BY <1>4 DEF Destroy, StopEffect, CloseHandle, NotifyThread, InUse
<1>5. ASSUME DestroyJoins PROVE ConnectionInOnePlace'
  BY <1>5 DEF DestroyJoins
<1>6. ASSUME DestroyReturns PROVE ConnectionInOnePlace'
  BY <1>6 DEF DestroyReturns
<1>7. ASSUME NEW u \in Tasks, Listen(u) PROVE ConnectionInOnePlace'
  BY <1>7 DEF Listen, NextTask, AnnounceTask, InUse
<1>8. ASSUME CreateSocket PROVE ConnectionInOnePlace'
  BY <1>8 DEF CreateSocket, Goes
<1>9. ASSUME BindSocket PROVE ConnectionInOnePlace'
  BY <1>9 DEF BindSocket, Goes
<1>10. ASSUME ListenSocket PROVE ConnectionInOnePlace'
  BY <1>10 DEF ListenSocket, Goes
<1>11. ASSUME FinishStart PROVE ConnectionInOnePlace'
  BY <1>11 DEF FinishStart, Goes, GoesWhileRunning
<1>12. ASSUME AwaitTask PROVE ConnectionInOnePlace'
  BY <1>12 DEF AwaitTask, TakeToken, Goes, GoesWhileRunning
<1>13. ASSUME CopyHandle PROVE ConnectionInOnePlace'
  BY <1>13 DEF CopyHandle, Goes, GoesWhileRunning
<1>14. ASSUME Accept PROVE ConnectionInOnePlace'
  BY <1>14, ListenerAssumption, TailShifts DEF Accept, Goes
<1>15. ASSUME AcceptClosed PROVE ConnectionInOnePlace'
  BY <1>15, ListenerAssumption DEF AcceptClosed, AcceptReturnsInvalid, Goes
<1>16. ASSUME AcceptError PROVE ConnectionInOnePlace'
  BY <1>16, ListenerAssumption DEF AcceptError, AcceptReturnsInvalid, Goes
<1>24. ASSUME AcceptForeign PROVE ConnectionInOnePlace'
  BY <1>24, ListenerAssumption DEF AcceptForeign, Goes
<1>17. ASSUME Judge PROVE ConnectionInOnePlace'
  BY <1>17 DEF Judge, Rejects, Goes
<1>18. ASSUME Reject PROVE ConnectionInOnePlace'
  BY <1>18 DEF Reject, TokenGone, Goes, GoesWhileRunning
<1>19. ASSUME Serve PROVE ConnectionInOnePlace'
  BY <1>19 DEF Serve, Front, Goes, GoesWhileRunning
<1>20. ASSUME StopListen PROVE ConnectionInOnePlace'
  <2>1. /\ \A t \in Tasks : taskStatus[t] = "Successful" => ~Queued(t)
        /\ \A t \in Tasks : taskStatus'[t] = "Successful"
                              <=> taskStatus[t] = "Successful"
    BY <1>20 DEF StopListen, FailTasks, PendingTasksAreQueued
  <2>2. /\ ~InHand' /\ ~InHand
        /\ taskSocket' = taskSocket /\ arrived' = arrived
        /\ threadPc' # "serve"
    BY <1>20 DEF StopListen, Goes
  <2>3. backlog' = backlog \/ backlog' = <<>>
    BY <1>20 DEF StopListen, CloseHandle
  <2> QED BY <2>1, <2>2, <2>3
<1>21. ASSUME FailStart PROVE ConnectionInOnePlace'
  BY <1>21 DEF FailStart, StartFailed, Goes
<1>22. ASSUME NEW k \in Conns, Connect(k) PROVE ConnectionInOnePlace'
  BY <1>22 DEF Connect
<1>23. ASSUME UNCHANGED vars PROVE ConnectionInOnePlace'
  BY <1>23 DEF vars
<1> QED
  BY <1>1, <1>2, <1>3, <1>4, <1>5, <1>6, <1>7, <1>8, <1>9, <1>10, <1>11,
     <1>12, <1>13, <1>14, <1>15, <1>16, <1>17, <1>18, <1>19, <1>20, <1>21,
     <1>22, <1>23, <1>24
     DEF Next, ThreadStep, DestructorStep

LEMMA ServedStep == IInv /\ [Next]_vars => ServedTasksHoldSockets'
<1> SUFFICES ASSUME IInv, [Next]_vars PROVE ServedTasksHoldSockets'
  OBVIOUS
<1> USE DEF IInv, TypeOK, ConnectionInOnePlace, ServedTasksHoldSockets, InHand,
          flagVars, queueVars, stopVars, kernelVars
<1>1. ASSUME Start PROVE ServedTasksHoldSockets'
  BY <1>1 DEF Start, MayStart, InUse
<1>2. ASSUME StartAgain PROVE ServedTasksHoldSockets'
  BY <1>2 DEF StartAgain, MayStart, InUse
<1>3. ASSUME Stop PROVE ServedTasksHoldSockets'
  BY <1>3 DEF Stop, StopEffect, CloseHandle, NotifyThread, InUse
<1>4. ASSUME Destroy PROVE ServedTasksHoldSockets'
  BY <1>4 DEF Destroy, StopEffect, CloseHandle, NotifyThread, InUse
<1>5. ASSUME DestroyJoins PROVE ServedTasksHoldSockets'
  BY <1>5 DEF DestroyJoins
<1>6. ASSUME DestroyReturns PROVE ServedTasksHoldSockets'
  BY <1>6 DEF DestroyReturns
<1>7. ASSUME NEW u \in Tasks, Listen(u) PROVE ServedTasksHoldSockets'
  BY <1>7 DEF Listen, NextTask, AnnounceTask, InUse
<1>8. ASSUME CreateSocket PROVE ServedTasksHoldSockets'
  BY <1>8 DEF CreateSocket, Goes
<1>9. ASSUME BindSocket PROVE ServedTasksHoldSockets'
  BY <1>9 DEF BindSocket, Goes
<1>10. ASSUME ListenSocket PROVE ServedTasksHoldSockets'
  BY <1>10 DEF ListenSocket, Goes
<1>11. ASSUME FinishStart PROVE ServedTasksHoldSockets'
  BY <1>11 DEF FinishStart, Goes, GoesWhileRunning
<1>12. ASSUME AwaitTask PROVE ServedTasksHoldSockets'
  BY <1>12 DEF AwaitTask, TakeToken, Goes, GoesWhileRunning
<1>13. ASSUME CopyHandle PROVE ServedTasksHoldSockets'
  BY <1>13 DEF CopyHandle, Goes, GoesWhileRunning
<1>14. ASSUME Accept PROVE ServedTasksHoldSockets'
  BY <1>14 DEF Accept, Goes
<1>15. ASSUME AcceptClosed PROVE ServedTasksHoldSockets'
  BY <1>15 DEF AcceptClosed, AcceptReturnsInvalid, Goes
<1>16. ASSUME AcceptError PROVE ServedTasksHoldSockets'
  BY <1>16 DEF AcceptError, AcceptReturnsInvalid, Goes
<1>24. ASSUME AcceptForeign PROVE ServedTasksHoldSockets'
  BY <1>24, ListenerAssumption DEF AcceptForeign, Goes
<1>17. ASSUME Judge PROVE ServedTasksHoldSockets'
  BY <1>17 DEF Judge, Rejects, Goes
<1>18. ASSUME Reject PROVE ServedTasksHoldSockets'
  BY <1>18 DEF Reject, TokenGone, Goes, GoesWhileRunning
<1>19. ASSUME Serve PROVE ServedTasksHoldSockets'
  <2>1. /\ taskSocket' = [taskSocket EXCEPT ![Front] = connection]
        /\ taskStatus' = [taskStatus EXCEPT ![Front] = "Successful"]
        /\ arrived' = arrived /\ InHand
    BY <1>19 DEF Serve
  <2>2. connection \in arrived /\ connection \in Conns
    BY <2>1
  <2>3. \A t \in Tasks : taskSocket[t] # connection
    BY <2>1, <2>2, ListenerAssumption
  <2>4. ASSUME NEW s \in Tasks, NEW t \in Tasks, taskStatus'[t] = "Successful"
        PROVE  /\ taskSocket'[t] \in arrived'
               /\ taskSocket'[s] = taskSocket'[t] => s = t
    <3>1. \A x \in Tasks :
            taskSocket'[x] = IF x = Front THEN connection ELSE taskSocket[x]
      BY <2>1
    <3>2. t # Front => taskStatus[t] = "Successful"
      BY <2>1, <2>4
    <3>3. taskSocket'[t] \in arrived'
      BY <2>1, <2>2, <3>1, <3>2
    <3>4. ASSUME s # t PROVE taskSocket'[s] # taskSocket'[t]
      BY <2>3, <3>1, <3>2, <3>4
    <3> QED BY <3>3, <3>4
  <2> QED BY <2>4
<1>20. ASSUME StopListen PROVE ServedTasksHoldSockets'
  BY <1>20 DEF StopListen, ClearRunning, CloseHandle, FailTasks, Goes
<1>21. ASSUME FailStart PROVE ServedTasksHoldSockets'
  BY <1>21 DEF FailStart, StartFailed, Goes
<1>22. ASSUME NEW k \in Conns, Connect(k) PROVE ServedTasksHoldSockets'
  BY <1>22 DEF Connect
<1>23. ASSUME UNCHANGED vars PROVE ServedTasksHoldSockets'
  BY <1>23 DEF vars
<1> QED
  BY <1>1, <1>2, <1>3, <1>4, <1>5, <1>6, <1>7, <1>8, <1>9, <1>10, <1>11,
     <1>12, <1>13, <1>14, <1>15, <1>16, <1>17, <1>18, <1>19, <1>20, <1>21,
     <1>22, <1>23, <1>24
     DEF Next, ThreadStep, DestructorStep

LEMMA InitHolds == Init => IInv
<1> SUFFICES ASSUME Init PROVE IInv
  OBVIOUS
<1> USE DEF Init
<1>1. <<>> \in Seq(Tasks) /\ <<>> \in Seq(Conns)
  BY Empty
<1>2. TypeOK
  <2>1. m_listenQueue \in Seq(Tasks) /\ backlog \in Seq(Conns)
    BY <1>1, Zenon
  <2>2. /\ taskStatus \in [Tasks -> Status \cup {"Unused"}]
        /\ taskSocket \in [Tasks -> Conns \cup {NoConn}]
    BY Zenon
  <2>3. m_running \in BOOLEAN /\ m_handle \in BOOLEAN
    BY Zenon
  <2>4. /\ m_listenSempahore \in Nat /\ closes \in Nat
        /\ wasted \in 0..MaxErrors
        /\ m_stopTask \in Status /\ startTask \in Status
        /\ threadPc \in ThreadControl
        /\ connection \in Conns \cup {NoConn, Foreign}
        /\ destructor \in {"none", "waiting", "joining", "done"}
        /\ socket \in {"none", "open", "listening", "closed"}
        /\ arrived \in SUBSET Conns
    BY ListenerAssumption DEF Status, ThreadControl
  <2> QED BY <2>1, <2>2, <2>3, <2>4, Zenon DEF TypeOK
<1>3. TokensMatch /\ Phases /\ HandleIsSocket
  BY Empty DEF TokensMatch, Holding, Phases, HandleIsSocket
<1>4. CalledInOrder /\ PendingTasksAreQueued
  BY Empty DEF CalledInOrder, PendingTasksAreQueued, Queued
<1>5. ConnectionInOnePlace /\ ServedTasksHoldSockets
  BY Empty DEF ConnectionInOnePlace, InHand, ServedTasksHoldSockets
<1> QED BY <1>2, <1>3, <1>4, <1>5 DEF IInv

-----------------------------------------------------------------------------

(* The parts of IInv need one another: the tokens match only because the   *)
(* socket of a running listener is open, a task leaves the queue for good  *)
(* only because the queue is in order, and so on.                          *)
THEOREM Inductive == Spec => []IInv
<1>1. IInv /\ [Next]_vars => IInv'
  BY TypeStep, TokensStep, PhasesStep, HandleStep, OrderStep, QueuedStep,
     ConnStep, ServedStep DEF IInv
<1> QED BY InitHolds, <1>1, PTL DEF Spec

(* The listener keeps its types.                                           *)
THEOREM Typing == Spec => []TypeOK
<1> IInv => TypeOK
  BY DEF IInv
<1> QED BY Inductive, PTL

(* The thread never reads the front of an empty queue, however listen(),   *)
(* stop() and failing accept() calls mix.                                  *)
THEOREM ServingIsSafe == Spec => []AcceptFindsTask
<1> IInv => AcceptFindsTask
  BY DEF IInv, TokensMatch, Holding, AcceptFindsTask
<1> QED BY Inductive, PTL

(* The listener never forgets a task somebody may wait for.                *)
THEOREM NoTaskIsForgotten == Spec => []PendingTasksAreQueued
<1> IInv => PendingTasksAreQueued
  BY DEF IInv
<1> QED BY Inductive, PTL

(* No two listen tasks end with the same connection.                       *)
THEOREM ConnectionsAreNotShared == Spec => []ServedTasksHoldSockets
<1> IInv => ServedTasksHoldSockets
  BY DEF IInv
<1> QED BY Inductive, PTL

(* The listening socket is not closed twice.                               *)
THEOREM SocketIsClosedOnce == Spec => []ClosedOnce
<1> IInv => ClosedOnce
  BY DEF IInv, HandleIsSocket, ClosedOnce
<1> QED BY Inductive, PTL

(* The thread leaves no socket and no waiting task behind.                 *)
THEOREM NothingIsLeftBehind == Spec => []ExitLeavesNothing
<1> ASSUME IInv PROVE ExitLeavesNothing
  <2> USE DEF IInv
  <2> SUFFICES ASSUME threadPc \in {"failStart", "exited"}
               PROVE  /\ ~m_running /\ socket \in {"none", "closed"}
                      /\ \A t \in Tasks : taskStatus[t] # "Pending"
                      /\ m_stopTask # "Pending"
    BY DEF ExitLeavesNothing
  <2>1. ~m_running /\ m_stopTask # "Pending" /\ m_listenQueue = <<>>
    BY DEF Phases
  <2>2. socket \in {"none", "closed"}
    BY DEF HandleIsSocket, TypeOK
  <2>3. \A t \in Tasks : taskStatus[t] # "Pending"
    BY <2>1, Empty DEF PendingTasksAreQueued, Queued
  <2> QED BY <2>1, <2>2, <2>3
<1> QED BY Inductive, PTL

(* A listen task is never served before an earlier one that waits: only    *)
(* the front of the queue is served, and the queue is in order.            *)
THEOREM TasksAreServedInOrder == Spec => ServedInOrder
<1> DEFINE Ordered ==
      \A s, t \in Tasks :
        s < t /\ taskStatus[s] = "Pending" /\ taskStatus[t] = "Pending"
          => taskStatus'[t] # "Successful"
<1>1. ASSUME IInv, [Next]_vars PROVE [Ordered]_vars
  <2> SUFFICES ASSUME NEW s \in Tasks, NEW t \in Tasks, s < t,
                      taskStatus[s] = "Pending", taskStatus[t] = "Pending",
                      taskStatus'[t] = "Successful"
               PROVE  FALSE
    OBVIOUS
  <2>1. Serve
    BY <1>1 DEF Next, Start, StartAgain, Stop, Destroy, DestructorStep,
       DestroyJoins, DestroyReturns, Listen, NextTask, ThreadStep,
       CreateSocket, BindSocket, ListenSocket, FinishStart, AwaitTask,
       CopyHandle, Accept, AcceptClosed, AcceptError, AcceptReturnsInvalid,
       AcceptForeign, Judge, Reject, StopListen, FailTasks, FailStart, Connect,
       vars, queueVars, IInv, TypeOK, Status
  <2>2. m_listenQueue # <<>> /\ m_listenQueue \in Seq(Tasks)
    BY <1>1, <2>1 DEF Serve, IInv, TypeOK, TokensMatch, Holding
  <2>3. t = m_listenQueue[1]
    BY <1>1, <2>1, <2>2, TailShifts DEF Serve, Front, IInv, TypeOK
  <2>4. PICK i \in DOMAIN m_listenQueue : m_listenQueue[i] = s
    BY <1>1 DEF IInv, PendingTasksAreQueued, Queued
  <2>5. i # 1 /\ s \in Nat /\ t \in Nat
    BY <2>3, <2>4, ListenerAssumption
  <2>6. m_listenQueue[1] < m_listenQueue[i]
    BY <1>1, <2>2, <2>5, TailShifts DEF IInv, CalledInOrder
  <2> QED BY <2>3, <2>4, <2>5, <2>6
<1> QED BY Inductive, <1>1, PTL DEF Spec, ServedInOrder

-----------------------------------------------------------------------------
(* The listener implements AcceptQueue.                                    *)

(* Connections wait at a listening socket only, and behind its first wait  *)
(* the thread of a listener that was stopped has no socket any more.       *)
BacklogNeedsSocket ==
  /\ socket # "listening" => backlog = <<>>
  /\ ~m_running /\ threadPc \in {"wait", "copy", "accept", "accepted",
                                 "rejected", "serve"}
       => ~m_handle

LEMMA BacklogStep ==
  IInv /\ BacklogNeedsSocket /\ [Next]_vars => BacklogNeedsSocket'
<1> SUFFICES ASSUME IInv, BacklogNeedsSocket, [Next]_vars
             PROVE  BacklogNeedsSocket'
  OBVIOUS
<1> USE DEF IInv, TypeOK, HandleIsSocket, BacklogNeedsSocket, flagVars,
            queueVars, stopVars, kernelVars
<1>1. ASSUME Start \/ StartAgain PROVE BacklogNeedsSocket'
  BY <1>1 DEF Start, StartAgain, MayStart, InUse
<1>2. ASSUME Stop \/ Destroy PROVE BacklogNeedsSocket'
  BY <1>2 DEF Stop, Destroy, StopEffect, CloseHandle, InUse
<1>3. ASSUME DestructorStep \/ \E t \in Tasks : Listen(t)
      PROVE  BacklogNeedsSocket'
  BY <1>3 DEF DestructorStep, DestroyJoins, DestroyReturns, Listen
<1>4. ASSUME CreateSocket \/ BindSocket \/ ListenSocket \/ FinishStart
      PROVE  BacklogNeedsSocket'
  BY <1>4 DEF CreateSocket, BindSocket, ListenSocket, FinishStart, Goes,
     GoesWhileRunning
<1>5. ASSUME AwaitTask \/ CopyHandle \/ AcceptClosed \/ AcceptError
               \/ AcceptForeign
      PROVE  BacklogNeedsSocket'
  BY <1>5 DEF AwaitTask, CopyHandle, AcceptClosed, AcceptError,
     AcceptReturnsInvalid, AcceptForeign, Goes, GoesWhileRunning
<1>6. ASSUME Accept PROVE BacklogNeedsSocket'
  BY <1>6 DEF Accept, Goes
<1>7. ASSUME Judge \/ Reject \/ Serve \/ FailStart
      PROVE  BacklogNeedsSocket'
  BY <1>7 DEF Judge, Reject, Serve, FailStart, Goes, GoesWhileRunning
<1>8. ASSUME StopListen PROVE BacklogNeedsSocket'
  BY <1>8 DEF StopListen, CloseHandle, Goes
<1>9. ASSUME NEW k \in Conns, Connect(k) PROVE BacklogNeedsSocket'
  BY <1>9 DEF Connect
<1>10. ASSUME UNCHANGED vars PROVE BacklogNeedsSocket'
  BY <1>10 DEF vars
<1> QED
  BY <1>1, <1>2, <1>3, <1>4, <1>5, <1>6, <1>7, <1>8, <1>9, <1>10
     DEF Next, ThreadStep

RInv == IInv /\ BacklogNeedsSocket

(* What the refinement needs in addition: connections wait in the backlog  *)
(* of an open socket only.                                                 *)
THEOREM RefinementInvariant == Spec => []RInv
<1>1. Init => BacklogNeedsSocket
  BY DEF Init, BacklogNeedsSocket
<1>2. RInv /\ IInv' /\ [Next]_vars => RInv'
  BY BacklogStep DEF RInv
<1>3. IInv /\ BacklogNeedsSocket => RInv
  BY DEF RInv
<1> QED BY <1>1, <1>2, <1>3, InitHolds, Inductive, PTL DEF Spec

(* What is on offer, as the thread takes a connection and hands it out.    *)
LEMMA OfferedIs ==
  ASSUME NEW S, NEW q \in Seq(S), NEW c \in S
  PROVE  /\ <<>> \o q = q
         /\ <<c>> \o q # <<>> /\ Head(<<c>> \o q) = c
         /\ Tail(<<c>> \o q) = q
         /\ <<c>> \o <<>> = <<c>>
         /\ q # <<>> => <<Head(q)>> \o Tail(q) = q
         /\ Append(<<>> \o q, c) = <<>> \o Append(q, c)
         /\ \A d \in S : Append(<<d>> \o q, c) = <<d>> \o Append(q, c)
  OBVIOUS

LEMMA OfferedByHand ==
  ASSUME TypeOK
  PROVE  /\ ~InHand => Offered = backlog
         /\ InHand => Offered = <<connection>> \o backlog
         /\ InHand => Offered # <<>> /\ Head(Offered) = connection
                        /\ Tail(Offered) = backlog
<1>1. backlog \in Seq(Conns)
  BY DEF TypeOK
<1>2. CASE InHand
  <2>1. connection \in Conns
    BY <1>2 DEF InHand
  <2> QED BY <1>1, <1>2, <2>1, OfferedIs DEF Offered
<1>3. CASE ~InHand
  BY <1>1, <1>3 DEF Offered
<1> QED BY <1>2, <1>3
(* A step that moves nothing between the queues.                           *)
LEMMA NothingMoves ==
  ASSUME UNCHANGED <<m_running, m_listenQueue, taskStatus, taskSocket,
                     Offered>>
  PROVE  [AcceptQueueOf!Next]_AcceptQueueOf!vars
BY DEF AcceptQueueOf!vars

(* A step of a listener that is closed then.                               *)
LEMMA Closing ==
  ASSUME ~m_running', AcceptQueueOf!Withdraw, UNCHANGED taskSocket,
         AcceptQueueOf!Refuse \/ UNCHANGED <<m_listenQueue, taskStatus>>
  PROVE  [AcceptQueueOf!Next]_AcceptQueueOf!vars
<1>1. AcceptQueueOf!Close
  BY DEF AcceptQueueOf!Close
<1> QED BY <1>1 DEF AcceptQueueOf!Next

LEMMA StopRefines ==
  ASSUME RInv, InUse, StopEffect,
         UNCHANGED <<queueVars, threadPc, connection>>
  PROVE  [AcceptQueueOf!Next]_AcceptQueueOf!vars
<1> USE DEF RInv, IInv, queueVars
<1>1. InHand' = InHand
  BY DEF InHand
<1>2. CASE m_running
  <2>1. backlog' = <<>>
    BY <1>2 DEF StopEffect, CloseHandle, BacklogNeedsSocket, HandleIsSocket,
       InUse
  <2>2. Offered' = IF InHand THEN <<connection>> ELSE <<>>
    <3>1. <<connection>> \o <<>> = <<connection>> /\ <<>> \o <<>> = <<>>
      OBVIOUS
    <3> QED BY <1>1, <2>1, <3>1 DEF Offered
  <2>3. AcceptQueueOf!Withdraw
    BY <2>2, OfferedByHand DEF AcceptQueueOf!Withdraw
  <2>4. ~m_running'
    BY <1>2 DEF StopEffect
  <2> QED BY <2>3, <2>4, Closing
<1>3. CASE ~m_running
  <2>1. UNCHANGED <<m_running, backlog>>
    BY <1>3 DEF StopEffect, flagVars
  <2> QED BY <1>1, <2>1, NothingMoves DEF Offered
<1> QED BY <1>2, <1>3

(* Every step of the listener is a step of the queue or moves nothing.     *)
LEMMA StepRefines ==
  ASSUME RInv, [Next]_vars
  PROVE  [AcceptQueueOf!Next]_AcceptQueueOf!vars
<1> USE DEF RInv, IInv, flagVars, queueVars, stopVars, kernelVars
<1>1. ASSUME Start \/ StartAgain
      PROVE  [AcceptQueueOf!Next]_AcceptQueueOf!vars
  <2>1. ~m_running /\ m_running' = TRUE
          /\ UNCHANGED <<m_listenQueue, taskStatus, taskSocket>>
    BY <1>1 DEF Start, StartAgain, MayStart
  <2>2. threadPc' \in {"boot", "terminated"} /\ backlog' = <<>>
    BY <1>1 DEF Start, StartAgain, BacklogNeedsSocket, HandleIsSocket
  <2>3. Offered' = <<>>
    BY <2>2 DEF Offered, InHand
  <2>4. AcceptQueueOf!Open
    BY <2>1, <2>3 DEF AcceptQueueOf!Open
  <2> QED BY <2>4 DEF AcceptQueueOf!Next
<1>2. ASSUME Stop \/ Destroy
      PROVE  [AcceptQueueOf!Next]_AcceptQueueOf!vars
  BY <1>2, StopRefines DEF Stop, Destroy
<1>3. ASSUME NEW t \in Tasks, Listen(t)
      PROVE  [AcceptQueueOf!Next]_AcceptQueueOf!vars
  <2>1. UNCHANGED Offered
    BY <1>3 DEF Listen, Offered, InHand
  <2>2. AcceptQueueOf!Call(t)
    BY <1>3, <2>1 DEF Listen, NextTask, AcceptQueueOf!Call
  <2> QED BY <2>2 DEF AcceptQueueOf!Next
<1>4. ASSUME DestructorStep \/ FailStart
      PROVE  [AcceptQueueOf!Next]_AcceptQueueOf!vars
  BY <1>4, NothingMoves DEF DestructorStep, DestroyJoins, DestroyReturns,
     FailStart, Goes, Offered, InHand
<1>5. ASSUME CreateSocket \/ BindSocket \/ ListenSocket \/ FinishStart
      PROVE  [AcceptQueueOf!Next]_AcceptQueueOf!vars
  <2>1. ~InHand /\ ~InHand' /\ UNCHANGED backlog
    BY <1>5 DEF CreateSocket, BindSocket, ListenSocket, FinishStart, Goes,
       GoesWhileRunning, InHand
  <2>2. UNCHANGED <<m_running, m_listenQueue, taskStatus, taskSocket>>
    BY <1>5 DEF CreateSocket, BindSocket, ListenSocket, FinishStart
  <2> QED BY <2>1, <2>2, NothingMoves DEF Offered
<1>6. ASSUME AwaitTask \/ CopyHandle \/ AcceptClosed \/ AcceptError
               \/ AcceptForeign \/ Reject
      PROVE  [AcceptQueueOf!Next]_AcceptQueueOf!vars
  <2>1. ~InHand /\ ~InHand' /\ UNCHANGED backlog
    BY <1>6, ListenerAssumption DEF AwaitTask, CopyHandle, AcceptClosed,
       AcceptError, AcceptReturnsInvalid, AcceptForeign, Reject, Goes,
       GoesWhileRunning, InHand
  <2>2. UNCHANGED <<m_running, m_listenQueue, taskStatus, taskSocket>>
    BY <1>6 DEF AwaitTask, CopyHandle, AcceptClosed, AcceptError,
       AcceptReturnsInvalid, AcceptForeign, Reject
  <2> QED BY <2>1, <2>2, NothingMoves DEF Offered
<1>7. ASSUME Accept
      PROVE  [AcceptQueueOf!Next]_AcceptQueueOf!vars
  <2>1. backlog \in Seq(Conns) /\ backlog # <<>>
    BY <1>7 DEF Accept, TypeOK
  <2>2. Head(backlog) \in Conns
    BY <2>1, TailShifts
  <2>3. ~InHand /\ InHand'
    BY <1>7, <2>2 DEF Accept, Goes, InHand
  <2>4. Offered' = <<Head(backlog)>> \o Tail(backlog)
    BY <1>7, <2>3 DEF Accept, Offered
  <2>5. Offered' = Offered
    BY <2>1, <2>2, <2>3, <2>4, OfferedIs, OfferedByHand
  <2> QED BY <1>7, <2>5, NothingMoves DEF Accept
<1>8. ASSUME Judge
      PROVE  [AcceptQueueOf!Next]_AcceptQueueOf!vars
  <2>1. UNCHANGED <<m_running, m_listenQueue, taskStatus, taskSocket, backlog,
                    connection>>
    BY <1>8 DEF Judge
  <2>2. CASE InHand /\ ~m_running
    <3>1. backlog = <<>> /\ ~InHand'
      BY <1>8, <2>2 DEF Judge, Rejects, Goes, InHand, BacklogNeedsSocket,
         HandleIsSocket
    <3>2. Offered' = <<>>
      BY <2>1, <3>1 DEF Offered
    <3> QED BY <2>1, <2>2, <3>2, Closing DEF AcceptQueueOf!Withdraw
  <2>3. CASE ~(InHand /\ ~m_running)
    <3>1. InHand' = InHand
      BY <1>8, <2>1, <2>3, ListenerAssumption DEF Judge, Rejects, Goes, InHand
    <3> QED BY <2>1, <3>1, NothingMoves DEF Offered
  <2> QED BY <2>2, <2>3
<1>9. ASSUME Serve
      PROVE  [AcceptQueueOf!Next]_AcceptQueueOf!vars
  <2>1. InHand /\ m_listenQueue # <<>>
    BY <1>9 DEF Serve, InHand, ConnectionInOnePlace, TokensMatch, Holding
  <2>2. ~InHand' /\ UNCHANGED <<m_running, backlog>>
    BY <1>9 DEF Serve, Goes, GoesWhileRunning, InHand
  <2>3. TypeOK /\ TypeOK'
    BY TypeStep
  <2>4. /\ Offered # <<>> /\ Head(Offered) = connection
        /\ Tail(Offered) = backlog
    BY <2>1, <2>3, OfferedByHand
  <2>5. Offered' = backlog
    BY <2>2, <2>3 DEF Offered, TypeOK
  <2>6. AcceptQueueOf!Answer
    BY <1>9, <2>1, <2>2, <2>4, <2>5 DEF Serve, Front, AcceptQueueOf!Answer
  <2> QED BY <2>6 DEF AcceptQueueOf!Next
<1>10. ASSUME StopListen
       PROVE  [AcceptQueueOf!Next]_AcceptQueueOf!vars
  <2>1. backlog' = <<>> /\ ~InHand'
    BY <1>10 DEF StopListen, CloseHandle, BacklogNeedsSocket, HandleIsSocket,
       Goes, InHand
  <2>2. Offered' = <<>>
    BY <2>1 DEF Offered
  <2>3. AcceptQueueOf!Refuse
    BY <1>10 DEF StopListen, FailTasks, Queued, AcceptQueueOf!Refuse
  <2>4. ~m_running' /\ UNCHANGED taskSocket
    BY <1>10 DEF StopListen, ClearRunning
  <2> QED BY <2>2, <2>3, <2>4, Closing DEF AcceptQueueOf!Withdraw
<1>11. ASSUME NEW k \in Conns, Connect(k)
       PROVE  [AcceptQueueOf!Next]_AcceptQueueOf!vars
  <2>1. InHand' = InHand /\ backlog \in Seq(Conns)
          /\ backlog' = Append(backlog, k) /\ connection' = connection
    BY <1>11 DEF Connect, InHand, TypeOK
  <2>2. Offered' = Append(Offered, k)
    <3>1. CASE InHand
      <4>1. connection \in Conns
        BY <3>1 DEF InHand
      <4>2. /\ Offered = <<connection>> \o backlog
            /\ Offered' = <<connection>> \o Append(backlog, k)
        BY <2>1, <3>1 DEF Offered
      <4> QED BY <2>1, <4>1, <4>2, OfferedIs
    <3>2. CASE ~InHand
      <4>1. Offered = <<>> \o backlog /\ Offered' = <<>> \o Append(backlog, k)
        BY <2>1, <3>2 DEF Offered
      <4> QED BY <2>1, <4>1, OfferedIs
    <3> QED BY <3>1, <3>2
  <2>3. AcceptQueueOf!Offer(k)
    BY <1>11, <2>2 DEF Connect, AcceptQueueOf!Offer
  <2> QED BY <2>3 DEF AcceptQueueOf!Next
<1>12. ASSUME UNCHANGED vars
       PROVE  [AcceptQueueOf!Next]_AcceptQueueOf!vars
  BY <1>12, NothingMoves DEF vars, Offered, InHand
<1> QED
  BY <1>1, <1>2, <1>3, <1>4, <1>5, <1>6, <1>7, <1>8, <1>9, <1>10, <1>11,
     <1>12 DEF Next, ThreadStep

(* The listener answers its callers as AcceptQueue does, whatever the      *)
(* number of calls and of connections, and whenever it is stopped.         *)
THEOREM Implements == Spec => IsAcceptQueue
<1>1. Init => AcceptQueueOf!Init
  <2> SUFFICES ASSUME Init PROVE AcceptQueueOf!Init
    OBVIOUS
  <2>1. Offered = <<>>
    BY DEF Init, Offered, InHand
  <2> QED BY <2>1 DEF Init, AcceptQueueOf!Init
<1>2. RInv /\ [Next]_vars => [AcceptQueueOf!Next]_AcceptQueueOf!vars
  BY StepRefines
<1> QED
  BY <1>1, <1>2, RefinementInvariant, PTL
     DEF Spec, IsAcceptQueue, AcceptQueueOf!Spec
=============================================================================
