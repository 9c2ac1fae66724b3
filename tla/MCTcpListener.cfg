\* The listener through start, listen, accept, stop and destruction.
SPECIFICATION FairSpec
CONSTANTS
  k1 = k1
  k2 = k2
  k3 = k3
  Tasks <- MCTasks
  Conns <- MCConns
  NoConn = NoConn
  Foreign = Foreign
  MaxErrors = 1
INVARIANTS
  TypeOK
  AcceptFindsTask
  PendingTasksAreQueued
  ClosedOnce
  ExitLeavesNothing
PROPERTIES
  IsAcceptQueue
  StopCompletes
  TasksAreServed
\* A listener that was destroyed, or waits for a caller, takes no step.
CHECK_DEADLOCK FALSE
