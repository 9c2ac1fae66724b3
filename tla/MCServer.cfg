\* The server with its listener, from start to destruction.
SPECIFICATION FairSpec
CONSTANTS
  k1 = k1
  k2 = k2
  Tasks <- MCTasks
  Conns <- MCConns
  NoConn = NoConn
  Foreign = Foreign
  MaxErrors = 1
  poolMin = 1
INVARIANTS
  TypeOK
  ConnectionsReachThePool
PROPERTIES
  StartIsDecided
  StopOfRunningServerCompletes
  HandleStopEndsListener
  DestructorReturns
\* A server that was destroyed, or waits for a connection, takes no step.
CHECK_DEADLOCK FALSE
