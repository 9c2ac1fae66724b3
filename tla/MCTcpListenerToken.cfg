\* A listen task that keeps waiting while connections come in.
SPECIFICATION FairSpec
CONSTANTS
  k1 = k1
  k2 = k2
  k3 = k3
  Tasks <- MCTasks
  Conns <- MCConns
  NoConn = NoConn
  Foreign = Foreign
  MaxErrors = 1
PROPERTIES
  ConnectionEndsWait
CHECK_DEADLOCK FALSE
