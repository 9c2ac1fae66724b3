\* A stop() that is called while start() is under way is lost.
SPECIFICATION FairSpec
CONSTANTS
  k1 = k1
  k2 = k2
  Tasks <- MCTasks
  Conns <- MCConns
  NoConn = NoConn
  Foreign = Foreign
  MaxErrors = 1
  poolMin = 1
PROPERTIES
  StopIsNotLost
CHECK_DEADLOCK FALSE
