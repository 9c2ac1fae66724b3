\* A request that is longer than the buffer.
SPECIFICATION MCSpec
CONSTANTS
  Requests <- MCRequests
  Answers <- MCAnswers
  BufferSize = 12
  LimitLine = 4
  LimitHeaderLine = 3
  LimitHeaderFieldCount = 1
  Uninitialised <- MCUninitialised
  MaxCalls = 2
  Texts <- MCTexts
  Limits = {0, 1}
  CallsBufferSize = 4
INVARIANTS
  DisconnectedMeansClosed
CHECK_DEADLOCK FALSE
