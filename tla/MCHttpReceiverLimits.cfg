\* Lines and fields beyond the documented limits.
SPECIFICATION MCSpec
CONSTANTS
  Requests <- MCRequests
  Answers <- MCAnswers
  BufferSize = 12
  LimitLine = 4
  LimitHeaderLine = 3
  LimitHeaderFieldCount = 1
  Uninitialised <- MCUninitialised
  MaxCalls = 2
  Texts <- MCTexts
  Limits = {0, 1}
  CallsBufferSize = 4
INVARIANTS
  DocumentedLimits
CHECK_DEADLOCK FALSE
