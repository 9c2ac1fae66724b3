\* Bytes of an earlier request, taken for this one's.
SPECIFICATION MCSpec
CONSTANTS
  Requests <- MCRequests
  Answers <- MCAnswers
  BufferSize = 12
  LimitLine = 4
  LimitHeaderLine = 3
  LimitHeaderFieldCount = 1
  Uninitialised <- MCBlank
  MaxCalls = 2
  Texts <- MCTexts
  Limits = {0, 1}
  CallsBufferSize = 4
INVARIANTS
  AcceptsWhatWasSent
CHECK_DEADLOCK FALSE
