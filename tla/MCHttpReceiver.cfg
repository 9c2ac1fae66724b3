\* Two requests in a row, under every segmentation; every sequence of calls
\* of a buffer's functions.
SPECIFICATION FairSpec
CONSTANTS
  Requests <- MCRequests
  Answers <- MCAnswers
  BufferSize = 12
  LimitLine = 4
  LimitHeaderLine = 3
  LimitHeaderFieldCount = 1
  Uninitialised <- MCUninitialised
  MaxCalls = 2
  Texts <- MCTexts
  Limits = {0, 1}
  CallsBufferSize = 4
INVARIANTS
  TypesOK
  AcceptedAsSent
  RefusedForSplitEndOnly
  OneBeyondAtMost
  AnsweredAsHandled
  OnlyMixedSearchesGoAstray
PROPERTIES
  IsByteQueue
  WorkerIsFreed
  EarlierBytesOnlyAtLineEnd
\* A receiver waits for a peer that sends nothing more, or for the next call.
CHECK_DEADLOCK FALSE
