SPECIFICATION FairSpec
CONSTANTS
  c1 = c1 c2 = c2
  Connection = {c1, c2}
  Streams <- SomeStreams
  Request <- SomeRequests
  MaxQueue = 1
  MaxUserName = 2
  MaxPathName = 5
  MaxFileName = 2
  MaxFileBlocks = 11
  BlockSize = 2
  AnswerLength = 2
  MaxFailures = 1
INVARIANTS
  OnlyLegalRequests
  RequestsUnderstood
  WholeBlocks
PROPERTIES
  EveryConnectionClosed
CHECK_DEADLOCK FALSE
