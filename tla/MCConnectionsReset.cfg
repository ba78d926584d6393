SPECIFICATION FairSpec
CONSTANTS
  c1 = c1 c2 = c2
  Connection = {c1, c2}
  Streams <- PairsOfStreams
  Request <- SomeRequests
  MaxQueue = 1
  MaxUserName = 2
  MaxPathName = 5
  MaxFileName = 2
  MaxFileBlocks = 11
  BlockSize = 2
  AnswerLength = 2
  MaxFailures = 1
PROPERTIES
  ClosedOnceServed
CHECK_DEADLOCK FALSE
