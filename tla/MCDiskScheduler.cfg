SPECIFICATION FairSpec
CONSTANTS
  N = 3
  max_disk_queue = 2
  Files <- SmallFiles
INVARIANTS
  TypeOK
  FullMeansFull
  FilesInOrder
PROPERTIES
  ShortestSeekFirst
  Terminates
CHECK_DEADLOCK FALSE
