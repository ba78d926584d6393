SPECIFICATION Spec
CONSTANTS
  NoPid = NoPid
  Shell = Shell
  zeroes = zeroes
  text = text
  long = long
  Pid = {p1, p2}
  num_memory_pages = 3
  SwapBlocks = 2
  MAX_PAGE_NUM = 3
  Value = {zeroes, long}
  Zero = zeroes
  Ending = {zeroes}
  FileBlock = {0}
  Files <- LongName
  InitialBacking <- OldLong
  ManagedForks = FALSE
SYMMETRY Symmetric
INVARIANTS
  TypeOK
  PagesPartitioned
  ProtectionFollows
  PeersExact
  DirtyBits
  SwapConserved
  RetrySucceeds
PROPERTIES
  ImplementsAddressSpace
