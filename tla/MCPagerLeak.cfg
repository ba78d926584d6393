SPECIFICATION Spec
CONSTANTS
  NoPid = NoPid
  Shell = Shell
  zeroes = zeroes
  text = text
  long = long
  Pid = {p1, p2}
  num_memory_pages = 3
  SwapBlocks = 2
  MAX_PAGE_NUM = 2
  Value = {zeroes, text}
  Zero = zeroes
  Ending = {zeroes, text}
  FileBlock = {0}
  Files <- OneFile
  InitialBacking <- OldZeroes
  ManagedForks = TRUE
SYMMETRY Symmetric
INVARIANTS
  AllSwapReturned
