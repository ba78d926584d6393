SPECIFICATION Spec
CONSTANTS
  u = u w = w v1 = v1 v2 = v2 d = d f = f g = g h1 = h1 h2 = h2 h3 = h3
  DiskSize = 7
  MaxFileBlocks = 2
  DirEntries = 2
  User = {u, w}
  NoOwner = NoOwner
  Name = {d, f, g}
  NoName = NoName
  Value = {v1, v2}
  Junk = Junk
  Handler = {h1, h2, h3}
  NoHandler = NoHandler
  Request <- FileRequests
  InitialDisk <- PlainDisk
  MaxRequests = 4
  MaxCrashes = 1
SYMMETRY Symmetry
INVARIANTS
  BlockAccounting
PROPERTIES
  HeldIsStable
  ImplementsFileSystem
