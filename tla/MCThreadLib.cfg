SPECIFICATION Spec
CONSTANTS
  Thread = {t0, t1, t2, t3}
  Mutex = {m1, m2}
  Cv = {c1}
  Main = t0
  Host = Host
  NoThread = NoThread
SYMMETRY Sym
INVARIANTS
  TypeOK
  MutualExclusion
  OwnershipIsExact
  OneHome
  BlockedForCause
  StackAlive
  Reclaimed
PROPERTY ImplementsMonitor
