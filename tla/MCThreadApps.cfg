SPECIFICATION AppSpec
CONSTANTS
  Thread = {"parent", "t1", "t2", "t3", "t4", "t5", "t6"}
  Mutex = {"mutex1", "mutex2"}
  Cv = {"cv1"}
  Main = "parent"
  Host = Host
  NoThread = NoThread
  Rounds = 3
  Chosen <- Programs
  Preempted <- AnyTimer
INVARIANTS
  NoLostUpdate
PROPERTIES
  EndsAsWritten
  LockServed
  CpuServed
