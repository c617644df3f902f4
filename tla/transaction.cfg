SPECIFICATION MCSpec
CONSTANTS
  t1 = t1  t2 = t2  t3 = t3  p1 = p1  p2 = p2
  root = root  include = include  moonraker = moonraker
  old = old  gen1 = gen1  gen2 = gen2  edit = edit
  Txn = {t1, t2, t3}
  Process = {p1, p2}
  ProcessOf <- Owner
  Transport <- Transports
  Retry = {t1, t3}
  Files = {root, include, moonraker}
  Root = root
  MoonrakerConf = moonraker
  Bytes = {old, gen1, gen2, edit}
  Absent = Absent  NotSaved = NotSaved  Free = Free
  Managed <- ManagedFiles
  Generated <- GeneratedByRun
  InitialFiles <- Roots
  Faults <- AllFaults
  MaxEdits = 2
  Scenarios = {"one", "two", "mixed"}
CHECK_DEADLOCK FALSE
INVARIANTS TypeOK Serialized Recoverable IncludesBeforeRoot AttemptedWriteReported
PROPERTIES RestartIsVerified  CommitIsActive
