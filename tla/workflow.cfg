SPECIFICATION MCSpec
CONSTANTS
  p1 = p1  p2 = p2  a1 = a1  a2 = a2  s1 = s1  s2 = s2
  Process = {p1, p2}
  Artifact = {a1, a2}
  Serial = {s1, s2}
  NoCheckpoint = NoCheckpoint  None = None  Foreign = Foreign  Absent = Absent
  Faults = {"persist", "reject", "interrupt", "crash", "remove"}
  MaxRuns = 3
  MaxSequence = 6
  MaxWorkflows = 2
  Scenarios = {"resumed", "shared", "renamed"}
SYMMETRY Interchangeable
CHECK_DEADLOCK FALSE
INVARIANTS TypeOK EvidenceIsCurrent
PROPERTIES FollowsLineage CompleteHasRun
