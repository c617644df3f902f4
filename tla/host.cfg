SPECIFICATION MCSpec
CONSTANTS
  p1 = p1  p2 = p2  h1 = h1  h2 = h2  k1 = k1  k2 = k2
  g1 = g1  g2 = g2  u1 = u1  u2 = u2  s1 = s1  s2 = s2
  None = None  Absent = Absent  Refused = Refused  Elsewhere = Elsewhere
  Process = {p1, p2}
  MaxDamage = 1
  MaxFaults = 2
  MaxEdits = 1
  MaxMakes = 1
  MaxEvents = 3
  Host = {h1, h2}
  Key = {k1, k2}
  System <- MCSystem
  MaxReinstalls = 1
  MaxCrashes = 1
  Last = 4
  Old = Old
  New = New
  Choices <- MCChoices
  InitialFiles <- MCInitialFiles
  UserValues = {u2}
  Saved = {s2}
  MaxChanges = 1
  MaxSaves = 2
CHECK_DEADLOCK FALSE
INVARIANT RuntimeIsWhole
PROPERTIES BuildsAreTrue RelayIsReported TrustIsKept SettingsSurvive EveryRequestReturns
