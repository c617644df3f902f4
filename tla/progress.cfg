SPECIFICATION MCSpec
CONSTANTS
  t1 = t1  t2 = t2  p1 = p1  p2 = p2
  root = root  include = include  moonraker = moonraker
  old = old  gen1 = gen1  gen2 = gen2
  NotSaved = NotSaved  Free = Free  NoFile = NoFile
  NoCheckpoint = NoCheckpoint  Foreign = Foreign  a1 = a1  s1 = s1
  None = None  Refused = Refused  NoResult = NoResult  boot = boot  card = card
  Parts = {"transaction", "workflow", "wizard"}
CHECK_DEADLOCK FALSE
PROPERTIES TransactionEnds VerificationAnswers AnsweringFinishes
