CONSTANTS
  p1 = p1
  p2 = p2
  p3 = p3
  Nobody = Nobody
  Procs = {p1, p2, p3}
  Clis = {p2, p3}
  Ops <- MCOps
  MaxVersion = 2
  Flaky <- MCFlaky
  MayDie = TRUE
  MaxServes = 1
SPECIFICATION Spec
INVARIANTS StoppedIsNoted LostDataIsNoted DumpsAreQuiet RecordTellsTheTruth
PROPERTY RollbackRestores
CHECK_DEADLOCK FALSE
