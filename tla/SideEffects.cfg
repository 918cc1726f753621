CONSTANTS
  serve = serve
  cli = cli
  Serves = {serve}
  Clis = {cli}
  Ops <- MCOps
  HasProc = TRUE
  Flaky <- MCFlaky
  MayDie = TRUE
  MaxRuns = 2
  MaxInc = 2
SPECIFICATION Spec
INVARIANTS SettingsAreRecorded PredecessorsAreCleared
PROPERTIES NotesGoInTime
CHECK_DEADLOCK FALSE
