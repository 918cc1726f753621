CONSTANTS
  serve = serve
  cli = cli
  Serves = {serve}
  Clis = {cli}
  Ops <- JustLoadTests
  HasProc = TRUE
  Flaky <- NeverFlaky
  MayDie = TRUE
  MaxRuns = 2
  MaxInc = 2
SPECIFICATION Spec
PROPERTIES RecoverySparesLoadTests
CHECK_DEADLOCK FALSE
