CONSTANTS
  serve = serve
  cli = cli
  job1 = job1
  job2 = job2
  up = up
  w1 = w1
  w2 = w2
  NoTask = NoTask
  Nothing = Nothing
  Jobs = {job1, job2}
  Callers = {job1, up}
  Clis = {up}
  ProcOf <- MCProcOf
  Procs = {serve, cli}
  Serves = {serve}
  MaxRuns = 2
  Boxes <- MCBoxes
  Creates <- MCCreates
  Memories = {4700}
  NamesOf <- MCNamesOf
  AsksOf <- MCAsksOf
  SettableOf <- MCSettableOf
  Pairings <- MCPairings
  SidePorts <- MCSidePorts
  MonitorPorts = {6}
  Busy = {1}
  MaxPort = 8
  People <- MCPeople
  Asserting <- MCAsserting
  Roles <- MCRoles
  Unnamed <- MCUnnamed
  Base <- MCBase
  Words <- MCWords
  Shells = {1}
  MaxSpaces = 2
  Crews = {"alone"}
SPECIFICATION MCSpec
PROPERTIES ReadyFinishesUpsSeed
CHECK_DEADLOCK FALSE
