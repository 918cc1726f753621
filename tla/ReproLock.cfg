CONSTANTS
  serve = serve
  cli = cli
  t1 = t1
  t2 = t2
  t3 = t3
  Procs = {serve, cli}
  Threads = {t1, t2, t3}
  ProcOf <- MCProcOf
  Names = {ws, ports}
  ws = ws
  ports = ports
  NoThread = NoThread
  HasFlock = TRUE
  MaxDepth = 2
SPECIFICATION FairSpec
INVARIANTS NothingLeaks
PROPERTIES EveryCallAnswered ImplementsMutex
