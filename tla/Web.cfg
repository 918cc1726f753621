CONSTANTS
  MaxEvents = 2
  MaxRetries = 2
  Chatter = 4
  QueueMax = 2
  Lines = 5
  Limit = 2
  MaxKeys = 2
  Parts = {"job", "log", "edge", "lab", "events", "audit"}
  BrowsersOf <- MCBrowsersOf
  OptionsOf <- MCOptionsOf
  Unset = Unset
  t1 = t1
  t2 = t2
  t3 = t3
  serve = serve
  cli = cli
  Writers = {t1, t2, t3}
  ProcOf <- MCProcOf
  Cap = 1
  MaxSize = 4
  MAX = 1
  KEEP = 3
SPECIFICATION MCSpec
INVARIANTS GapsAreTold PrintedAddressWorks
PROPERTIES DialogIsTrue StreamsEnd NewestSurvive
CHECK_DEADLOCK FALSE
