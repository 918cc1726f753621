CONSTANTS
  a = a
  b = b
  maker = maker
  taker = taker
  Names = {a, b}
  Procs = {maker, taker}
  Calls <- MCCalls
  Ports = {1, 2}
  Faults = {"refused"}
  MaxKills = 1
  Free = Free
  Nothing = Nothing
  ann = ann
  bob = bob
  s1 = s1
  s2 = s2
  t1 = t1
  t2 = t2
  c1 = c1
  serve = serve
  cli = cli
  People = {ann, bob}
  Sids = {s1, s2}
  UserOf <- MCUserOf
  Threads = {t1, t2, c1}
  ProcOf <- MCProcOf
  Offers <- MCOffers
  Nobody = Nobody
  Unlocked = Unlocked
  team = team
  chan = chan
  dm = dm
  topic = topic
  Plan <- MCPlan
  Kind <- MCKind
  Parent <- MCParent
  Want = 1
  Outcomes = {"ok", "refused", "lost"}
  MaxPages = 1
  Earlier <- MCEarlier
  Starts = {0, 1, 2, 3, 5, 8}
  Maxima = {2, 7, 16, 40}
  Latencies = {1, 2}
  Rates = {1, 2}
  MaxP95 = 1
  MinRps = 2
  NotMeasured = NotMeasured
  list = list
  prune = prune
  Settings <- MCSettings
  Environment <- MCEnvironment
  Tabs = {list, prune}
  Asks <- MCAsks
  Instances <- MCInstances
  QUERY_TTL = 1
  DOCKER_TTL = 2
  MaxTime = 2
  MaxChanges = 1
SPECIFICATION Spec
INVARIANTS RunningIsServed SeedReportIsTrue CapacityWasMeasured ViewsAreHonest
PROPERTIES ComposeIsRecorded FilesChangeOneByOne SessionsStayEnded
