CONSTANTS
  measure = measure
  j1 = j1
  j2 = j2
  j4 = j4
  Jobs = {j1, j2, j4}
  Pools = {measure}
  NoPool = NoPool
  PoolOf <- MCPoolOf
  Slots <- MCSlots
  MaxQueued = 1
  MaxJobs = 2
  KeepResults = 0
SPECIFICATION FairSpec
INVARIANTS SlotsAccounted ActiveIsKept DrainNamesWhatItAwaited
PROPERTIES AdmittedJobsEnd
CHECK_DEADLOCK FALSE
