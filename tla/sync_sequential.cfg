\* One worker; only the source database fails.
SPECIFICATION FairSpec
CONSTANTS
  Keys = {k1, k2}
  Vals = {v1, v2}
  Nil = Nil
  Workers = {w1}
  MaxJobs = 3
  MaxClock = 2
  BufCap = 0
  Faults <- SourceFaults
INVARIANTS LogChains
PROPERTIES SyncTerminates
CHECK_DEADLOCK FALSE
