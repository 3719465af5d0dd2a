\* One worker and every fault.
SPECIFICATION Spec
CONSTANTS
  Keys = {k1, k2}
  Vals = {v1, v2}
  Nil = Nil
  Workers = {w1}
  MaxJobs = 2
  MaxClock = 2
  BufCap = 0
  Faults <- AllFaults
SYMMETRY Symmetry
INVARIANTS TypeOK SyncedRunMirrorsSource LogReplays LogChains NoOrphanJobs
PROPERTIES DeletesOnlyAbsent StreamsKeepContract WorkShrinks WatermarkMonotone
CHECK_DEADLOCK FALSE
