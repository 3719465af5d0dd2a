\* Two workers and no fault: the older one touches what the newer one saw.
SPECIFICATION Spec
CONSTANTS
  Keys = {k1}
  Vals = {v1}
  Nil = Nil
  Workers = {w1, w2}
  MaxJobs = 2
  MaxClock = 2
  BufCap = 0
  Faults <- NoFaults
PROPERTIES DeletesOnlyAbsent
CHECK_DEADLOCK FALSE
