\* Two workers on the table; the platform database does not fail.
SPECIFICATION Spec
CONSTANTS
  Keys = {k1, k2}
  Vals = {v1, v2}
  Nil = Nil
  Workers = {w1, w2}
  MaxJobs = 2
  MaxClock = 2
  BufCap = 0
  Faults <- ProcessFaults
SYMMETRY Symmetry
INVARIANTS OneInsertPerKey StatsMatchLog 
PROPERTIES JobsMoveForward
CHECK_DEADLOCK FALSE
