\* Two workers and no fault: both insert a row, the loser cannot close its
\* connector.
SPECIFICATION FairSpec
CONSTANTS
  Keys = {k1, k2, k3}
  Vals = {v1}
  Nil = Nil
  Workers = {w1, w2}
  MaxJobs = 2
  MaxClock = 1
  BufCap = 1
  Faults <- NoFaults
PROPERTIES SyncTerminates
CHECK_DEADLOCK FALSE
