\* One source, one accepted sync, no fault.
SPECIFICATION Spec
CONSTANTS
  Sources = {s1}
  Tables = {t1}
  Clients = {c1}
  Runs = {r1}
  None = None
  Never = Never
  Faults <- NoFaults
INVARIANT AcceptedSyncsReachTables
CHECK_DEADLOCK FALSE
