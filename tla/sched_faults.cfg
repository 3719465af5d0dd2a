\* Two sources, two requests at a time, every fault.
SPECIFICATION Spec
CONSTANTS
  Sources = {s1, s2}
  Tables = {t1, t2}
  Clients = {c1, c2}
  Runs = {r1}
  None = None
  Never = Never
  Faults <- AllFaults
SYMMETRY Symmetry
INVARIANTS TypeOK EntriesMatchCron ScheduledExist EnabledAreScheduled
PROPERTY LastSyncCoversSource
