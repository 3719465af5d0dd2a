\* Three requests at a time, every fault.
SPECIFICATION Spec
CONSTANTS
  Files = {f1, f2}
  Clients = {c1, c2, c3}
  NoFile = NoFile
  MaxCalls = 5
  Faults <- AllFaults
SYMMETRY Symmetry
INVARIANTS TypeOK AckedFilesAreStored DeletedOnce NoOrphanBlobs LiveRecordsHaveObjects
CHECK_DEADLOCK FALSE
