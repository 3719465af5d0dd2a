\* Up to four rows through a channel of two, the source failing anywhere.
\* The system stops when the sync has closed its connector.
SPECIFICATION FairSpec
CONSTANTS
  MaxRows = 4
  BufCap = 2
  MayFail = TRUE
INVARIANTS TypeOK NoOtherDeadlock
PROPERTIES Contract WorkShrinks ConnectionReturned
CHECK_DEADLOCK FALSE
