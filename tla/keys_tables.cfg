SPECIFICATION Spec
CONSTANTS
  Cols <- MCCols
  Values <- MCValues
  Null = "null"
  Normal <- MCNormal
  Text <- MCText
  Texts <- MCTexts
  Join <- MCJoin
  Keys <- MCKeys
  Json <- MCJson
  Jsons <- MCJsons
  JsonNull = "null"
  NoJson = "none"
  Reread <- MCReread
  Sources <- MCSources
  MaxChanges = 2
  MaxSyncs = 3
INVARIANTS
  TypeOK
  LiveRowsAreTheSnapshots
  SteadyRowsAreLive
  
  UpdatesNameTheirColumns
CHECK_DEADLOCK FALSE
