\* A column is dropped between two discoveries of one client; nothing fails.
SPECIFICATION Spec
CONSTANTS
  d1 = d1
  d2 = d2
  Tables <- TwoTables
  SchemaOf <- OneNamespace
  Columns <- TwoColumns
  Types <- TwoTypes
  Sizes <- ThreeSizes
  NoColumn = NoColumn
  Keys <- SomeKeys
  NoKey = "none"
  Schemas <- Narrowing
  Clients = {d1}
  MaxCalls = 2
  MaxMigrations = 1
  MaxFaults = 0
  Faults = {}
INVARIANTS ColumnsAreCurrent
CHECK_DEADLOCK FALSE
