\* Two discoveries at a time, every fault.
SPECIFICATION Spec
CONSTANTS
  d1 = d1
  d2 = d2
  Tables <- TwoTables
  SchemaOf <- OneNamespace
  Columns <- TwoColumns
  Types <- TwoTypes
  Sizes <- ThreeSizes
  NoColumn = NoColumn
  Keys <- SomeKeys
  NoKey = "none"
  Schemas <- TwoSchemas
  Clients = {d1, d2}
  MaxCalls = 3
  MaxMigrations = 1
  MaxFaults = 1
  Faults <- AllFaults
SYMMETRY Symmetry
INVARIANTS TypeOK CatalogIsClosed DiscoveredIsComplete CatalogRepaired 
CHECK_DEADLOCK FALSE
