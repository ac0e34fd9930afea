CONSTANTS
  Name = {"a", "b", "d", "f", "g", "k", "s", "t", "u", "y"}
  Server <- OnServer
  Disk <- OnDisk
  MaxDepth = 1
  MaxScanned = 3
  Home <- TopFolder
  Typed <- TypedPath
  MaxLength = 1
  MaxCalls = 2
  MaxClicks = 2
SPECIFICATION Spec
INVARIANTS TypeOK RowsMatchPath ParentFirst WithinLimit WholeOrReported
