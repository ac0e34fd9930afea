CONSTANTS
  Name = {"a", "b", "d", "f", "g", "k", "s", "t", "u", "y"}
  Server <- OnServer
  Disk <- OnDisk
  MaxDepth = 1
  MaxScanned = 3
  Home <- FolderA
  Typed <- TypedPath
  MaxLength = 1
  MaxCalls = 1
  MaxClicks = 1
SPECIFICATION Spec
INVARIANTS QueuedIsSelected
