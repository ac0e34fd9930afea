CONSTANTS
  LocalPath <- FlatPath
  RemotePath <- FarPath
  Content <- Files
  Above <- NothingAbove
  LinkTo <- NoLinks
  Jobs <- LateJobs
  Local0 <- ConflictLocal
  Remote0 <- ConflictRemote
  Foreign = {}
  MaxItems = 3
  MaxEnv = 0
  MaxFrames = 1
SPECIFICATION Spec
PROPERTIES QueueLocked
CHECK_DEADLOCK FALSE
