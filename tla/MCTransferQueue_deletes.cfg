CONSTANTS
  LocalPath <- FlatPath
  RemotePath <- FarPath
  Content <- Files
  Above <- NothingAbove
  LinkTo <- NoLinks
  Jobs <- DeleteJobs
  Local0 <- ConflictLocal
  Remote0 <- ConflictRemote
  Foreign = {}
  MaxItems = 3
  MaxEnv = 0
  MaxFrames = 2
SPECIFICATION Spec
INVARIANTS OneRunning LocksFollowRun Tally
PROPERTIES DeleteOnlyConfirmed StopRespected KeepsPromise
CHECK_DEADLOCK FALSE
