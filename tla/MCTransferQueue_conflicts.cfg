CONSTANTS
  LocalPath <- FlatPath
  RemotePath <- FarPath
  Content <- Files
  Above <- NothingAbove
  LinkTo <- NoLinks
  Jobs <- ConflictJobs
  Local0 <- ConflictLocal
  Remote0 <- ConflictRemote
  Foreign = {"far", "absent"}
  MaxItems = 2
  MaxEnv = 1
  MaxFrames = 1
SPECIFICATION Spec
INVARIANTS TypeOK Tally DoneIsTrue
PROPERTIES OverwriteOnlyApproved WholeDownloads StopRespected KeepsPromise
CHECK_DEADLOCK FALSE
