CONSTANTS
  LocalPath <- FlatPath
  RemotePath <- FarPath
  Content <- Files
  Above <- NothingAbove
  LinkTo <- LinkAToB
  Jobs <- LinkJobs
  Local0 <- LinkLocal
  Remote0 <- ConflictRemote
  Foreign = {}
  MaxItems = 2
  MaxEnv = 0
  MaxFrames = 1
SPECIFICATION Spec
INVARIANTS DoneIsTrue
CHECK_DEADLOCK FALSE
