CONSTANTS
  LocalPath <- DirPath
  RemotePath <- FarDir
  Content <- Files
  Above <- FolderAbove
  LinkTo <- NoDirLinks
  Jobs <- FolderJobs
  Local0 <- FolderLocal
  Remote0 <- FolderRemote
  Foreign = {"old", "absent", "dir"}
  MaxItems = 2
  MaxEnv = 2
  MaxFrames = 1
SPECIFICATION FairSpec
INVARIANTS DoneIsTrue
PROPERTIES OverwriteOnlyApproved DeleteOnlyConfirmed WholeDownloads RunEnds
CHECK_DEADLOCK FALSE
