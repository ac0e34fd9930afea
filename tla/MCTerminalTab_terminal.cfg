CONSTANTS
  Sizes = {"narrow", "wide"}
  NoSize = "none"
  FirstSize = "80x24"
  MaxInput = 3
  MaxRuns = 2
SPECIFICATION FairSpec
INVARIANTS TypeOK InputInOrder SizeFollows InputReachesWorker ReconnectStarts
PROPERTIES StopEnds CloseIsClean
CHECK_DEADLOCK FALSE
