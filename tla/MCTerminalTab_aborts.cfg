CONSTANTS
  Sizes = {"wide"}
  NoSize = "none"
  FirstSize = "80x24"
  MaxInput = 1
  MaxRuns = 1
SPECIFICATION Spec
INVARIANTS NeverAborts
CHECK_DEADLOCK FALSE
