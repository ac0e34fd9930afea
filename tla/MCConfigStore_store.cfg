CONSTANTS
  Names = {"a"}
  MaxCopies = 1
  Targets = {"t1", "t2"}
  Auths = {"password", "key"}
  Values = {"v1"}
  NoRef = NoRef
  Hosts = {h1, h2}
  Prints = {"p1", "p2"}
  DefaultKeep = 2
  Missing = Missing
  Bad = Bad
  Imports <- FromElsewhere
  MaxOps = 4
  MaxDamage = 1
SPECIFICATION Spec
INVARIANTS TypeOK RefsResolve
PROPERTIES NothingLost RestoreUndoes SaveKeepsTheRest
CHECK_DEADLOCK FALSE
