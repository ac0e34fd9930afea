CONSTANTS
  Names = {"a", "b"}
  MaxCopies = 0
  Targets = {"t1", "t2"}
  Auths = {"password"}
  Values = {"v1", "v2"}
  NoRef = NoRef
  Hosts = {h1}
  Prints = {"p1"}
  DefaultKeep = 2
  Missing = Missing
  Bad = Bad
  Imports = {}
  MaxOps = 3
  MaxDamage = 0
SPECIFICATION Spec
PROPERTIES SaveKeepsSecrets
CHECK_DEADLOCK FALSE
