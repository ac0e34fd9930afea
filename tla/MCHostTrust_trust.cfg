CONSTANTS
  Types = {"rsa", "ed25519"}
  Prints = {"p1", "p2"}
  Unreadable <- Unavailable
  Stored0 = {}
  Legacy0 <- OlderForm
  Backups0 = {}
  Imports <- FromFriend
  MaxBackups = 1
  MaxChanges = 1
  MaxTabs = 1
  MaxDamage = 1
SPECIFICATION Spec
INVARIANTS TypeOK SecretOnlyToAccepted StoredOnlyIfTold
PROPERTIES TrustKeepsTheRest
