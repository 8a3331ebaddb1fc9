SPECIFICATION Spec
CONSTANTS
  Word = {"a", "b", "c", "search", "self"}
  UserFile <- MCUserFile
  Flags <- MCFlags
  Self = "self"
  MaxStarts = 3
  MaxKills = 1
  MaxEdits = 1
  OpenErrors = TRUE
  WriteErrors = TRUE
CHECK_DEADLOCK FALSE
INVARIANTS
  TypeOK
  Restorable
  RestoredAtExit
PROPERTIES
  NeverSelf
  UsersServers
  SignalEnds
