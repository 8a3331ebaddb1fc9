SPECIFICATION Spec
CONSTANTS
  Label <- MCLabel
  Content <- MCContent
  IPv4 = {"10.0.0.1", "10.0.0.2"}
  IPv6 = {"2001::1"}
  Lower <- MCLower
  OneLetter = {"x"}
  Name <- MCName
  MaxEdits = 2
  ReadErrors = TRUE
CHECK_DEADLOCK FALSE
INVARIANTS
  TypeOK
  LookupMeaning
  ReverseMeaning
  NoLostUpdate
PROPERTY
  PicksUpChanges
