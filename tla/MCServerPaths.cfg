SPECIFICATION Spec
CONSTANTS
  Client = {c1, c2}
  Request <- PathRequest
  Hosts <- MCHosts
  Reverse4 <- MCReverse4
  Reverse6 <- MCReverse6
  ChaosNames <- MCChaosNames
  Size <- MCSize
  Capacity = 2
  Ttl = 1
  StaleTtl = 2
  RCacheNonNegative = TRUE
  MaxNow = 2
  NoCall = NoCall
  NoMsg = NoMsg
CHECK_DEADLOCK FALSE
INVARIANTS
  TypeOK
  AnswersTheQuestion
  NegativesOnlyReverse
PROPERTY
  EveryRequestAnswered
