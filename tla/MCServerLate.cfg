SPECIFICATION Spec
CONSTANTS
  Client = {c1, c2}
  Request <- ForwardedRequest
  Hosts <- MCHosts
  Reverse4 <- MCReverse4
  Reverse6 <- MCReverse6
  ChaosNames <- MCChaosNames
  Size <- MCSize
  Capacity = 2
  Ttl = 1
  StaleTtl = 4
  RCacheNonNegative = FALSE
  MaxNow = 3
  NoCall = NoCall
  NoMsg = NoMsg
CHECK_DEADLOCK FALSE
PROPERTY
  PositiveSurvives
