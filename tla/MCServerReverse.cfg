SPECIFICATION Spec
CONSTANTS
  Client = {c1}
  Request <- ReverseRequest
  Hosts <- MCHosts
  Reverse4 <- MCReverse4
  Reverse6 <- MCReverse6
  ChaosNames <- MCChaosNames
  Size <- MCSize
  Capacity = 2
  Ttl = 1
  StaleTtl = 2
  RCacheNonNegative = TRUE
  MaxNow = 1
  NoCall = NoCall
  NoMsg = NoMsg
CHECK_DEADLOCK FALSE
INVARIANT
  OnlyPositiveCached
