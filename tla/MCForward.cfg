SPECIFICATION MCSpec
CONSTANTS
  MaxNameservers = 2
  MaxStubServers = 2
  MaxDomains = 2
  MaxNdots = 2
  MaxDots = 2
  MaxOdd = 2
  Zone = {z1, z2}
  Default = Default
  None = None
  Failed = Failed
  NoQuestion = NoQuestion
CHECK_DEADLOCK FALSE
INVARIANTS
  TypeOK
  PositiveWins
  LiteralDecides
  RcodeEvidenced
  AnswerLinked
  ResolveOrder
  FallbackOrder
PROPERTIES
  AskedOnce
  Answered
  KeepsPromise
