SPECIFICATION Spec
CONSTANTS
  short = short
  long = long
  none = none
  NoCall = NoCall
  AnswerTtls <- MCAnswerTtls
  Key = {k1, k2, k3}
  Msg = {long, none}
  Client = {c1, c2}
  Capacity = 3
  Ttl = 1
  StaleTtl = 3
  TtlFromResp = TRUE
  TtlMax = 2
  UintMod = 1
  MaxNow = 4
SYMMETRY Symmetric
CHECK_DEADLOCK FALSE
INVARIANTS
  ServedAge
  TypeOK
  BelowCapacity
  FreshUnlessAsked
PROPERTY
  NeverShortened
