SPECIFICATION Spec
CONSTANTS
  short = short
  long = long
  none = none
  NoCall = NoCall
  AnswerTtls <- MCAnswerTtls
  Key = {k1, k2}
  Msg = {short}
  Client = {c1, c2}
  Capacity = 3
  Ttl = 1
  StaleTtl = 2
  TtlFromResp = FALSE
  TtlMax = 0
  UintMod = 2
  MaxNow = 4
SYMMETRY Symmetric
CHECK_DEADLOCK FALSE
PROPERTY
  HitRemovesExpired
