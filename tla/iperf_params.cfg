SPECIFICATION Spec
CONSTANTS
  Options <- MCOptions
  ServerOptions <- MCServerOptions
  MSS = {0, 536}
  Infinities <- MCInfinities
  MAX_ARGC = 3
  MAX_OPTIONS = 4
INVARIANTS
  ParamsTypeOK
  OrderDoesNotMatter
  ModesMatch
  SameTest
  AdmittedByOwnToken
CHECK_DEADLOCK FALSE
