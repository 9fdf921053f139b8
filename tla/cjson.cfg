SPECIFICATION Spec
CONSTANTS
  CELLS = 6
  Static <- MCStatic
  Broken <- MCBroken
  NAN = 999
  PRECISION = 2
  INV_EPSILON = 100
  LLONG_MIN <- MCMin
  LLONG_MAX = 103
  CJSON_NESTING_LIMIT = 2
  Numbers = {101, 105, 999}
  Documents <- MCDocuments
  MAX_CALLS = 4
INVARIANTS
  ListsWellFormed
  OwnedOnce
  ReadsBack
  CompareIsEquality
  CopiesAreEqual
  StringsReadBack
CHECK_DEADLOCK FALSE
