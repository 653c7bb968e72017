SPECIFICATION Spec
CONSTANTS
  Addr = {a1, a2, a3}
  NULL = NULL
  Sizes = {1, 2, 3}
  MaxSize = 4
  MaxFailures = 2
INVARIANTS
  TypeOK
  Accounting
  BlocksTracked
  TeardownReleasesAll
PROPERTY
  GrowthWithinLimit
