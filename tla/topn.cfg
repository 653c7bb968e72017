SPECIFICATION Spec
CONSTANTS
  Addr = {a1, a2, a3, a4}
  NULL = NULL
  Url <- MCUrl
  UrlLen <- MCUrlLen
  IntMax = 7
  Inputs <- MCInputs
  Limits <- MCLimits
  Faults = {"open", "create", "write", "remove", "malloc"}
  Args <- MCArgs
  Mega = 3
  UMax = 15
  Restarts = 1
  Lines = 3
  NumResults = {0, 1, 2}
  MemMb = {1}
SYMMETRY AddrSymmetry
INVARIANTS
  LossesReported
PROPERTIES
  KeepsPromise
  StagesMeet
  OwnSpillsOnly
