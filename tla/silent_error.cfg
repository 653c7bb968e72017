SPECIFICATION Spec
CONSTANTS
  Addr = {a1, a2, a3, a4}
  NULL = NULL
  Url <- MCUrl
  UrlLen <- MCUrlLen
  IntMax = 7
  Inputs <- MCInputs
  Limits <- MCLimits
  Faults = {"read", "reread", "recount", "remove"}
  Args <- MCArgs
  Mega = 2
  UMax = 15
  Restarts = 0
  Lines = 2
  NumResults = {1}
  MemMb = {1}
SYMMETRY AddrSymmetry
INVARIANT
  ErrorsReported
