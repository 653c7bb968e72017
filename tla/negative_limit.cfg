SPECIFICATION Spec
CONSTANTS
  Addr = {a1, a2, a3, a4}
  NULL = NULL
  Url <- MCUrl
  UrlLen <- MCUrlLen
  IntMax = 7
  Inputs <- MCInputs
  Limits <- MCLimits
  Faults = {}
  Args <- MCArgs
  Mega = 2
  UMax = 15
  Restarts = 0
  Lines = 2
  NumResults = {1}
  MemMb <- SignedMb
SYMMETRY AddrSymmetry
INVARIANT
  OnlyLegalLimits
