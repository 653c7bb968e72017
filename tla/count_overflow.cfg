SPECIFICATION Spec
CONSTANTS
  Addr = {a1, a2, a3, a4}
  NULL = NULL
  Url <- MCUrl
  UrlLen <- MCUrlLen
  IntMax = 1
  Inputs <- MCInputs
  Limits <- MCLimits
  Faults = {}
  Args <- MCArgs
  Mega = 2
  UMax = 15
  Restarts = 0
  Lines = 3
  NumResults = {1}
  MemMb = {1}
SYMMETRY AddrSymmetry
PROPERTY
  KeepsPromise
