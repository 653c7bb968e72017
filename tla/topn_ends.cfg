SPECIFICATION Spec
CONSTANTS
  Addr = {a1, a2, a3, a4}
  NULL = NULL
  Url <- MCUrl
  UrlLen <- MCUrlLen
  IntMax = 3
  Inputs <- MCInputs
  Limits <- MCLimits
  Faults = {"open", "read", "create", "write", "reread", "recount", "remove", "malloc"}
  Args <- MCArgs
  Mega = 2
  UMax = 15
  Restarts = 0
  Lines = 2
  NumResults = {1}
  MemMb = {1}
PROPERTY
  RunEnds
