SPECIFICATION SortSpec
CONSTANTS
  Addr = {a1, a2, a3, a4}
  NULL = NULL
  Url <- MCUrl
  UrlLen <- MCUrlLen
  IntMax = 7
  Lines = 4
  Inputs <- MCInputs
  Limits = {2, 3, 4}
  Faults = {"open", "read", "create", "write", "malloc"}
SYMMETRY AddrSymmetry
INVARIANTS
  SortTypeOK
  NoNullStore
  UrlsOwnPool
  LoadedWithinLimit
  EntriesWithinLimit
  SpillsSorted
  CountsConserved
