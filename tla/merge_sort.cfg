SPECIFICATION MCSpec
CONSTANTS
  Addr = {a1, a2, a3, a4}
  NULL = NULL
  Url <- MCUrl
  UrlLen <- MCUrlLen
  IntMax = 7
  Inputs = {}
  Limits = {2}
  Faults = {"reread", "recount"}
  MaxRows <- MCMaxRows
  MaxCount = 2
  NumResults = {1, 2}
SYMMETRY AddrSymmetry
INVARIANTS
  MergeTypeOK
  StringsLive
  NothingLeaks
  OnePerFile
  TopNKeepsBest
  ResultsBestFirst
