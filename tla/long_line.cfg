SPECIFICATION MCSpec
CONSTANTS
  Alphabet = {10, 32, 49, 97}
  FileLen = 5
  LongestLine = 5
  MaxLen = 4
  Counts = {1, 12}
  Files <- MCFiles
INVARIANT
  ReadsUrls
