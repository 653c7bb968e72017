SPECIFICATION GenSpec
CONSTANTS
  Url <- MCUrl
  UrlLen <- MCUrlLen
  MinUrlLen = 2
  MaxUrlLen = 4
  MaxCount = 3
  MaxSize = 30
  Answers <- MCAnswers
  Sizes <- MCSizes
INVARIANTS
  GenTypeOK
  AnswerKept
  SizeReached
PROPERTY
  GenEnds
