SPECIFICATION Spec
CONSTANTS
  NumProviders = 2
  Letters <- MCLetters
  Delimiter <- MCDelimiter
  Codes <- MCCodes
  Null = "0"
  Close = "]"
  Deltas <- MCDeltas
  MaxText = 7
INVARIANTS
  TypeOK
  ShownIsExplanation
  AnswerIsWhole
  QuietAfterLeaving
PROPERTIES
  RequestEnds
CHECK_DEADLOCK FALSE
