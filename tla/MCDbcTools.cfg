SPECIFICATION Spec
CONSTANTS
  MaxLong = 7
  Headers <- FileHeaders
  Statements <- FileStatements
  MaxStatements = 3
  Buses <- TwoBuses
  Lines <- LogLines
  MaxLines = 4
INVARIANTS CopyKeeps ListingSurvives  MemorySafe LogIsRead
CHECK_DEADLOCK FALSE
