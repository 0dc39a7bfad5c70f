SPECIFICATION Spec
CONSTANTS
  Offered <- MCOffered
  Number <- MCNumber
  MaxInvalid = 2
  Retries = 3
INVARIANTS
  AnswersKept
PROPERTIES
  QuitsOnInterrupt
  ClientEnds
CHECK_DEADLOCK FALSE
