\* Every tool once, with up to two changes by others before or between its reads.
SPECIFICATION Spec
CONSTANTS
  Scenarios <- MCScenarios
  Order <- MCOrder
  MaxDrift = 2
  MaxInt = 7
  DefaultLimit = 2
INVARIANTS
  TypeOK
  LastingAnswered
  AnswerFits
  UsageExact
  WalkMeetsAll
  PanicsOnlyOnOverflow
  IInv
CHECK_DEADLOCK FALSE
