CONSTANTS
  Number <- MCNumber
  Data <- MCData
  Inputs <- MCInputs
  MaxLength = 7
  MaxNesting = 2
  Scale = 100
CHECK_DEADLOCK FALSE
SPECIFICATION Spec
INVARIANTS
  TypeOK
  ValueIsArithmetic
  StackSorted
  ParenthesesSettled
