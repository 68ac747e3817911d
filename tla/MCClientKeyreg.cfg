CONSTANTS
  MaxSafeInteger = 3
  MaxUint64 = 7
  Size = 2
  Depth = 2
  MaxSteps = 3
  Amounts <- SomeAmounts
  Contents <- SomeContents
SPECIFICATION Spec
INVARIANT BuiltIsReadAgain
CHECK_DEADLOCK FALSE
