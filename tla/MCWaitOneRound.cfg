CONSTANTS
  n1 = n1
  n2 = n2
  Node = {n1}
  WaitRounds = 1
  MaxRound = 4
  MaxStatusRound = 2
SPECIFICATION Spec
INVARIANTS TimeoutMeansUnconfirmed
CHECK_DEADLOCK FALSE
