CONSTANTS
  n1 = n1
  n2 = n2
  Node = {n1, n2}
  WaitRounds = 2
  MaxRound = 5
  MaxStatusRound = 2
SPECIFICATION FairSpec
INVARIANTS TypeOK NotGivenUpEarly TimeoutMeansUnconfirmed
PROPERTIES ImplementsPromise Settles
CHECK_DEADLOCK FALSE
