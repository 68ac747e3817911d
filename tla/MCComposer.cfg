CONSTANTS
  t1 = t1
  call1 = call1
  call2 = call2
  s1 = s1
  plain = plain
  withTxn = withTxn
  c1 = c1
  c2 = c2
  Txn = {t1}
  AppCall = {call1, call2}
  Signer = {s1}
  Method = {plain, withTxn}
  TxnArgs <- MCTxnArgs
  CallSlot = {c1, c2}
  MaxGroupSize = 3
  ForeignGroup = ForeignGroup
SPECIFICATION FairSpec
INVARIANTS SignaturesMatchGroup SentWellFormed StatusTruthful
  ExecuteReturnsAllResults Inv MethodCallsIndexAppCalls
PROPERTIES GroupFrozen ImplementsAtomicGroup CallsSettle
CHECK_DEADLOCK TRUE
