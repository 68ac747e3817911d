CONSTANTS
  t1 = t1
  call1 = call1
  call2 = call2
  s1 = s1
  plain = plain
  withTxn = withTxn
  c1 = c1
  c2 = c2
  Txn = {t1}
  AppCall = {call1}
  Signer = {s1}
  Method = {plain, withTxn}
  TxnArgs <- MCTxnArgs
  CallSlot = {c1, c2}
  MaxGroupSize = 2
  ForeignGroup = ForeignGroup
SPECIFICATION Spec
PROPERTIES ExecutionAllowedOnce
