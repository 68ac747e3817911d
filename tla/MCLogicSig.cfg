CONSTANTS
  k1 = k1
  k2 = k2
  l1 = l1
  l2 = l2
  o1 = o1
  o2 = o2
  Key = {k1, k2}
  Program = {l1, l2}
  Object = {o1, o2}
  NoSig = NoSig
  NoMultisig = NoMultisig
  NoKey = NoKey
  NoAddress = NoAddress
  Preimage <- MCPreimage
SPECIFICATION Spec
INVARIANTS TypeOK VerifiesIffDelegating SignedByDelegating
SYMMETRY Symmetry
