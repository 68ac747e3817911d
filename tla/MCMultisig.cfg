CONSTANTS
  k1 = k1
  k2 = k2
  t1 = t1
  t2 = t2
  f1 = f1
  f2 = f2
  rekeyed = rekeyed
  NoSgnr = NoSgnr
  NoSig = NoSig
  NoBlob = NoBlob
  Key = {k1, k2}
  Txn = {t1, t2}
  File = {f1, f2}
  Preimage <- MCPreimage
  Sender <- MCSender
SPECIFICATION Spec
INVARIANTS TypeOK ValidAreSigned AcceptedIffEnough HonestBlobsMerge
SYMMETRY Symmetry
