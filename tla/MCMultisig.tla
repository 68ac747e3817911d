----------------------------- MODULE MCMultisig -----------------------------
(***************************************************************************)
(* Instances of Multisig for TLC: an account of two keys, one in which a   *)
(* key has two shares, and metadata that no account can have.              *)
(***************************************************************************)
EXTENDS Multisig, TLC

CONSTANTS k1, k2, t1, t2, f1, f2, rekeyed

BothKeys == [version |-> 1, threshold |-> 2, pks |-> <<k1, k2>>]
DoubleKey == [version |-> 1, threshold |-> 2, pks |-> <<k1, k2, k1>>]
TooHigh == [version |-> 1, threshold |-> 3, pks |-> <<k1, k2>>]
OtherVersion == [version |-> 2, threshold |-> 1, pks |-> <<k1>>]

MCPreimage == {BothKeys, DoubleKey, TooHigh, OtherVersion}

\* t1 is sent by the first account, t2 by one that is rekeyed to it.
MCSender == (t1 :> BothKeys) @@ (t2 :> rekeyed)

Symmetry == Permutations(File)
=============================================================================
