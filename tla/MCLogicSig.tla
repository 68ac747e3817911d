----------------------------- MODULE MCLogicSig -----------------------------
(***************************************************************************)
(* Instance of LogicSig for TLC: two holders of the keys of an account,    *)
(* of one in which a key is twice, and of metadata that no account has.    *)
(***************************************************************************)
EXTENDS LogicSig, TLC

CONSTANTS k1, k2, l1, l2, o1, o2

BothKeys == [version |-> 1, threshold |-> 2, pks |-> <<k1, k2>>]
DoubleKey == [version |-> 1, threshold |-> 2, pks |-> <<k1, k1, k2>>]
TooHigh == [version |-> 1, threshold |-> 2, pks |-> <<k2>>]
OtherVersion == [version |-> 2, threshold |-> 1, pks |-> <<k1>>]

MCPreimage == {BothKeys, DoubleKey, TooHigh, OtherVersion}

Symmetry == Permutations(Object) \cup Permutations(Program)
=============================================================================
