------------------------ MODULE MCSharedTransactions ------------------------
(***************************************************************************)
(* Instance of SharedTransactions for TLC: two composers, that may be      *)
(* clones of each other, groups of two and four Transaction objects.       *)
(***************************************************************************)
EXTENDS SharedTransactions, TLC

CONSTANTS x, y, a, b

Symmetry == Permutations(Content) \cup Permutations(Composers)
=============================================================================
