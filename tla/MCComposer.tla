----------------------------- MODULE MCComposer -----------------------------
(***************************************************************************)
(* Instances of Composer for TLC: one plain transaction, two app calls,    *)
(* one method without and one with a transaction argument.                 *)
(***************************************************************************)
EXTENDS Composer, TLC

CONSTANTS t1, call1, call2, s1, plain, withTxn, c1, c2

MCTxnArgs == (plain :> 0) @@ (withTxn :> 1)
=============================================================================
