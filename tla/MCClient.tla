------------------------------ MODULE MCClient ------------------------------
(***************************************************************************)
(* Instance of Client for TLC: every class, every builder and every type   *)
(* of transaction; integers are safe up to 3 and uint64 up to 7.           *)
(***************************************************************************)
EXTENDS Client

\* A zero, which a get removes, and what it does not.
SomeAmounts == {Number(0), BigInt(MaxUint64)}
SomeContents == {SomeText}
=============================================================================
