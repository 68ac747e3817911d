-------------------------- MODULE MultisigAccount --------------------------
(***************************************************************************)
(* Multisig accounts and what it takes to verify for one                   *)
(* (src/src/multisig.ts).  The address of an account is its preimage, the  *)
(* record of the version, the threshold and the keys: two addresses are    *)
(* the same exactly when these are.  A signature is the record of its key  *)
(* and of the message it signs, for the same reason.                       *)
(***************************************************************************)
EXTENDS Naturals, Sequences, FiniteSets

CONSTANT NoSig   \* the subsig of a key has no s

\* What addressFromMultisigPreImg does not throw on.
ValidPreimage(meta) ==
  /\ meta.version = 1
  /\ meta.threshold # 0
  /\ Len(meta.pks) # 0
  /\ meta.threshold <= Len(meta.pks) /\ meta.threshold <= 255

HasKey(meta, k) == \E i \in DOMAIN meta.pks : meta.pks[i] = k

\* The subsigs that have a signature.
Present(sig) == {i \in DOMAIN sig : sig[i] # NoSig}

\* The subsigs that have a signature of their key for the message.
Valid(meta, sig, message) ==
  {i \in DOMAIN sig : sig[i] = [key |-> meta.pks[i], message |-> message]}

\* Faulty variant of Verified: signatures are counted and not verified.
VerifiedByCount(meta, sig, message, address) ==
  /\ ValidPreimage(meta)
  /\ meta = address
  /\ Cardinality(Present(sig)) >= meta.threshold

\* verifyMultisig
Verified(meta, sig, message, address) ==
  /\ ValidPreimage(meta)
  /\ meta = address
  /\ Cardinality(Present(sig)) >= meta.threshold
  /\ Cardinality(Valid(meta, sig, message)) >= meta.threshold
=============================================================================
