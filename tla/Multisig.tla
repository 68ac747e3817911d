------------------------------ MODULE Multisig ------------------------------
(***************************************************************************)
(* Multisignature transaction blobs (src/src/multisigSigning.ts) passed    *)
(* between the holders of the keys of a multisig account, who create,      *)
(* sign, append to and merge them in any order, on copies that may be old  *)
(* or double, until verifyMultisig (src/src/multisig.ts) accepts one.      *)
(***************************************************************************)
EXTENDS MultisigAccount

CONSTANTS
  Key,       \* key pairs, each held by somebody
  Txn,       \* transactions
  Preimage,  \* metadata [version, threshold, pks] that callers pass in
  Sender,    \* the sender of each transaction, a preimage or else
  File,      \* places where a blob is kept
  NoSgnr,    \* sgnr is undefined
  NoBlob     \* nothing has been written to the file

Signature == [key : Key, message : Txn]

Blob ==
  {b \in [txn : Txn, meta : Preimage, sgnr : Preimage \cup {NoSgnr},
          sig : Seq(Signature \cup {NoSig})] : Len(b.sig) = Len(b.meta.pks)}

ASSUME ConstantsAssumption ==
  /\ Preimage \subseteq [version : Nat, threshold : Nat, pks : Seq(Key)]
  /\ DOMAIN Sender = Txn
  /\ NoSig \notin Signature
  /\ NoSgnr \notin Preimage
  /\ NoBlob \notin Blob

VARIABLES
  file,    \* the blob in every file
  signed   \* history: the keys whose holders signed what the file holds

vars == <<file, signed>>

-----------------------------------------------------------------------------
(* The functions of multisigSigning.ts, on decoded blobs *)

\* createMultisigTransaction
Created(t, meta) ==
  [txn  |-> t,
   meta |-> meta,
   sgnr |-> IF Sender[t] = meta THEN NoSgnr ELSE meta,
   sig  |-> [i \in DOMAIN meta.pks |-> NoSig]]

\* Faulty variant of WithSignature: only the first subsig of the key gets s.
WithFirstSignature(t, meta, k, s) ==
  [Created(t, meta) EXCEPT !.sig =
     [i \in DOMAIN meta.pks |->
        IF meta.pks[i] = k /\ \A j \in 1 .. i - 1 : meta.pks[j] # k
          THEN s ELSE NoSig]]

\* createMultisigTransactionWithSignature: the signature goes to every subsig
\* of the key.
WithSignature(t, meta, k, s) ==
  [Created(t, meta) EXCEPT !.sig =
     [i \in DOMAIN meta.pks |-> IF meta.pks[i] = k THEN s ELSE NoSig]]

\* partialSignTxn: the signature of the holder of the key.
PartiallySigned(t, meta, k) == WithSignature(t, meta, k, [key |-> k, message |-> t])

\* Faulty variant of SubsigsAgree: equal signatures count as a mismatch.
SubsigsApart(b, c) ==
  \A i \in DOMAIN b.sig : b.sig[i] = NoSig \/ c.sig[i] = NoSig

SubsigsAgree(b, c) ==
  \A i \in DOMAIN b.sig :
    b.sig[i] = NoSig \/ c.sig[i] = NoSig \/ b.sig[i] = c.sig[i]

\* Faulty variant of SameTransaction: the identifiers are not compared.
AnyTransaction(b, c) == TRUE

SameTransaction(b, c) == b.txn = c.txn

\* What a turn of the loop of mergeMultisigTransactions does not throw on.
Mergeable(b, c) ==
  /\ SameTransaction(b, c)
  /\ b.sgnr = c.sgnr
  /\ b.meta = c.meta
  /\ SubsigsAgree(b, c)

\* Faulty variant of Merged: the subsigs are put behind each other.
MergedByAppending(b, c) == [b EXCEPT !.sig = b.sig \o c.sig]

Merged(b, c) ==
  [b EXCEPT !.sig =
     [i \in DOMAIN b.sig |-> IF c.sig[i] # NoSig THEN c.sig[i] ELSE b.sig[i]]]

ValidSubsigs(b) == Valid(b.meta, b.sig, b.txn)

-----------------------------------------------------------------------------
(* The holders of the keys.  A function that throws writes no blob. *)

Write(f, blob, keys) ==
  /\ file' = [file EXCEPT ![f] = blob]
  /\ signed' = [signed EXCEPT ![f] = keys]

Create(f, t, meta) ==
  /\ ValidPreimage(meta)
  /\ Write(f, Created(t, meta), {})

\* signMultisigTransaction
Sign(f, t, meta, k) ==
  /\ ValidPreimage(meta)
  /\ HasKey(meta, k)
  /\ Write(f, PartiallySigned(t, meta, k), {k})

\* appendSignMultisigTransaction: the holder passes the metadata in again, and
\* the result goes to the same or to another file.
AppendSign(f, g, meta, k) ==
  /\ file[f] # NoBlob
  /\ ValidPreimage(meta)
  /\ HasKey(meta, k)
  /\ LET partial == PartiallySigned(file[f].txn, meta, k)
     IN  /\ Mergeable(file[f], partial)
         /\ Write(g, Merged(file[f], partial), signed[f] \cup {k})

\* appendSignRawMultisigSignature: whatever has the length of a signature is
\* taken for one by the key.
AppendSignRaw(f, g, meta, k, s) ==
  /\ file[f] # NoBlob
  /\ ValidPreimage(meta)
  /\ HasKey(meta, k)
  /\ LET partial == WithSignature(file[f].txn, meta, k, s)
         own == [key |-> k, message |-> file[f].txn]
     IN  /\ Mergeable(file[f], partial)
         /\ Write(g, Merged(file[f], partial),
                  IF s = own THEN signed[f] \cup {k} ELSE signed[f])

\* mergeMultisigTransactions of two blobs.
Merge(f, g, h) ==
  /\ file[f] # NoBlob
  /\ file[g] # NoBlob
  /\ Mergeable(file[f], file[g])
  /\ Write(h, Merged(file[f], file[g]), signed[f] \cup signed[g])

\* The signer of a multisig account that has several of its keys merges the
\* blobs that each of them signs, one after the other.
SignWithKeys(f, t, meta, ks) ==
  /\ ValidPreimage(meta)
  /\ \A k \in ks : HasKey(meta, k)
  /\ Write(f, [Created(t, meta) EXCEPT !.sig =
                 [i \in DOMAIN meta.pks |->
                    IF meta.pks[i] \in ks
                      THEN [key |-> meta.pks[i], message |-> t] ELSE NoSig]], ks)

Init ==
  /\ file = [f \in File |-> NoBlob]
  /\ signed = [f \in File |-> {}]

Next ==
  \E f, g \in File :
    \/ \E t \in Txn, meta \in Preimage :
         \/ Create(f, t, meta)
         \/ \E k \in Key : Sign(f, t, meta, k)
         \/ \E ks \in SUBSET Key \ {{}} : SignWithKeys(f, t, meta, ks)
    \/ \E meta \in Preimage, k \in Key :
         \/ AppendSign(f, g, meta, k)
         \/ \E s \in Signature : AppendSignRaw(f, g, meta, k, s)
    \/ \E h \in File : Merge(f, g, h)

Spec == Init /\ [][Next]_vars

-----------------------------------------------------------------------------
(* Properties *)

\* Every file holds a blob with one subsig for each key of its preimage.
TypeOK ==
  /\ file \in [File -> Blob \cup {NoBlob}]
  /\ signed \in [File -> SUBSET Key]

Written == {f \in File : file[f] # NoBlob}

\* The subsigs of the keys whose holders signed.
Shares(f) == {i \in DOMAIN file[f].meta.pks : file[f].meta.pks[i] \in signed[f]}

\* However blobs are copied, appended to and merged, a blob has a valid
\* signature in every subsig of every holder that signed it, and in no other:
\* nothing is lost and no signature of another transaction counts.
ValidAreSigned == \A f \in Written : ValidSubsigs(file[f]) = Shares(f)

\* verifyMultisig accepts a blob for its account exactly when the holders
\* that signed it have enough shares; for no other account does it accept it.
AcceptedIffEnough ==
  \A f \in Written, meta \in Preimage :
    Verified(file[f].meta, file[f].sig, file[f].txn, meta) <=>
      meta = file[f].meta /\ Cardinality(Shares(f)) >= meta.threshold

\* Two blobs of one transaction and one account that hold only signatures of
\* their holders can always be merged.
HonestBlobsMerge ==
  \A f, g \in Written :
    /\ file[f].txn = file[g].txn
    /\ file[f].meta = file[g].meta
    /\ \A h \in {f, g} : Present(file[h].sig) = ValidSubsigs(file[h])
    => Mergeable(file[f], file[g])
=============================================================================
