--------------------------- MODULE MultisigProofs ---------------------------
(***************************************************************************)
(* Proofs about Multisig, for any keys, accounts, transactions and files:  *)
(* the valid signatures of a blob are those of the holders that signed it, *)
(* verifyMultisig accepts exactly the blobs with enough of them, and blobs *)
(* that hold only signatures of their holders can be merged.               *)
(***************************************************************************)
EXTENDS Multisig, FiniteSetTheorems, TLAPS

\* Only accounts that addressFromMultisigPreImg accepts have blobs.
MetaValid == \A f \in Written : ValidPreimage(file[f].meta)

IInv == TypeOK /\ MetaValid /\ ValidAreSigned

-----------------------------------------------------------------------------
(* What the functions return *)

LEMMA PreimageType ==
  ASSUME NEW meta \in Preimage
  PROVE  /\ meta.threshold \in Nat
         /\ meta.pks \in Seq(Key)
         /\ DOMAIN meta.pks = 1 .. Len(meta.pks)
         /\ Len(meta.pks) \in Nat
  <1>1. meta \in [version : Nat, threshold : Nat, pks : Seq(Key)]
    BY ConstantsAssumption
  <1> QED  BY <1>1

LEMMA WithSignatureBlob ==
  ASSUME NEW t \in Txn, NEW meta \in Preimage, NEW k \in Key,
         NEW s \in Signature
  PROVE  /\ WithSignature(t, meta, k, s) \in Blob
         /\ WithSignature(t, meta, k, s).txn = t
         /\ WithSignature(t, meta, k, s).meta = meta
         /\ ValidSubsigs(WithSignature(t, meta, k, s)) =
              IF s = [key |-> k, message |-> t]
                THEN {i \in DOMAIN meta.pks : meta.pks[i] = k} ELSE {}
  <1> DEFINE q == [i \in DOMAIN meta.pks |-> IF meta.pks[i] = k THEN s ELSE NoSig]
             b == WithSignature(t, meta, k, s)
  <1>1. q \in Seq(Signature \cup {NoSig}) /\ Len(q) = Len(meta.pks)
    BY PreimageType
  <1>2. b = [txn |-> t, meta |-> meta,
             sgnr |-> IF Sender[t] = meta THEN NoSgnr ELSE meta, sig |-> q]
    BY DEF WithSignature, Created
  <1>3. b \in Blob
    BY ONLY <1>1, <1>2, t \in Txn, meta \in Preimage DEF Blob
  <1>4. b.txn = t /\ b.meta = meta /\ b.sig = q
    BY ONLY <1>2
  <1>5. \A i \in DOMAIN meta.pks :
          q[i] = [key |-> meta.pks[i], message |-> t] <=>
            meta.pks[i] = k /\ s = [key |-> k, message |-> t]
    <2> SUFFICES ASSUME NEW i \in DOMAIN meta.pks
                 PROVE  q[i] = [key |-> meta.pks[i], message |-> t] <=>
                          meta.pks[i] = k /\ s = [key |-> k, message |-> t]
      OBVIOUS
    <2>1. [key |-> meta.pks[i], message |-> t] \in Signature
      BY PreimageType DEF Signature
    <2>2. [key |-> meta.pks[i], message |-> t] # NoSig
      BY <2>1, ConstantsAssumption
    <2> QED  BY <2>2
  <1>6. ValidSubsigs(b) = {i \in DOMAIN meta.pks : q[i] = [key |-> meta.pks[i], message |-> t]}
    BY <1>4 DEF ValidSubsigs, Valid
  <1> HIDE DEF q, b
  <1>7. ValidSubsigs(b) = IF s = [key |-> k, message |-> t]
                     THEN {i \in DOMAIN meta.pks : meta.pks[i] = k} ELSE {}
    BY ONLY <1>5, <1>6
  <1> QED  BY <1>3, <1>4, <1>7 DEF b

LEMMA CreatedBlob ==
  ASSUME NEW t \in Txn, NEW meta \in Preimage
  PROVE  /\ Created(t, meta) \in Blob
         /\ Created(t, meta).txn = t
         /\ Created(t, meta).meta = meta
         /\ ValidSubsigs(Created(t, meta)) = {}
  <1> DEFINE q == [i \in DOMAIN meta.pks |-> NoSig]
             b == Created(t, meta)
  <1>1. q \in Seq(Signature \cup {NoSig}) /\ Len(q) = Len(meta.pks)
    BY PreimageType
  <1>2. b = [txn |-> t, meta |-> meta,
             sgnr |-> IF Sender[t] = meta THEN NoSgnr ELSE meta, sig |-> q]
    BY DEF Created
  <1>3. b \in Blob
    BY ONLY <1>1, <1>2, t \in Txn, meta \in Preimage DEF Blob
  <1>4. b.txn = t /\ b.meta = meta /\ b.sig = q
    BY ONLY <1>2
  <1>5. ASSUME NEW i \in DOMAIN meta.pks
        PROVE  NoSig # [key |-> meta.pks[i], message |-> t]
    <2>1. [key |-> meta.pks[i], message |-> t] \in Signature
      BY PreimageType DEF Signature
    <2> QED  BY <2>1, ConstantsAssumption
  <1> QED  BY <1>3, <1>4, <1>5 DEF ValidSubsigs, Valid

LEMMA MergedBlob ==
  ASSUME NEW b \in Blob, NEW c \in Blob, Mergeable(b, c)
  PROVE  /\ Merged(b, c) \in Blob
         /\ Merged(b, c).txn = b.txn
         /\ Merged(b, c).meta = b.meta
         /\ ValidSubsigs(Merged(b, c)) = ValidSubsigs(b) \cup ValidSubsigs(c)
  <1> DEFINE D == 1 .. Len(b.sig)
             q == [i \in D |-> IF c.sig[i] # NoSig THEN c.sig[i] ELSE b.sig[i]]
             m == Merged(b, c)
  <1>1. /\ b.meta \in Preimage /\ b.txn \in Txn
        /\ b.sig \in Seq(Signature \cup {NoSig})
        /\ c.sig \in Seq(Signature \cup {NoSig})
        /\ Len(b.sig) = Len(b.meta.pks) /\ Len(c.sig) = Len(c.meta.pks)
    BY DEF Blob
  <1>2. c.txn = b.txn /\ c.meta = b.meta /\ SubsigsAgree(b, c)
    BY DEF Mergeable, SameTransaction
  <1>3. /\ DOMAIN b.sig = D /\ DOMAIN c.sig = D
        /\ Len(b.sig) \in Nat /\ DOMAIN b.meta.pks = D
    BY <1>1, <1>2, PreimageType
  <1>4. m = [b EXCEPT !.sig = q]
    BY <1>3 DEF Merged
  <1>5. q \in Seq(Signature \cup {NoSig}) /\ Len(q) = Len(b.sig)
    BY <1>1, <1>2, <1>3
  <1>6. /\ m \in Blob /\ m.txn = b.txn /\ m.meta = b.meta /\ m.sig = q
    <2>1. b \in [txn : Txn, meta : Preimage, sgnr : Preimage \cup {NoSgnr},
                 sig : Seq(Signature \cup {NoSig})]
      BY DEF Blob
    <2> HIDE DEF q, m
    <2>2. /\ m \in [txn : Txn, meta : Preimage, sgnr : Preimage \cup {NoSgnr},
                    sig : Seq(Signature \cup {NoSig})]
          /\ m.txn = b.txn /\ m.meta = b.meta /\ m.sig = q
      BY ONLY <2>1, <1>4, <1>5
    <2> QED  BY ONLY <2>2, <1>1, <1>5 DEF Blob
  <1>7. \A i \in D : [key |-> b.meta.pks[i], message |-> b.txn] # NoSig
    <2> SUFFICES ASSUME NEW i \in D
                 PROVE  [key |-> b.meta.pks[i], message |-> b.txn] # NoSig
      OBVIOUS
    <2>1. b.meta.pks[i] \in Key
      BY <1>1, <1>3, PreimageType
    <2>2. [key |-> b.meta.pks[i], message |-> b.txn] \in Signature
      BY <1>1, <2>1 DEF Signature
    <2> QED  BY <2>2, ConstantsAssumption
  <1> DEFINE own == [i \in D |-> [key |-> b.meta.pks[i], message |-> b.txn]]
  <1>8. /\ ValidSubsigs(b) = {i \in D : b.sig[i] = own[i]}
        /\ ValidSubsigs(c) = {i \in D : c.sig[i] = own[i]}
        /\ ValidSubsigs(m) = {i \in D : q[i] = own[i]}
    <2>1. DOMAIN q = D
      OBVIOUS
    <2>2. ValidSubsigs(m) = {i \in D : q[i] = own[i]}
      BY <2>1, <1>6 DEF ValidSubsigs, Valid
    <2> QED  BY <1>2, <1>3, <2>2 DEF ValidSubsigs, Valid
  <1>9. \A i \in D : own[i] # NoSig
    BY <1>7
  <1>10. \A i \in D : b.sig[i] = NoSig \/ c.sig[i] = NoSig \/ b.sig[i] = c.sig[i]
    BY <1>2, <1>3 DEF SubsigsAgree
  <1>11. \A i \in D : q[i] = IF c.sig[i] # NoSig THEN c.sig[i] ELSE b.sig[i]
    OBVIOUS
  <1> HIDE DEF q, own, m, D
  <1>12. ValidSubsigs(m) = ValidSubsigs(b) \cup ValidSubsigs(c)
    BY ONLY <1>8, <1>9, <1>10, <1>11
  <1> QED  BY <1>6, <1>12 DEF m

LEMMA MergedShares ==
  ASSUME NEW meta \in Preimage, NEW A, NEW B
  PROVE  {i \in DOMAIN meta.pks : meta.pks[i] \in A}
           \cup {i \in DOMAIN meta.pks : meta.pks[i] \in B}
         = {i \in DOMAIN meta.pks : meta.pks[i] \in A \cup B}
  OBVIOUS

-----------------------------------------------------------------------------
(* The invariant *)

LEMMA InitInv == Init => IInv
  BY DEF Init, IInv, TypeOK, MetaValid, ValidAreSigned, Written

\* A blob whose valid signatures are those of the given keys may be written.
LEMMA WriteInv ==
  ASSUME IInv, NEW f \in File, NEW b \in Blob, NEW keys \in SUBSET Key,
         ValidPreimage(b.meta),
         ValidSubsigs(b) = {i \in DOMAIN b.meta.pks : b.meta.pks[i] \in keys},
         Write(f, b, keys)
  PROVE  IInv'
  <1>1. /\ file \in [File -> Blob \cup {NoBlob}]
        /\ signed \in [File -> SUBSET Key]
    BY DEF IInv, TypeOK
  <1>2. /\ file' = [file EXCEPT ![f] = b]
        /\ signed' = [signed EXCEPT ![f] = keys]
    BY DEF Write
  <1>3. TypeOK'
    BY <1>1, <1>2 DEF TypeOK
  <1>4. ASSUME NEW g \in File, file'[g] # NoBlob
        PROVE  /\ ValidPreimage(file'[g].meta)
               /\ ValidSubsigs(file'[g]) = {i \in DOMAIN file'[g].meta.pks :
                                       file'[g].meta.pks[i] \in signed'[g]}
    <2>1. CASE g = f
      <3>1. file'[g] = b /\ signed'[g] = keys
        BY <2>1, <1>1, <1>2
      <3> QED  BY <3>1
    <2>2. CASE g # f
      <3>1. file'[g] = file[g] /\ signed'[g] = signed[g]
        BY <2>2, <1>1, <1>2
      <3>2. ValidPreimage(file[g].meta) /\ ValidSubsigs(file[g]) = Shares(g)
        BY <3>1, <1>4 DEF IInv, MetaValid, ValidAreSigned, Written
      <3> QED  BY <3>1, <3>2 DEF Shares
    <2> QED  BY <2>1, <2>2
  <1>5. MetaValid'
    BY <1>4 DEF MetaValid, Written
  <1>6. ValidAreSigned'
    BY <1>4 DEF ValidAreSigned, Written, Shares
  <1> QED  BY <1>3, <1>5, <1>6 DEF IInv

LEMMA FileBlob ==
  ASSUME IInv, NEW f \in File, file[f] # NoBlob
  PROVE  /\ file[f] \in Blob
         /\ signed[f] \in SUBSET Key
         /\ file[f].meta \in Preimage
         /\ file[f].txn \in Txn
         /\ ValidPreimage(file[f].meta)
         /\ ValidSubsigs(file[f]) = {i \in DOMAIN file[f].meta.pks :
                                file[f].meta.pks[i] \in signed[f]}
  <1>1. file[f] \in Blob /\ signed[f] \in SUBSET Key
    BY DEF IInv, TypeOK
  <1>2. file[f].meta \in Preimage /\ file[f].txn \in Txn
    BY <1>1 DEF Blob
  <1> QED  BY <1>1, <1>2 DEF IInv, MetaValid, ValidAreSigned, Written, Shares

LEMMA CreateInv ==
  ASSUME IInv, NEW f \in File, NEW t \in Txn, NEW meta \in Preimage,
         Create(f, t, meta)
  PROVE  IInv'
  <1>1. ValidPreimage(meta) /\ Write(f, Created(t, meta), {})
    BY DEF Create
  <1> QED  BY <1>1, CreatedBlob, WriteInv

LEMMA SignInv ==
  ASSUME IInv, NEW f \in File, NEW t \in Txn, NEW meta \in Preimage,
         NEW k \in Key, Sign(f, t, meta, k)
  PROVE  IInv'
  <1> DEFINE own == [key |-> k, message |-> t]
             b == PartiallySigned(t, meta, k)
  <1>1. ValidPreimage(meta) /\ Write(f, b, {k})
    BY DEF Sign
  <1>2. own \in Signature
    BY DEF Signature
  <1>3. /\ b \in Blob /\ b.meta = meta
        /\ ValidSubsigs(b) = {i \in DOMAIN meta.pks : meta.pks[i] = k}
    BY <1>2, WithSignatureBlob DEF PartiallySigned
  <1> HIDE DEF b
  <1> QED  BY <1>1, <1>3, WriteInv

\* A partial blob merged into what a file holds.
LEMMA AppendInv ==
  ASSUME IInv, NEW f \in File, NEW g \in File, file[f] # NoBlob,
         NEW p \in Blob, Mergeable(file[f], p), NEW keys \in SUBSET Key,
         ValidSubsigs(p) = {i \in DOMAIN p.meta.pks : p.meta.pks[i] \in keys},
         Write(g, Merged(file[f], p), signed[f] \cup keys)
  PROVE  IInv'
  <1> DEFINE b == file[f]
             m == Merged(b, p)
  <1>1. /\ b \in Blob /\ signed[f] \in SUBSET Key /\ b.meta \in Preimage
        /\ ValidPreimage(b.meta)
        /\ ValidSubsigs(b) = {i \in DOMAIN b.meta.pks : b.meta.pks[i] \in signed[f]}
    BY FileBlob
  <1>2. m \in Blob /\ m.meta = b.meta /\ ValidSubsigs(m) = ValidSubsigs(b) \cup ValidSubsigs(p)
    BY <1>1, MergedBlob
  <1>3. p.meta = b.meta
    BY DEF Mergeable
  <1>4. Write(g, m, signed[f] \cup keys)
    OBVIOUS
  <1> HIDE DEF b, m
  <1>5. ValidSubsigs(m) = {i \in DOMAIN m.meta.pks :
                      m.meta.pks[i] \in signed[f] \cup keys}
    BY <1>1, <1>2, <1>3
  <1> QED  BY <1>1, <1>2, <1>4, <1>5, WriteInv

LEMMA AppendSignInv ==
  ASSUME IInv, NEW f \in File, NEW g \in File, NEW meta \in Preimage,
         NEW k \in Key, AppendSign(f, g, meta, k)
  PROVE  IInv'
  <1> DEFINE t == file[f].txn
             p == PartiallySigned(t, meta, k)
  <1>1. /\ file[f] # NoBlob /\ Mergeable(file[f], p)
        /\ Write(g, Merged(file[f], p), signed[f] \cup {k})
    BY DEF AppendSign
  <1>2. t \in Txn
    BY <1>1, FileBlob
  <1>3. [key |-> k, message |-> t] \in Signature
    BY <1>2 DEF Signature
  <1> HIDE DEF t
  <1>4. /\ p \in Blob /\ p.meta = meta
        /\ ValidSubsigs(p) = {i \in DOMAIN meta.pks : meta.pks[i] \in {k}}
    BY <1>2, <1>3, WithSignatureBlob DEF PartiallySigned
  <1> HIDE DEF p
  <1>5. ValidSubsigs(p) = {i \in DOMAIN p.meta.pks : p.meta.pks[i] \in {k}}
    BY ONLY <1>4
  <1>6. {k} \in SUBSET Key
    OBVIOUS
  <1> QED  BY <1>1, <1>4, <1>5, <1>6, AppendInv

LEMMA AppendSignRawInv ==
  ASSUME IInv, NEW f \in File, NEW g \in File, NEW meta \in Preimage,
         NEW k \in Key, NEW s \in Signature, AppendSignRaw(f, g, meta, k, s)
  PROVE  IInv'
  <1> DEFINE t == file[f].txn
             own == [key |-> k, message |-> t]
             p == WithSignature(t, meta, k, s)
             keys == IF s = own THEN {k} ELSE {}
  <1>1. /\ file[f] # NoBlob /\ Mergeable(file[f], p)
        /\ Write(g, Merged(file[f], p), IF s = own THEN signed[f] \cup {k}
                                                   ELSE signed[f])
    BY DEF AppendSignRaw
  <1>2. Write(g, Merged(file[f], p), signed[f] \cup keys)
    BY <1>1
  <1>3. t \in Txn
    BY <1>1, FileBlob
  <1> HIDE DEF t
  <1>4. /\ p \in Blob /\ p.meta = meta
        /\ ValidSubsigs(p) = {i \in DOMAIN meta.pks : meta.pks[i] \in keys}
    BY <1>3, WithSignatureBlob
  <1>5. keys \in SUBSET Key
    OBVIOUS
  <1> HIDE DEF p, keys
  <1> QED  BY <1>1, <1>2, <1>4, <1>5, AppendInv

LEMMA MergeInv ==
  ASSUME IInv, NEW f \in File, NEW g \in File, NEW h \in File, Merge(f, g, h)
  PROVE  IInv'
  <1>1. /\ file[f] # NoBlob /\ file[g] # NoBlob
        /\ Mergeable(file[f], file[g])
        /\ Write(h, Merged(file[f], file[g]), signed[f] \cup signed[g])
    BY DEF Merge
  <1>2. /\ file[g] \in Blob /\ signed[g] \in SUBSET Key
        /\ ValidSubsigs(file[g]) = {i \in DOMAIN file[g].meta.pks :
                               file[g].meta.pks[i] \in signed[g]}
    BY <1>1, FileBlob
  <1> QED  BY <1>1, <1>2, AppendInv

LEMMA SignWithKeysInv ==
  ASSUME IInv, NEW f \in File, NEW t \in Txn, NEW meta \in Preimage,
         NEW ks \in SUBSET Key, SignWithKeys(f, t, meta, ks)
  PROVE  IInv'
  <1> DEFINE q == [i \in DOMAIN meta.pks |->
                     IF meta.pks[i] \in ks
                       THEN [key |-> meta.pks[i], message |-> t] ELSE NoSig]
             b == [Created(t, meta) EXCEPT !.sig = q]
  <1>1. ValidPreimage(meta) /\ Write(f, b, ks)
    BY DEF SignWithKeys
  <1>2. \A i \in DOMAIN meta.pks : [key |-> meta.pks[i], message |-> t] \in Signature
    BY PreimageType DEF Signature
  <1>3. q \in Seq(Signature \cup {NoSig}) /\ Len(q) = Len(meta.pks)
    BY <1>2, PreimageType
  <1>4. b = [txn |-> t, meta |-> meta,
             sgnr |-> IF Sender[t] = meta THEN NoSgnr ELSE meta, sig |-> q]
    BY DEF Created
  <1>5. \A i \in DOMAIN meta.pks :
          q[i] = [key |-> meta.pks[i], message |-> t] <=> meta.pks[i] \in ks
    BY <1>2, ConstantsAssumption
  <1>6. DOMAIN q = DOMAIN meta.pks
    OBVIOUS
  <1> HIDE DEF q
  <1>7. b \in Blob /\ b.txn = t /\ b.meta = meta /\ b.sig = q
    BY ONLY <1>3, <1>4, t \in Txn, meta \in Preimage DEF Blob
  <1> HIDE DEF b
  <1>8. ValidSubsigs(b) = {i \in DOMAIN meta.pks : meta.pks[i] \in ks}
    BY <1>5, <1>6, <1>7 DEF ValidSubsigs, Valid
  <1> QED  BY <1>1, <1>7, <1>8, WriteInv

LEMMA NextInv == IInv /\ [Next]_vars => IInv'
  <1> SUFFICES ASSUME IInv, [Next]_vars
               PROVE  IInv'
    OBVIOUS
  <1>1. CASE UNCHANGED vars
    BY <1>1 DEF vars, IInv, TypeOK, MetaValid, ValidAreSigned, Written, Shares
  <1>2. CASE Next
    <2>1. PICK f \in File, g \in File :
            \/ \E t \in Txn, meta \in Preimage :
                 \/ Create(f, t, meta)
                 \/ \E k \in Key : Sign(f, t, meta, k)
                 \/ \E ks \in SUBSET Key \ {{}} : SignWithKeys(f, t, meta, ks)
            \/ \E meta \in Preimage, k \in Key :
                 \/ AppendSign(f, g, meta, k)
                 \/ \E s \in Signature : AppendSignRaw(f, g, meta, k, s)
            \/ \E h \in File : Merge(f, g, h)
      BY <1>2 DEF Next
    <2> QED
      BY <2>1, CreateInv, SignInv, SignWithKeysInv, AppendSignInv,
         AppendSignRawInv, MergeInv
  <1> QED  BY <1>1, <1>2

-----------------------------------------------------------------------------
(* What verifyMultisig accepts *)

\* Counting the signatures before verifying them rejects nothing that
\* verifying them accepts.
LEMMA ValidArePresent ==
  ASSUME NEW b \in Blob
  PROVE  /\ Cardinality(ValidSubsigs(b)) \in Nat
         /\ Cardinality(Present(b.sig)) \in Nat
         /\ Cardinality(ValidSubsigs(b)) <= Cardinality(Present(b.sig))
  <1>1. /\ b.meta \in Preimage /\ b.txn \in Txn
        /\ b.sig \in Seq(Signature \cup {NoSig})
        /\ Len(b.sig) = Len(b.meta.pks)
    BY DEF Blob
  <1>2. DOMAIN b.sig = 1 .. Len(b.sig) /\ Len(b.sig) \in Nat
    BY <1>1
  <1>3. IsFiniteSet(DOMAIN b.sig)
    <2>1. IsFiniteSet(1 .. Len(b.sig))
      BY <1>2, 1 \in Int, Len(b.sig) \in Int, FS_Interval
    <2> QED  BY <2>1, <1>2
  <1>4. Present(b.sig) \subseteq DOMAIN b.sig
    BY DEF Present
  <1>5. ValidSubsigs(b) \subseteq Present(b.sig)
    <2> SUFFICES ASSUME NEW i \in DOMAIN b.sig,
                        b.sig[i] = [key |-> b.meta.pks[i], message |-> b.txn]
                 PROVE  b.sig[i] # NoSig
      BY DEF ValidSubsigs, Valid, Present
    <2>1. b.meta.pks[i] \in Key
      BY <1>1, <1>2, PreimageType
    <2>2. [key |-> b.meta.pks[i], message |-> b.txn] \in Signature
      BY <1>1, <2>1 DEF Signature
    <2> QED  BY <2>2, ConstantsAssumption
  <1>6. IsFiniteSet(Present(b.sig))
    BY <1>3, <1>4, FS_Subset
  <1> QED  BY <1>5, <1>6, FS_Subset, FS_CardinalityType

LEMMA InvAccepted == IInv => AcceptedIffEnough
  <1> SUFFICES ASSUME IInv, NEW f \in File, file[f] # NoBlob,
                      NEW meta \in Preimage
               PROVE  Verified(file[f].meta, file[f].sig, file[f].txn, meta) <=>
                        /\ meta = file[f].meta
                        /\ Cardinality(Shares(f)) >= meta.threshold
    BY DEF AcceptedIffEnough, Written
  <1>1. /\ file[f] \in Blob /\ ValidPreimage(file[f].meta)
        /\ ValidSubsigs(file[f]) = Shares(f)
    BY FileBlob DEF Shares
  <1>2. /\ Cardinality(Shares(f)) \in Nat
        /\ Cardinality(Present(file[f].sig)) \in Nat
        /\ Cardinality(Shares(f)) <= Cardinality(Present(file[f].sig))
    BY <1>1, ValidArePresent
  <1>3. meta.threshold \in Nat
    BY PreimageType
  <1> QED  BY <1>1, <1>2, <1>3 DEF Verified, ValidSubsigs

-----------------------------------------------------------------------------
(* What can be merged *)

SgnrOf(t, meta) == IF Sender[t] = meta THEN NoSgnr ELSE meta

\* The authorizing address depends on the transaction and on the account alone.
SgnrInv == \A f \in Written : file[f].sgnr = SgnrOf(file[f].txn, file[f].meta)

LEMMA CreatedSgnr ==
  ASSUME NEW t, NEW meta, NEW q
  PROVE  LET b == [Created(t, meta) EXCEPT !.sig = q]
         IN  b.sgnr = SgnrOf(b.txn, b.meta)
  BY DEF Created, SgnrOf

LEMMA MergedSgnr ==
  ASSUME IInv, SgnrInv, NEW f \in File, file[f] # NoBlob, NEW c
  PROVE  LET b == Merged(file[f], c)
         IN  b.sgnr = SgnrOf(b.txn, b.meta)
  <1>1. file[f] \in [txn : Txn, meta : Preimage, sgnr : Preimage \cup {NoSgnr},
                     sig : Seq(Signature \cup {NoSig})]
    BY FileBlob DEF Blob
  <1>2. file[f].sgnr = SgnrOf(file[f].txn, file[f].meta)
    BY DEF SgnrInv, Written
  <1> QED  BY <1>1, <1>2 DEF Merged

\* A blob with the address of its account may be written.
LEMMA WriteSgnr ==
  ASSUME IInv, SgnrInv, NEW f \in File, NEW b, NEW keys,
         b.sgnr = SgnrOf(b.txn, b.meta), Write(f, b, keys)
  PROVE  SgnrInv'
  <1> SUFFICES ASSUME NEW g \in File, file'[g] # NoBlob
               PROVE  file'[g].sgnr = SgnrOf(file'[g].txn, file'[g].meta)
    BY DEF SgnrInv, Written, SgnrOf
  <1>1. file' = [file EXCEPT ![f] = b] /\ DOMAIN file = File
    BY DEF Write, IInv, TypeOK
  <1>2. CASE g = f
    BY <1>1, <1>2
  <1>3. CASE g # f
    <2>1. file'[g] = file[g]
      BY <1>1, <1>3
    <2> QED  BY <2>1 DEF SgnrInv, Written
  <1> QED  BY <1>2, <1>3

LEMMA NextSgnr == IInv /\ SgnrInv /\ [Next]_vars => SgnrInv'
  <1> SUFFICES ASSUME IInv, SgnrInv, [Next]_vars
               PROVE  SgnrInv'
    OBVIOUS
  <1>1. CASE UNCHANGED vars
    BY <1>1 DEF vars, SgnrInv, Written, SgnrOf
  <1>2. ASSUME NEW f \in File, NEW t \in Txn, NEW meta \in Preimage,
               Create(f, t, meta)
        PROVE  SgnrInv'
    <2>1. Created(t, meta).sgnr = SgnrOf(Created(t, meta).txn, Created(t, meta).meta)
      BY DEF Created, SgnrOf
    <2> QED  BY <1>2, <2>1, WriteSgnr DEF Create
  <1>3. ASSUME NEW f \in File, NEW t \in Txn, NEW meta \in Preimage, NEW k \in Key,
               Sign(f, t, meta, k)
        PROVE  SgnrInv'
    BY <1>3, CreatedSgnr, WriteSgnr DEF Sign, PartiallySigned, WithSignature
  <1>4. ASSUME NEW f \in File, NEW t \in Txn, NEW meta \in Preimage,
               NEW ks \in SUBSET Key, SignWithKeys(f, t, meta, ks)
        PROVE  SgnrInv'
    BY <1>4, CreatedSgnr, WriteSgnr DEF SignWithKeys
  <1>5. ASSUME NEW f \in File, NEW g \in File, NEW meta \in Preimage, NEW k \in Key,
               AppendSign(f, g, meta, k)
        PROVE  SgnrInv'
    BY <1>5, MergedSgnr, WriteSgnr DEF AppendSign
  <1>6. ASSUME NEW f \in File, NEW g \in File, NEW meta \in Preimage, NEW k \in Key,
               NEW s \in Signature, AppendSignRaw(f, g, meta, k, s)
        PROVE  SgnrInv'
    BY <1>6, MergedSgnr, WriteSgnr DEF AppendSignRaw
  <1>7. ASSUME NEW f \in File, NEW g \in File, NEW h \in File, Merge(f, g, h)
        PROVE  SgnrInv'
    BY <1>7, MergedSgnr, WriteSgnr DEF Merge
  <1> QED  BY <1>1, <1>2, <1>3, <1>4, <1>5, <1>6, <1>7 DEF Next

\* Two subsigs of one key that both are valid are the same.
LEMMA HonestSubsigsAgree ==
  ASSUME NEW b \in Blob, NEW c \in Blob, b.txn = c.txn, b.meta = c.meta,
         Present(b.sig) = ValidSubsigs(b), Present(c.sig) = ValidSubsigs(c)
  PROVE  SubsigsAgree(b, c)
  <1> SUFFICES ASSUME NEW i \in DOMAIN b.sig, b.sig[i] # NoSig, c.sig[i] # NoSig
               PROVE  b.sig[i] = c.sig[i]
    BY DEF SubsigsAgree
  <1>1. DOMAIN b.sig = DOMAIN c.sig
    <2>1. b.sig \in Seq(Signature \cup {NoSig}) /\ c.sig \in Seq(Signature \cup {NoSig})
      BY DEF Blob
    <2>2. Len(b.sig) = Len(c.sig)
      BY DEF Blob
    <2> QED  BY <2>1, <2>2
  <1>2. i \in ValidSubsigs(b) /\ i \in ValidSubsigs(c)
    BY <1>1 DEF Present
  <1> QED  BY <1>2 DEF ValidSubsigs, Valid

LEMMA InvMerges == IInv /\ SgnrInv => HonestBlobsMerge
  <1> SUFFICES ASSUME IInv, SgnrInv, NEW f \in File, NEW g \in File,
                      file[f] # NoBlob, file[g] # NoBlob,
                      file[f].txn = file[g].txn, file[f].meta = file[g].meta,
                      \A h \in {f, g} : Present(file[h].sig) = ValidSubsigs(file[h])
               PROVE  Mergeable(file[f], file[g])
    BY DEF HonestBlobsMerge, Written
  <1>1. file[f].sgnr = file[g].sgnr
    BY DEF SgnrInv, Written
  <1>2. SubsigsAgree(file[f], file[g])
    BY FileBlob, HonestSubsigsAgree
  <1> QED  BY <1>1, <1>2 DEF Mergeable, SameTransaction

-----------------------------------------------------------------------------
(* The theorems *)

LEMMA InvHolds == Spec => []IInv
  BY InitInv, NextInv, PTL DEF Spec

\* Every file holds a blob with one subsig for each key of its preimage.
THEOREM MultisigTypeCorrect == Spec => []TypeOK
  <1>1. IInv => TypeOK
    BY DEF IInv
  <1> QED  BY <1>1, InvHolds, PTL

\* The valid signatures of a blob are those of the holders that signed it,
\* however it was copied, appended to and merged.
THEOREM ValidSignaturesAreOfSigners == Spec => []ValidAreSigned
  <1>1. IInv => ValidAreSigned
    BY DEF IInv
  <1> QED  BY <1>1, InvHolds, PTL

\* verifyMultisig accepts a blob for its account exactly when the holders
\* that signed it have enough shares.
THEOREM VerificationIsExact == Spec => []AcceptedIffEnough
  BY InvAccepted, InvHolds, PTL

\* Two blobs of one transaction and one account that hold only signatures of
\* their holders can always be merged: no copy or merge of mergeMultisigTransactions
\* makes them differ in their authorizing address or in a subsig.
THEOREM HonestBlobsCanBeMerged == Spec => []HonestBlobsMerge
  <1>1. Init => SgnrInv
    BY DEF Init, SgnrInv, Written
  <1>2. IInv /\ IInv' /\ SgnrInv /\ [Next]_vars => SgnrInv'
    BY NextSgnr
  <1> QED  BY <1>1, <1>2, InvHolds, InvMerges, PTL DEF Spec
=============================================================================
