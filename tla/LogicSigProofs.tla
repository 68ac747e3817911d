--------------------------- MODULE LogicSigProofs ---------------------------
(***************************************************************************)
(* Proofs about LogicSig, for any keys, programs, accounts and objects: a  *)
(* logic signature verifies for an address exactly when that account has   *)
(* delegated, and signs transactions in the name of no other.              *)
(***************************************************************************)
EXTENDS LogicSig, FiniteSetTheorems, TLAPS

\* What the holders of keys left in an account: a signature of the program,
\* and one of the program and the multisig account in the subsig of each.
Collected(a, keys) ==
  /\ a.sig # NoSig =>
       \E k \in Key : a.sig = [key |-> k, message |-> ProgramMessage(a)]
  /\ a.lmsig # NoMultisig =>
       \A i \in DOMAIN a.lmsig.meta.pks :
         a.lmsig.sig[i] =
           IF \E k \in keys : i \in FirstOf(a.lmsig.meta, k)
             THEN [key |-> a.lmsig.meta.pks[i], message |-> MultisigMessage(a)]
             ELSE NoSig

AllCollected == \A p \in Object : Collected(account[p], signed[p])

IInv == TypeOK /\ AllCollected

-----------------------------------------------------------------------------
(* What the functions return *)

LEMMA PreimageType ==
  ASSUME NEW meta \in Preimage
  PROVE  /\ meta.threshold \in Nat
         /\ DOMAIN meta.pks = 1 .. Len(meta.pks)
         /\ Len(meta.pks) \in Nat
         /\ \A i \in DOMAIN meta.pks : meta.pks[i] \in Key
  <1>1. meta \in [version : Nat, threshold : Nat, pks : Seq(Key)]
    BY ConstantsAssumption
  <1> QED  BY <1>1

LEMMA AccountType ==
  ASSUME NEW a \in LogicSigAccount
  PROVE  /\ a = [logic |-> a.logic, sig |-> a.sig, lmsig |-> a.lmsig,
                 sigkey |-> a.sigkey]
         /\ a.logic \in Program
         /\ a.sig \in Signature \cup {NoSig}
         /\ a.lmsig \in Lmsig \cup {NoMultisig}
         /\ a.sigkey \in Key \cup {NoKey}
  BY DEF LogicSigAccount

LEMMA LmsigType ==
  ASSUME NEW m \in Lmsig
  PROVE  /\ m = [meta |-> m.meta, sig |-> m.sig]
         /\ m.meta \in Preimage
         /\ m.sig \in Seq(Signature \cup {NoSig})
         /\ Len(m.sig) = Len(m.meta.pks)
         /\ DOMAIN m.sig = DOMAIN m.meta.pks
  <1>1. /\ m \in [meta : Preimage, sig : Seq(Signature \cup {NoSig})]
        /\ Len(m.sig) = Len(m.meta.pks)
    BY DEF Lmsig
  <1>2. m.meta \in Preimage /\ m.sig \in Seq(Signature \cup {NoSig})
    BY <1>1
  <1>3. DOMAIN m.sig = 1 .. Len(m.sig)
    BY <1>2
  <1> QED  BY <1>1, <1>2, <1>3, PreimageType

\* A sequence with one subsig for each key is an lmsig.
LEMMA MakeLmsig ==
  ASSUME NEW meta \in Preimage, NEW q,
         DOMAIN q = DOMAIN meta.pks, q = [i \in DOMAIN q |-> q[i]],
         \A i \in DOMAIN meta.pks : q[i] \in Signature \cup {NoSig}
  PROVE  [meta |-> meta, sig |-> q] \in Lmsig
  <1>1. DOMAIN q = 1 .. Len(meta.pks) /\ Len(meta.pks) \in Nat
    BY PreimageType
  <1>2. q \in [1 .. Len(meta.pks) -> Signature \cup {NoSig}]
    BY <1>1
  <1>3. q \in Seq(Signature \cup {NoSig}) /\ Len(q) = Len(meta.pks)
    BY <1>1, <1>2
  <1> QED  BY <1>3 DEF Lmsig

LEMMA SignedLmsigType ==
  ASSUME NEW a \in LogicSigAccount, a.lmsig # NoMultisig, NEW k \in Key,
         NEW keys \in SUBSET Key, Collected(a, keys)
  PROVE  /\ SignedLmsig(a, k) \in LogicSigAccount
         /\ Collected(SignedLmsig(a, k), keys \cup {k})
  <1> DEFINE m == a.lmsig
             D == DOMAIN m.meta.pks
             own == [key |-> k, message |-> MultisigMessage(a)]
             q == [i \in D |-> IF i \in FirstOf(m.meta, k) THEN own ELSE m.sig[i]]
             b == SignedLmsig(a, k)
  <1>1. m \in Lmsig
    BY AccountType
  <1>2. m.meta \in Preimage /\ DOMAIN m.sig = D
    BY <1>1, LmsigType
  <1>3. own \in Signature
    BY <1>2, AccountType DEF Signature, Message, MultisigMessage
  <1>4. \A i \in D : m.sig[i] \in Signature \cup {NoSig}
    BY <1>1, <1>2, LmsigType
  <1>5. [meta |-> m.meta, sig |-> q] \in Lmsig
    <2>1. DOMAIN q = D /\ q = [i \in DOMAIN q |-> q[i]]
      OBVIOUS
    <2>2. \A i \in D : q[i] \in Signature \cup {NoSig}
      BY <1>3, <1>4
    <2> HIDE DEF q
    <2> QED  BY <1>2, <2>1, <2>2, MakeLmsig
  <1>6. b = [logic |-> a.logic, sig |-> a.sig,
             lmsig |-> [meta |-> m.meta, sig |-> q], sigkey |-> a.sigkey]
    <2>1. b = [a EXCEPT !.lmsig = [m EXCEPT !.sig = q]]
      BY <1>2, AccountType DEF SignedLmsig
    <2>2. [m EXCEPT !.sig = q] = [meta |-> m.meta, sig |-> q]
      BY <1>1, LmsigType
    <2>3. a = [logic |-> a.logic, sig |-> a.sig, lmsig |-> a.lmsig,
               sigkey |-> a.sigkey]
      BY AccountType
    <2> HIDE DEF q, b, m
    <2> QED  BY ONLY <2>1, <2>2, <2>3
  <1> HIDE DEF q, b
  <1>7. b \in LogicSigAccount
    BY <1>5, <1>6, AccountType DEF LogicSigAccount
  <1>8. /\ b.sig = a.sig /\ b.logic = a.logic
        /\ b.lmsig = [meta |-> m.meta, sig |-> q]
        /\ b.lmsig.meta = m.meta /\ b.lmsig.sig = q
    BY ONLY <1>6
  <1>9. ProgramMessage(b) = ProgramMessage(a) /\ MultisigMessage(b) = MultisigMessage(a)
    BY <1>8 DEF ProgramMessage, MultisigMessage
  <1>10. ASSUME NEW i \in D
         PROVE  q[i] = IF \E l \in keys \cup {k} : i \in FirstOf(m.meta, l)
                         THEN [key |-> m.meta.pks[i], message |-> MultisigMessage(a)]
                         ELSE NoSig
    <2>1. q[i] = IF i \in FirstOf(m.meta, k) THEN own ELSE m.sig[i]
      BY DEF q
    <2>2. i \in FirstOf(m.meta, k) => m.meta.pks[i] = k
      BY DEF FirstOf
    <2>3. m.sig[i] = IF \E l \in keys : i \in FirstOf(m.meta, l)
                       THEN [key |-> m.meta.pks[i], message |-> MultisigMessage(a)]
                       ELSE NoSig
      BY DEF Collected
    <2> HIDE DEF m
    <2> QED  BY ONLY <2>1, <2>2, <2>3
  <1>11. b.sig # NoSig =>
           \E l \in Key : b.sig = [key |-> l, message |-> ProgramMessage(b)]
    BY <1>8, <1>9 DEF Collected
  <1>12. \A i \in DOMAIN b.lmsig.meta.pks :
           b.lmsig.sig[i] =
             IF \E l \in keys \cup {k} : i \in FirstOf(b.lmsig.meta, l)
               THEN [key |-> b.lmsig.meta.pks[i], message |-> MultisigMessage(b)]
               ELSE NoSig
    BY <1>8, <1>9, <1>10
  <1>13. Collected(b, keys \cup {k})
    BY <1>11, <1>12 DEF Collected
  <1> QED  BY <1>7, <1>13 DEF b

LEMMA NewType ==
  ASSUME NEW l \in Program
  PROVE  New(l) \in LogicSigAccount /\ Collected(New(l), {})
  BY DEF New, LogicSigAccount, Collected

\* Signing with a key, whatever key it leaves in sigkey.
LEMMA SignedType ==
  ASSUME NEW a \in LogicSigAccount, NEW k \in Key, NEW sigkey \in Key \cup {NoKey},
         NEW keys \in SUBSET Key, Collected(a, keys),
         NEW b, b = [a EXCEPT !.sig = [key |-> k, message |-> ProgramMessage(a)],
                              !.sigkey = sigkey]
  PROVE  b \in LogicSigAccount /\ Collected(b, keys)
  <1> DEFINE own == [key |-> k, message |-> ProgramMessage(a)]
  <1>1. own \in Signature
    BY AccountType DEF Signature, Message, ProgramMessage
  <1>2. b = [logic |-> a.logic, sig |-> own, lmsig |-> a.lmsig, sigkey |-> sigkey]
    <2>1. a = [logic |-> a.logic, sig |-> a.sig, lmsig |-> a.lmsig,
               sigkey |-> a.sigkey]
      BY AccountType
    <2>2. b = [a EXCEPT !.sig = own, !.sigkey = sigkey]
      OBVIOUS
    <2> HIDE DEF own
    <2> QED  BY ONLY <2>1, <2>2
  <1> HIDE DEF own
  <1>3. b \in LogicSigAccount
    BY <1>1, <1>2, AccountType DEF LogicSigAccount
  <1>4. b.logic = a.logic /\ b.sig = own /\ b.lmsig = a.lmsig
    BY ONLY <1>2
  <1>5. ProgramMessage(b) = ProgramMessage(a)
        /\ (a.lmsig # NoMultisig => MultisigMessage(b) = MultisigMessage(a))
    BY <1>4 DEF ProgramMessage, MultisigMessage
  <1>6. \E l \in Key : b.sig = [key |-> l, message |-> ProgramMessage(b)]
    BY <1>4, <1>5 DEF own
  <1>7. b.lmsig # NoMultisig =>
          \A i \in DOMAIN b.lmsig.meta.pks :
            b.lmsig.sig[i] =
              IF \E l \in keys : i \in FirstOf(b.lmsig.meta, l)
                THEN [key |-> b.lmsig.meta.pks[i], message |-> MultisigMessage(b)]
                ELSE NoSig
    BY <1>4, <1>5 DEF Collected
  <1> QED  BY <1>3, <1>6, <1>7 DEF Collected

LEMMA RestartedType ==
  ASSUME NEW a \in LogicSigAccount, NEW meta \in Preimage,
         NEW keys \in SUBSET Key, Collected(a, keys)
  PROVE  /\ Restarted(a, meta) \in LogicSigAccount
         /\ Restarted(a, meta).lmsig # NoMultisig
         /\ Collected(Restarted(a, meta), {})
  <1> DEFINE q == [i \in DOMAIN meta.pks |-> NoSig]
             m == [meta |-> meta, sig |-> q]
             b == Restarted(a, meta)
  <1>1. m \in Lmsig
    <2>1. /\ DOMAIN q = DOMAIN meta.pks /\ q = [i \in DOMAIN q |-> q[i]]
          /\ \A i \in DOMAIN meta.pks : q[i] \in Signature \cup {NoSig}
      OBVIOUS
    <2> HIDE DEF q
    <2> QED  BY <2>1, MakeLmsig
  <1>2. b = [logic |-> a.logic, sig |-> a.sig, lmsig |-> m, sigkey |-> a.sigkey]
    <2>1. b = [a EXCEPT !.lmsig = m]
      BY DEF Restarted, Unsigned
    <2> HIDE DEF b, m
    <2> QED  BY <2>1, AccountType
  <1>3. m # NoMultisig
    BY <1>1, ConstantsAssumption
  <1>4. m.meta = meta /\ \A i \in DOMAIN meta.pks : m.sig[i] = NoSig
    OBVIOUS
  <1> HIDE DEF b, m, q
  <1>5. b \in LogicSigAccount
    BY <1>1, <1>2, AccountType DEF LogicSigAccount
  <1>6. b.logic = a.logic /\ b.sig = a.sig /\ b.lmsig = m
    BY ONLY <1>2
  <1>7. ProgramMessage(b) = ProgramMessage(a)
    BY <1>6 DEF ProgramMessage
  <1>8. Collected(b, {})
    BY <1>4, <1>6, <1>7 DEF Collected
  <1> QED  BY <1>3, <1>5, <1>6, <1>8 DEF b

-----------------------------------------------------------------------------
(* The invariant *)

LEMMA InitInv == Init => IInv
  <1> SUFFICES ASSUME Init
               PROVE  IInv
    OBVIOUS
  <1>1. PICK l \in Program : account = [p \in Object |-> New(l)]
    BY DEF Init
  <1>2. signed = [p \in Object |-> {}]
    BY DEF Init
  <1> QED  BY <1>1, <1>2, NewType DEF IInv, TypeOK, AllCollected

LEMMA StoreInv ==
  ASSUME IInv, NEW p \in Object, NEW a \in LogicSigAccount,
         NEW keys \in SUBSET Key, Collected(a, keys), Store(p, a, keys)
  PROVE  IInv'
  <1>1. /\ account \in [Object -> LogicSigAccount]
        /\ signed \in [Object -> SUBSET Key]
        /\ \A q \in Object : Collected(account[q], signed[q])
    BY DEF IInv, TypeOK, AllCollected
  <1>2. /\ account' = [account EXCEPT ![p] = a]
        /\ signed' = [signed EXCEPT ![p] = keys]
    BY DEF Store
  <1>3. TypeOK'
    BY <1>1, <1>2 DEF TypeOK
  <1>4. ASSUME NEW q \in Object
        PROVE  Collected(account'[q], signed'[q])
    <2>1. CASE q = p
      <3>1. account'[q] = a /\ signed'[q] = keys
        BY <1>1, <1>2, <2>1
      <3> QED  BY <3>1
    <2>2. CASE q # p
      <3>1. account'[q] = account[q] /\ signed'[q] = signed[q]
        BY <1>1, <1>2, <2>2
      <3> QED  BY <1>1, <3>1
    <2> QED  BY <2>1, <2>2
  <1> QED  BY <1>3, <1>4 DEF IInv, AllCollected

LEMMA ObjectType ==
  ASSUME IInv, NEW p \in Object
  PROVE  /\ account[p] \in LogicSigAccount
         /\ signed[p] \in SUBSET Key
         /\ Collected(account[p], signed[p])
  BY DEF IInv, TypeOK, AllCollected

LEMMA SignInv ==
  ASSUME IInv, NEW p \in Object, NEW k \in Key, Sign(p, k) \/ SignLsig(p, k)
  PROVE  IInv'
  <1> DEFINE a == account[p]
             own == [key |-> k, message |-> ProgramMessage(a)]
             b(sigkey) == [a EXCEPT !.sig = own, !.sigkey = sigkey]
  <1>1. a \in LogicSigAccount /\ signed[p] \in SUBSET Key /\ Collected(a, signed[p])
    BY ObjectType
  <1>2. a.sigkey \in Key \cup {NoKey}
    BY <1>1, AccountType
  <1>3. [a EXCEPT !.sig = own] = b(a.sigkey)
    BY <1>1, AccountType
  <1>4. PICK sigkey \in Key \cup {NoKey} : Store(p, b(sigkey), signed[p])
    <2>1. CASE Sign(p, k)
      BY <2>1 DEF Sign
    <2>2. CASE SignLsig(p, k)
      BY <2>2, <1>2, <1>3 DEF SignLsig
    <2> QED  BY <2>1, <2>2
  <1>5. b(sigkey) \in LogicSigAccount /\ Collected(b(sigkey), signed[p])
    <2> HIDE DEF a
    <2> QED  BY <1>1, SignedType
  <1> HIDE DEF b
  <1> QED  BY <1>1, <1>4, <1>5, StoreInv

LEMMA SignMultisigInv ==
  ASSUME IInv, NEW p \in Object, NEW meta \in Preimage, NEW k \in Key,
         SignMultisig(p, meta, k)
  PROVE  IInv'
  <1> DEFINE a == Restarted(account[p], meta)
  <1>1. a \in LogicSigAccount /\ a.lmsig # NoMultisig /\ Collected(a, {})
    BY ObjectType, RestartedType
  <1>2. IF CanSignLmsig(a, k) THEN Store(p, SignedLmsig(a, k), {k}) ELSE Store(p, a, {})
    BY DEF SignMultisig
  <1> HIDE DEF a
  <1>3. SignedLmsig(a, k) \in LogicSigAccount /\ Collected(SignedLmsig(a, k), {k})
    <2>1. {} \in SUBSET Key /\ {} \cup {k} = {k}
      OBVIOUS
    <2> QED  BY <1>1, <2>1, SignedLmsigType
  <1>4. {k} \in SUBSET Key /\ {} \in SUBSET Key
    OBVIOUS
  <1> QED  BY <1>1, <1>2, <1>3, <1>4, StoreInv

LEMMA AppendInv ==
  ASSUME IInv, NEW p \in Object, NEW k \in Key, AppendToMultisig(p, k)
  PROVE  IInv'
  <1> DEFINE a == account[p]
  <1>1. a \in LogicSigAccount /\ signed[p] \in SUBSET Key /\ Collected(a, signed[p])
    BY ObjectType
  <1>2. a.lmsig # NoMultisig /\ Store(p, SignedLmsig(a, k), signed[p] \cup {k})
    BY DEF AppendToMultisig
  <1> HIDE DEF a
  <1>3. /\ SignedLmsig(a, k) \in LogicSigAccount
        /\ Collected(SignedLmsig(a, k), signed[p] \cup {k})
    BY <1>1, <1>2, SignedLmsigType
  <1>4. signed[p] \cup {k} \in SUBSET Key
    BY <1>1
  <1> QED  BY <1>2, <1>3, <1>4, StoreInv

LEMMA NextInv == IInv /\ [Next]_vars => IInv'
  <1> SUFFICES ASSUME IInv, [Next]_vars
               PROVE  IInv'
    OBVIOUS
  <1>1. CASE UNCHANGED vars
    BY <1>1 DEF vars, IInv, TypeOK, AllCollected
  <1>2. ASSUME NEW p \in Object, NEW l \in Program, MakeAccount(p, l)
        PROVE  IInv'
    <2>1. New(l) \in LogicSigAccount /\ Collected(New(l), {})
      BY NewType
    <2>2. {} \in SUBSET Key
      OBVIOUS
    <2> QED  BY <1>2, <2>1, <2>2, StoreInv DEF MakeAccount
  <1>3. ASSUME NEW p \in Object, NEW q \in Object, Copy(p, q)
        PROVE  IInv'
    BY <1>3, ObjectType, StoreInv DEF Copy
  <1> QED  BY <1>1, <1>2, <1>3, SignInv, SignMultisigInv, AppendInv DEF Next

-----------------------------------------------------------------------------
(* What verifies *)

\* Every subsig that has a signature has a valid one: they are the shares of
\* the holders that signed.
LEMMA PresentAreShares ==
  ASSUME IInv, NEW p \in Object, account[p].lmsig # NoMultisig
  PROVE  LET a == account[p]
         IN  /\ Present(a.lmsig.sig) = Shares(p)
             /\ Valid(a.lmsig.meta, a.lmsig.sig, MultisigMessage(a)) = Shares(p)
  <1> DEFINE a == account[p]
             m == a.lmsig
             D == DOMAIN m.meta.pks
             own == [i \in D |-> [key |-> m.meta.pks[i], message |-> MultisigMessage(a)]]
  <1>1. a \in LogicSigAccount /\ Collected(a, signed[p])
    BY ObjectType
  <1>2. m \in Lmsig /\ a.logic \in Program
    BY <1>1, AccountType
  <1>3. m.meta \in Preimage /\ DOMAIN m.sig = D
    BY <1>2, LmsigType
  <1>4. \A i \in D : own[i] \in Signature
    BY <1>2, <1>3, PreimageType DEF Signature, Message, MultisigMessage
  <1>5. \A i \in D : own[i] # NoSig
    BY <1>4, ConstantsAssumption
  <1>6. Shares(p) = {i \in D : \E k \in signed[p] : i \in FirstOf(m.meta, k)}
    BY DEF Shares, FirstOf
  <1>7. \A i \in D : m.sig[i] = IF \E k \in signed[p] : i \in FirstOf(m.meta, k)
                                  THEN own[i] ELSE NoSig
    BY <1>1 DEF Collected
  <1>8. Present(m.sig) = {i \in D : m.sig[i] # NoSig}
    BY <1>3 DEF Present
  <1>9. Valid(m.meta, m.sig, MultisigMessage(a)) = {i \in D : m.sig[i] = own[i]}
    BY <1>3 DEF Valid
  <1> HIDE DEF D, own
  <1>10. Present(m.sig) = Shares(p)
    BY ONLY <1>5, <1>6, <1>7, <1>8
  <1>11. Valid(m.meta, m.sig, MultisigMessage(a)) = Shares(p)
    BY ONLY <1>5, <1>6, <1>7, <1>9
  <1> QED  BY <1>10, <1>11

LEMMA VerifiesExactly ==
  ASSUME IInv, NEW p \in Object, NEW address
  PROVE  LogicSigVerifies(account[p], address) <=> address \in Delegating(p)
  <1> DEFINE a == account[p]
  <1>1. a \in LogicSigAccount /\ Collected(a, signed[p])
    BY ObjectType
  <1>2. CASE a.lmsig = NoMultisig /\ a.sig = NoSig
    BY <1>2 DEF LogicSigVerifies, TooMany, Delegating
  <1>3. CASE a.lmsig = NoMultisig /\ a.sig # NoSig
    <2>1. PICK k \in Key : a.sig = [key |-> k, message |-> ProgramMessage(a)]
      BY <1>1, <1>3 DEF Collected
    <2>2. LogicSigVerifies(a, address) <=>
            a.sig = [key |-> address, message |-> ProgramMessage(a)]
      BY <1>3 DEF LogicSigVerifies, TooMany
    <2>3. Delegating(p) = {a.sig.key}
      BY <1>3 DEF Delegating
    <2>4. a.sig.key = k
      BY ONLY <2>1
    <2> HIDE DEF a
    <2>5. a.sig = [key |-> address, message |-> ProgramMessage(a)] <=> address = k
      BY ONLY <2>1
    <2> QED  BY <2>2, <2>3, <2>4, <2>5 DEF a
  <1>4. CASE a.lmsig # NoMultisig /\ a.sig = NoSig
    <2>1. LogicSigVerifies(a, address) <=>
            Verified(a.lmsig.meta, a.lmsig.sig, MultisigMessage(a), address)
      BY <1>4 DEF LogicSigVerifies, TooMany
    <2>2. Delegating(p) =
            {meta \in {a.lmsig.meta} :
               ValidPreimage(meta) /\ Cardinality(Shares(p)) >= meta.threshold}
      BY <1>4 DEF Delegating
    <2>3. Verified(a.lmsig.meta, a.lmsig.sig, MultisigMessage(a), address) <=>
            /\ ValidPreimage(a.lmsig.meta)
            /\ a.lmsig.meta = address
            /\ Cardinality(Shares(p)) >= a.lmsig.meta.threshold
      BY <1>4, PresentAreShares DEF Verified
    <2> HIDE DEF a
    <2> QED  BY <2>1, <2>2, <2>3 DEF a
  <1>5. CASE a.lmsig # NoMultisig /\ a.sig # NoSig
    BY <1>5 DEF LogicSigVerifies, TooMany, Delegating
  <1> QED  BY <1>2, <1>3, <1>4, <1>5

-----------------------------------------------------------------------------
(* The theorems *)

\* Every LogicSigAccount keeps one subsig for each key of its multisig account,
\* however its holders sign, append, start again and copy (logicsig.ts sign).
THEOREM LogicSigTypeCorrect == Spec => []TypeOK
  <1>1. IInv => TypeOK
    BY DEF IInv
  <1> QED  BY <1>1, InitInv, NextInv, PTL DEF Spec

\* A logic signature verifies for an address exactly when the account of that
\* address has delegated to its program, for any keys, programs and accounts
\* (logicsig.ts verify).
THEOREM VerificationIsDelegation == Spec => []VerifiesIffDelegating
  <1>1. IInv => VerifiesIffDelegating
    BY VerifiesExactly DEF VerifiesIffDelegating
  <1> QED  BY <1>1, InitInv, NextInv, PTL DEF Spec

\* Whoever is the sender, a transaction signed with a logic signature names an
\* account that has delegated to its program (signing.ts).
THEOREM SigningIsDelegated == Spec => []SignedByDelegating
  <1>1. IInv => SignedByDelegating
    <2> SUFFICES ASSUME IInv, NEW p \in Object, NEW sender \in Address,
                        NEW address, Signs(account[p], address)
                 PROVE  (IF Sgnr(sender, address) = NoAddress
                           THEN sender ELSE Sgnr(sender, address)) \in Delegating(p)
      BY DEF SignedByDelegating
    <2>1. address # NoAddress /\ address \in Delegating(p)
      BY VerifiesExactly DEF Signs
    <2> QED  BY <2>1 DEF Sgnr
  <1> QED  BY <1>1, InitInv, NextInv, PTL DEF Spec
=============================================================================
