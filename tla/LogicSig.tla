------------------------------ MODULE LogicSig ------------------------------
(***************************************************************************)
(* LogicSigAccount objects (src/src/logicsig.ts) that are made into        *)
(* delegated accounts by one key or by the holders of the keys of a        *)
(* multisig account, one after the other, and sign transactions            *)
(* (src/src/signing.ts).                                                   *)
(*                                                                         *)
(* A holder signs a program for its own account, or a program and the      *)
(* address of the multisig account together; the message is the record of  *)
(* both.  The address of a contract account is its program, that of the    *)
(* account of a key is the key.                                            *)
(***************************************************************************)
EXTENDS MultisigAccount

CONSTANTS
  Key,        \* key pairs, each held by somebody
  Program,    \* programs that pass sanityCheckProgram
  Preimage,   \* metadata [version, threshold, pks] that callers pass in
  Object,     \* places that hold a LogicSigAccount
  NoMultisig, \* lmsig is undefined
  NoKey,      \* sigkey is undefined
  NoAddress   \* address throws

Message == [program : Program, account : Preimage \cup {NoMultisig}]
Signature == [key : Key, message : Message]

Lmsig ==
  {m \in [meta : Preimage, sig : Seq(Signature \cup {NoSig})] :
     Len(m.sig) = Len(m.meta.pks)}

\* The msig field of older logic signatures is set by nothing in the library,
\* and is undefined here.
LogicSigAccount ==
  [logic  : Program,
   sig    : Signature \cup {NoSig},
   lmsig  : Lmsig \cup {NoMultisig},
   sigkey : Key \cup {NoKey}]

Address == Key \cup Program \cup Preimage

ASSUME ConstantsAssumption ==
  /\ Preimage \subseteq [version : Nat, threshold : Nat, pks : Seq(Key)]
  /\ NoSig \notin Signature
  /\ NoMultisig \notin Lmsig /\ NoMultisig \notin Preimage
  /\ NoKey \notin Key
  /\ NoAddress \notin Address
  /\ Program \cap (Key \cup Preimage) = {} /\ Key \cap Preimage = {}

VARIABLES
  account,  \* the LogicSigAccount in every place
  signed    \* history: the keys whose holders signed the lmsig of the place

vars == <<account, signed>>

-----------------------------------------------------------------------------
(* What the methods compute *)

New(l) == [logic |-> l, sig |-> NoSig, lmsig |-> NoMultisig, sigkey |-> NoKey]

ProgramMessage(a) == [program |-> a.logic, account |-> NoMultisig]

MultisigMessage(a) == [program |-> a.logic, account |-> a.lmsig.meta]

\* singleSignMultisig signs the first subsig of the key, and no other.
FirstOf(meta, k) ==
  {i \in DOMAIN meta.pks : meta.pks[i] = k /\ \A j \in 1 .. i - 1 : meta.pks[j] # k}

\* Faulty variant of SignedLmsig: the signature is put behind the subsigs.
SignedBehind(a, k) ==
  [a EXCEPT !.lmsig.sig = Append(@, [key |-> k, message |-> MultisigMessage(a)])]

SignedLmsig(a, k) ==
  [a EXCEPT !.lmsig.sig =
     [i \in DOMAIN a.lmsig.sig |->
        IF i \in FirstOf(a.lmsig.meta, k)
          THEN [key |-> k, message |-> MultisigMessage(a)]
          ELSE a.lmsig.sig[i]]]

\* What singleSignMultisig does not throw on.
CanSignLmsig(a, k) == HasKey(a.lmsig.meta, k) /\ ValidPreimage(a.lmsig.meta)

Unsigned(meta) == [meta |-> meta, sig |-> [i \in DOMAIN meta.pks |-> NoSig]]

TooMany(a) == a.sig # NoSig /\ a.lmsig # NoMultisig

\* LogicSigAccount.address
AccountAddress(a) ==
  CASE TooMany(a) -> NoAddress
    [] a.sig # NoSig -> IF a.sigkey = NoKey THEN NoAddress ELSE a.sigkey
    [] a.sig = NoSig /\ a.lmsig # NoMultisig ->
         IF ValidPreimage(a.lmsig.meta) THEN a.lmsig.meta ELSE NoAddress
    [] OTHER -> a.logic

\* LogicSig.verify; where it throws it does not hold.
LogicSigVerifies(a, address) ==
  /\ ~TooMany(a)
  /\ CASE a.sig # NoSig ->
            a.sig = [key |-> address, message |-> ProgramMessage(a)]
       [] a.sig = NoSig /\ a.lmsig # NoMultisig ->
            Verified(a.lmsig.meta, a.lmsig.sig, MultisigMessage(a), address)
       [] OTHER -> a.logic = address

\* The address that signLogicSigTransactionObject derives for a LogicSig that
\* is no LogicSigAccount: of one signed by a key it knows no more than that
\* the sender might be it.
LogicSigAddress(a, sender) ==
  CASE a.sig # NoSig -> sender
    [] a.sig = NoSig /\ a.lmsig # NoMultisig ->
         IF ValidPreimage(a.lmsig.meta) THEN a.lmsig.meta ELSE NoAddress
    [] OTHER -> a.logic

\* signLogicSigTransactionWithAddress
Signs(a, address) == address # NoAddress /\ LogicSigVerifies(a, address)

\* Faulty variant of Sgnr: it is left out.
SgnrLeftOut(sender, address) == NoAddress

\* The sgnr of the signed transaction, NoAddress when it is undefined.
Sgnr(sender, address) == IF address = sender THEN NoAddress ELSE address

-----------------------------------------------------------------------------
(* The holders of the keys.  A method that throws changes nothing, but for  *)
(* SignMultisig, which has replaced lmsig by then.                          *)

Store(p, a, keys) ==
  /\ account' = [account EXCEPT ![p] = a]
  /\ signed' = [signed EXCEPT ![p] = keys]

MakeAccount(p, l) == Store(p, New(l), {})

\* LogicSigAccount.sign
Sign(p, k) ==
  Store(p, [account[p] EXCEPT
              !.sig = [key |-> k, message |-> ProgramMessage(account[p])],
              !.sigkey = k],
        signed[p])

\* sign of the LogicSig inside the account, which knows no sigkey.
SignLsig(p, k) ==
  Store(p, [account[p] EXCEPT
              !.sig = [key |-> k, message |-> ProgramMessage(account[p])]],
        signed[p])

\* Faulty variant of Restarted: signatures for the same account are kept.
Continued(a, meta) ==
  IF a.lmsig # NoMultisig /\ a.lmsig.meta = meta
    THEN a ELSE [a EXCEPT !.lmsig = Unsigned(meta)]

Restarted(a, meta) == [a EXCEPT !.lmsig = Unsigned(meta)]

SignMultisig(p, meta, k) ==
  LET a == Restarted(account[p], meta)
  IN  IF CanSignLmsig(a, k) THEN Store(p, SignedLmsig(a, k), {k})
                            ELSE Store(p, a, {})

AppendToMultisig(p, k) ==
  /\ account[p].lmsig # NoMultisig
  /\ CanSignLmsig(account[p], k)
  /\ Store(p, SignedLmsig(account[p], k), signed[p] \cup {k})

\* toByte and fromByte: another holder goes on with a copy.
Copy(p, q) == Store(q, account[p], signed[p])

Init ==
  /\ \E l \in Program : account = [p \in Object |-> New(l)]
  /\ signed = [p \in Object |-> {}]

Next ==
  \E p \in Object :
    \/ \E l \in Program : MakeAccount(p, l)
    \/ \E q \in Object : Copy(p, q)
    \/ \E k \in Key :
         \/ Sign(p, k)
         \/ SignLsig(p, k)
         \/ AppendToMultisig(p, k)
         \/ \E meta \in Preimage : SignMultisig(p, meta, k)

Spec == Init /\ [][Next]_vars

-----------------------------------------------------------------------------
(* Properties *)

\* The fields of every account have their types, and lmsig one subsig for
\* each key.
TypeOK ==
  /\ account \in [Object -> LogicSigAccount]
  /\ signed \in [Object -> SUBSET Key]

\* The shares of the holders that signed: one for each, however often the key
\* is in the account.
Shares(p) == UNION {FirstOf(account[p].lmsig.meta, k) : k \in signed[p]}

\* The accounts whose holders have, with their signatures, delegated to the
\* program as it stands: at most one, and none when several kinds are mixed.
Delegating(p) ==
  LET a == account[p]
  IN  CASE a.lmsig = NoMultisig /\ a.sig = NoSig -> {a.logic}
        [] a.lmsig = NoMultisig /\ a.sig # NoSig -> {a.sig.key}
        [] a.lmsig # NoMultisig /\ a.sig = NoSig ->
             {meta \in {a.lmsig.meta} :
                ValidPreimage(meta) /\ Cardinality(Shares(p)) >= meta.threshold}
        [] OTHER -> {}

\* However the holders sign, append, start again and copy, a logic signature
\* verifies for an address exactly when that account has delegated.
VerifiesIffDelegating ==
  \A p \in Object, address \in Address :
    LogicSigVerifies(account[p], address) <=> address \in Delegating(p)

\* A transaction signed with the account, or with the LogicSig inside it, by
\* any sender names an account that has delegated as the one that signs.
SignedByDelegating ==
  \A p \in Object, sender \in Address :
    \A address \in {AccountAddress(account[p]), LogicSigAddress(account[p], sender)} :
      Signs(account[p], address) =>
        LET sgnr == Sgnr(sender, address)
        IN  (IF sgnr = NoAddress THEN sender ELSE sgnr) \in Delegating(p)
=============================================================================
