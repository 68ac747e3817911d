------------------------------ MODULE Composer ------------------------------
(***************************************************************************)
(* One AtomicTransactionComposer (src/src/composer.ts) shared by the       *)
(* concurrent asynchronous calls of an application, its signers, and the   *)
(* network behind the Algodv2 client.                                      *)
(*                                                                         *)
(* JavaScript runs one continuation at a time, so an action is the code    *)
(* between two awaits.  A call slot c stands for one promise returned by   *)
(* gatherSignatures, submit, simulate or execute; pc[c] names the await at *)
(* which it is suspended.  A synchronous method that throws leaves the     *)
(* composer as it was, and so is no step.                                  *)
(*                                                                         *)
(* A transaction is an object, its identifier a record of the object and   *)
(* of the group field it has when hashed, and a group ID is the list of    *)
(* the identifiers that were hashed: two hashes are equal when what was    *)
(* hashed is equal.                                                        *)
(***************************************************************************)
EXTENDS Integers, Sequences, FiniteSets

CONSTANTS
  Txn,            \* transaction objects the application builds
  AppCall,        \* transaction objects that addMethodCall creates
  Signer,         \* TransactionSigner functions
  Method,         \* ABI methods
  TxnArgs,        \* how many transactions each method takes as arguments
  CallSlot,       \* asynchronous calls that may be outstanding together
  MaxGroupSize,   \* AtomicTransactionComposer.MAX_GROUP_SIZE
  ForeignGroup    \* a group ID that some other group gave to a transaction

NoGroup == <<>>   \* txn.group is undefined or all zeroes
TxnObject == Txn \cup AppCall
UngroupedID == [txn : TxnObject, group : {NoGroup}]
GroupID == {NoGroup, ForeignGroup} \cup Seq(UngroupedID)
TxID == [txn : TxnObject, group : GroupID]
TransactionWithSigner == [txn : TxnObject, signer : Signer]

ASSUME ConstantsAssumption ==
  /\ Txn \cap AppCall = {}
  /\ TxnArgs \in [Method -> Nat]
  /\ MaxGroupSize \in Nat \ {0}
  /\ ForeignGroup \notin Seq(UngroupedID)

\* AtomicTransactionComposerStatus
BUILDING  == 0
BUILT     == 1
SIGNED    == 2
SUBMITTED == 3
COMMITTED == 4

Operation == {"gatherSignatures", "submit", "simulate", "execute"}

\* The awaits of a call, and the two ways it ends.  An unused slot is one
\* whose last call has returned nothing.
Resting == {"unused", "returned", "threw"}
Suspended == {"signing", "gathered", "sending", "accepted", "submitted",
              "waiting", "fetching", "simulating"}

VARIABLES
  status, transactions, methodCalls, signedTxns, txIDs,  \* the composer
  group,        \* the group field of every transaction object
  pc, op,       \* where each call is, and which method it is
  stxns,        \* the array that gatherSignatures resolved to in a call
  ids,          \* the txIDs that submit resolved to in a call of execute
  results,      \* the methodResults gathered so far in a call
  pool, seen,   \* groups pending in the network, groups it ever accepted
  ledger        \* groups confirmed in a block

composer == <<status, transactions, methodCalls, signedTxns, txIDs, group>>
calls == <<pc, op, stxns, ids, results>>
network == <<pool, seen, ledger>>
vars == <<composer, calls, network>>

Init ==
  /\ status = BUILDING
  /\ transactions = <<>>
  /\ methodCalls = [i \in {} |-> CHOOSE m \in Method : TRUE]
  /\ signedTxns = <<>>
  /\ txIDs = <<>>
  /\ group \in [TxnObject -> {NoGroup, ForeignGroup}]
  /\ \A a \in AppCall : group[a] = NoGroup
  /\ pc = [c \in CallSlot |-> "unused"]
  /\ op = [c \in CallSlot |-> "gatherSignatures"]
  /\ stxns = [c \in CallSlot |-> <<>>]
  /\ ids = [c \in CallSlot |-> <<>>]
  /\ results = [c \in CallSlot |-> {}]
  /\ pool = {}
  /\ seen = {}
  /\ ledger = {}

-----------------------------------------------------------------------------
(* Composing a group: the synchronous methods *)

Members == {transactions[i].txn : i \in DOMAIN transactions}

\* Faulty variant of Composing: a built group still takes transactions.
ComposingUntilSigned == status <= BUILT

Composing == status = BUILDING

\* Faulty variant of Ungrouped: the group field is not looked at.
AnyTransaction(t) == TRUE

Ungrouped(t) == group[t] = NoGroup

\* Faulty variant of RoomForOne: off by one.
RoomForOneTooMany == Len(transactions) <= MaxGroupSize

RoomForOne == Len(transactions) # MaxGroupSize

\* Faulty variant of RoomForCall: the app call itself is not counted.
RoomForArguments(m) == Len(transactions) + TxnArgs[m] <= MaxGroupSize

RoomForCall(m) == Len(transactions) + TxnArgs[m] + 1 <= MaxGroupSize

AddTransaction(t, s) ==
  /\ Composing
  /\ RoomForOne
  /\ Ungrouped(t)
  /\ transactions' = Append(transactions, [txn |-> t, signer |-> s])
  /\ UNCHANGED <<status, methodCalls, signedTxns, txIDs, group>>
  /\ UNCHANGED <<calls, network>>

\* Faulty variant of IndexOfAppCall: the index before the arguments are pushed.
IndexBeforeArguments(args) == Len(transactions) + 1

IndexOfAppCall(args) == Len(transactions) + Len(args) + 1

\* The checks of the arguments and the encoding of the application call all
\* come before the two assignments, so a call that throws changes nothing.
AddMethodCall(m, args, a, s) ==
  /\ Composing
  /\ RoomForCall(m)
  /\ \A i \in DOMAIN args : Ungrouped(args[i].txn)
  /\ a \notin Members
  /\ transactions' = (transactions \o args) \o <<[txn |-> a, signer |-> s]>>
  /\ LET last == IndexOfAppCall(args)
     IN  methodCalls' = [i \in DOMAIN methodCalls \cup {last} |->
                           IF i = last THEN m ELSE methodCalls[i]]
  /\ UNCHANGED <<status, signedTxns, txIDs, group>>
  /\ UNCHANGED <<calls, network>>

IdOf(t) == [txn |-> t, group |-> group[t]]

\* computeGroupID of the transactions of the composer.
ComputedGroupID == [i \in 1 .. Len(transactions) |-> IdOf(transactions[i].txn)]

\* assignGroupID writes the group field of the transaction objects in place.
AssignedGroup ==
  [t \in TxnObject |-> IF Len(transactions) > 1 /\ t \in Members
                         THEN ComputedGroupID ELSE group[t]]

FinalizeGroup ==
  /\ Len(transactions) > 0
  /\ group' = AssignedGroup
  /\ status' = BUILT

BuildGroup ==
  /\ status = BUILDING
  /\ FinalizeGroup
  /\ UNCHANGED <<transactions, methodCalls, signedTxns, txIDs>>
  /\ UNCHANGED <<calls, network>>

-----------------------------------------------------------------------------
(* Calling an asynchronous method, up to its first await *)

GatherCached(c) ==
  /\ status >= SIGNED
  /\ pc' = [pc EXCEPT ![c] = "gathered"]
  /\ stxns' = [stxns EXCEPT ![c] = signedTxns]
  /\ UNCHANGED <<status, group>>

GatherBySigning(c) ==
  /\ \/ status = BUILDING /\ FinalizeGroup
     \/ status = BUILT /\ UNCHANGED <<status, group>>
  /\ pc' = [pc EXCEPT ![c] = "signing"]
  /\ stxns' = [stxns EXCEPT ![c] = <<>>]

GatherFromEmptyGroup(c) ==
  /\ status = BUILDING
  /\ Len(transactions) = 0
  /\ pc' = [pc EXCEPT ![c] = "threw"]
  /\ stxns' = [stxns EXCEPT ![c] = <<>>]
  /\ UNCHANGED <<status, group>>

Start(c, o) ==
  /\ pc[c] \in Resting
  /\ op' = [op EXCEPT ![c] = o]
  /\ ids' = [ids EXCEPT ![c] = <<>>]
  /\ results' = [results EXCEPT ![c] = {}]
  /\ GatherCached(c) \/ GatherBySigning(c) \/ GatherFromEmptyGroup(c)
  /\ UNCHANGED <<transactions, methodCalls, signedTxns, txIDs, network>>

GatherSignatures(c) == Start(c, "gatherSignatures")
Submit(c) == status <= SUBMITTED /\ Start(c, "submit")
Simulate(c) == status <= SUBMITTED /\ Start(c, "simulate")
Execute(c) == status # COMMITTED /\ Start(c, "execute")

-----------------------------------------------------------------------------
(* Resuming an asynchronous method at one of its awaits *)

Goto(c, label) == pc' = [pc EXCEPT ![c] = label]

\* Every signer has resolved, no signature is missing and each one decodes.
\* The blob of a transaction holds it with the group it had when signed; the
\* status is assigned whatever it has become since the call was made.
SignersSign(c) ==
  /\ pc[c] = "signing"
  /\ signedTxns' = [i \in 1 .. Len(transactions) |-> IdOf(transactions[i].txn)]
  /\ txIDs' = signedTxns'
  /\ status' = SIGNED
  /\ stxns' = [stxns EXCEPT ![c] = signedTxns']
  /\ Goto(c, "gathered")
  /\ UNCHANGED <<transactions, methodCalls, group, op, ids, results, network>>

\* Faulty variant of SignersFail: missing signatures go unnoticed.
SignersFailUnnoticed(c) ==
  /\ pc[c] = "signing"
  /\ signedTxns' = [i \in 1 .. Len(transactions) - 1 |->
                      IdOf(transactions[i].txn)]
  /\ txIDs' = signedTxns'
  /\ status' = SIGNED
  /\ stxns' = [stxns EXCEPT ![c] = signedTxns']
  /\ Goto(c, "gathered")
  /\ UNCHANGED <<transactions, methodCalls, group, op, ids, results, network>>

\* A signer rejects, returns too few signatures, or bytes that do not decode.
SignersFail(c) ==
  /\ pc[c] = "signing"
  /\ Goto(c, "threw")
  /\ UNCHANGED <<composer, op, stxns, ids, results, network>>

\* The caller of gatherSignatures resumes: the application, submit (which
\* execute awaits in turn), or simulate.
ResumeGathered(c) ==
  /\ pc[c] = "gathered"
  /\ \/ op[c] = "gatherSignatures" /\ Goto(c, "returned")
     \/ op[c] = "simulate" /\ Goto(c, "simulating")
     \/ op[c] \in {"submit", "execute"} /\ Goto(c, "sending")
  /\ UNCHANGED <<composer, op, stxns, ids, results, network>>

\* submit resumes after sendRawTransaction.
ResumeSubmit(c) ==
  /\ pc[c] = "accepted"
  /\ status' = SUBMITTED
  /\ ids' = [ids EXCEPT ![c] = txIDs]
  /\ Goto(c, IF op[c] = "submit" THEN "returned" ELSE "submitted")
  /\ UNCHANGED <<transactions, methodCalls, signedTxns, txIDs, group>>
  /\ UNCHANGED <<op, stxns, results, network>>

\* execute resumes after submit and calls waitForConfirmation.
ResumeExecute(c) ==
  /\ pc[c] = "submitted"
  /\ status' = SUBMITTED
  /\ Goto(c, "waiting")
  /\ UNCHANGED <<transactions, methodCalls, signedTxns, txIDs, group>>
  /\ UNCHANGED <<op, stxns, ids, results, network>>

Smallest(S) == CHOOSE i \in S : \A j \in S : i <= j

\* The transaction that execute waits for: the first method call, or else
\* the first transaction.
IndexToWaitFor ==
  IF DOMAIN methodCalls = {} THEN 1 ELSE Smallest(DOMAIN methodCalls)

InBlock(id) == \E g \in ledger : \E i \in DOMAIN g : g[i] = id

Fetched(c) == {r.index : r \in results[c]}

\* Faulty variants of RecordResult: execute returns after the first result,
\* and the loop asks for the first method call over and over.
RecordOneResult(c) ==
  LET left == DOMAIN methodCalls \ Fetched(c)
      i == Smallest(left)
  IN  /\ left # {}
      /\ \E decoded \in BOOLEAN :
           results' = [results EXCEPT ![c] = @ \cup
             {[index |-> i, txID |-> ids[c][i], decoded |-> decoded]}]
      /\ Goto(c, "returned")

RecordFirstResult(c) ==
  LET left == DOMAIN methodCalls \ Fetched(c)
      i == Smallest(DOMAIN methodCalls)
  IN  /\ left # {}
      /\ \E decoded \in BOOLEAN :
           results' = [results EXCEPT ![c] = @ \cup
             {[index |-> i, txID |-> ids[c][i], decoded |-> decoded]}]
      /\ Goto(c, IF left = {i} THEN "returned" ELSE "fetching")

\* One turn of the loop of execute over the method calls, in their order.  A
\* failed request and a log that does not decode are recorded in the result.
\* After the last turn execute returns, before it awaits anything else.
RecordResult(c) ==
  LET left == DOMAIN methodCalls \ Fetched(c)
      i == Smallest(left)
  IN  /\ left # {}
      /\ \E decoded \in BOOLEAN :
           results' = [results EXCEPT ![c] = @ \cup
             {[index |-> i, txID |-> ids[c][i], decoded |-> decoded]}]
      /\ Goto(c, IF left = {i} THEN "returned" ELSE "fetching")

\* waitForConfirmation resolves and execute resumes.  What it resolved to has
\* the result of the first method call.
ResumeConfirmed(c) ==
  /\ pc[c] = "waiting"
  /\ InBlock(ids[c][IndexToWaitFor])
  /\ status' = COMMITTED
  /\ \/ RecordResult(c)
     \/ DOMAIN methodCalls = {} /\ Goto(c, "returned") /\ UNCHANGED results
  /\ UNCHANGED <<transactions, methodCalls, signedTxns, txIDs, group>>
  /\ UNCHANGED <<op, stxns, ids, network>>

\* waitForConfirmation throws: the rounds have passed, the pool rejected the
\* transaction, or a request failed.
ThrowUnconfirmed(c) ==
  /\ pc[c] = "waiting"
  /\ Goto(c, "threw")
  /\ UNCHANGED <<composer, op, stxns, ids, results, network>>

\* execute resumes with the pending information of one more method call.
FetchResult(c) ==
  /\ pc[c] = "fetching"
  /\ RecordResult(c)
  /\ UNCHANGED <<composer, op, stxns, ids, network>>

\* simulate resumes after simulateTransactions and builds every result.
ResumeSimulated(c) ==
  /\ pc[c] = "simulating"
  /\ \E decoded \in [DOMAIN methodCalls -> BOOLEAN] :
       results' = [results EXCEPT ![c] =
         {[index |-> i, txID |-> txIDs[i], decoded |-> decoded[i]] :
            i \in DOMAIN methodCalls}]
  /\ Goto(c, "returned")
  /\ UNCHANGED <<composer, op, stxns, ids, network>>

SimulateFails(c) ==
  /\ pc[c] = "simulating"
  /\ Goto(c, "threw")
  /\ UNCHANGED <<composer, op, stxns, ids, results, network>>

-----------------------------------------------------------------------------
(* The network: several algods behind one address (external) *)

\* A group as the protocol wants it: alone and ungrouped, or all carrying the
\* hash of the list they form.
WellFormed(g) ==
  LET hash == [i \in 1 .. Len(g) |-> [txn |-> g[i].txn, group |-> NoGroup]]
  IN  \/ Len(g) = 1 /\ g[1].group = NoGroup
      \/ Len(g) > 0 /\ \A i \in 1 .. Len(g) : g[i].group = hash

\* An algod puts the group in its pool.  One that has not heard of the group
\* yet does so again; none does once the group is in a block.
Accept(g) ==
  /\ WellFormed(g)
  /\ g \notin ledger
  /\ pool' = pool \cup {g}
  /\ seen' = seen \cup {g}
  /\ UNCHANGED ledger

SendAccepted(c) ==
  /\ pc[c] = "sending"
  /\ Accept(stxns[c])
  /\ Goto(c, "accepted")
  /\ UNCHANGED <<composer, op, stxns, ids, results>>

\* The group is accepted but the answer is lost: the request throws.
SendAnswerLost(c) ==
  /\ pc[c] = "sending"
  /\ Accept(stxns[c])
  /\ Goto(c, "threw")
  /\ UNCHANGED <<composer, op, stxns, ids, results>>

\* Faulty variant of SendRejected: the error of the request is swallowed.
SendRejectedUnnoticed(c) ==
  /\ pc[c] = "sending"
  /\ Goto(c, "accepted")
  /\ UNCHANGED <<composer, op, stxns, ids, results, network>>

\* The request is lost, or an algod refuses the group.
SendRejected(c) ==
  /\ pc[c] = "sending"
  /\ Goto(c, "threw")
  /\ UNCHANGED <<composer, op, stxns, ids, results, network>>

CommitGroup(g) ==
  /\ ledger' = ledger \cup {g}
  /\ pool' = pool \ {g}
  /\ UNCHANGED <<composer, calls, seen>>

\* A pending group expires or fails when it is evaluated again.
DropGroup(g) ==
  /\ pool' = pool \ {g}
  /\ UNCHANGED <<composer, calls, seen, ledger>>

-----------------------------------------------------------------------------
(* The specification *)

Compose ==
  \/ \E t \in Txn, s \in Signer : AddTransaction(t, s)
  \/ \E m \in Method, a \in AppCall, s \in Signer :
       \E args \in [1 .. TxnArgs[m] -> [txn : Txn, signer : Signer]] :
         AddMethodCall(m, args, a, s)
  \/ BuildGroup

StartCall(c) ==
  \/ GatherSignatures(c)
  \/ Submit(c)
  \/ Simulate(c)
  \/ Execute(c)

\* What an outstanding call does next.
Resume(c) ==
  \/ SignersSign(c)
  \/ SignersFail(c)
  \/ ResumeGathered(c)
  \/ SendAccepted(c)
  \/ SendAnswerLost(c)
  \/ SendRejected(c)
  \/ ResumeSubmit(c)
  \/ ResumeExecute(c)
  \/ ResumeConfirmed(c)
  \/ ThrowUnconfirmed(c)
  \/ FetchResult(c)
  \/ ResumeSimulated(c)
  \/ SimulateFails(c)

Chain == \E g \in pool : CommitGroup(g) \/ DropGroup(g)

Next ==
  \/ Compose
  \/ \E c \in CallSlot : StartCall(c)
  \/ \E c \in CallSlot : Resume(c)
  \/ Chain

Spec == Init /\ [][Next]_vars

\* Every promise settles: signers answer, requests are answered or time out,
\* and waitForConfirmation gives up after waitRounds rounds.
FairSpec == Spec /\ \A c \in CallSlot : WF_vars(Resume(c))

-----------------------------------------------------------------------------
(* Properties *)

\* The identifiers of the transactions of the composer, as they are now.
CurrentIDs == [i \in 1 .. Len(transactions) |-> IdOf(transactions[i].txn)]

MethodResult == [index : Nat, txID : TxID, decoded : BOOLEAN]

\* The type of every field of the composer, of the calls and of the network.
TypeOK ==
  /\ status \in BUILDING .. COMMITTED
  /\ transactions \in Seq(TransactionWithSigner)
  /\ DOMAIN methodCalls \subseteq 1 .. Len(transactions)
  /\ methodCalls \in [DOMAIN methodCalls -> Method]
  /\ signedTxns \in Seq(TxID)
  /\ txIDs \in Seq(TxID)
  /\ group \in [TxnObject -> GroupID]
  /\ pc \in [CallSlot -> Resting \cup Suspended]
  /\ op \in [CallSlot -> Operation]
  /\ stxns \in [CallSlot -> Seq(TxID)]
  /\ ids \in [CallSlot -> Seq(TxID)]
  /\ results \in [CallSlot -> SUBSET MethodResult]
  /\ pool \subseteq Seq(TxID)
  /\ seen \subseteq Seq(TxID)
  /\ ledger \subseteq Seq(TxID)

\* Once signed, the cached signatures and the identifiers are those of the
\* whole group as it stands, whichever of several overlapping calls stored
\* them: no signature is missing, none is of another group ID.
SignaturesMatchGroup ==
  status >= SIGNED => signedTxns = CurrentIDs /\ txIDs = CurrentIDs

\* Whatever a call is about to send is a group the protocol can accept: all
\* its transactions carry the hash of exactly this list.
SentWellFormed ==
  \A c \in CallSlot : pc[c] = "sending" => WellFormed(stxns[c])

\* The status never claims more than happened: SUBMITTED only after an algod
\* accepted the group, COMMITTED only when it is in a block.
StatusTruthful ==
  /\ status = SUBMITTED => signedTxns \in seen
  /\ status = COMMITTED => signedTxns \in ledger

\* An execute that returns does so with the group in a block and with one
\* result for every method call, under the identifier of its app call.
ExecuteReturnsAllResults ==
  \A c \in CallSlot : op[c] = "execute" /\ pc[c] = "returned" =>
    /\ signedTxns \in ledger
    /\ ids[c] = CurrentIDs
    /\ {<<r.index, r.txID>> : r \in results[c]} =
         {<<i, CurrentIDs[i]>> : i \in DOMAIN methodCalls}

\* methodCalls has the index of every app call that addMethodCall created and
\* of no other transaction, wherever its transaction arguments pushed it.
MethodCallsIndexAppCalls ==
  DOMAIN methodCalls =
    {i \in DOMAIN transactions : transactions[i].txn \in AppCall}

-----------------------------------------------------------------------------
(* The inductive invariant, from which ComposerProofs derives the others *)

\* The labels of a call that holds the array gatherSignatures resolved to,
\* and of one that knows that an algod accepted it.
Gathered == Suspended \ {"signing"}
Acknowledged == {"accepted", "submitted", "waiting", "fetching"}

\* The group: while it is open its transactions are ungrouped, afterwards
\* they are as the protocol wants them.
GroupInv ==
  /\ Len(transactions) <= MaxGroupSize
  /\ status = BUILDING =>
       /\ \A i \in DOMAIN transactions : group[transactions[i].txn] = NoGroup
       /\ \A a \in AppCall : group[a] = NoGroup
  /\ status # BUILDING => WellFormed(CurrentIDs)

\* The calls: what a suspended call holds is what the composer caches.
CallInv ==
  \A c \in CallSlot :
    /\ pc[c] = "signing" => status # BUILDING
    /\ pc[c] \in Gathered => status >= SIGNED /\ stxns[c] = signedTxns
    /\ pc[c] \in Acknowledged => signedTxns \in seen
    /\ pc[c] \in Acknowledged \ {"accepted"} => ids[c] = txIDs
    /\ pc[c] = "fetching" => signedTxns \in ledger

\* The network: it never saw another group than the one that is cached.
NetworkInv ==
  /\ seen # {} => status >= SIGNED
  /\ seen \subseteq {signedTxns}
  /\ pool \subseteq seen
  /\ ledger \subseteq seen

\* The results: those a call of execute has, it has under the right index.
ResultInv ==
  \A c \in CallSlot :
    /\ pc[c] = "simulating" => op[c] = "simulate"
    /\ pc[c] \in Suspended \ {"fetching"} => results[c] = {}
    /\ pc[c] = "fetching" =>
         \A r \in results[c] :
           r.index \in DOMAIN methodCalls /\ r.txID = CurrentIDs[r.index]
    /\ op[c] = "execute" /\ pc[c] = "returned" => status >= SIGNED

\* Everything above together, preserved by every step.
Inv ==
  /\ TypeOK
  /\ GroupInv
  /\ SignaturesMatchGroup
  /\ StatusTruthful
  /\ CallInv
  /\ NetworkInv
  /\ ResultInv
  /\ ExecuteReturnsAllResults
  /\ MethodCallsIndexAppCalls

-----------------------------------------------------------------------------
(* Properties of steps and of behaviours *)

\* From the moment the group is built nothing changes it, and it never opens
\* again: calls suspended at an await rely on that when they resume.
GroupFrozen ==
  [][status # BUILDING =>
       /\ status' # BUILDING
       /\ UNCHANGED <<transactions, methodCalls, group>>]_vars

\* Every call returns or throws.
CallsSettle ==
  \A c \in CallSlot : pc[c] \in Suspended ~> pc[c] \in Resting

\* The doc of execute: "execution is only allowed once".  After an execute
\* has returned, a later execute does not get past its guard.
ExecutionAllowedOnce ==
  [][(\E d \in CallSlot : op[d] = "execute" /\ pc[d] = "returned") =>
       \A c \in CallSlot : ~(/\ pc[c] \in Resting
                             /\ op'[c] = "execute"
                             /\ pc'[c] \in Suspended)]_vars

\* The doc of simulate: "Simulating the group will not change the composer's
\* status".  No step of a simulate call changes it.
SimulateKeepsStatus ==
  [][\A c \in CallSlot : pc'[c] # pc[c] /\ op'[c] = "simulate" =>
       status' = status]_vars

-----------------------------------------------------------------------------
(* The composer implements AtomicGroup *)

TxnsOf(list) == [i \in 1 .. Len(list) |-> list[i].txn]

Promise == INSTANCE AtomicGroup WITH
  members <- TxnsOf(transactions),
  sealed <- status # BUILDING,
  published <- {TxnsOf(g) : g \in seen},
  confirmed <- {TxnsOf(g) : g \in ledger}

\* Only the list that was sealed is ever published or confirmed, whatever the
\* calls, the signers and the network do, and however often it is sent.
ImplementsAtomicGroup == Promise!Spec
=============================================================================
