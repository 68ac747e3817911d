--------------------------- MODULE ComposerProofs ---------------------------
(***************************************************************************)
(* Proofs about Composer for any transactions, signers, methods, bound on  *)
(* the group and number of overlapping calls.                              *)
(***************************************************************************)
EXTENDS Composer, WellFoundedInduction, TLAPS

USE DEF BUILDING, BUILT, SIGNED, SUBMITTED, COMMITTED

-----------------------------------------------------------------------------
(* The group *)

\* A function on 1 .. n is a sequence of length n.
LEMMA FunctionIsSequence ==
  ASSUME NEW S, NEW n \in Nat, NEW f \in [1 .. n -> S]
  PROVE  f \in Seq(S) /\ Len(f) = n
OBVIOUS

\* What Append does to a sequence.
LEMMA Appended ==
  ASSUME NEW S, NEW s \in Seq(S), NEW e \in S, NEW r, r = Append(s, e)
  PROVE  /\ r \in Seq(S)
         /\ Len(r) = Len(s) + 1
         /\ DOMAIN r = 1 .. (Len(s) + 1)
         /\ \A i \in 1 .. Len(s) : r[i] = s[i]
         /\ r[Len(s) + 1] = e
OBVIOUS

\* What pushing the arguments of a method call and its app call does.
LEMMA ArgumentsAppended ==
  ASSUME NEW S, NEW s \in Seq(S), NEW t \in Seq(S), NEW e \in S,
         NEW r, r = (s \o t) \o <<e>>
  PROVE  /\ r \in Seq(S)
         /\ Len(r) = Len(s) + Len(t) + 1
         /\ \A i \in 1 .. Len(s) : r[i] = s[i]
         /\ \A j \in 1 .. Len(t) : r[Len(s) + j] = t[j]
         /\ r[Len(s) + Len(t) + 1] = e
<1> DEFINE front == s \o t
<1>1. /\ front \in Seq(S)
      /\ Len(front) = Len(s) + Len(t)
      /\ \A i \in 1 .. Len(s) : front[i] = s[i]
      /\ \A j \in 1 .. Len(t) : front[Len(s) + j] = t[j]
  OBVIOUS
<1> HIDE DEF front
<1>2. r = Append(front, e)
  <2>1. front \o <<e>> = Append(front, e)
    BY <1>1
  <2> QED BY <2>1 DEF front
<1>3. /\ r \in Seq(S)
      /\ Len(r) = Len(front) + 1
      /\ \A i \in 1 .. Len(front) : r[i] = front[i]
      /\ r[Len(front) + 1] = e
  <2>1. e \in S
    OBVIOUS
  <2> QED BY ONLY <1>1, <1>2, <2>1, Appended
<1>4. Len(s) \in Nat /\ Len(t) \in Nat
  OBVIOUS
<1> QED BY ONLY <1>1, <1>3, <1>4

\* The entries of the list of transactions.
LEMMA EntriesTyped ==
  ASSUME transactions \in Seq(TransactionWithSigner)
  PROVE  /\ Len(transactions) \in Nat
         /\ DOMAIN transactions = 1 .. Len(transactions)
         /\ \A i \in 1 .. Len(transactions) :
              /\ transactions[i] \in TransactionWithSigner
              /\ transactions[i].txn \in TxnObject
<1>1. \A i \in 1 .. Len(transactions) : transactions[i] \in TransactionWithSigner
  OBVIOUS
<1>2. \A e \in TransactionWithSigner : e.txn \in TxnObject
  BY DEF TransactionWithSigner
<1> QED BY <1>1, <1>2

\* The list of identifiers has one typed identifier for each transaction.
LEMMA CurrentIDsType ==
  ASSUME transactions \in Seq(TransactionWithSigner),
         group \in [TxnObject -> GroupID]
  PROVE  /\ CurrentIDs \in Seq(TxID)
         /\ Len(CurrentIDs) = Len(transactions)
         /\ \A i \in 1 .. Len(transactions) :
              /\ transactions[i].txn \in TxnObject
              /\ CurrentIDs[i] = [txn |-> transactions[i].txn,
                                  group |-> group[transactions[i].txn]]
<1>1. /\ Len(transactions) \in Nat
      /\ \A i \in 1 .. Len(transactions) : transactions[i].txn \in TxnObject
  BY EntriesTyped
<1>2. \A i \in 1 .. Len(transactions) :
        /\ IdOf(transactions[i].txn) =
             [txn |-> transactions[i].txn, group |-> group[transactions[i].txn]]
        /\ IdOf(transactions[i].txn) \in TxID
  BY <1>1 DEF IdOf, TxID
<1>3. CurrentIDs \in [1 .. Len(transactions) -> TxID]
  BY <1>2 DEF CurrentIDs
<1>4. /\ CurrentIDs \in Seq(TxID)
      /\ Len(CurrentIDs) = Len(transactions)
  BY <1>1, <1>3, FunctionIsSequence
<1> QED BY <1>1, <1>2, <1>4 DEF CurrentIDs

\* A list that carries its own hash is one the protocol accepts.
LEMMA HashedListWellFormed ==
  ASSUME NEW n \in Nat \ {0}, NEW g, Len(g) = n, NEW hash,
         hash = [i \in 1 .. n |-> [txn |-> g[i].txn, group |-> NoGroup]],
         \A i \in 1 .. n : g[i].group = IF n > 1 THEN hash ELSE NoGroup
  PROVE  WellFormed(g)
<1>1. CASE n = 1
  BY <1>1 DEF WellFormed
<1>2. CASE n > 1
  BY <1>2 DEF WellFormed
<1> QED BY <1>1, <1>2

\* buildGroup: ungrouped transactions get the hash of exactly their list, so
\* the finalized group is one that the protocol accepts.
LEMMA FinalizedWellFormed ==
  ASSUME TypeOK, GroupInv, status = BUILDING, FinalizeGroup,
         transactions' = transactions
  PROVE  /\ group' \in [TxnObject -> GroupID]
         /\ WellFormed(CurrentIDs')
         /\ status' = BUILT
<1>1. /\ group' = AssignedGroup
      /\ status' = BUILT
      /\ Len(transactions) \in Nat \ {0}
      /\ \A i \in 1 .. Len(transactions) :
           /\ transactions[i].txn \in TxnObject
           /\ group[transactions[i].txn] = NoGroup
  BY EntriesTyped DEF TypeOK, FinalizeGroup, GroupInv
<1> DEFINE hash == [i \in 1 .. Len(transactions) |->
                      [txn |-> transactions[i].txn, group |-> NoGroup]]
<1>2. ComputedGroupID = hash
  BY <1>1 DEF ComputedGroupID, IdOf
<1>3. hash \in Seq(UngroupedID)
  BY <1>1 DEF UngroupedID
<1>4. group' \in [TxnObject -> GroupID]
  BY <1>1, <1>2, <1>3 DEF AssignedGroup, GroupID, TypeOK
<1>5. \A i \in 1 .. Len(transactions) :
        group'[transactions[i].txn] =
          IF Len(transactions) > 1 THEN hash ELSE NoGroup
  BY <1>1, <1>2 DEF AssignedGroup, Members, TypeOK
<1>6. /\ Len(CurrentIDs') = Len(transactions)
      /\ \A i \in 1 .. Len(transactions) :
           /\ CurrentIDs'[i].txn = transactions[i].txn
           /\ CurrentIDs'[i].group = group'[transactions[i].txn]
  BY <1>1 DEF CurrentIDs, IdOf
<1>7. hash = [i \in 1 .. Len(transactions) |->
                [txn |-> CurrentIDs'[i].txn, group |-> NoGroup]]
  BY <1>6
<1>8. WellFormed(CurrentIDs')
  <2>1. \A i \in 1 .. Len(transactions) :
          CurrentIDs'[i].group = IF Len(transactions) > 1 THEN hash ELSE NoGroup
    BY <1>5, <1>6
  <2> HIDE DEF hash
  <2> QED BY <1>1, <1>6, <1>7, <2>1, HashedListWellFormed
<1> QED BY <1>1, <1>4, <1>8

-----------------------------------------------------------------------------
(* Steps that leave the composer alone *)

\* The group and what it determines stay as they are.
LEMMA SameGroup ==
  ASSUME transactions' = transactions, group' = group
  PROVE  CurrentIDs' = CurrentIDs
BY DEF CurrentIDs, IdOf

LEMMA SameComposer ==
  ASSUME Inv, UNCHANGED composer
  PROVE  /\ CurrentIDs' = CurrentIDs
         /\ GroupInv'
         /\ SignaturesMatchGroup'
         /\ MethodCallsIndexAppCalls'
<1>1. CurrentIDs' = CurrentIDs
  BY SameGroup DEF composer
<1>2. GroupInv'
  BY <1>1 DEF Inv, GroupInv, composer
<1>3. SignaturesMatchGroup'
  BY <1>1 DEF Inv, SignaturesMatchGroup, composer
<1>4. MethodCallsIndexAppCalls'
  BY DEF Inv, MethodCallsIndexAppCalls, composer
<1> QED BY <1>1, <1>2, <1>3, <1>4

\* A call that throws.
LEMMA ThrowStep ==
  ASSUME Inv, NEW c \in CallSlot, pc[c] \in Suspended, Goto(c, "threw"),
         UNCHANGED <<composer, op, stxns, ids, results, network>>
  PROVE  Inv'
<1> USE DEF composer, network
<1>1. /\ CurrentIDs' = CurrentIDs
      /\ GroupInv' /\ SignaturesMatchGroup' /\ MethodCallsIndexAppCalls'
  BY SameComposer
<1>2. TypeOK'
  BY DEF Inv, TypeOK, Goto, Resting
<1>3. StatusTruthful'
  BY DEF Inv, StatusTruthful
<1>4. CallInv'
  BY DEF Inv, TypeOK, CallInv, Goto, Gathered, Acknowledged, Suspended
<1>5. NetworkInv'
  BY DEF Inv, NetworkInv
<1>6. ResultInv'
  BY <1>1 DEF Inv, TypeOK, ResultInv, Goto, Suspended
<1>7. ExecuteReturnsAllResults'
  BY <1>1 DEF Inv, TypeOK, ExecuteReturnsAllResults, Goto
<1> QED BY <1>1, <1>2, <1>3, <1>4, <1>5, <1>6, <1>7 DEF Inv

\* The caller of gatherSignatures resumes.
LEMMA ResumeGatheredStep ==
  ASSUME Inv, NEW c \in CallSlot, ResumeGathered(c)
  PROVE  Inv'
<1> USE DEF composer, network
<1>1. /\ CurrentIDs' = CurrentIDs
      /\ GroupInv' /\ SignaturesMatchGroup' /\ MethodCallsIndexAppCalls'
  BY SameComposer DEF ResumeGathered
<1>2. /\ pc[c] = "gathered"
      /\ UNCHANGED <<composer, op, stxns, ids, results, network>>
      /\ \/ op[c] = "gatherSignatures" /\ Goto(c, "returned")
         \/ op[c] = "simulate" /\ Goto(c, "simulating")
         \/ op[c] \in {"submit", "execute"} /\ Goto(c, "sending")
  BY DEF ResumeGathered
<1>3. TypeOK'
  BY <1>2 DEF Inv, TypeOK, Goto, Resting, Suspended
<1>4. StatusTruthful'
  BY <1>2 DEF Inv, StatusTruthful
<1>5. CallInv'
  BY <1>2 DEF Inv, TypeOK, CallInv, Goto, Gathered, Acknowledged, Suspended
<1>6. NetworkInv'
  BY <1>2 DEF Inv, NetworkInv
<1>7. ResultInv'
  BY <1>1, <1>2 DEF Inv, TypeOK, ResultInv, Goto, Suspended
<1>8. ExecuteReturnsAllResults'
  BY <1>1, <1>2 DEF Inv, TypeOK, ExecuteReturnsAllResults, Goto
<1> QED BY <1>1, <1>3, <1>4, <1>5, <1>6, <1>7, <1>8 DEF Inv

\* The network accepts what a call sends: it can only be the cached group.
LEMMA AcceptedStep ==
  ASSUME Inv, NEW c \in CallSlot, pc[c] = "sending", Accept(stxns[c]),
         Goto(c, "accepted") \/ Goto(c, "threw"),
         UNCHANGED <<composer, op, stxns, ids, results>>
  PROVE  Inv'
<1> USE DEF composer
<1>1. /\ CurrentIDs' = CurrentIDs
      /\ GroupInv' /\ SignaturesMatchGroup' /\ MethodCallsIndexAppCalls'
  BY SameComposer
<1>2. /\ status >= SIGNED
      /\ stxns[c] = signedTxns
      /\ pool' = pool \cup {signedTxns}
      /\ seen' = seen \cup {signedTxns}
      /\ ledger' = ledger
      /\ signedTxns \in Seq(TxID)
  BY DEF Accept, Inv, CallInv, Gathered, Suspended, TypeOK
<1>3. TypeOK'
  BY <1>2 DEF Inv, TypeOK, Goto, Resting, Suspended
<1>4. StatusTruthful'
  BY <1>2 DEF Inv, StatusTruthful
<1>5. CallInv'
  BY <1>2 DEF Inv, TypeOK, CallInv, Goto, Gathered, Acknowledged, Suspended
<1>6. NetworkInv'
  BY <1>2 DEF Inv, NetworkInv
<1>7. ResultInv'
  BY <1>1, <1>2 DEF Inv, TypeOK, ResultInv, Goto, Suspended
<1>8. ExecuteReturnsAllResults'
  BY <1>1, <1>2 DEF Inv, TypeOK, ExecuteReturnsAllResults, Goto
<1> QED BY <1>1, <1>3, <1>4, <1>5, <1>6, <1>7, <1>8 DEF Inv

\* The chain confirms or drops a pending group.
LEMMA ChainStep ==
  ASSUME Inv, NEW g \in pool, CommitGroup(g) \/ DropGroup(g)
  PROVE  Inv'
<1> USE DEF composer, calls, CommitGroup, DropGroup
<1>1. /\ CurrentIDs' = CurrentIDs
      /\ GroupInv' /\ SignaturesMatchGroup' /\ MethodCallsIndexAppCalls'
  BY SameComposer
<1>2. TypeOK'
  BY DEF Inv, TypeOK
<1>3. StatusTruthful'
  BY DEF Inv, StatusTruthful
<1>4. CallInv'
  BY DEF Inv, CallInv
<1>5. NetworkInv'
  BY DEF Inv, NetworkInv
<1>6. ResultInv'
  BY <1>1 DEF Inv, ResultInv
<1>7. ExecuteReturnsAllResults'
  BY <1>1 DEF Inv, ExecuteReturnsAllResults
<1> QED BY <1>1, <1>2, <1>3, <1>4, <1>5, <1>6, <1>7 DEF Inv

\* simulate builds the results of every method call at once.
LEMMA ResumeSimulatedStep ==
  ASSUME Inv, NEW c \in CallSlot, ResumeSimulated(c)
  PROVE  Inv'
<1> USE DEF composer, network
<1>1. /\ CurrentIDs' = CurrentIDs
      /\ GroupInv' /\ SignaturesMatchGroup' /\ MethodCallsIndexAppCalls'
  BY SameComposer DEF ResumeSimulated
<1>2. /\ pc[c] = "simulating"
      /\ op[c] = "simulate"
      /\ txIDs = CurrentIDs
      /\ DOMAIN methodCalls \subseteq 1 .. Len(transactions)
      /\ Len(transactions) \in Nat
      /\ Goto(c, "returned")
      /\ UNCHANGED <<composer, op, stxns, ids, network>>
  BY DEF ResumeSimulated, Inv, TypeOK, CallInv, Gathered, Suspended,
         SignaturesMatchGroup, ResultInv
<1>3. PICK decoded \in [DOMAIN methodCalls -> BOOLEAN] :
        results' = [results EXCEPT ![c] =
          {[index |-> i, txID |-> txIDs[i], decoded |-> decoded[i]] :
             i \in DOMAIN methodCalls}]
  BY DEF ResumeSimulated
<1>4. \A i \in DOMAIN methodCalls :
        [index |-> i, txID |-> txIDs[i], decoded |-> decoded[i]]
          \in MethodResult
  <2>1. \A i \in DOMAIN methodCalls : i \in Nat /\ txIDs[i] \in TxID
    BY <1>2, CurrentIDsType DEF Inv, TypeOK
  <2> QED BY <2>1 DEF MethodResult
<1>5. results' \in [CallSlot -> SUBSET MethodResult]
  BY <1>3, <1>4 DEF Inv, TypeOK
<1>6. TypeOK'
  BY <1>2, <1>5 DEF Inv, TypeOK, Goto, Resting
<1>7. StatusTruthful'
  BY <1>2 DEF Inv, StatusTruthful
<1>8. CallInv'
  BY <1>2 DEF Inv, TypeOK, CallInv, Goto, Gathered, Acknowledged, Suspended
<1>9. NetworkInv'
  BY <1>2 DEF Inv, NetworkInv
<1>10. ResultInv'
  BY <1>1, <1>2, <1>3 DEF Inv, TypeOK, ResultInv, Goto, Suspended
<1>11. ExecuteReturnsAllResults'
  BY <1>1, <1>2, <1>3 DEF Inv, TypeOK, ExecuteReturnsAllResults, Goto
<1> QED BY <1>1, <1>6, <1>7, <1>8, <1>9, <1>10, <1>11 DEF Inv

-----------------------------------------------------------------------------
(* Steps that only advance the status of a signed group *)

\* SUBMITTED and COMMITTED are assigned to a composer that is signed, so the
\* group and the signatures stay as they are, whatever the status was.
LEMMA SameSignedGroup ==
  ASSUME Inv, status >= SIGNED, status' \in SIGNED .. COMMITTED,
         UNCHANGED <<transactions, methodCalls, signedTxns, txIDs, group>>
  PROVE  /\ CurrentIDs' = CurrentIDs
         /\ GroupInv'
         /\ SignaturesMatchGroup'
         /\ MethodCallsIndexAppCalls'
<1>1. CurrentIDs' = CurrentIDs
  BY SameGroup
<1>2. GroupInv'
  BY <1>1 DEF Inv, GroupInv
<1>3. SignaturesMatchGroup'
  BY <1>1 DEF Inv, SignaturesMatchGroup
<1>4. MethodCallsIndexAppCalls'
  BY DEF Inv, MethodCallsIndexAppCalls
<1> QED BY <1>1, <1>2, <1>3, <1>4

\* submit resumes: an algod has accepted the group.
LEMMA ResumeSubmitStep ==
  ASSUME Inv, NEW c \in CallSlot, ResumeSubmit(c)
  PROVE  Inv'
<1> USE DEF network
<1>1. /\ pc[c] = "accepted"
      /\ status >= SIGNED
      /\ signedTxns \in seen
      /\ status' = SUBMITTED
      /\ ids' = [ids EXCEPT ![c] = txIDs]
      /\ \/ op[c] = "submit" /\ Goto(c, "returned")
         \/ op[c] # "submit" /\ Goto(c, "submitted")
      /\ UNCHANGED <<transactions, methodCalls, signedTxns, txIDs, group>>
      /\ UNCHANGED <<op, stxns, results, network>>
  BY DEF ResumeSubmit, Inv, CallInv, Gathered, Acknowledged, Suspended
<1>2. /\ CurrentIDs' = CurrentIDs
      /\ GroupInv' /\ SignaturesMatchGroup' /\ MethodCallsIndexAppCalls'
  BY <1>1, SameSignedGroup
<1>3. TypeOK'
  <2>1. pc' \in [CallSlot -> Resting \cup Suspended]
    BY <1>1 DEF Inv, TypeOK, Goto, Resting, Suspended
  <2>2. ids' \in [CallSlot -> Seq(TxID)]
    BY <1>1 DEF Inv, TypeOK
  <2> QED BY <1>1, <2>1, <2>2 DEF Inv, TypeOK
<1>4. StatusTruthful'
  BY <1>1 DEF StatusTruthful
<1>5. CallInv'
  BY <1>1 DEF Inv, TypeOK, CallInv, Goto, Gathered, Acknowledged, Suspended
<1>6. NetworkInv'
  BY <1>1 DEF Inv, NetworkInv
<1>7. ResultInv'
  <2>1. results[c] = {}
    BY <1>1 DEF Inv, ResultInv, Suspended
  <2>2. \A d \in CallSlot : \/ pc'[d] = pc[d]
                            \/ d = c /\ pc'[d] = "submitted"
                            \/ /\ d = c
                               /\ pc'[d] = "returned"
                               /\ op[d] = "submit"
    BY <1>1 DEF Inv, TypeOK, Goto
  <2> QED BY <1>1, <1>2, <2>1, <2>2 DEF Inv, ResultInv
<1>8. ExecuteReturnsAllResults'
  BY <1>1, <1>2 DEF Inv, TypeOK, ExecuteReturnsAllResults, Goto
<1> QED BY <1>2, <1>3, <1>4, <1>5, <1>6, <1>7, <1>8 DEF Inv

\* execute resumes after submit.
LEMMA ResumeExecuteStep ==
  ASSUME Inv, NEW c \in CallSlot, ResumeExecute(c)
  PROVE  Inv'
<1> USE DEF network
<1>1. /\ pc[c] = "submitted"
      /\ status >= SIGNED
      /\ signedTxns \in seen
      /\ status' = SUBMITTED
      /\ Goto(c, "waiting")
      /\ UNCHANGED <<transactions, methodCalls, signedTxns, txIDs, group>>
      /\ UNCHANGED <<op, stxns, ids, results, network>>
  BY DEF ResumeExecute, Inv, CallInv, Gathered, Acknowledged, Suspended
<1>2. /\ CurrentIDs' = CurrentIDs
      /\ GroupInv' /\ SignaturesMatchGroup' /\ MethodCallsIndexAppCalls'
  BY <1>1, SameSignedGroup
<1>3. TypeOK'
  BY <1>1 DEF Inv, TypeOK, Goto, Resting, Suspended
<1>4. StatusTruthful'
  BY <1>1 DEF StatusTruthful
<1>5. CallInv'
  BY <1>1 DEF Inv, TypeOK, CallInv, Goto, Gathered, Acknowledged, Suspended
<1>6. NetworkInv'
  BY <1>1 DEF Inv, NetworkInv
<1>7. ResultInv'
  BY <1>1, <1>2 DEF Inv, TypeOK, ResultInv, Goto, Suspended
<1>8. ExecuteReturnsAllResults'
  BY <1>1, <1>2 DEF Inv, TypeOK, ExecuteReturnsAllResults, Goto
<1> QED BY <1>2, <1>3, <1>4, <1>5, <1>6, <1>7, <1>8 DEF Inv

-----------------------------------------------------------------------------
(* The loop of execute over the method calls *)

\* The loop over the method calls always finds a next one.
LEMMA SmallestIsMember ==
  ASSUME NEW S \in SUBSET Nat, S # {}
  PROVE  Smallest(S) \in S
<1>1. PICK x \in S : \A y \in S : <<y, x>> \notin OpToRel(<, Nat)
  BY NatLessThanWellFounded, WFMin
<1>2. \A y \in S : x <= y
  <2>1. SUFFICES ASSUME NEW y \in S, y < x PROVE FALSE
    OBVIOUS
  <2>2. <<y, x>> \in OpToRel(<, Nat)
    BY <2>1 DEF OpToRel
  <2> QED BY <1>1, <2>2
<1> QED BY <1>2 DEF Smallest

\* One turn of the loop adds the result of the next method call, or finds no
\* method call at all; when execute returns it has the results of all.
LEMMA RecordResultAdds ==
  ASSUME Inv, NEW c \in CallSlot,
         status >= SIGNED, ids[c] = CurrentIDs,
         \A r \in results[c] :
           r.index \in DOMAIN methodCalls /\ r.txID = CurrentIDs[r.index],
         \/ RecordResult(c)
         \/ DOMAIN methodCalls = {} /\ Goto(c, "returned") /\ UNCHANGED results
  PROVE  /\ pc' \in [CallSlot -> Resting \cup Suspended]
         /\ results' \in [CallSlot -> SUBSET MethodResult]
         /\ \A d \in CallSlot :
              d # c => pc'[d] = pc[d] /\ results'[d] = results[d]
         /\ \A r \in results'[c] :
              r.index \in DOMAIN methodCalls /\ r.txID = CurrentIDs[r.index]
         /\ \/ pc'[c] = "fetching"
            \/ /\ pc'[c] = "returned"
               /\ {<<r.index, r.txID>> : r \in results'[c]} =
                    {<<i, CurrentIDs[i]>> : i \in DOMAIN methodCalls}
<1> DEFINE left == DOMAIN methodCalls \ Fetched(c)
           i == Smallest(left)
<1>1. /\ pc \in [CallSlot -> Resting \cup Suspended]
      /\ results \in [CallSlot -> SUBSET MethodResult]
      /\ DOMAIN methodCalls \subseteq 1 .. Len(transactions)
      /\ Len(transactions) \in Nat
  BY DEF Inv, TypeOK
<1>2. CASE DOMAIN methodCalls = {} /\ Goto(c, "returned") /\ UNCHANGED results
  BY <1>1, <1>2 DEF Goto, Resting
<1>3. CASE RecordResult(c)
  <2>1. i \in left
    <3>1. left \subseteq Nat /\ left # {}
      BY <1>1, <1>3 DEF RecordResult
    <3> QED BY <3>1, SmallestIsMember
  <2>2. /\ \E decoded \in BOOLEAN :
             results' = [results EXCEPT ![c] = @ \cup
               {[index |-> i, txID |-> CurrentIDs[i], decoded |-> decoded]}]
        /\ Goto(c, IF left = {i} THEN "returned" ELSE "fetching")
    BY <1>3 DEF RecordResult
  <2> HIDE DEF i
  <2>3. PICK decoded \in BOOLEAN :
          results' = [results EXCEPT ![c] = @ \cup
            {[index |-> i, txID |-> CurrentIDs[i], decoded |-> decoded]}]
    BY <2>2
  <2>4. CurrentIDs[i] \in TxID /\ i \in DOMAIN methodCalls /\ i \in Nat
    BY <1>1, <2>1, CurrentIDsType DEF Inv, TypeOK
  <2> DEFINE r0 == [index |-> i, txID |-> CurrentIDs[i], decoded |-> decoded]
  <2>5. /\ r0 \in MethodResult
        /\ r0.index = i
        /\ r0.txID = CurrentIDs[i]
    BY <2>4 DEF MethodResult
  <2>6. results' = [results EXCEPT ![c] = results[c] \cup {r0}]
    BY <2>3
  <2> HIDE DEF r0
  <2>7. /\ results' \in [CallSlot -> SUBSET MethodResult]
        /\ results'[c] = results[c] \cup {r0}
        /\ \A d \in CallSlot : d # c => results'[d] = results[d]
    BY <1>1, <2>5, <2>6
  <2>8. /\ pc' \in [CallSlot -> Resting \cup Suspended]
        /\ \A d \in CallSlot : d # c => pc'[d] = pc[d]
        /\ \/ pc'[c] = "fetching"
           \/ pc'[c] = "returned" /\ left = {i}
    BY <1>1, <2>2 DEF Goto, Resting, Suspended
  <2>9. \A r \in results'[c] :
          r.index \in DOMAIN methodCalls /\ r.txID = CurrentIDs[r.index]
    BY <2>4, <2>5, <2>7
  <2>10. ASSUME left = {i}
         PROVE  {<<r.index, r.txID>> : r \in results'[c]} =
                  {<<j, CurrentIDs[j]>> : j \in DOMAIN methodCalls}
    <3>1. \A j \in DOMAIN methodCalls : \E r \in results'[c] : r.index = j
      BY <2>5, <2>7, <2>10 DEF Fetched
    <3> QED BY <2>9, <3>1
  <2> QED BY <2>7, <2>8, <2>9, <2>10
<1> QED BY <1>2, <1>3

\* So every step of the loop preserves the invariant.
LEMMA LoopStep ==
  ASSUME Inv, NEW c \in CallSlot,
         pc[c] \in {"waiting", "fetching"},
         signedTxns \in ledger,
         status' \in {status, COMMITTED},
         \/ RecordResult(c)
         \/ DOMAIN methodCalls = {} /\ Goto(c, "returned") /\ UNCHANGED results,
         UNCHANGED <<transactions, methodCalls, signedTxns, txIDs, group>>,
         UNCHANGED <<op, stxns, ids, network>>
  PROVE  Inv'
<1> USE DEF network
<1>1. /\ status >= SIGNED
      /\ status \in BUILDING .. COMMITTED
      /\ ids[c] = CurrentIDs
      /\ \A r \in results[c] :
           r.index \in DOMAIN methodCalls /\ r.txID = CurrentIDs[r.index]
  BY DEF Inv, TypeOK, CallInv, Gathered, Acknowledged, Suspended,
         SignaturesMatchGroup, ResultInv
<1>2. /\ pc' \in [CallSlot -> Resting \cup Suspended]
      /\ results' \in [CallSlot -> SUBSET MethodResult]
      /\ \A d \in CallSlot :
           d # c => pc'[d] = pc[d] /\ results'[d] = results[d]
      /\ \A r \in results'[c] :
           r.index \in DOMAIN methodCalls /\ r.txID = CurrentIDs[r.index]
      /\ \/ pc'[c] = "fetching"
         \/ /\ pc'[c] = "returned"
            /\ {<<r.index, r.txID>> : r \in results'[c]} =
                 {<<i, CurrentIDs[i]>> : i \in DOMAIN methodCalls}
  BY <1>1, RecordResultAdds
<1>3. /\ CurrentIDs' = CurrentIDs
      /\ GroupInv' /\ SignaturesMatchGroup' /\ MethodCallsIndexAppCalls'
  BY <1>1, SameSignedGroup
<1>4. TypeOK'
  BY <1>1, <1>2 DEF Inv, TypeOK
<1>5. StatusTruthful'
  BY DEF Inv, StatusTruthful
<1>6. CallInv'
  BY <1>1, <1>2 DEF Inv, CallInv, Gathered, Acknowledged, Suspended
<1>7. NetworkInv'
  BY <1>1 DEF Inv, NetworkInv
<1>8. ResultInv'
  BY <1>1, <1>2, <1>3 DEF Inv, ResultInv, Suspended
<1>9. ExecuteReturnsAllResults'
  BY <1>1, <1>2, <1>3 DEF Inv, ExecuteReturnsAllResults
<1> QED BY <1>3, <1>4, <1>5, <1>6, <1>7, <1>8, <1>9 DEF Inv

LEMMA FetchResultStep ==
  ASSUME Inv, NEW c \in CallSlot, FetchResult(c)
  PROVE  Inv'
<1>1. pc[c] = "fetching" /\ signedTxns \in ledger
  BY DEF FetchResult, Inv, CallInv
<1> QED BY <1>1, LoopStep DEF FetchResult, composer

\* waitForConfirmation resolves: what it found in a block is a transaction of
\* the only group that was ever accepted.
LEMMA ResumeConfirmedStep ==
  ASSUME Inv, NEW c \in CallSlot, ResumeConfirmed(c)
  PROVE  Inv'
<1>1. signedTxns \in ledger
  BY DEF ResumeConfirmed, InBlock, Inv, NetworkInv
<1> QED BY <1>1, LoopStep DEF ResumeConfirmed

-----------------------------------------------------------------------------
(* Signing *)

\* The signers answer.  Nothing has been accepted yet, or what is cached is
\* what these signers signed: the group has not changed since it was built.
LEMMA SignersSignStep ==
  ASSUME Inv, NEW c \in CallSlot, SignersSign(c)
  PROVE  Inv'
<1> USE DEF network
<1>1. /\ pc[c] = "signing"
      /\ status # BUILDING
      /\ signedTxns' = CurrentIDs
      /\ txIDs' = CurrentIDs
      /\ status' = SIGNED
      /\ stxns' = [stxns EXCEPT ![c] = CurrentIDs]
      /\ Goto(c, "gathered")
      /\ UNCHANGED <<transactions, methodCalls, group, op, ids, results>>
      /\ UNCHANGED network
  BY DEF SignersSign, CurrentIDs, Inv, CallInv
<1>2. CurrentIDs' = CurrentIDs
  BY <1>1, SameGroup
<1>3. status >= SIGNED => signedTxns = CurrentIDs /\ txIDs = CurrentIDs
  BY DEF Inv, SignaturesMatchGroup
<1>4. status \in BUILDING .. COMMITTED
  BY DEF Inv, TypeOK
<1>5. TypeOK'
  BY <1>1, CurrentIDsType DEF Inv, TypeOK, Goto, Suspended
<1>6. GroupInv'
  BY <1>1, <1>2 DEF Inv, GroupInv
<1>7. SignaturesMatchGroup'
  BY <1>1, <1>2 DEF SignaturesMatchGroup
<1>8. StatusTruthful'
  BY <1>1 DEF StatusTruthful
<1>9. CallInv'
  <2>1. \A d \in CallSlot : d # c => pc'[d] = pc[d] /\ stxns'[d] = stxns[d]
    BY <1>1 DEF Inv, TypeOK, Goto
  <2>2. pc'[c] = "gathered" /\ stxns'[c] = signedTxns'
    BY <1>1 DEF Inv, TypeOK, Goto
  <2>3. \A d \in CallSlot : pc[d] \in Acknowledged => pc[d] \in Gathered
    BY DEF Acknowledged, Gathered, Suspended
  <2>4. \A d \in CallSlot : d # c /\ pc[d] \in Gathered =>
          signedTxns = CurrentIDs /\ txIDs = CurrentIDs
    BY <1>3 DEF Inv, CallInv
  <2> QED BY <1>1, <2>1, <2>2, <2>3, <2>4
          DEF Inv, CallInv, Acknowledged, Gathered
<1>10. NetworkInv'
  BY <1>1, <1>3 DEF Inv, NetworkInv
<1>11. ResultInv'
  BY <1>1, <1>2 DEF Inv, TypeOK, ResultInv, Goto, Suspended
<1>12. ExecuteReturnsAllResults'
  BY <1>1, <1>2, <1>3 DEF Inv, TypeOK, ExecuteReturnsAllResults, ResultInv,
                          Goto
<1>13. MethodCallsIndexAppCalls'
  BY <1>1 DEF Inv, MethodCallsIndexAppCalls
<1> QED BY <1>5, <1>6, <1>7, <1>8, <1>9, <1>10, <1>11, <1>12, <1>13 DEF Inv

-----------------------------------------------------------------------------
(* Steps of a composer that is open *)

\* While the group is open no call is suspended, none has executed, and the
\* network knows nothing.
LEMMA OpenComposer ==
  ASSUME Inv, status = BUILDING
  PROVE  /\ \A c \in CallSlot :
              /\ pc[c] \notin Suspended
              /\ ~(op[c] = "execute" /\ pc[c] = "returned")
         /\ seen = {} /\ pool = {} /\ ledger = {}
<1>1. \A c \in CallSlot : pc[c] \notin Suspended
  BY DEF Inv, CallInv, Gathered
<1>2. \A c \in CallSlot : ~(op[c] = "execute" /\ pc[c] = "returned")
  BY DEF Inv, ResultInv
<1>3. seen = {} /\ pool = {} /\ ledger = {}
  BY DEF Inv, NetworkInv
<1> QED BY <1>1, <1>2, <1>3

\* Then a step of the composer that leaves the calls and the network alone
\* has only the group to preserve.
LEMMA OpenComposerStep ==
  ASSUME Inv, status = BUILDING, status' \in {BUILDING, BUILT},
         TypeOK', GroupInv', MethodCallsIndexAppCalls',
         UNCHANGED <<signedTxns, calls, network>>
  PROVE  Inv'
<1> USE DEF calls, network
<1>1. SignaturesMatchGroup' /\ StatusTruthful'
  BY DEF SignaturesMatchGroup, StatusTruthful
<1>2. CallInv'
  BY OpenComposer DEF CallInv, Gathered, Acknowledged, Suspended
<1>3. NetworkInv'
  BY OpenComposer DEF NetworkInv
<1>4. ResultInv'
  BY OpenComposer DEF Inv, ResultInv, Suspended
<1>5. ExecuteReturnsAllResults'
  BY OpenComposer DEF ExecuteReturnsAllResults
<1> QED BY <1>1, <1>2, <1>3, <1>4, <1>5 DEF Inv

LEMMA BuildGroupStep ==
  ASSUME Inv, BuildGroup
  PROVE  Inv'
<1>1. /\ status = BUILDING
      /\ FinalizeGroup
      /\ UNCHANGED <<transactions, methodCalls, signedTxns, txIDs>>
      /\ UNCHANGED <<calls, network>>
  BY DEF BuildGroup
<1>2. /\ group' \in [TxnObject -> GroupID]
      /\ WellFormed(CurrentIDs')
      /\ status' = BUILT
  BY <1>1, FinalizedWellFormed DEF Inv
<1>3. TypeOK'
  BY <1>1, <1>2 DEF Inv, TypeOK, calls, network
<1>4. GroupInv'
  BY <1>1, <1>2 DEF Inv, GroupInv
<1>5. MethodCallsIndexAppCalls'
  BY <1>1 DEF Inv, MethodCallsIndexAppCalls
<1> QED BY <1>1, <1>2, <1>3, <1>4, <1>5, OpenComposerStep

LEMMA AddTransactionStep ==
  ASSUME Inv, NEW t \in Txn, NEW s \in Signer, AddTransaction(t, s)
  PROVE  Inv'
<1> DEFINE entry == [txn |-> t, signer |-> s]
           n == Len(transactions)
<1>1. /\ status = BUILDING
      /\ n # MaxGroupSize
      /\ group[t] = NoGroup
      /\ UNCHANGED <<status, methodCalls, signedTxns, txIDs, group>>
      /\ UNCHANGED <<calls, network>>
  BY DEF AddTransaction, Composing, RoomForOne, Ungrouped
<1>2. entry \in TransactionWithSigner /\ entry.txn = t
  BY DEF TransactionWithSigner, TxnObject
<1>3. /\ transactions \in Seq(TransactionWithSigner)
      /\ n \in Nat
      /\ DOMAIN transactions = 1 .. n
      /\ n <= MaxGroupSize
      /\ MaxGroupSize \in Nat
  BY ConstantsAssumption DEF Inv, TypeOK, GroupInv
<1>4. transactions' = Append(transactions, entry)
  BY DEF AddTransaction
<1> HIDE DEF entry
<1>5. /\ transactions' \in Seq(TransactionWithSigner)
      /\ Len(transactions') = n + 1
      /\ DOMAIN transactions' = 1 .. (n + 1)
      /\ \A i \in 1 .. n : transactions'[i] = transactions[i]
      /\ transactions'[n + 1] = entry
  BY ONLY <1>2, <1>3, <1>4, Appended
<1>6. transactions'[n + 1].txn = t
  BY ONLY <1>2, <1>5
<1> HIDE DEF n
<1>7. \A i \in DOMAIN transactions' : i \in 1 .. n \/ i = n + 1
  BY ONLY <1>3, <1>5
<1>8. TypeOK'
  <2>1. DOMAIN methodCalls \subseteq 1 .. Len(transactions')
    BY <1>3, <1>5 DEF Inv, TypeOK
  <2> QED BY <1>1, <1>5, <2>1 DEF Inv, TypeOK, calls, network
<1>9. GroupInv'
  <2>1. /\ \A i \in 1 .. n : group[transactions[i].txn] = NoGroup
        /\ \A a \in AppCall : group[a] = NoGroup
    BY <1>1, <1>3 DEF Inv, GroupInv
  <2>2. \A i \in DOMAIN transactions' : group[transactions'[i].txn] = NoGroup
    BY ONLY <1>1, <1>5, <1>6, <1>7, <2>1
  <2>3. Len(transactions') <= MaxGroupSize
    BY ONLY <1>1, <1>3, <1>5
  <2> QED BY <1>1, <2>1, <2>2, <2>3 DEF GroupInv
<1>10. MethodCallsIndexAppCalls'
  <2>1. t \notin AppCall
    BY ConstantsAssumption
  <2>2. /\ DOMAIN methodCalls = {i \in 1 .. n : transactions[i].txn \in AppCall}
        /\ methodCalls' = methodCalls
    BY <1>1, <1>3 DEF Inv, MethodCallsIndexAppCalls
  <2>3. \A i \in 1 .. n : i \in DOMAIN transactions'
    BY ONLY <1>3, <1>5
  <2>4. DOMAIN methodCalls' =
          {i \in DOMAIN transactions' : transactions'[i].txn \in AppCall}
    BY ONLY <1>5, <1>6, <1>7, <2>1, <2>2, <2>3
  <2> QED BY <2>4 DEF MethodCallsIndexAppCalls
<1> QED BY <1>1, <1>8, <1>9, <1>10, OpenComposerStep

\* What addMethodCall pushes: the arguments and then the app call.
LEMMA AddMethodCallPushes ==
  ASSUME Inv, NEW m \in Method, NEW a \in AppCall, NEW s \in Signer,
         NEW args \in [1 .. TxnArgs[m] -> [txn : Txn, signer : Signer]],
         AddMethodCall(m, args, a, s)
  PROVE  LET n == Len(transactions)
             last == n + TxnArgs[m] + 1
         IN  /\ n \in Nat /\ TxnArgs[m] \in Nat
             /\ status = BUILDING
             /\ last <= MaxGroupSize
             /\ \A i \in 1 .. TxnArgs[m] : args[i].txn \in Txn
             /\ \A i \in 1 .. TxnArgs[m] : group[args[i].txn] = NoGroup
             /\ transactions' \in Seq(TransactionWithSigner)
             /\ Len(transactions') = last
             /\ \A i \in 1 .. n : transactions'[i] = transactions[i]
             /\ \A i \in 1 .. TxnArgs[m] : transactions'[n + i] = args[i]
             /\ transactions'[last].txn = a
             /\ methodCalls' = [i \in DOMAIN methodCalls \cup {last} |->
                                  IF i = last THEN m ELSE methodCalls[i]]
             /\ UNCHANGED <<status, signedTxns, txIDs, group>>
             /\ UNCHANGED <<calls, network>>
<1> DEFINE entry == [txn |-> a, signer |-> s]
           n == Len(transactions)
           last == n + TxnArgs[m] + 1
<1>1. /\ TxnArgs[m] \in Nat
      /\ args \in Seq(TransactionWithSigner)
      /\ Len(args) = TxnArgs[m]
      /\ \A i \in 1 .. TxnArgs[m] : args[i].txn \in Txn
  <2>1. TxnArgs[m] \in Nat
    BY ConstantsAssumption
  <2>2. [txn : Txn, signer : Signer] \subseteq TransactionWithSigner
    BY DEF TransactionWithSigner, TxnObject
  <2>3. \A i \in 1 .. TxnArgs[m] : args[i] \in [txn : Txn, signer : Signer]
    OBVIOUS
  <2>4. args \in [1 .. TxnArgs[m] -> TransactionWithSigner]
    BY <2>2, <2>3
  <2>5. \A i \in 1 .. TxnArgs[m] : args[i].txn \in Txn
    BY <2>3
  <2> QED BY <2>1, <2>4, <2>5, FunctionIsSequence
<1>2. /\ entry \in TransactionWithSigner
      /\ entry.txn = a
  BY DEF TransactionWithSigner, TxnObject
<1> HIDE DEF entry
<1>3. /\ transactions \in Seq(TransactionWithSigner)
      /\ n \in Nat
      /\ DOMAIN transactions = 1 .. n
      /\ DOMAIN args = 1 .. TxnArgs[m]
  BY <1>1 DEF Inv, TypeOK
<1>4. /\ status = BUILDING
      /\ n + TxnArgs[m] + 1 <= MaxGroupSize
      /\ \A i \in 1 .. TxnArgs[m] : group[args[i].txn] = NoGroup
      /\ transactions' = (transactions \o args) \o <<entry>>
      /\ methodCalls' = [i \in DOMAIN methodCalls \cup {last} |->
                           IF i = last THEN m ELSE methodCalls[i]]
      /\ UNCHANGED <<status, signedTxns, txIDs, group>>
      /\ UNCHANGED <<calls, network>>
  BY <1>1, <1>3 DEF AddMethodCall, Composing, RoomForCall, Ungrouped,
                      IndexOfAppCall, entry
<1>5. /\ transactions' \in Seq(TransactionWithSigner)
      /\ Len(transactions') = last
      /\ \A i \in 1 .. n : transactions'[i] = transactions[i]
      /\ \A i \in 1 .. TxnArgs[m] : transactions'[n + i] = args[i]
      /\ transactions'[last] = entry
  <2>1. transactions' = (transactions \o args) \o <<entry>>
    BY <1>4
  <2>2. /\ transactions \in Seq(TransactionWithSigner)
        /\ args \in Seq(TransactionWithSigner)
        /\ entry \in TransactionWithSigner
    BY <1>1, <1>2, <1>3
  <2>3. Len(args) = TxnArgs[m]
    BY <1>1
  <2> QED BY ONLY <2>1, <2>2, <2>3, ArgumentsAppended
<1> QED BY <1>1, <1>2, <1>3, <1>4, <1>5

LEMMA AddMethodCallStep ==
  ASSUME Inv, NEW m \in Method, NEW a \in AppCall, NEW s \in Signer,
         NEW args \in [1 .. TxnArgs[m] -> [txn : Txn, signer : Signer]],
         AddMethodCall(m, args, a, s)
  PROVE  Inv'
<1> DEFINE n == Len(transactions)
           last == n + TxnArgs[m] + 1
<1>1. /\ n \in Nat /\ TxnArgs[m] \in Nat
      /\ status = BUILDING
      /\ last <= MaxGroupSize
      /\ \A i \in 1 .. TxnArgs[m] : args[i].txn \in Txn
      /\ \A i \in 1 .. TxnArgs[m] : group[args[i].txn] = NoGroup
      /\ transactions' \in Seq(TransactionWithSigner)
      /\ Len(transactions') = last
      /\ \A i \in 1 .. n : transactions'[i] = transactions[i]
      /\ \A i \in 1 .. TxnArgs[m] : transactions'[n + i] = args[i]
      /\ transactions'[last].txn = a
      /\ methodCalls' = [i \in DOMAIN methodCalls \cup {last} |->
                           IF i = last THEN m ELSE methodCalls[i]]
      /\ UNCHANGED <<status, signedTxns, txIDs, group>>
      /\ UNCHANGED <<calls, network>>
  BY AddMethodCallPushes
<1>2. DOMAIN transactions = 1 .. n
  BY DEF Inv, TypeOK
<1>5. group[a] = NoGroup
  BY <1>1 DEF Inv, GroupInv
<1>7. \A i \in 1 .. last :
        \/ i \in 1 .. n
        \/ i = last
        \/ \E j \in 1 .. TxnArgs[m] : i = n + j
  <2>1. ASSUME NEW i \in 1 .. last, i \notin 1 .. n, i # last
        PROVE  i - n \in 1 .. TxnArgs[m] /\ i = n + (i - n)
    BY <1>1, <1>2, <2>1
  <2> QED BY <2>1
<1>8. DOMAIN transactions' = 1 .. last
  BY <1>1, <1>2
<1>9. DOMAIN methodCalls \subseteq 1 .. n
  BY DEF Inv, TypeOK
<1>10. TypeOK'
  <2>1. DOMAIN methodCalls' = DOMAIN methodCalls \cup {last}
    BY <1>1
  <2>2. DOMAIN methodCalls' \subseteq 1 .. Len(transactions')
    BY <1>1, <1>2, <1>9, <2>1
  <2>3. methodCalls' \in [DOMAIN methodCalls' -> Method]
    BY <1>1, <2>1 DEF Inv, TypeOK
  <2> QED BY <1>1, <2>2, <2>3 DEF Inv, TypeOK, calls, network
<1>11. GroupInv'
  <2>1. \A i \in 1 .. n : group[transactions'[i].txn] = NoGroup
    <3>1. \A i \in 1 .. n : group[transactions[i].txn] = NoGroup
      BY <1>2, <1>1 DEF Inv, GroupInv
    <3> QED BY ONLY <1>1, <3>1
  <2>2. \A j \in 1 .. TxnArgs[m] : group[transactions'[n + j].txn] = NoGroup
    BY <1>1
  <2>3. group[transactions'[last].txn] = NoGroup
    BY <1>1, <1>5
  <2>4. \A i \in DOMAIN transactions' : group[transactions'[i].txn] = NoGroup
    BY <1>7, <1>8, <2>1, <2>2, <2>3
  <2> QED BY <1>1, <2>4 DEF Inv, GroupInv
<1>12. MethodCallsIndexAppCalls'
  <2>1. \A i \in 1 .. n : i \in DOMAIN methodCalls <=>
                            transactions'[i].txn \in AppCall
    BY <1>2, <1>1 DEF Inv, MethodCallsIndexAppCalls
  <2>2. \A j \in 1 .. TxnArgs[m] : /\ transactions'[n + j].txn \notin AppCall
                                 /\ n + j \notin DOMAIN methodCalls
                                 /\ n + j # last
    BY <1>1, <1>2, <1>9, ConstantsAssumption
  <2>3. transactions'[last].txn \in AppCall
    BY <1>1
  <2>4. ASSUME NEW i \in 1 .. last
        PROVE  i \in DOMAIN methodCalls \cup {last} <=>
                 transactions'[i].txn \in AppCall
    <3>1. CASE i \in 1 .. n
      <4>1. n \in Nat /\ TxnArgs[m] \in Nat
        BY <1>1
      <4>2. i # last
        BY ONLY <4>1, <3>1
      <4> QED BY ONLY <2>1, <3>1, <4>2
    <3>2. CASE i = last
      BY ONLY <2>3, <3>2
    <3>3. ASSUME NEW j \in 1 .. TxnArgs[m], i = n + j
          PROVE  i \in DOMAIN methodCalls \cup {last} <=>
                   transactions'[i].txn \in AppCall
      BY ONLY <2>2, <3>3
    <3> QED BY ONLY <1>7, <3>1, <3>2, <3>3
  <2>5. DOMAIN methodCalls \cup {last} \subseteq 1 .. last
    BY <1>1, <1>2, <1>9
  <2> QED BY <1>1, <1>8, <2>4, <2>5 DEF MethodCallsIndexAppCalls
<1> QED BY <1>1, <1>10, <1>11, <1>12, OpenComposerStep

-----------------------------------------------------------------------------
(* Calling an asynchronous method *)

\* The call suspends, or throws at once, without changing the composer.
LEMMA StartUnchangedStep ==
  ASSUME Inv, NEW c \in CallSlot, NEW o \in Operation, Start(c, o),
         UNCHANGED <<status, group>>,
         GatherCached(c) \/ GatherBySigning(c) \/ GatherFromEmptyGroup(c)
  PROVE  Inv'
<1> USE DEF composer, network
<1>1. /\ CurrentIDs' = CurrentIDs
      /\ GroupInv' /\ SignaturesMatchGroup' /\ MethodCallsIndexAppCalls'
  BY SameComposer DEF Start
<1>2. /\ pc[c] \in Resting
      /\ op' = [op EXCEPT ![c] = o]
      /\ ids' = [ids EXCEPT ![c] = <<>>]
      /\ results' = [results EXCEPT ![c] = {}]
      /\ UNCHANGED <<composer, network>>
  BY DEF Start
<1>3. \/ /\ status >= SIGNED
         /\ pc' = [pc EXCEPT ![c] = "gathered"]
         /\ stxns' = [stxns EXCEPT ![c] = signedTxns]
      \/ /\ status # BUILDING
         /\ pc' = [pc EXCEPT ![c] = "signing"]
         /\ stxns' = [stxns EXCEPT ![c] = <<>>]
      \/ /\ pc' = [pc EXCEPT ![c] = "threw"]
         /\ stxns' = [stxns EXCEPT ![c] = <<>>]
  BY DEF GatherCached, GatherBySigning, GatherFromEmptyGroup, FinalizeGroup
<1>4. TypeOK'
  <2>1. <<>> \in Seq(TxID) /\ signedTxns \in Seq(TxID)
    BY DEF Inv, TypeOK
  <2>2. pc' \in [CallSlot -> Resting \cup Suspended]
    BY <1>3 DEF Inv, TypeOK, Resting, Suspended
  <2>3. stxns' \in [CallSlot -> Seq(TxID)]
    BY <1>3, <2>1 DEF Inv, TypeOK
  <2>4. /\ op' \in [CallSlot -> Operation]
        /\ ids' \in [CallSlot -> Seq(TxID)]
        /\ results' \in [CallSlot -> SUBSET MethodResult]
    BY <1>2, <2>1 DEF Inv, TypeOK
  <2> QED BY <1>2, <2>2, <2>3, <2>4 DEF Inv, TypeOK
<1>5. StatusTruthful'
  BY <1>2 DEF Inv, StatusTruthful
<1>6. CallInv'
  <2>1. \A d \in CallSlot : d # c =>
          pc'[d] = pc[d] /\ stxns'[d] = stxns[d] /\ ids'[d] = ids[d]
    BY <1>2, <1>3 DEF Inv, TypeOK
  <2>2. \/ pc'[c] = "gathered" /\ status >= SIGNED /\ stxns'[c] = signedTxns
        \/ pc'[c] = "signing" /\ status # BUILDING
        \/ pc'[c] = "threw"
    BY <1>3 DEF Inv, TypeOK
  <2> QED BY <1>2, <2>1, <2>2
          DEF Inv, CallInv, Gathered, Acknowledged, Suspended
<1>7. NetworkInv'
  BY <1>2 DEF Inv, NetworkInv
<1>8. \A d \in CallSlot :
        \/ /\ d # c
           /\ pc'[d] = pc[d] /\ op'[d] = op[d]
           /\ ids'[d] = ids[d] /\ results'[d] = results[d]
        \/ /\ d = c
           /\ pc'[d] \in {"gathered", "signing", "threw"}
           /\ results'[d] = {}
  BY <1>2, <1>3 DEF Inv, TypeOK
<1>9. ResultInv'
  BY <1>1, <1>2, <1>8 DEF Inv, ResultInv
<1>10. ExecuteReturnsAllResults'
  BY <1>1, <1>2, <1>8 DEF Inv, ExecuteReturnsAllResults
<1> QED BY <1>1, <1>4, <1>5, <1>6, <1>7, <1>9, <1>10 DEF Inv

\* The call builds the group on its way to the signers.
LEMMA StartBuildingStep ==
  ASSUME Inv, NEW c \in CallSlot, NEW o \in Operation, Start(c, o),
         status = BUILDING, FinalizeGroup,
         pc' = [pc EXCEPT ![c] = "signing"],
         stxns' = [stxns EXCEPT ![c] = <<>>]
  PROVE  Inv'
<1> USE DEF network
<1>1. /\ op' = [op EXCEPT ![c] = o]
      /\ ids' = [ids EXCEPT ![c] = <<>>]
      /\ results' = [results EXCEPT ![c] = {}]
      /\ UNCHANGED <<transactions, methodCalls, signedTxns, txIDs, network>>
  BY DEF Start
<1>2. /\ group' \in [TxnObject -> GroupID]
      /\ WellFormed(CurrentIDs')
      /\ status' = BUILT
  BY <1>1, FinalizedWellFormed DEF Inv
<1>3. TypeOK'
  <2>1. <<>> \in Seq(TxID)
    OBVIOUS
  <2>2. pc' \in [CallSlot -> Resting \cup Suspended]
    BY DEF Inv, TypeOK, Suspended
  <2>3. /\ stxns' \in [CallSlot -> Seq(TxID)]
        /\ op' \in [CallSlot -> Operation]
        /\ ids' \in [CallSlot -> Seq(TxID)]
        /\ results' \in [CallSlot -> SUBSET MethodResult]
    BY <1>1, <2>1 DEF Inv, TypeOK
  <2> QED BY <1>1, <1>2, <2>2, <2>3 DEF Inv, TypeOK
<1>4. GroupInv'
  BY <1>1, <1>2 DEF Inv, GroupInv
<1>5. SignaturesMatchGroup' /\ StatusTruthful'
  BY <1>2 DEF SignaturesMatchGroup, StatusTruthful
<1>6. MethodCallsIndexAppCalls'
  BY <1>1 DEF Inv, MethodCallsIndexAppCalls
<1>7. \A d \in CallSlot :
        \/ /\ d # c
           /\ pc'[d] = pc[d] /\ op'[d] = op[d]
           /\ ids'[d] = ids[d] /\ results'[d] = results[d]
        \/ d = c /\ pc'[d] = "signing" /\ results'[d] = {}
  BY <1>1 DEF Inv, TypeOK
<1>8. CallInv'
  BY <1>2, <1>7, OpenComposer DEF CallInv, Gathered, Acknowledged, Suspended
<1>9. NetworkInv'
  BY <1>1, OpenComposer DEF NetworkInv
<1>10. ResultInv'
  BY <1>7, OpenComposer DEF ResultInv, Suspended
<1>11. ExecuteReturnsAllResults'
  BY <1>7, OpenComposer DEF ExecuteReturnsAllResults
<1> QED BY <1>3, <1>4, <1>5, <1>6, <1>8, <1>9, <1>10, <1>11 DEF Inv

LEMMA StartStep ==
  ASSUME Inv, NEW c \in CallSlot, NEW o \in Operation, Start(c, o)
  PROVE  Inv'
<1>1. CASE GatherCached(c) \/ GatherFromEmptyGroup(c)
  BY <1>1, StartUnchangedStep DEF GatherCached, GatherFromEmptyGroup
<1>2. CASE GatherBySigning(c)
  <2>1. CASE UNCHANGED <<status, group>>
    BY <1>2, <2>1, StartUnchangedStep
  <2>2. CASE status = BUILDING /\ FinalizeGroup
    BY <1>2, <2>2, StartBuildingStep DEF GatherBySigning
  <2> QED BY <1>2, <2>1, <2>2 DEF GatherBySigning
<1> QED BY <1>1, <1>2 DEF Start

-----------------------------------------------------------------------------
(* The theorems *)

LEMMA InitInv == Init => Inv
<1> SUFFICES ASSUME Init PROVE Inv
  OBVIOUS
<1>1. /\ transactions = <<>> /\ signedTxns = <<>> /\ txIDs = <<>>
      /\ Len(transactions) = 0
      /\ DOMAIN transactions = {}
      /\ DOMAIN methodCalls = {}
      /\ status = BUILDING
      /\ \A c \in CallSlot : pc[c] = "unused" /\ results[c] = {}
      /\ pool = {} /\ seen = {} /\ ledger = {}
  BY DEF Init
<1>2. TypeOK
  <2>1. group \in [TxnObject -> GroupID]
    BY DEF Init, GroupID
  <2>2. methodCalls \in [DOMAIN methodCalls -> Method]
    BY DEF Init
  <2> QED BY <1>1, <2>1, <2>2 DEF Init, TypeOK, Resting, Operation
<1>3. GroupInv
  BY <1>1, ConstantsAssumption DEF Init, GroupInv
<1>4. SignaturesMatchGroup /\ StatusTruthful
  BY <1>1 DEF SignaturesMatchGroup, StatusTruthful
<1>5. CallInv /\ ResultInv /\ ExecuteReturnsAllResults
  BY <1>1 DEF CallInv, ResultInv, ExecuteReturnsAllResults, Gathered,
              Acknowledged, Suspended
<1>6. NetworkInv
  BY <1>1 DEF NetworkInv
<1>7. MethodCallsIndexAppCalls
  BY <1>1 DEF MethodCallsIndexAppCalls
<1> QED BY <1>2, <1>3, <1>4, <1>5, <1>6, <1>7 DEF Inv

LEMMA ResumeStep ==
  ASSUME Inv, NEW c \in CallSlot, Resume(c)
  PROVE  Inv'
<1>1. CASE SignersSign(c)
  BY <1>1, SignersSignStep
<1>2. CASE SignersFail(c) \/ SendRejected(c) \/ ThrowUnconfirmed(c)
           \/ SimulateFails(c)
  BY <1>2, ThrowStep
     DEF SignersFail, SendRejected, ThrowUnconfirmed, SimulateFails, Suspended
<1>3. CASE ResumeGathered(c)
  BY <1>3, ResumeGatheredStep
<1>4. CASE SendAccepted(c) \/ SendAnswerLost(c)
  BY <1>4, AcceptedStep DEF SendAccepted, SendAnswerLost
<1>5. CASE ResumeSubmit(c)
  BY <1>5, ResumeSubmitStep
<1>6. CASE ResumeExecute(c)
  BY <1>6, ResumeExecuteStep
<1>7. CASE ResumeConfirmed(c)
  BY <1>7, ResumeConfirmedStep
<1>8. CASE FetchResult(c)
  BY <1>8, FetchResultStep
<1>10. CASE ResumeSimulated(c)
  BY <1>10, ResumeSimulatedStep
<1> QED BY <1>1, <1>2, <1>3, <1>4, <1>5, <1>6, <1>7, <1>8, <1>10
        DEF Resume

LEMMA NextInv == Inv /\ [Next]_vars => Inv'
<1> SUFFICES ASSUME Inv, [Next]_vars PROVE Inv'
  OBVIOUS
<1>1. CASE Compose
  <2>1. CASE BuildGroup
    BY <2>1, BuildGroupStep
  <2>2. ASSUME NEW t \in Txn, NEW s \in Signer, AddTransaction(t, s)
        PROVE  Inv'
    BY <2>2, AddTransactionStep
  <2>3. ASSUME NEW m \in Method, NEW a \in AppCall, NEW s \in Signer,
               NEW args \in [1 .. TxnArgs[m] -> [txn : Txn, signer : Signer]],
               AddMethodCall(m, args, a, s)
        PROVE  Inv'
    BY <2>3, AddMethodCallStep
  <2> QED BY <1>1, <2>1, <2>2, <2>3 DEF Compose
<1>2. ASSUME NEW c \in CallSlot, StartCall(c)
      PROVE  Inv'
  BY <1>2, StartStep
     DEF StartCall, GatherSignatures, Submit, Simulate, Execute, Operation
<1>3. ASSUME NEW c \in CallSlot, Resume(c)
      PROVE  Inv'
  BY <1>3, ResumeStep
<1>4. CASE Chain
  BY <1>4, ChainStep DEF Chain
<1>5. CASE UNCHANGED vars
  <2> USE <1>5 DEF vars, composer, calls, network
  <2>1. CurrentIDs' = CurrentIDs
    BY SameGroup
  <2>2. /\ TypeOK' /\ GroupInv' /\ SignaturesMatchGroup' /\ StatusTruthful'
        /\ MethodCallsIndexAppCalls'
    BY <2>1, SameComposer DEF Inv, TypeOK, StatusTruthful
  <2>3. CallInv' /\ NetworkInv'
    BY DEF Inv, CallInv, NetworkInv
  <2>4. ResultInv' /\ ExecuteReturnsAllResults'
    BY <2>1 DEF Inv, ResultInv, ExecuteReturnsAllResults
  <2> QED BY <2>2, <2>3, <2>4 DEF Inv
<1> QED BY <1>1, <1>2, <1>3, <1>4, <1>5 DEF Next

\* The inductive invariant holds in every reachable state.
THEOREM InvHolds == Spec => []Inv
BY InitInv, NextInv, PTL DEF Spec

\* Every field keeps its type.
THEOREM TypeCorrect == Spec => []TypeOK
<1>1. Inv => TypeOK
  BY DEF Inv
<1> QED BY <1>1, InvHolds, PTL

\* The cached signatures are those of the whole group, whatever calls overlap.
THEOREM SignaturesCorrect == Spec => []SignaturesMatchGroup
<1>1. Inv => SignaturesMatchGroup
  BY DEF Inv
<1> QED BY <1>1, InvHolds, PTL

\* Every group that a call sends is one the protocol can accept.
THEOREM SentGroupsCorrect == Spec => []SentWellFormed
<1>1. Inv => SentWellFormed
  BY DEF Inv, SentWellFormed, CallInv, GroupInv, SignaturesMatchGroup,
         Gathered, Suspended
<1> QED BY <1>1, InvHolds, PTL

\* The status never claims more than the network did.
THEOREM StatusCorrect == Spec => []StatusTruthful
<1>1. Inv => StatusTruthful
  BY DEF Inv
<1> QED BY <1>1, InvHolds, PTL

\* An execute that returns has the result of every method call.
THEOREM ResultsCorrect == Spec => []ExecuteReturnsAllResults
<1>1. Inv => ExecuteReturnsAllResults
  BY DEF Inv
<1> QED BY <1>1, InvHolds, PTL

\* methodCalls has exactly the app calls that addMethodCall created.
THEOREM MethodCallsCorrect == Spec => []MethodCallsIndexAppCalls
<1>1. Inv => MethodCallsIndexAppCalls
  BY DEF Inv
<1> QED BY <1>1, InvHolds, PTL

-----------------------------------------------------------------------------
(* Steps: a built group is frozen *)

\* Every action, by what it does to the group.
LEMMA StepOfGroup ==
  ASSUME Inv, [Next]_vars
  PROVE  \/ /\ status = BUILDING
            /\ \/ \E t \in Txn, s \in Signer : AddTransaction(t, s)
               \/ \E m \in Method, a \in AppCall, s \in Signer :
                    \E args \in [1 .. TxnArgs[m] -> [txn : Txn, signer : Signer]] :
                      AddMethodCall(m, args, a, s)
         \/ /\ status = BUILDING
            /\ FinalizeGroup
            /\ UNCHANGED <<transactions, methodCalls, seen, ledger>>
         \/ /\ status # BUILDING <=> status' # BUILDING
            /\ UNCHANGED <<transactions, methodCalls, group>>
            /\ \/ UNCHANGED <<seen, ledger>>
               \/ /\ status # BUILDING
                  /\ \E c \in CallSlot : pc[c] = "sending" /\ Accept(stxns[c])
               \/ \E g \in pool : CommitGroup(g)
<1> USE DEF composer, calls, network
<1>1. CASE Compose
  BY <1>1 DEF Compose, AddTransaction, AddMethodCall, BuildGroup, Composing
<1>2. ASSUME NEW c \in CallSlot, NEW o \in Operation, Start(c, o)
      PROVE  /\ UNCHANGED <<transactions, methodCalls, seen, ledger>>
             /\ \/ UNCHANGED <<status, group>>
                \/ status = BUILDING /\ FinalizeGroup
  BY <1>2 DEF Start, GatherCached, GatherBySigning, GatherFromEmptyGroup
<1>3. ASSUME NEW c \in CallSlot, Resume(c)
      PROVE  /\ UNCHANGED <<transactions, methodCalls, group>>
             /\ status # BUILDING <=> status' # BUILDING
             /\ \/ UNCHANGED <<seen, ledger>>
                \/ /\ status # BUILDING
                   /\ pc[c] = "sending"
                   /\ Accept(stxns[c])
  <2>1. /\ pc[c] \in Suspended => status # BUILDING
        /\ pc[c] = "sending" => pc[c] \in Suspended
    BY OpenComposer DEF Suspended
  <2>2. CASE \/ SignersSign(c) \/ ResumeSubmit(c) \/ ResumeExecute(c)
             \/ ResumeConfirmed(c)
    BY <2>1, <2>2 DEF SignersSign, ResumeSubmit, ResumeExecute,
                      ResumeConfirmed, Suspended
  <2>3. CASE SendAccepted(c) \/ SendAnswerLost(c)
    BY <2>1, <2>3 DEF SendAccepted, SendAnswerLost
  <2>4. CASE \/ SignersFail(c) \/ ResumeGathered(c) \/ SendRejected(c)
             \/ ThrowUnconfirmed(c) \/ FetchResult(c)
             \/ ResumeSimulated(c) \/ SimulateFails(c)
    BY <2>4 DEF SignersFail, ResumeGathered, SendRejected, ThrowUnconfirmed,
                FetchResult, ResumeSimulated, SimulateFails
  <2> QED BY <1>3, <2>2, <2>3, <2>4 DEF Resume
<1>4. CASE \E c \in CallSlot : StartCall(c)
  <2>1. PICK c \in CallSlot, o \in Operation : Start(c, o)
    BY <1>4 DEF StartCall, GatherSignatures, Submit, Simulate, Execute,
                Operation
  <2> QED BY <1>2, <2>1
<1>5. CASE \E c \in CallSlot : Resume(c)
  BY <1>3, <1>5
<1>6. CASE Chain
  BY <1>6 DEF Chain, CommitGroup, DropGroup
<1>7. CASE UNCHANGED vars
  BY <1>7 DEF vars
<1> QED BY <1>1, <1>4, <1>5, <1>6, <1>7 DEF Next

\* No call and no method changes a group once it is built.
THEOREM GroupStaysFrozen == Spec => GroupFrozen
<1>1. Inv /\ [Next]_vars =>
        [status # BUILDING =>
           /\ status' # BUILDING
           /\ UNCHANGED <<transactions, methodCalls, group>>]_vars
  BY StepOfGroup DEF vars, composer
<1> QED BY <1>1, InvHolds, PTL DEF Spec, GroupFrozen

-----------------------------------------------------------------------------
(* Composer implements AtomicGroup *)

\* The list of transactions of a list of entries.
LEMMA TxnsOfList ==
  ASSUME NEW S, NEW list \in Seq(S)
  PROVE  /\ Len(list) \in Nat
         /\ Len(TxnsOf(list)) = Len(list)
         /\ \A i \in 1 .. Len(list) : TxnsOf(list)[i] = list[i].txn
BY DEF TxnsOf

\* The transactions of the cached signatures are those of the composer.
LEMMA TxnsOfSigned ==
  ASSUME Inv, status >= SIGNED
  PROVE  TxnsOf(signedTxns) = TxnsOf(transactions)
<1>1. /\ signedTxns = CurrentIDs
      /\ transactions \in Seq(TransactionWithSigner)
      /\ group \in [TxnObject -> GroupID]
  BY DEF Inv, SignaturesMatchGroup, TypeOK
<1>2. /\ Len(CurrentIDs) = Len(transactions)
      /\ Len(transactions) \in Nat
  BY <1>1, CurrentIDsType, EntriesTyped
<1>3. \A i \in 1 .. Len(transactions) : CurrentIDs[i].txn = transactions[i].txn
  BY <1>2 DEF CurrentIDs, IdOf
<1> QED BY <1>1, <1>2, <1>3 DEF TxnsOf

\* Adding entries at the end is a Grow step.
LEMMA GrowStep ==
  ASSUME NEW S, transactions \in Seq(S), transactions' \in Seq(S),
         Len(transactions') \in (Len(transactions) + 1) .. MaxGroupSize,
         \A i \in 1 .. Len(transactions) : transactions'[i] = transactions[i],
         status = BUILDING, UNCHANGED <<status, seen, ledger>>
  PROVE  Promise!Grow
<1> DEFINE old == TxnsOf(transactions)
           new == TxnsOf(transactions')
<1>1. /\ Len(transactions) \in Nat
      /\ Len(old) = Len(transactions)
      /\ \A i \in 1 .. Len(transactions) : old[i] = transactions[i].txn
  BY TxnsOfList
<1>2. /\ Len(transactions') \in Nat
      /\ Len(new) = Len(transactions')
      /\ \A i \in 1 .. Len(transactions') : new[i] = transactions'[i].txn
  BY TxnsOfList
<1>3. SubSeq(new, 1, Len(old)) = old
  BY <1>1, <1>2 DEF TxnsOf
<1> QED BY <1>1, <1>2, <1>3 DEF Promise!Grow

\* Both ways to add to an open group make it grow.
LEMMA ComposeGrows ==
  ASSUME Inv, Inv',
         \/ \E t \in Txn, s \in Signer : AddTransaction(t, s)
         \/ \E m \in Method, a \in AppCall, s \in Signer :
              \E args \in [1 .. TxnArgs[m] -> [txn : Txn, signer : Signer]] :
                AddMethodCall(m, args, a, s)
  PROVE  Promise!Grow
<1>1. /\ transactions \in Seq(TransactionWithSigner)
      /\ transactions' \in Seq(TransactionWithSigner)
      /\ Len(transactions') <= MaxGroupSize
  BY DEF Inv, TypeOK, GroupInv
<1>2. /\ Len(transactions) \in Nat
      /\ MaxGroupSize \in Nat
  BY <1>1, ConstantsAssumption
<1>3. ASSUME NEW t \in Txn, NEW s \in Signer, AddTransaction(t, s)
      PROVE  Promise!Grow
  <2> DEFINE entry == [txn |-> t, signer |-> s]
  <2>1. entry \in TransactionWithSigner
    BY DEF TransactionWithSigner, TxnObject
  <2> HIDE DEF entry
  <2>2. /\ transactions' = Append(transactions, entry)
        /\ status = BUILDING
        /\ UNCHANGED <<status, seen, ledger>>
    BY <1>3 DEF AddTransaction, Composing, network, entry
  <2>3. /\ Len(transactions') = Len(transactions) + 1
        /\ \A i \in 1 .. Len(transactions) : transactions'[i] = transactions[i]
    BY ONLY <1>1, <2>1, <2>2, Appended
  <2>4. Len(transactions') \in (Len(transactions) + 1) .. MaxGroupSize
    BY ONLY <1>1, <1>2, <2>3
  <2> QED BY ONLY <1>1, <2>2, <2>3, <2>4, GrowStep
<1>4. ASSUME NEW m \in Method, NEW a \in AppCall, NEW s \in Signer,
             NEW args \in [1 .. TxnArgs[m] -> [txn : Txn, signer : Signer]],
             AddMethodCall(m, args, a, s)
      PROVE  Promise!Grow
  <2>1. /\ status = BUILDING
        /\ TxnArgs[m] \in Nat
        /\ Len(transactions') = Len(transactions) + TxnArgs[m] + 1
        /\ \A i \in 1 .. Len(transactions) : transactions'[i] = transactions[i]
        /\ UNCHANGED <<status, network>>
    BY <1>4, AddMethodCallPushes
  <2>2. Len(transactions') \in (Len(transactions) + 1) .. MaxGroupSize
    BY ONLY <1>1, <1>2, <2>1
  <2>3. UNCHANGED <<status, seen, ledger>>
    BY <2>1 DEF network
  <2> QED BY ONLY <1>1, <2>1, <2>2, <2>3, GrowStep
<1> QED BY <1>3, <1>4

\* Every step of the composer is a step of the group, or none.
LEMMA AbstractStep ==
  ASSUME Inv, Inv', [Next]_vars
  PROVE  [Promise!Next]_Promise!vars
<1>1. CASE \/ \E t \in Txn, s \in Signer : AddTransaction(t, s)
           \/ \E m \in Method, a \in AppCall, s \in Signer :
                \E args \in [1 .. TxnArgs[m] -> [txn : Txn, signer : Signer]] :
                  AddMethodCall(m, args, a, s)
  BY <1>1, ComposeGrows DEF Promise!Next
<1>2. CASE /\ status = BUILDING
           /\ FinalizeGroup
           /\ UNCHANGED <<transactions, seen, ledger>>
  <2>1. Len(TxnsOf(transactions)) > 0
    BY <1>2, TxnsOfList DEF FinalizeGroup, Inv, TypeOK
  <2> QED BY <1>2, <2>1 DEF FinalizeGroup, Promise!Seal, Promise!Next
<1>3. CASE /\ status # BUILDING <=> status' # BUILDING
           /\ UNCHANGED <<transactions, seen, ledger>>
  BY <1>3 DEF Promise!vars
<1>4. ASSUME NEW c \in CallSlot, pc[c] = "sending", Accept(stxns[c]),
             status # BUILDING, status' # BUILDING,
             UNCHANGED transactions
      PROVE  [Promise!Next]_Promise!vars
  <2>1. status >= SIGNED /\ stxns[c] = signedTxns
    BY <1>4 DEF Inv, CallInv, Gathered, Suspended
  <2>2. TxnsOf(stxns[c]) = TxnsOf(transactions)
    BY <2>1, TxnsOfSigned
  <2>3. {TxnsOf(g) : g \in seen'} =
          {TxnsOf(g) : g \in seen} \cup {TxnsOf(transactions)}
    BY <1>4, <2>2 DEF Accept
  <2> QED BY <1>4, <2>3 DEF Accept, Promise!Publish, Promise!Next
<1>5. ASSUME NEW g \in pool, CommitGroup(g),
             status # BUILDING <=> status' # BUILDING,
             UNCHANGED transactions
      PROVE  [Promise!Next]_Promise!vars
  <2>1. g \in seen
    BY DEF Inv, NetworkInv
  <2>2. {TxnsOf(h) : h \in ledger'} =
          {TxnsOf(h) : h \in ledger} \cup {TxnsOf(g)}
    BY <1>5 DEF CommitGroup
  <2>3. UNCHANGED seen
    BY <1>5 DEF CommitGroup
  <2> QED BY <1>5, <2>1, <2>2, <2>3 DEF Promise!Confirm, Promise!Next
<1> QED BY <1>1, <1>2, <1>3, <1>4, <1>5, StepOfGroup

\* The composer, with every overlap of its calls and everything the network
\* may do, publishes and confirms no other list than the one it sealed.
THEOREM ComposerImplementsAtomicGroup == Spec => ImplementsAtomicGroup
<1>1. Init => Promise!Init
  <2> SUFFICES ASSUME Init PROVE Promise!Init
    OBVIOUS
  <2>1. TxnsOf(transactions) = <<>>
    BY DEF Init, TxnsOf
  <2> QED BY <2>1 DEF Init, Promise!Init
<1>2. Inv /\ Inv' /\ [Next]_vars => [Promise!Next]_Promise!vars
  BY AbstractStep
<1> QED BY <1>1, <1>2, InvHolds, PTL DEF Spec, ImplementsAtomicGroup, Promise!Spec
=============================================================================
