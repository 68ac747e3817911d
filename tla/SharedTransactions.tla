------------------------- MODULE SharedTransactions -------------------------
(***************************************************************************)
(* Several AtomicTransactionComposers (src/src/composer.ts) over a heap of *)
(* Transaction objects.  A composer keeps references, buildGroup writes    *)
(* the group field of the objects in place, signers read them whenever     *)
(* they run, and clone makes a composer from copies.  Composer.tla has the *)
(* calls that overlap on one composer; here each gathers once at a time.   *)
(*                                                                         *)
(* An object is its place in the heap.  An identifier is the record of     *)
(* what txID hashes, the content and the group field, and a group ID the   *)
(* list of the identifiers hashed, so that a group ID may hold another.    *)
(***************************************************************************)
EXTENDS Naturals, Sequences

CONSTANTS
  Content,       \* what a transaction says, its group field apart
  Composers,     \* AtomicTransactionComposer objects
  MaxGroupSize,  \* AtomicTransactionComposer.MAX_GROUP_SIZE
  MaxHeap        \* bound: Transaction objects that are ever made

ASSUME ConstantsAssumption ==
  /\ MaxGroupSize \in Nat \ {0}
  /\ MaxHeap \in Nat

NoGroup == <<>>    \* txn.group is undefined
Unsigned == <<>>   \* a signer has not returned its signature yet

BUILDING == 0
BUILT    == 1
SIGNED   == 2

VARIABLES
  heap,       \* the objects: sequence of [content, group]
  status,     \* of each composer
  members,    \* transactions of each composer, as places in the heap
  gathering,  \* is a call of gatherSignatures suspended on the composer?
  answer,     \* what its signers have returned so far
  signedTxns, \* of each composer: the identifiers that were signed
  mixed       \* history: composers given an object that a composer had

vars == <<heap, status, members, gathering, answer, signedTxns, mixed>>

Init ==
  /\ heap = <<>>
  /\ status = [c \in Composers |-> BUILDING]
  /\ members = [c \in Composers |-> <<>>]
  /\ gathering = [c \in Composers |-> FALSE]
  /\ answer = [c \in Composers |-> <<>>]
  /\ signedTxns = [c \in Composers |-> <<>>]
  /\ mixed = {}

-----------------------------------------------------------------------------

Objects(c) == {members[c][i] : i \in DOMAIN members[c]}

\* The identifiers of the transactions of a composer, now.
TxIDs(c) == [i \in 1 .. Len(members[c]) |-> heap[members[c][i]]]

\* The application makes a transaction.
MakeTxn(x) ==
  /\ Len(heap) < MaxHeap
  /\ heap' = Append(heap, [content |-> x, group |-> NoGroup])
  /\ UNCHANGED <<status, members, gathering, answer, signedTxns, mixed>>

Holders(o) == {c \in Composers : o \in Objects(c)}

\* Faulty variant of RoomForOne: off by one.
RoomForOneTooMany(c) == Len(members[c]) <= MaxGroupSize

RoomForOne(c) == Len(members[c]) # MaxGroupSize

\* Faulty variant of Ungrouped: the group field is not looked at.
AnyTransaction(o) == TRUE

Ungrouped(o) == heap[o].group = NoGroup

AddTransaction(c, o) ==
  /\ status[c] = BUILDING
  /\ RoomForOne(c)
  /\ Ungrouped(o)
  /\ members' = [members EXCEPT ![c] = Append(@, o)]
  /\ mixed' = IF Holders(o) = {} THEN mixed ELSE mixed \cup Holders(o) \cup {c}
  /\ UNCHANGED <<heap, status, gathering, answer, signedTxns>>

\* computeGroupID hashes the identifiers, a group field they have included.
ComputedGroupID(c) == TxIDs(c)

\* assignGroupID writes to the objects of the composer.
Regrouped(c) ==
  [o \in DOMAIN heap |->
     IF o \in Objects(c)
       THEN [content |-> heap[o].content, group |-> ComputedGroupID(c)]
       ELSE heap[o]]

\* buildGroup: a group of one has no group ID.
Build(c) ==
  /\ status[c] = BUILDING
  /\ members[c] # <<>>
  /\ heap' = IF Len(members[c]) > 1 THEN Regrouped(c) ELSE heap
  /\ status' = [status EXCEPT ![c] = BUILT]

BuildGroup(c) ==
  /\ Build(c)
  /\ UNCHANGED <<members, gathering, answer, signedTxns, mixed>>

\* Faulty variants of Copies: the group ID is kept, or the clone holds the
\* objects themselves.
CopiesWithGroup(c) == TxIDs(c)

Copies(c) ==
  [i \in 1 .. Len(members[c]) |->
     [content |-> heap[members[c][i]].content, group |-> NoGroup]]

\* Faulty variant of ClonedMembers: the references are copied.
SameMembers(c) == members[c]

ClonedMembers(c) == [i \in 1 .. Len(members[c]) |-> Len(heap) + i]

\* clone of c, a new composer d.
Clone(c, d) ==
  /\ status[d] = BUILDING /\ members[d] = <<>>
  /\ Len(heap) + Len(members[c]) <= MaxHeap
  /\ heap' = heap \o Copies(c)
  /\ members' = [members EXCEPT ![d] = ClonedMembers(c)]
  /\ UNCHANGED <<status, gathering, answer, signedTxns, mixed>>

\* gatherSignatures up to its await: the signers get the objects.
CallGather(c) ==
  /\ ~gathering[c]
  /\ IF status[c] = BUILDING
       THEN Build(c)
       ELSE status[c] = BUILT /\ UNCHANGED <<heap, status>>
  /\ gathering' = [gathering EXCEPT ![c] = TRUE]
  /\ answer' = [answer EXCEPT ![c] = [i \in 1 .. Len(members[c]) |-> Unsigned]]
  /\ UNCHANGED <<members, signedTxns, mixed>>

\* A signer reads and signs the transaction at an index of its own.
Sign(c, i) ==
  /\ gathering[c]
  /\ answer[c][i] = Unsigned
  /\ answer' = [answer EXCEPT ![c][i] = heap[members[c][i]]]
  /\ UNCHANGED <<heap, status, members, gathering, signedTxns, mixed>>

\* The rest of gatherSignatures, when all have signed.
ResumeGather(c) ==
  /\ gathering[c]
  /\ \A i \in DOMAIN answer[c] : answer[c][i] # Unsigned
  /\ signedTxns' = [signedTxns EXCEPT ![c] = answer[c]]
  /\ status' = [status EXCEPT ![c] = SIGNED]
  /\ gathering' = [gathering EXCEPT ![c] = FALSE]
  /\ UNCHANGED <<heap, members, answer, mixed>>

\* Promise.all rejects: the composer stays as it was built.
SignerFails(c) ==
  /\ gathering[c]
  /\ gathering' = [gathering EXCEPT ![c] = FALSE]
  /\ UNCHANGED <<heap, status, members, answer, signedTxns, mixed>>

Next ==
  \/ \E x \in Content : MakeTxn(x)
  \/ \E c \in Composers :
       \/ \E o \in DOMAIN heap : AddTransaction(c, o)
       \/ BuildGroup(c)
       \/ \E d \in Composers \ {c} : Clone(c, d)
       \/ CallGather(c)
       \/ \E i \in DOMAIN members[c] : Sign(c, i)
       \/ ResumeGather(c)
       \/ SignerFails(c)

Spec == Init /\ [][Next]_vars

-----------------------------------------------------------------------------
(* Properties *)

\* What the network takes: a transaction alone and without a group ID, or
\* transactions that all carry the hash of their ungrouped identifiers.
Accepts(ids) ==
  \/ Len(ids) = 1 /\ ids[1].group = NoGroup
  \/ \A i \in DOMAIN ids :
       ids[i].group =
         [j \in 1 .. Len(ids) |-> [content |-> ids[j].content, group |-> NoGroup]]

\* References stay inside the heap and groups inside MAX_GROUP_SIZE.
TypeOK ==
  /\ Len(heap) <= MaxHeap
  /\ \A o \in DOMAIN heap :
       heap[o].content \in Content /\ Len(heap[o].group) <= MaxGroupSize
  /\ status \in [Composers -> BUILDING .. SIGNED]
  /\ members \in [Composers -> Seq(DOMAIN heap)]
  /\ \A c \in Composers : Len(members[c]) <= MaxGroupSize
  /\ gathering \in [Composers -> BOOLEAN]
  /\ DOMAIN answer = Composers
  /\ DOMAIN signedTxns = Composers
  /\ mixed \subseteq Composers

\* A composer whose objects the application gave to no composer a second time
\* builds a group the network takes, whatever is done to its clones and to
\* the composer it was cloned from, and however often these are built.
BuiltAccepted ==
  \A c \in Composers \ mixed : status[c] # BUILDING => Accepts(TxIDs(c))

\* What such a composer has signed is what its transactions still are.
SignedCurrent ==
  \A c \in Composers \ mixed : status[c] = SIGNED => signedTxns[c] = TxIDs(c)

\* The transactions of such a composer change when it builds its own group
\* and at no other time: not while its signers are reading them.
OnlyBuildRegroups ==
  [][\A c \in Composers \ mixed :
       \A i \in DOMAIN members[c] :
         heap'[members[c][i]] # heap[members[c][i]]
           => status[c] = BUILDING /\ status'[c] = BUILT]_vars
=============================================================================
