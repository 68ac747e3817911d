---------------------------- MODULE SharedProofs ----------------------------
(***************************************************************************)
(* Proofs about SharedTransactions, for any number of composers, objects   *)
(* and sizes of groups: composers that share no object by the doing of the *)
(* application do not disturb each other, clones included.                 *)
(***************************************************************************)
EXTENDS SharedTransactions, TLAPS

\* The heap is a sequence, of whatever it holds.
HeapIsSeq == heap \in Seq({heap[o] : o \in DOMAIN heap})

\* Every object is a record of the two fields.
HeapOfRecords ==
  \A o \in DOMAIN heap :
    heap[o] = [content |-> heap[o].content, group |-> heap[o].group]

\* The composer has each of its objects once and alone.
Separate(c) ==
  /\ \A i, j \in DOMAIN members[c] : members[c][i] = members[c][j] => i = j
  /\ \A d \in Composers \ {c} : Objects(c) \cap Objects(d) = {}

\* What signers have returned is what the transactions still are.
AnswersCurrent(c) ==
  gathering[c] =>
    /\ status[c] # BUILDING
    /\ answer[c] = [i \in 1 .. Len(members[c]) |-> answer[c][i]]
    /\ \A i \in 1 .. Len(members[c]) : answer[c][i] \in {Unsigned, TxIDs(c)[i]}

Undisturbed(c) ==
  /\ status[c] = BUILDING =>
       \A i \in 1 .. Len(members[c]) : TxIDs(c)[i].group = NoGroup
  /\ status[c] # BUILDING => Accepts(TxIDs(c))
  /\ status[c] = SIGNED => signedTxns[c] = TxIDs(c)
  /\ AnswersCurrent(c)

IInv ==
  /\ HeapIsSeq
  /\ HeapOfRecords
  /\ TypeOK
  /\ \A c \in Composers \ mixed : Separate(c) /\ Undisturbed(c)

-----------------------------------------------------------------------------
(* Types *)

LEMMA Types ==
  ASSUME IInv
  PROVE  /\ Len(heap) \in Nat
         /\ DOMAIN heap = 1 .. Len(heap)
         /\ \A c \in Composers :
              /\ members[c] \in Seq(DOMAIN heap)
              /\ Len(members[c]) \in Nat
              /\ DOMAIN members[c] = 1 .. Len(members[c])
              /\ \A i \in DOMAIN members[c] : members[c][i] \in DOMAIN heap
              /\ Objects(c) \subseteq DOMAIN heap
  <1>1. heap \in Seq({heap[o] : o \in DOMAIN heap})
    BY DEF IInv, HeapIsSeq
  <1>2. Len(heap) \in Nat /\ DOMAIN heap = 1 .. Len(heap)
    BY ONLY <1>1
  <1>3. ASSUME NEW c \in Composers
        PROVE  /\ members[c] \in Seq(DOMAIN heap)
               /\ Len(members[c]) \in Nat
               /\ DOMAIN members[c] = 1 .. Len(members[c])
               /\ \A i \in DOMAIN members[c] : members[c][i] \in DOMAIN heap
    <2>1. members[c] \in Seq(DOMAIN heap)
      BY DEF IInv, TypeOK
    <2> QED  BY ONLY <2>1
  <1>4. \A c \in Composers : Objects(c) \subseteq DOMAIN heap
    BY <1>3 DEF Objects
  <1> QED  BY <1>2, <1>3, <1>4

LEMMA OwnRange ==
  ASSUME NEW S, NEW g \in Seq(S)
  PROVE  g \in Seq({g[o] : o \in DOMAIN g})
  <1> DEFINE T == {g[o] : o \in DOMAIN g}
  <1>1. \A o \in 1 .. Len(g) : g[o] \in T
    OBVIOUS
  <1> HIDE DEF T
  <1>2. g \in Seq(T)
    BY <1>1
  <1> QED  BY <1>2 DEF T

LEMMA AppendGrows ==
  ASSUME NEW h, h \in Seq({h[o] : o \in DOMAIN h}), NEW e, NEW g,
         g = Append(h, e)
  PROVE  /\ g \in Seq({g[o] : o \in DOMAIN g})
         /\ Len(g) = Len(h) + 1
         /\ DOMAIN h \subseteq DOMAIN g
         /\ \A o \in DOMAIN h : g[o] = h[o]
         /\ \A o \in DOMAIN g \ DOMAIN h : g[o] = e
  <1> DEFINE S == {h[o] : o \in DOMAIN h} \cup {e}
  <1>1. h \in Seq(S) /\ e \in S
    OBVIOUS
  <1> HIDE DEF S
  <1>2. /\ g \in Seq(S) /\ Len(g) = Len(h) + 1
        /\ DOMAIN g = 1 .. Len(g) /\ DOMAIN h = 1 .. Len(h) /\ Len(h) \in Nat
        /\ \A o \in 1 .. Len(h) : g[o] = h[o]
        /\ g[Len(h) + 1] = e
    BY <1>1
  <1>4. g \in Seq({g[o] : o \in DOMAIN g})
    BY ONLY <1>2, OwnRange
  <1> QED  BY <1>2, <1>4

LEMMA ConcatGrows ==
  ASSUME HeapIsSeq, NEW S, NEW s \in Seq(S), heap' = heap \o s
  PROVE  /\ HeapIsSeq'
         /\ Len(heap') = Len(heap) + Len(s)
         /\ DOMAIN heap \subseteq DOMAIN heap'
         /\ \A o \in DOMAIN heap : heap'[o] = heap[o]
         /\ \A i \in DOMAIN s : heap'[Len(heap) + i] = s[i]
         /\ \A o \in DOMAIN heap' \ DOMAIN heap :
              \E i \in DOMAIN s : o = Len(heap) + i
  <1> DEFINE T == {heap[o] : o \in DOMAIN heap} \cup S
  <1>1. heap \in Seq(T) /\ s \in Seq(T)
    BY DEF HeapIsSeq
  <1> HIDE DEF T
  <1>2. /\ heap' \in Seq(T) /\ Len(heap') = Len(heap) + Len(s)
        /\ DOMAIN heap' = 1 .. Len(heap')
        /\ DOMAIN heap = 1 .. Len(heap) /\ Len(heap) \in Nat
        /\ DOMAIN s = 1 .. Len(s) /\ Len(s) \in Nat
        /\ \A o \in 1 .. Len(heap) : heap'[o] = heap[o]
        /\ \A i \in 1 .. Len(s) : heap'[Len(heap) + i] = s[i]
    BY <1>1
  <1>3. heap' \in Seq({heap'[o] : o \in DOMAIN heap'})
    BY ONLY <1>2, OwnRange
  <1>4. ASSUME NEW o \in DOMAIN heap' \ DOMAIN heap
        PROVE  \E i \in DOMAIN s : o = Len(heap) + i
    <2>1. o - Len(heap) \in DOMAIN s
      BY <1>2
    <2>2. o = Len(heap) + (o - Len(heap))
      BY <1>2
    <2> QED  BY <2>1, <2>2
  <1> QED  BY ONLY <1>2, <1>3, <1>4 DEF HeapIsSeq

-----------------------------------------------------------------------------
(* Steps that leave a composer alone *)

\* A composer none of whose objects is written.
LEMMA Kept ==
  ASSUME IInv, NEW c \in Composers, Undisturbed(c),
         status'[c] = status[c], members'[c] = members[c],
         gathering'[c] = gathering[c], answer'[c] = answer[c],
         signedTxns'[c] = signedTxns[c],
         \A o \in Objects(c) : heap'[o] = heap[o]
  PROVE  Undisturbed(c)'
  <1>1. \A i \in DOMAIN members[c] : members[c][i] \in Objects(c)
    BY DEF Objects
  <1>2. DOMAIN members[c] = 1 .. Len(members[c])
    BY Types
  <1>3. TxIDs(c)' = TxIDs(c)
    BY <1>1, <1>2 DEF TxIDs
  <1>4. Accepts(TxIDs(c))' <=> Accepts(TxIDs(c))
    BY <1>3 DEF Accepts
  <1>5. (Len(members[c]))' = Len(members[c])
    OBVIOUS
  <1>6. AnswersCurrent(c)'
    BY <1>3 DEF AnswersCurrent, Undisturbed
  <1> QED  BY <1>3, <1>4, <1>6 DEF Undisturbed

LEMMA KeptSeparate ==
  ASSUME NEW c \in Composers, Separate(c), members' = members
  PROVE  Separate(c)'
  BY DEF Separate, Objects

\* A step of one composer that writes none but its own objects.
LEMMA OthersKept ==
  ASSUME IInv, NEW c \in Composers,
         \A o \in DOMAIN heap \ Objects(c) : heap'[o] = heap[o],
         NEW d \in Composers \ mixed, d # c,
         members'[d] = members[d],
         status'[d] = status[d], gathering'[d] = gathering[d],
         answer'[d] = answer[d], signedTxns'[d] = signedTxns[d]
  PROVE  Undisturbed(d)'
  <1>1. Separate(d) /\ Undisturbed(d)
    BY DEF IInv
  <1>2. Objects(d) \cap Objects(c) = {}
    BY <1>1 DEF Separate
  <1>3. Objects(d) \subseteq DOMAIN heap
    BY Types
  <1>4. \A o \in Objects(d) : heap'[o] = heap[o]
    BY <1>2, <1>3
  <1> QED  BY <1>1, <1>4, Kept

-----------------------------------------------------------------------------
(* Each action *)

LEMMA InitInv == Init => IInv
  <1> SUFFICES ASSUME Init PROVE IInv
    OBVIOUS
  <1>1. /\ heap = <<>> /\ mixed = {}
        /\ status = [c \in Composers |-> BUILDING]
        /\ members = [c \in Composers |-> <<>>]
        /\ gathering = [c \in Composers |-> FALSE]
        /\ DOMAIN answer = Composers /\ DOMAIN signedTxns = Composers
    BY DEF Init
  <1>2. HeapIsSeq /\ HeapOfRecords
    BY <1>1 DEF HeapIsSeq, HeapOfRecords
  <1>3. TypeOK
    <2>1. MaxGroupSize \in Nat /\ MaxHeap \in Nat
      BY ConstantsAssumption
    <2>2. status \in [Composers -> BUILDING .. SIGNED]
      BY <1>1 DEF BUILDING, SIGNED
    <2> QED  BY <1>1, <2>1, <2>2 DEF TypeOK
  <1>4. ASSUME NEW c \in Composers
        PROVE  Separate(c) /\ Undisturbed(c)
    <2>1. /\ members[c] = <<>> /\ status[c] = BUILDING /\ ~gathering[c]
          /\ \A d \in Composers : members[d] = <<>>
      BY <1>1
    <2>2. Separate(c)
      BY <2>1 DEF Separate, Objects
    <2>3. Undisturbed(c)
      BY <2>1 DEF Undisturbed, AnswersCurrent, BUILDING, SIGNED
    <2> QED  BY <2>2, <2>3
  <1> QED  BY <1>2, <1>3, <1>4 DEF IInv

LEMMA MakeTxnInv ==
  ASSUME IInv, NEW x \in Content, MakeTxn(x)
  PROVE  IInv'
  <1> DEFINE e == [content |-> x, group |-> NoGroup]
  <1>1. /\ Len(heap) < MaxHeap /\ heap' = Append(heap, e)
        /\ UNCHANGED <<status, members, gathering, answer, signedTxns, mixed>>
    BY DEF MakeTxn
  <1>2. /\ HeapIsSeq'
        /\ Len(heap') = Len(heap) + 1
        /\ DOMAIN heap \subseteq DOMAIN heap'
        /\ \A o \in DOMAIN heap : heap'[o] = heap[o]
        /\ \A o \in DOMAIN heap' \ DOMAIN heap : heap'[o] = e
    <2>1. heap \in Seq({heap[o] : o \in DOMAIN heap})
      BY DEF IInv, HeapIsSeq
    <2>2. heap' = Append(heap, e)
      BY <1>1
    <2> HIDE DEF e
    <2> QED  BY ONLY <2>1, <2>2, AppendGrows DEF HeapIsSeq
  <1>3. HeapOfRecords'
    BY <1>2 DEF IInv, HeapOfRecords
  <1>4. TypeOK'
    <2>1. Len(heap') <= MaxHeap
      BY <1>1, <1>2, Types, ConstantsAssumption
    <2>2. Len(NoGroup) <= MaxGroupSize
      BY ConstantsAssumption DEF NoGroup
    <2>3. ASSUME NEW o \in DOMAIN heap'
          PROVE  heap'[o].content \in Content /\ Len(heap'[o].group) <= MaxGroupSize
      BY <1>2, <2>2 DEF IInv, TypeOK
    <2>4. members' \in [Composers -> Seq(DOMAIN heap')]
      <3>1. members \in [Composers -> Seq(DOMAIN heap)] /\ members' = members
        BY <1>1 DEF IInv, TypeOK
      <3> QED  BY ONLY <3>1, <1>2
    <2> QED  BY <1>1, <2>1, <2>3, <2>4 DEF IInv, TypeOK
  <1>5. ASSUME NEW c \in Composers \ mixed'
        PROVE  Separate(c)' /\ Undisturbed(c)'
    <2>1. Separate(c) /\ Undisturbed(c)
      BY <1>1 DEF IInv
    <2>2. \A o \in Objects(c) : heap'[o] = heap[o]
      BY <1>2, Types
    <2> QED  BY <1>1, <2>1, <2>2, Kept, KeptSeparate
  <1> QED  BY <1>2, <1>3, <1>4, <1>5 DEF IInv

LEMMA AddTransactionInv ==
  ASSUME IInv, NEW c \in Composers, NEW o \in DOMAIN heap, AddTransaction(c, o)
  PROVE  IInv'
  <1>1. /\ status[c] = BUILDING /\ RoomForOne(c) /\ Ungrouped(o)
        /\ members' = [members EXCEPT ![c] = Append(@, o)]
        /\ mixed' = IF Holders(o) = {} THEN mixed ELSE mixed \cup Holders(o) \cup {c}
        /\ UNCHANGED <<heap, status, gathering, answer, signedTxns>>
    BY DEF AddTransaction
  <1>2. members \in [Composers -> Seq(DOMAIN heap)]
    BY DEF IInv, TypeOK
  <1>3. /\ members'[c] = Append(members[c], o)
        /\ \A d \in Composers \ {c} : members'[d] = members[d]
        /\ members' \in [Composers -> Seq(DOMAIN heap)]
    BY <1>1, <1>2
  <1> DEFINE n == Len(members[c])
  <1>4. /\ n \in Nat /\ DOMAIN members[c] = 1 .. n
        /\ Len(members'[c]) = n + 1 /\ DOMAIN members'[c] = 1 .. n + 1
        /\ \A i \in 1 .. n : members'[c][i] = members[c][i]
        /\ members'[c][n + 1] = o
    <2>1. members[c] \in Seq(DOMAIN heap) /\ members'[c] = Append(members[c], o)
      BY <1>2, <1>3
    <2> QED  BY ONLY <2>1, o \in DOMAIN heap
  <1>5. TypeOK'
    <2>1. n <= MaxGroupSize /\ n # MaxGroupSize
      BY <1>1 DEF IInv, TypeOK, RoomForOne
    <2>2. Len(members'[c]) <= MaxGroupSize
      BY <1>4, <2>1, ConstantsAssumption
    <2>3. \A d \in Composers : Len(members'[d]) <= MaxGroupSize
      BY <1>3, <2>2 DEF IInv, TypeOK
    <2>4. mixed' \subseteq Composers
      BY <1>1 DEF IInv, TypeOK, Holders
    <2> QED  BY <1>1, <1>3, <2>3, <2>4 DEF IInv, TypeOK
  <1>6. HeapIsSeq' /\ HeapOfRecords'
    BY <1>1 DEF IInv, HeapIsSeq, HeapOfRecords
  <1>7. Objects(c)' = Objects(c) \cup {o}
    <2>1. Objects(c)' = {members'[c][i] : i \in 1 .. n + 1}
      BY <1>4 DEF Objects
    <2>2. Objects(c) = {members[c][i] : i \in 1 .. n}
      BY <1>4 DEF Objects
    <2>3. 1 .. n + 1 = (1 .. n) \cup {n + 1}
      BY <1>4
    <2> HIDE DEF n
    <2> QED  BY ONLY <2>1, <2>2, <2>3, <1>4
  <1>8. \A d \in Composers \ {c} : Objects(d)' = Objects(d)
    BY <1>3 DEF Objects
  <1>9. ASSUME NEW d \in Composers \ mixed'
        PROVE  Separate(d)' /\ Undisturbed(d)'
    <2>1. d \notin mixed
      BY <1>1, <1>9
    <2>2. Separate(d) /\ Undisturbed(d)
      BY <2>1 DEF IInv
    <2>3. CASE d # c
      <3>1. o \notin Objects(d)
        BY <1>1, <1>9 DEF Holders
      <3>2. \A e \in Composers \ {d} : Objects(d)' \cap Objects(e)' = {}
        BY <1>7, <1>8, <2>2, <2>3, <3>1 DEF Separate
      <3>3. Separate(d)'
        BY <1>3, <2>2, <2>3, <3>2 DEF Separate
      <3>4. Undisturbed(d)'
        BY <1>1, <1>3, <2>2, <2>3, Kept
      <3> QED  BY <3>3, <3>4
    <2>4. CASE d = c
      <3>1. Holders(o) = {}
        BY <1>1, <1>9, <2>4
      <3>2. \A e \in Composers : o \notin Objects(e)
        BY <3>1 DEF Holders
      <3>3. \A e \in Composers \ {c} : Objects(c)' \cap Objects(e)' = {}
        BY <1>7, <1>8, <2>2, <2>4, <3>2 DEF Separate
      <3>4. ASSUME NEW i \in 1 .. n + 1, NEW j \in 1 .. n + 1,
                   members'[c][i] = members'[c][j]
            PROVE  i = j
        <4>1. \A k \in 1 .. n : members[c][k] # o
          BY <1>4, <3>2 DEF Objects
        <4>2. (i \in 1 .. n \/ i = n + 1) /\ (j \in 1 .. n \/ j = n + 1)
          BY <1>4
        <4>3. \A k, l \in 1 .. n : members[c][k] = members[c][l] => k = l
          BY <1>4, <2>2, <2>4 DEF Separate
        <4> HIDE DEF n
        <4> QED  BY ONLY <1>4, <3>4, <4>1, <4>2, <4>3
      <3>5. Separate(c)'
        BY <1>4, <3>3, <3>4 DEF Separate
      <3>6. ~gathering[c] /\ status'[c] = BUILDING /\ gathering' = gathering
        BY <1>1, <2>2, <2>4 DEF Undisturbed, AnswersCurrent
      <3>7. ASSUME NEW i \in 1 .. Len(members'[c])
            PROVE  heap'[members'[c][i]].group = NoGroup
        <4>1. CASE i \in 1 .. n
          <5>1. TxIDs(c)[i].group = NoGroup
            BY <4>1, <1>1, <2>2, <2>4 DEF Undisturbed
          <5> QED  BY <5>1, <4>1, <1>1, <1>4 DEF TxIDs
        <4>2. CASE i = n + 1
          BY <4>2, <1>1, <1>4 DEF Ungrouped
        <4> QED  BY <4>1, <4>2, <1>4
      <3>8. Undisturbed(c)'
        BY <3>6, <3>7 DEF Undisturbed, AnswersCurrent, TxIDs, BUILDING, SIGNED
      <3> QED  BY <2>4, <3>5, <3>8
    <2> QED  BY <2>3, <2>4
  <1> QED  BY <1>5, <1>6, <1>9 DEF IInv

LEMMA TxIDsLen ==
  ASSUME IInv, NEW c \in Composers
  PROVE  /\ DOMAIN TxIDs(c) = 1 .. Len(members[c])
         /\ Len(TxIDs(c)) = Len(members[c])
         /\ \A i \in 1 .. Len(members[c]) : TxIDs(c)[i] = heap[members[c][i]]
  <1> DEFINE n == Len(members[c])
             q == [i \in 1 .. n |-> heap[members[c][i]]]
             S == {q[i] : i \in 1 .. n}
  <1>1. n \in Nat
    BY Types
  <1>2. q \in [1 .. n -> S]
    OBVIOUS
  <1>3. DOMAIN q = 1 .. n /\ \A i \in 1 .. n : q[i] = heap[members[c][i]]
    OBVIOUS
  <1> HIDE DEF S, q, n
  <1>4. Len(q) = n
    BY ONLY <1>1, <1>2
  <1> QED  BY <1>3, <1>4 DEF TxIDs, n, q

\* What Build does to the heap.
LEMMA BuildHeap ==
  ASSUME IInv, NEW c \in Composers, Build(c)
  PROVE  /\ HeapIsSeq' /\ HeapOfRecords'
         /\ DOMAIN heap' = DOMAIN heap /\ Len(heap') = Len(heap)
         /\ \A o \in DOMAIN heap : /\ heap'[o].content = heap[o].content
                                   /\ Len(heap'[o].group) <= MaxGroupSize
         /\ \A o \in DOMAIN heap \ Objects(c) : heap'[o] = heap[o]
         /\ Len(members[c]) > 1 =>
              \A i \in DOMAIN members[c] :
                heap'[members[c][i]] =
                  [content |-> heap[members[c][i]].content, group |-> TxIDs(c)]
  <1>1. heap' = IF Len(members[c]) > 1 THEN Regrouped(c) ELSE heap
    BY DEF Build
  <1>2. DOMAIN heap = 1 .. Len(heap) /\ Len(heap) \in Nat
    BY Types
  <1>3. CASE ~(Len(members[c]) > 1)
    BY <1>1, <1>3 DEF IInv, HeapIsSeq, HeapOfRecords, TypeOK
  <1>4. CASE Len(members[c]) > 1
    <2>1. heap' = Regrouped(c)
      BY <1>1, <1>4
    <2>2. /\ DOMAIN heap' = DOMAIN heap
          /\ \A o \in DOMAIN heap \ Objects(c) : heap'[o] = heap[o]
          /\ \A o \in DOMAIN heap \cap Objects(c) :
                heap'[o] = [content |-> heap[o].content, group |-> TxIDs(c)]
      BY <2>1 DEF Regrouped, ComputedGroupID
    <2> DEFINE S == {heap'[o] : o \in DOMAIN heap}
    <2>3. heap' \in [1 .. Len(heap) -> S]
      BY <2>1, <1>2 DEF Regrouped
    <2>4. heap' \in Seq(S) /\ Len(heap') = Len(heap)
      <3> HIDE DEF S
      <3> QED  BY ONLY <2>3, <1>2
    <2>5. HeapIsSeq'
      BY <2>2, <2>4 DEF HeapIsSeq
    <2>6. HeapOfRecords'
      BY <2>2 DEF IInv, HeapOfRecords
    <2>7. Len(TxIDs(c)) <= MaxGroupSize
      BY TxIDsLen DEF IInv, TypeOK
    <2>8. \A o \in DOMAIN heap : /\ heap'[o].content = heap[o].content
                                /\ Len(heap'[o].group) <= MaxGroupSize
      <3> SUFFICES ASSUME NEW o \in DOMAIN heap
                   PROVE  /\ heap'[o].content = heap[o].content
                          /\ Len(heap'[o].group) <= MaxGroupSize
        OBVIOUS
      <3>1. CASE o \in Objects(c)
        <4>1. heap'[o] = [content |-> heap[o].content, group |-> TxIDs(c)]
          BY <2>2, <3>1
        <4> QED  BY ONLY <4>1, <2>7
      <3>2. CASE o \notin Objects(c)
        BY <2>2, <3>2 DEF IInv, TypeOK
      <3> QED  BY <3>1, <3>2
    <2>9. \A i \in DOMAIN members[c] : members[c][i] \in DOMAIN heap \cap Objects(c)
      BY Types DEF Objects
    <2> QED  BY <2>2, <2>4, <2>5, <2>6, <2>8, <2>9
  <1> QED  BY <1>3, <1>4

\* A composer that is separate builds a group the network takes.
LEMMA BuildAccepted ==
  ASSUME IInv, NEW c \in Composers \ mixed, Build(c), members' = members
  PROVE  Accepts(TxIDs(c))'
  <1> DEFINE n == Len(members[c])
             old == TxIDs(c)
             new == TxIDs(c)'
             g == [j \in 1 .. n |-> [content |-> new[j].content, group |-> NoGroup]]
  <1>1. status[c] = BUILDING /\ Undisturbed(c)
    BY DEF Build, IInv
  <1>2. \A i \in 1 .. n : old[i].group = NoGroup
    BY <1>1 DEF Undisturbed
  <1>3. n \in Nat /\ DOMAIN members[c] = 1 .. n
    BY Types
  <1>4. \A i \in 1 .. n : new[i] = heap'[members[c][i]]
    BY DEF TxIDs
  <1>5. new \in [1 .. n -> {new[i] : i \in 1 .. n}] /\ DOMAIN new = 1 .. n
    BY DEF TxIDs
  <1>6. \A i \in 1 .. n : old[i] = heap[members[c][i]]
    BY TxIDsLen
  <1>7. old = [j \in 1 .. n |-> old[j]]
    BY DEF TxIDs
  <1>8. \A i \in 1 .. n :
          heap[members[c][i]] = [content |-> heap[members[c][i]].content,
                                 group |-> heap[members[c][i]].group]
    BY <1>3, Types DEF IInv, HeapOfRecords
  <1>9. n > 1 => \A i \in 1 .. n :
          heap'[members[c][i]] = [content |-> heap[members[c][i]].content,
                                  group |-> old]
    BY <1>3, BuildHeap
  <1>10. ~(n > 1) => heap' = heap
    BY DEF Build
  <1>11. n # 0
    <2>1. members[c] \in Seq(DOMAIN heap) /\ members[c] # <<>>
      BY Types DEF Build
    <2> QED  BY ONLY <2>1
  <1> HIDE DEF n, old, new
  <1>12. Len(new) = n
    BY ONLY <1>3, <1>5
  <1>13. ASSUME n > 1 PROVE Accepts(new)
    <2>1. ASSUME NEW j \in 1 .. n
          PROVE  /\ old[j] = [content |-> new[j].content, group |-> NoGroup]
                 /\ new[j].group = old
      <3>1. new[j] = [content |-> heap[members[c][j]].content, group |-> old]
        BY <1>4, <1>9, <1>13
      <3>2. new[j].content = heap[members[c][j]].content /\ new[j].group = old
        BY ONLY <3>1
      <3> QED  BY ONLY <1>2, <1>6, <1>8, <3>2
    <2>2. old = g
      BY ONLY <1>7, <2>1
    <2> QED  BY ONLY <1>5, <1>12, <2>1, <2>2 DEF Accepts
  <1>14. ASSUME n = 1 PROVE Accepts(new)
    <2>1. new[1].group = NoGroup
      BY ONLY <1>2, <1>4, <1>6, <1>10, <1>14
    <2> QED  BY ONLY <1>12, <1>14, <2>1 DEF Accepts
  <1>15. Accepts(new)
    BY ONLY <1>3, <1>11, <1>13, <1>14
  <1> QED  BY <1>15 DEF new

\* All but what the signers of the composer know, which a call may set.
LEMMA BuildInv ==
  ASSUME IInv, NEW c \in Composers, Build(c),
         UNCHANGED <<members, signedTxns, mixed>>,
         gathering' \in [Composers -> BOOLEAN],
         DOMAIN answer' = Composers,
         \A d \in Composers \ {c} : /\ gathering'[d] = gathering[d]
                                     /\ answer'[d] = answer[d],
         c \notin mixed => AnswersCurrent(c)'
  PROVE  IInv'
  <1>1. /\ status[c] = BUILDING
        /\ status' = [status EXCEPT ![c] = BUILT]
        /\ status \in [Composers -> BUILDING .. SIGNED]
    BY DEF Build, IInv, TypeOK
  <1>2. /\ status'[c] = BUILT
        /\ \A d \in Composers \ {c} : status'[d] = status[d]
        /\ status' \in [Composers -> BUILDING .. SIGNED]
    BY <1>1 DEF BUILDING, BUILT, SIGNED
  <1>3. TypeOK'
    <2>1. /\ DOMAIN heap' = DOMAIN heap /\ Len(heap') = Len(heap)
          /\ \A o \in DOMAIN heap : /\ heap'[o].content = heap[o].content
                                    /\ Len(heap'[o].group) <= MaxGroupSize
      BY BuildHeap
    <2> QED  BY <1>2, <2>1 DEF IInv, TypeOK
  <1>4. ASSUME NEW d \in Composers \ mixed
        PROVE  Separate(d)' /\ Undisturbed(d)'
    <2>1. Separate(d)'
      BY KeptSeparate DEF IInv
    <2>2. CASE d # c
      <3>1. \A o \in DOMAIN heap \ Objects(c) : heap'[o] = heap[o]
        BY BuildHeap
      <3> QED  BY <1>2, <2>1, <2>2, <3>1, OthersKept
    <2>3. CASE d = c
      <3>1. Accepts(TxIDs(c))' /\ AnswersCurrent(c)'
        BY <2>3, BuildAccepted
      <3> QED
        BY <1>2, <2>1, <2>3, <3>1 DEF Undisturbed, BUILDING, BUILT, SIGNED
    <2> QED  BY <2>2, <2>3
  <1> QED  BY <1>3, <1>4, BuildHeap DEF IInv

LEMMA BuildGroupInv ==
  ASSUME IInv, NEW c \in Composers, BuildGroup(c)
  PROVE  IInv'
  <1>1. Build(c) /\ UNCHANGED <<members, gathering, answer, signedTxns, mixed>>
    BY DEF BuildGroup
  <1>2. c \notin mixed => ~gathering[c]
    BY <1>1 DEF IInv, Undisturbed, AnswersCurrent, Build
  <1>3. c \notin mixed => AnswersCurrent(c)'
    BY <1>1, <1>2 DEF AnswersCurrent
  <1>4. gathering' \in [Composers -> BOOLEAN] /\ DOMAIN answer' = Composers
    BY <1>1 DEF IInv, TypeOK
  <1> QED  BY <1>1, <1>3, <1>4, BuildInv

LEMMA CloneInv ==
  ASSUME IInv, NEW c \in Composers, NEW d \in Composers \ {c}, Clone(c, d)
  PROVE  IInv'
  <1> DEFINE n == Len(members[c])
             h == Len(heap)
             fresh == ClonedMembers(c)
  <1>1. /\ status[d] = BUILDING /\ members[d] = <<>> /\ h + n <= MaxHeap
        /\ heap' = heap \o Copies(c)
        /\ members' = [members EXCEPT ![d] = fresh]
        /\ UNCHANGED <<status, gathering, answer, signedTxns, mixed>>
    BY DEF Clone
  <1>2. /\ n \in Nat /\ h \in Nat /\ DOMAIN heap = 1 .. h
        /\ members \in [Composers -> Seq(DOMAIN heap)]
    BY Types DEF IInv, TypeOK
  <1>3. /\ DOMAIN Copies(c) = 1 .. n
        /\ \A i \in 1 .. n :
             Copies(c)[i] = [content |-> heap[members[c][i]].content,
                             group |-> NoGroup]
        /\ Copies(c) \in [1 .. n -> {Copies(c)[i] : i \in 1 .. n}]
    BY DEF Copies
  <1> DEFINE K == Copies(c)
             T == {K[i] : i \in 1 .. n}
  <1>4. K \in Seq(T) /\ Len(K) = n
    <2>1. K \in [1 .. n -> T]
      BY <1>3
    <2> HIDE DEF K, n, T
    <2> QED  BY ONLY <1>2, <2>1
  <1>5. /\ HeapIsSeq'
        /\ Len(heap') = h + n
        /\ DOMAIN heap \subseteq DOMAIN heap'
        /\ \A o \in DOMAIN heap : heap'[o] = heap[o]
        /\ \A i \in 1 .. n : heap'[h + i] = Copies(c)[i]
        /\ \A o \in DOMAIN heap' \ DOMAIN heap : \E i \in 1 .. n : o = h + i
    <2>1. HeapIsSeq /\ heap' = heap \o K /\ DOMAIN K = 1 .. n
      BY <1>1, <1>3 DEF IInv
    <2> HIDE DEF K, T, n
    <2>2. /\ HeapIsSeq'
          /\ Len(heap') = Len(heap) + Len(K)
          /\ DOMAIN heap \subseteq DOMAIN heap'
          /\ \A o \in DOMAIN heap : heap'[o] = heap[o]
          /\ \A i \in DOMAIN K : heap'[Len(heap) + i] = K[i]
          /\ \A o \in DOMAIN heap' \ DOMAIN heap :
               \E i \in DOMAIN K : o = Len(heap) + i
      BY ONLY <1>4, <2>1, ConcatGrows
    <2> QED  BY <1>4, <2>1, <2>2 DEF K
  <1>6. /\ fresh = [i \in 1 .. n |-> h + i]
        /\ DOMAIN heap' = 1 .. h + n
    <2>1. DOMAIN heap' = 1 .. Len(heap')
      <3>1. heap' \in Seq({heap'[o] : o \in DOMAIN heap'})
        BY <1>5 DEF HeapIsSeq
      <3> QED  BY ONLY <3>1
    <2> QED  BY <1>5, <2>1 DEF ClonedMembers
  <1>7. /\ members'[d] = fresh
        /\ \A e \in Composers \ {d} : members'[e] = members[e]
    BY <1>1, <1>2
  <1>8. /\ fresh \in Seq(DOMAIN heap') /\ Len(fresh) = n
        /\ DOMAIN fresh = 1 .. n /\ \A i \in 1 .. n : fresh[i] = h + i
    <2> DEFINE F == fresh
    <2>1. F = [i \in 1 .. n |-> h + i]
      BY <1>6
    <2> HIDE DEF F, n, h
    <2>2. F \in [1 .. n -> 1 .. h + n]
      BY ONLY <1>2, <2>1
    <2>3. F \in Seq(DOMAIN heap') /\ Len(F) = n
      BY ONLY <1>2, <1>6, <2>2
    <2> QED  BY <2>1, <2>3 DEF F
  <1> HIDE DEF fresh, h, n, K, T
  <1>9. HeapOfRecords'
    <2> SUFFICES ASSUME NEW o \in DOMAIN heap'
                 PROVE  heap'[o] = [content |-> heap'[o].content,
                                    group |-> heap'[o].group]
      BY DEF HeapOfRecords
    <2>1. CASE o \in DOMAIN heap
      BY <1>5, <2>1 DEF IInv, HeapOfRecords
    <2>2. CASE o \notin DOMAIN heap
      <3>1. PICK i \in 1 .. n : o = h + i
        BY <1>5, <2>2
      <3>2. heap'[o] = [content |-> heap[members[c][i]].content, group |-> NoGroup]
        BY <1>3, <1>5, <3>1
      <3> QED  BY ONLY <3>2
    <2> QED  BY <2>1, <2>2
  <1>10. TypeOK'
    <2>1. Len(heap') <= MaxHeap
      BY <1>1, <1>5
    <2>2. ASSUME NEW o \in DOMAIN heap'
          PROVE  heap'[o].content \in Content /\ Len(heap'[o].group) <= MaxGroupSize
      <3>1. CASE o \in DOMAIN heap
        BY <1>5, <3>1 DEF IInv, TypeOK
      <3>2. CASE o \notin DOMAIN heap
        <4>1. PICK i \in 1 .. n : o = h + i
          BY <1>5, <3>2
        <4>2. heap'[o] = [content |-> heap[members[c][i]].content, group |-> NoGroup]
          BY <1>3, <1>5, <4>1
        <4>3. members[c][i] \in DOMAIN heap
          BY Types DEF n
        <4>4. heap[members[c][i]].content \in Content
          BY <4>3 DEF IInv, TypeOK
        <4>5. Len(NoGroup) <= MaxGroupSize
          BY ConstantsAssumption DEF NoGroup
        <4>6. heap'[o].content = heap[members[c][i]].content /\ heap'[o].group = NoGroup
          BY ONLY <4>2
        <4> QED  BY ONLY <4>4, <4>5, <4>6
      <3> QED  BY <3>1, <3>2
    <2>3. members' \in [Composers -> Seq(DOMAIN heap')]
      <3>1. ASSUME NEW e \in Composers
            PROVE  members'[e] \in Seq(DOMAIN heap')
        <4>1. CASE e = d
          BY <1>7, <1>8, <4>1
        <4>2. CASE e # d
          <5>1. members'[e] = members[e] /\ members[e] \in Seq(DOMAIN heap)
            BY <1>2, <1>7, <4>2
          <5> QED  BY ONLY <1>5, <5>1
        <4> QED  BY <4>1, <4>2
      <3> QED  BY <1>1, <1>2, <3>1
    <2>4. \A e \in Composers : Len(members'[e]) <= MaxGroupSize
      BY <1>7, <1>8 DEF IInv, TypeOK, n
    <2> QED  BY <1>1, <2>1, <2>2, <2>3, <2>4 DEF IInv, TypeOK
  <1>11. /\ Objects(d)' = {h + i : i \in 1 .. n}
         /\ \A e \in Composers \ {d} : Objects(e)' = Objects(e)
         /\ \A e \in Composers : Objects(e) \subseteq 1 .. h
    <2>1. Objects(d)' = {fresh[i] : i \in 1 .. n}
      BY <1>7, <1>8 DEF Objects
    <2>2. Objects(d)' = {h + i : i \in 1 .. n}
      BY ONLY <1>8, <2>1
    <2>3. \A e \in Composers \ {d} : Objects(e)' = Objects(e)
      BY <1>7 DEF Objects
    <2>4. \A e \in Composers : Objects(e) \subseteq 1 .. h
      BY <1>2, Types
    <2> QED  BY <2>2, <2>3, <2>4
  <1>12. \A e \in Composers : Objects(d)' \cap Objects(e) = {}
    BY <1>2, <1>11
  <1>13. ASSUME NEW e \in Composers \ mixed'
         PROVE  Separate(e)' /\ Undisturbed(e)'
    <2>1. Separate(e) /\ Undisturbed(e)
      BY <1>1 DEF IInv
    <2>2. CASE e # d
      <3>1. \A f \in Composers \ {e} : Objects(e)' \cap Objects(f)' = {}
        BY <1>11, <1>12, <2>1, <2>2 DEF Separate
      <3>2. Separate(e)'
        BY <1>7, <2>1, <2>2, <3>1 DEF Separate
      <3>3. \A o \in Objects(e) : heap'[o] = heap[o]
        BY <1>5, Types
      <3>4. Undisturbed(e)'
        BY <1>1, <1>7, <2>1, <2>2, <3>3, Kept
      <3> QED  BY <3>2, <3>4
    <2>3. CASE e = d
      <3>1. \A f \in Composers \ {d} : Objects(d)' \cap Objects(f)' = {}
        BY <1>11, <1>12
      <3>2. \A i, j \in 1 .. n : fresh[i] = fresh[j] => i = j
        BY ONLY <1>2, <1>8
      <3>3. Separate(d)'
        BY <1>7, <1>8, <3>1, <3>2 DEF Separate
      <3>4. ~gathering'[d] /\ status'[d] = BUILDING
        BY <1>1, <2>1, <2>3 DEF Undisturbed, AnswersCurrent
      <3>5. ASSUME NEW i \in 1 .. n
            PROVE  heap'[fresh[i]].group = NoGroup
        <4>1. heap'[fresh[i]] = Copies(c)[i]
          BY ONLY <1>5, <1>8
        <4>2. Copies(c)[i] = [content |-> heap[members[c][i]].content,
                              group |-> NoGroup]
          BY <1>3
        <4> QED  BY ONLY <4>1, <4>2
      <3>6. Undisturbed(d)'
        BY <1>7, <1>8, <3>4, <3>5
        DEF Undisturbed, AnswersCurrent, TxIDs, BUILDING, SIGNED
      <3> QED  BY <2>3, <3>3, <3>6
    <2> QED  BY <2>2, <2>3
  <1> QED  BY <1>5, <1>9, <1>10, <1>13 DEF IInv

\* A step of a call that reads the heap and writes nothing but what the
\* composer knows of its signatures.
LEMMA CallInv ==
  ASSUME IInv, NEW c \in Composers,
         UNCHANGED <<heap, members, mixed>>,
         status' \in [Composers -> BUILDING .. SIGNED],
         gathering' \in [Composers -> BOOLEAN],
         DOMAIN answer' = Composers, DOMAIN signedTxns' = Composers,
         \A d \in Composers \ {c} :
           /\ status'[d] = status[d] /\ gathering'[d] = gathering[d]
           /\ answer'[d] = answer[d] /\ signedTxns'[d] = signedTxns[d],
         c \notin mixed => Undisturbed(c)'
  PROVE  IInv'
  <1>1. HeapIsSeq' /\ HeapOfRecords'
    BY DEF IInv, HeapIsSeq, HeapOfRecords
  <1>2. TypeOK'
    BY DEF IInv, TypeOK
  <1>3. ASSUME NEW d \in Composers \ mixed
        PROVE  Separate(d)' /\ Undisturbed(d)'
    <2>1. Separate(d)' /\ Undisturbed(d)
      BY KeptSeparate DEF IInv
    <2>2. d # c => Undisturbed(d)'
      BY <2>1, Kept
    <2> QED  BY <2>1, <2>2
  <1> QED  BY <1>1, <1>2, <1>3 DEF IInv

LEMMA CallGatherInv ==
  ASSUME IInv, NEW c \in Composers, CallGather(c)
  PROVE  IInv'
  <1> DEFINE n == Len(members[c])
  <1>1. /\ ~gathering[c]
        /\ gathering' = [gathering EXCEPT ![c] = TRUE]
        /\ answer' = [answer EXCEPT ![c] = [i \in 1 .. n |-> Unsigned]]
        /\ UNCHANGED <<members, signedTxns, mixed>>
        /\ \/ Build(c)
           \/ status[c] = BUILT /\ UNCHANGED <<heap, status>>
    BY DEF CallGather
  <1>2. /\ gathering' \in [Composers -> BOOLEAN]
        /\ DOMAIN answer' = Composers
        /\ \A d \in Composers \ {c} : /\ gathering'[d] = gathering[d]
                                      /\ answer'[d] = answer[d]
        /\ answer'[c] = [i \in 1 .. n |-> Unsigned]
    <2>1. gathering \in [Composers -> BOOLEAN] /\ DOMAIN answer = Composers
      BY DEF IInv, TypeOK
    <2> QED  BY ONLY <1>1, <2>1
  <1>3. status \in [Composers -> BUILDING .. SIGNED]
    BY DEF IInv, TypeOK
  <1>4. status'[c] = BUILT
    BY <1>1, <1>3 DEF Build
  <1>5. AnswersCurrent(c)'
    <2>1. \A i \in 1 .. n : answer'[c][i] = Unsigned
      BY <1>2
    <2>2. answer'[c] = [i \in 1 .. n |-> answer'[c][i]]
      BY <1>2
    <2>3. Len(members'[c]) = n
      BY <1>1
    <2> QED
      BY <1>4, <2>1, <2>2, <2>3 DEF AnswersCurrent, BUILDING, BUILT
  <1>6. CASE Build(c)
    BY <1>1, <1>2, <1>5, <1>6, BuildInv
  <1>7. CASE status[c] = BUILT /\ UNCHANGED <<heap, status>>
    <2>1. c \notin mixed => Accepts(TxIDs(c)) /\ TxIDs(c)' = TxIDs(c)
      BY <1>1, <1>7 DEF IInv, Undisturbed, TxIDs, BUILDING, BUILT
    <2>2. c \notin mixed => Accepts(TxIDs(c))'
      BY <2>1 DEF Accepts
    <2>3. c \notin mixed => Undisturbed(c)'
      BY <1>4, <1>5, <2>2 DEF Undisturbed, BUILDING, BUILT, SIGNED
    <2>4. DOMAIN signedTxns' = Composers
      BY <1>1 DEF IInv, TypeOK
    <2> QED  BY <1>1, <1>2, <1>3, <1>7, <2>3, <2>4, CallInv
  <1> QED  BY <1>1, <1>6, <1>7

LEMMA SignInv ==
  ASSUME IInv, NEW c \in Composers, NEW i \in DOMAIN members[c], Sign(c, i)
  PROVE  IInv'
  <1> DEFINE n == Len(members[c])
             r == heap[members[c][i]]
  <1>1. /\ gathering[c]
        /\ answer' = [answer EXCEPT ![c] = [answer[c] EXCEPT ![i] = r]]
        /\ UNCHANGED <<heap, status, members, gathering, signedTxns, mixed>>
    BY DEF Sign
  <1>2. /\ DOMAIN answer' = Composers /\ answer'[c] = [answer[c] EXCEPT ![i] = r]
        /\ \A d \in Composers \ {c} : answer'[d] = answer[d]
    <2>1. DOMAIN answer = Composers
      BY DEF IInv, TypeOK
    <2> HIDE DEF r
    <2> QED  BY ONLY <1>1, <2>1
  <1>3. ASSUME c \notin mixed PROVE Undisturbed(c)'
    <2>1. /\ Undisturbed(c) /\ status[c] # BUILDING
          /\ answer[c] = [j \in 1 .. n |-> answer[c][j]]
          /\ \A j \in 1 .. n : answer[c][j] \in {Unsigned, TxIDs(c)[j]}
      BY <1>1, <1>3 DEF IInv, Undisturbed, AnswersCurrent
    <2>2. TxIDs(c)' = TxIDs(c) /\ TxIDs(c)[i] = r /\ i \in 1 .. n
      BY <1>1, TxIDsLen, Types DEF TxIDs
    <2> HIDE DEF r, n
    <2>3. /\ answer'[c] = [j \in 1 .. n |-> IF j = i THEN r ELSE answer[c][j]]
      BY ONLY <1>2, <2>1, <2>2
    <2>4. /\ answer'[c] = [j \in 1 .. n |-> answer'[c][j]]
          /\ \A j \in 1 .. n : answer'[c][j] \in {Unsigned, TxIDs(c)[j]}
      BY ONLY <2>1, <2>2, <2>3
    <2>5. AnswersCurrent(c)'
      BY <1>1, <2>1, <2>2, <2>4 DEF AnswersCurrent, n
    <2>6. Accepts(TxIDs(c)')
      BY <2>1, <2>2 DEF Undisturbed
    <2> QED  BY <1>1, <2>1, <2>2, <2>5, <2>6 DEF Undisturbed
  <1> QED  BY <1>1, <1>2, <1>3, CallInv DEF IInv, TypeOK

LEMMA ResumeGatherInv ==
  ASSUME IInv, NEW c \in Composers, ResumeGather(c)
  PROVE  IInv'
  <1> DEFINE n == Len(members[c])
  <1>1. /\ gathering[c]
        /\ \A i \in DOMAIN answer[c] : answer[c][i] # Unsigned
        /\ signedTxns' = [signedTxns EXCEPT ![c] = answer[c]]
        /\ status' = [status EXCEPT ![c] = SIGNED]
        /\ gathering' = [gathering EXCEPT ![c] = FALSE]
        /\ UNCHANGED <<heap, members, answer, mixed>>
    BY DEF ResumeGather
  <1>2. /\ status \in [Composers -> BUILDING .. SIGNED]
        /\ gathering \in [Composers -> BOOLEAN]
        /\ DOMAIN answer = Composers /\ DOMAIN signedTxns = Composers
    BY DEF IInv, TypeOK
  <1>3. /\ status' \in [Composers -> BUILDING .. SIGNED]
        /\ gathering' \in [Composers -> BOOLEAN]
        /\ DOMAIN signedTxns' = Composers /\ DOMAIN answer' = Composers
        /\ status'[c] = SIGNED /\ ~gathering'[c] /\ signedTxns'[c] = answer[c]
        /\ \A d \in Composers \ {c} :
             /\ status'[d] = status[d] /\ gathering'[d] = gathering[d]
             /\ answer'[d] = answer[d] /\ signedTxns'[d] = signedTxns[d]
    BY <1>1, <1>2 DEF BUILDING, SIGNED
  <1>4. ASSUME c \notin mixed PROVE Undisturbed(c)'
    <2>1. /\ Undisturbed(c) /\ status[c] # BUILDING
          /\ answer[c] = [j \in 1 .. n |-> answer[c][j]]
          /\ \A j \in 1 .. n : answer[c][j] \in {Unsigned, TxIDs(c)[j]}
      BY <1>1, <1>4 DEF IInv, Undisturbed, AnswersCurrent
    <2>2. TxIDs(c)' = TxIDs(c) /\ TxIDs(c) = [j \in 1 .. n |-> TxIDs(c)[j]]
      BY <1>1 DEF TxIDs
    <2>3. \A j \in 1 .. n : answer[c][j] = TxIDs(c)[j]
      BY <1>1, <2>1
    <2>4. signedTxns'[c] = TxIDs(c)
      BY <1>3, <2>1, <2>2, <2>3
    <2>5. Accepts(TxIDs(c)')
      BY <2>1, <2>2 DEF Undisturbed
    <2>6. AnswersCurrent(c)'
      BY <1>3 DEF AnswersCurrent
    <2> QED
      BY <1>3, <2>2, <2>4, <2>5, <2>6 DEF Undisturbed, BUILDING, SIGNED
  <1> QED  BY <1>1, <1>3, <1>4, CallInv

LEMMA SignerFailsInv ==
  ASSUME IInv, NEW c \in Composers, SignerFails(c)
  PROVE  IInv'
  <1>1. /\ gathering' = [gathering EXCEPT ![c] = FALSE]
        /\ UNCHANGED <<heap, status, members, answer, signedTxns, mixed>>
    BY DEF SignerFails
  <1>2. gathering \in [Composers -> BOOLEAN]
    BY DEF IInv, TypeOK
  <1>3. /\ gathering' \in [Composers -> BOOLEAN] /\ ~gathering'[c]
        /\ \A d \in Composers \ {c} : gathering'[d] = gathering[d]
    BY <1>1, <1>2
  <1>4. ASSUME c \notin mixed PROVE Undisturbed(c)'
    <2>1. Undisturbed(c) /\ TxIDs(c)' = TxIDs(c)
      BY <1>1, <1>4 DEF IInv, TxIDs
    <2>2. AnswersCurrent(c)'
      BY <1>3 DEF AnswersCurrent
    <2>3. status[c] # BUILDING => Accepts(TxIDs(c)')
      BY <2>1 DEF Undisturbed
    <2> QED  BY <1>1, <2>1, <2>2, <2>3 DEF Undisturbed
  <1> QED  BY <1>1, <1>3, <1>4, CallInv DEF IInv, TypeOK

LEMMA NextInv == IInv /\ [Next]_vars => IInv'
  <1> SUFFICES ASSUME IInv, [Next]_vars
               PROVE  IInv'
    OBVIOUS
  <1>1. CASE UNCHANGED vars
    <2>1. HeapIsSeq' /\ HeapOfRecords' /\ TypeOK'
      BY <1>1 DEF vars, IInv, HeapIsSeq, HeapOfRecords, TypeOK
    <2>2. ASSUME NEW c \in Composers \ mixed
          PROVE  Separate(c)' /\ Undisturbed(c)'
      BY <1>1, Kept, KeptSeparate DEF vars, IInv
    <2> QED  BY <1>1, <2>1, <2>2 DEF vars, IInv
  <1>2. ASSUME NEW x \in Content, MakeTxn(x) PROVE IInv'
    BY <1>2, MakeTxnInv
  <1>3. ASSUME NEW c \in Composers,
               \/ \E o \in DOMAIN heap : AddTransaction(c, o)
               \/ BuildGroup(c)
               \/ \E d \in Composers \ {c} : Clone(c, d)
               \/ CallGather(c)
               \/ \E i \in DOMAIN members[c] : Sign(c, i)
               \/ ResumeGather(c)
               \/ SignerFails(c)
        PROVE  IInv'
    BY <1>3, AddTransactionInv, BuildGroupInv, CloneInv, CallGatherInv,
       SignInv, ResumeGatherInv, SignerFailsInv
  <1> QED  BY <1>1, <1>2, <1>3 DEF Next

LEMMA InvHolds == Spec => []IInv
  BY InitInv, NextInv, PTL DEF Spec

-----------------------------------------------------------------------------
(* Results *)

\* References stay inside the heap and groups inside MAX_GROUP_SIZE.
THEOREM SharedTypeCorrect == Spec => []TypeOK
  <1>1. IInv => TypeOK
    BY DEF IInv
  <1> QED  BY <1>1, InvHolds, PTL

\* A composer whose objects were given to no composer a second time builds a
\* group the network takes, whatever is done to its clones.
THEOREM CloneIsIndependent == Spec => []BuiltAccepted
  <1>1. IInv => BuiltAccepted
    BY DEF IInv, BuiltAccepted, Undisturbed
  <1> QED  BY <1>1, InvHolds, PTL

\* What such a composer has signed is what its transactions still are.
THEOREM SignaturesStayCurrent == Spec => []SignedCurrent
  <1>1. IInv => SignedCurrent
    BY DEF IInv, SignedCurrent, Undisturbed
  <1> QED  BY <1>1, InvHolds, PTL

\* The transactions of such a composer change when it builds its own group
\* and at no other time.
THEOREM OnlyOwnBuildRegroups == Spec => OnlyBuildRegroups
  <1>1. ASSUME IInv, [Next]_vars, NEW c \in Composers \ mixed,
               NEW k \in DOMAIN members[c],
               heap'[members[c][k]] # heap[members[c][k]]
        PROVE  status[c] = BUILDING /\ status'[c] = BUILT
    <2> DEFINE u == members[c][k]
    <2>1. u \in DOMAIN heap /\ u \in Objects(c)
      BY <1>1, Types DEF Objects
    <2>2. ASSUME NEW d \in Composers, Build(d)
          PROVE  d = c /\ status[c] = BUILDING /\ status'[c] = BUILT
      <3>1. u \in Objects(d)
        BY <1>1, <2>1, <2>2, BuildHeap
      <3>2. Separate(c)
        BY <1>1 DEF IInv
      <3>3. d = c
        BY <2>1, <3>1, <3>2 DEF Separate
      <3>4. status \in [Composers -> BUILDING .. SIGNED]
        BY <1>1 DEF IInv, TypeOK
      <3> QED  BY <2>2, <3>3, <3>4 DEF Build
    <2>3. ASSUME NEW x \in Content, MakeTxn(x) PROVE heap'[u] = heap[u]
      <3> DEFINE e == [content |-> x, group |-> NoGroup]
      <3>1. heap' = Append(heap, e)
        BY <2>3 DEF MakeTxn
      <3>2. heap \in Seq({heap[o] : o \in DOMAIN heap})
        BY <1>1 DEF IInv, HeapIsSeq
      <3> HIDE DEF e, u
      <3>3. \A o \in DOMAIN heap : heap'[o] = heap[o]
        BY ONLY <3>1, <3>2, AppendGrows
      <3> QED  BY <2>1, <3>3
    <2>4. ASSUME NEW d \in Composers, NEW e \in Composers, Clone(d, e)
          PROVE  heap'[u] = heap[u]
      <3> DEFINE n == Len(members[d])
                 K == Copies(d)
                 T == {K[i] : i \in 1 .. n}
      <3>1. n \in Nat /\ K \in [1 .. n -> T] /\ heap' = heap \o K
        BY <1>1, <2>4, Types DEF Clone, Copies
      <3>2. HeapIsSeq
        BY <1>1 DEF IInv
      <3> HIDE DEF K, T, n, u
      <3>3. K \in Seq(T)
        BY ONLY <3>1
      <3>4. \A o \in DOMAIN heap : heap'[o] = heap[o]
        BY ONLY <3>1, <3>2, <3>3, ConcatGrows
      <3> QED  BY <2>1, <3>4
    <2>5. heap' # heap
      BY <1>1
    <2>6. \/ \E x \in Content : MakeTxn(x)
          \/ \E d, e \in Composers : Clone(d, e)
          \/ \E d \in Composers : Build(d)
      BY <1>1, <2>5 DEF Next, vars, AddTransaction, BuildGroup, CallGather,
                        Sign, ResumeGather, SignerFails
    <2> QED  BY <1>1, <2>2, <2>3, <2>4, <2>6
  <1>2. IInv /\ [Next]_vars =>
          [\A c \in Composers \ mixed :
             \A i \in DOMAIN members[c] :
               heap'[members[c][i]] # heap[members[c][i]]
                 => status[c] = BUILDING /\ status'[c] = BUILT]_vars
    BY <1>1
  <1> QED  BY <1>2, InvHolds, PTL DEF Spec, OnlyBuildRegroups
=============================================================================
