------------------------ MODULE ApplicationCallProofs -----------------------
(***************************************************************************)
(* What a peer reads of an application call is what the application gave,  *)
(* and a transaction that is read and written again is the same: proofs    *)
(* that the properties of ApplicationCall hold for every number of         *)
(* references, accounts, assets, applications and names. They rest on      *)
(* lemmas about the operators of ResourceReferences: the folds that encode *)
(* and convert references unfolded, what an entry is encoded from and      *)
(* decodes to, and that a list which is read and written again is the      *)
(* same.                                                                   *)
(*                                                                         *)
(* Calls of methods, of MethodCall: a call is refused just when an         *)
(* argument does not fit, a contract finds the values and the references   *)
(* that were given, what it returns is read, its signature is read as the  *)
(* method, and all of the above is true of the transaction of a call, for  *)
(* every type and value. They rest on AbiProofs.                           *)
(***************************************************************************)
EXTENDS MethodCall, AbiProofs

-----------------------------------------------------------------------------
(* The folds *)

\* The largest element, which FoldLeft takes first.
LEMMA Largest ==
  ASSUME NEW s, s \subseteq Nat, NEW m \in s, \A i \in s : i <= m
  PROVE  Max(s) = m
<1>1. \A x \in s : (\A y \in s : x >= y) => x = m
  OBVIOUS
<1>2. \A y \in s : m >= y
  OBVIOUS
<1> QED BY <1>1, <1>2 DEF Max

\* One turn of either loop, or of one that selects the elements with a field.
Turn(loop, list, rr, called) ==
  CASE loop = "encode" -> Encode(list, rr, called)
    [] loop = "convert" -> Convert(list, rr, called)
    [] loop = "select" -> IF Has(rr, called) THEN Append(list, rr) ELSE list
    [] loop = "basic" -> IF IsTransaction(rr) THEN list ELSE Append(list, rr)
    [] loop = "resolve" -> Resolve(list, rr)

\* What a loop starts with.
First(loop, called) == IF loop = "resolve" THEN called ELSE <<>>

\* The function on sets of positions that FoldLeft chooses.
IsFold(g, N, loop, refs, called) ==
  g = [s \in SUBSET (1 .. N) |->
         IF s = {} THEN First(loop, called) ELSE Turn(loop, g[s \ {Max(s)}], refs[Max(s)], called)]

\* It exists.
LEMMA FoldExists ==
  ASSUME NEW N \in Nat, NEW loop, NEW refs, NEW called
  PROVE  \E g : IsFold(g, N, loop, refs, called)
<1> USE DEF IsFold
<1> DEFINE Folds(g, n) == IsFold(g, n, loop, refs, called)
           Done(n) == \E g : Folds(g, n)
<1>1. Done(0)
  <2> DEFINE g == [s \in SUBSET (1 .. 0) |-> First(loop, called)]
  <2>1. Folds(g, 0)
    OBVIOUS
  <2> QED BY <2>1
<1>2. ASSUME NEW n \in Nat, Done(n) PROVE Done(n + 1)
  <2>1. PICK g : Folds(g, n)
    BY <1>2
  <2> DEFINE h == [s \in SUBSET (1 .. n + 1) |->
                     IF n + 1 \in s THEN Turn(loop, g[s \ {n + 1}], refs[n + 1], called) ELSE g[s]]
  <2>2. ASSUME NEW s \in SUBSET (1 .. n + 1)
        PROVE  h[s] = IF s = {} THEN First(loop, called) ELSE Turn(loop, h[s \ {Max(s)}], refs[Max(s)], called)
    <3>1. CASE n + 1 \in s
      <4>1. Max(s) = n + 1
        <5>1. s \subseteq Nat /\ \A i \in s : i <= n + 1
          OBVIOUS
        <5> QED BY <3>1, <5>1, Largest
      <4>2. s \ {n + 1} \in SUBSET (1 .. n)
        OBVIOUS
      <4>3. h[s \ {n + 1}] = g[s \ {n + 1}]
        BY <4>2
      <4> QED BY <3>1, <4>1, <4>3
    <3>2. CASE n + 1 \notin s
      <4>1. s \in SUBSET (1 .. n)
        BY <3>2
      <4>2. h[s] = g[s]
        BY <3>2
      <4>3. g[s] = IF s = {} THEN First(loop, called) ELSE Turn(loop, g[s \ {Max(s)}], refs[Max(s)], called)
        BY <2>1, <4>1
      <4>4. n + 1 \notin s \ {Max(s)} /\ s \ {Max(s)} \in SUBSET (1 .. n + 1)
        BY <3>2
      <4>5. h[s \ {Max(s)}] = g[s \ {Max(s)}]
        BY <4>4
      <4> QED BY <4>2, <4>3, <4>5
    <3> QED BY <3>1, <3>2
  <2>3. Folds(h, n + 1)
    <3>1. h = [s \in SUBSET (1 .. n + 1) |-> h[s]]
      OBVIOUS
    <3> HIDE DEF h
    <3> QED BY <3>1, <2>2
  <2> HIDE DEF h
  <2> QED BY <2>3
<1>3. Done(N)
  <2> HIDE DEF Done
  <2> DEFINE S == {n \in Nat : Done(n)}
  <2>1. 0 \in S
    BY <1>1
  <2>2. \A n \in Nat : n \in S => n + 1 \in S
    BY <1>2
  <2>3. N \in S
    <3> HIDE DEF S
    <3> QED BY <2>1, <2>2, InductionOnNat
  <2> QED BY <2>3
<1> QED BY <1>3

\* What is chosen, on the positions up to one: the list after that turn.
LEMMA FoldSteps ==
  ASSUME NEW N \in Nat, NEW i, NEW loop, NEW refs, NEW called,
         IsFold(i, N, loop, refs, called)
  PROVE  \E g : /\ g[0] = First(loop, called)
                /\ \A n \in 1 .. N : g[n] = Turn(loop, g[n - 1], refs[n], called)
                /\ g[N] = i[1 .. N]
<1> USE DEF IsFold
<1> DEFINE h == [n \in 0 .. N |-> i[1 .. n]]
<1>1. h[0] = First(loop, called) /\ h[N] = i[1 .. N]
  <2>1. i[{}] = First(loop, called)
    OBVIOUS
  <2> QED BY <2>1
<1>2. ASSUME NEW n \in 1 .. N PROVE h[n] = Turn(loop, h[n - 1], refs[n], called)
  <2>1. 1 .. n \in SUBSET (1 .. N) /\ 1 .. n # {}
    <3>1. 1 .. n \subseteq 1 .. N /\ n \in 1 .. n
      OBVIOUS
    <3> QED BY <3>1
  <2>2. Max(1 .. n) = n
    <3>1. 1 .. n \subseteq Nat /\ n \in 1 .. n /\ \A k \in 1 .. n : k <= n
      OBVIOUS
    <3> QED BY <3>1, Largest
  <2>3. (1 .. n) \ {n} = 1 .. n - 1
    OBVIOUS
  <2>4. i[1 .. n] = Turn(loop, i[1 .. n - 1], refs[n], called)
    BY <2>1, <2>2, <2>3
  <2> QED BY <2>4
<1> HIDE DEF h
<1> QED BY <1>1, <1>2

\* resourceReferencesToEncodingData turn by turn.
LEMMA EncodedSteps ==
  ASSUME NEW N \in Nat, NEW refs, DOMAIN refs = 1 .. N, NEW called
  PROVE  \E g : /\ g[0] = <<>>
                /\ \A n \in 1 .. N : g[n] = Encode(g[n - 1], refs[n], called)
                /\ g[N] = Encoded(refs, called)
<1> DEFINE Encodes(g) ==
      g = [s \in SUBSET (1 .. N) |->
             IF s = {} THEN <<>> ELSE Encode(g[s \ {Max(s)}], refs[Max(s)], called)]
<1>1. /\ First("encode", called) = <<>>
      /\ \A list, rr : Turn("encode", list, rr, called) = Encode(list, rr, called)
  BY DEF First, Turn
<1>2. \A g : IsFold(g, N, "encode", refs, called) <=> Encodes(g)
  BY <1>1 DEF IsFold
<1>3. \E g : Encodes(g)
  <2>1. \E g : IsFold(g, N, "encode", refs, called)
    BY FoldExists
  <2> QED BY <2>1, <1>2
<1>4. Encoded(refs, called) = (CHOOSE iter : Encodes(iter))[1 .. N]
  BY DEF Encoded, FoldLeft, MapThenFoldSet
<1>5. PICK i : IsFold(i, N, "encode", refs, called) /\ Encoded(refs, called) = i[1 .. N]
  <2> HIDE DEF Encodes
  <2> QED BY <1>2, <1>3, <1>4
<1>6. PICK g : /\ g[0] = <<>>
               /\ \A n \in 1 .. N : g[n] = Turn("encode", g[n - 1], refs[n], called)
               /\ g[N] = i[1 .. N]
  BY <1>1, <1>5, FoldSteps, SMTT(30)
<1> QED BY <1>1, <1>5, <1>6

\* foreignArraysToResourceReferences turn by turn.
LEMMA ConvertedSteps ==
  ASSUME NEW N \in Nat, NEW refs, DOMAIN refs = 1 .. N, NEW called
  PROVE  \E g : /\ g[0] = <<>>
                /\ \A n \in 1 .. N : g[n] = Convert(g[n - 1], refs[n], called)
                /\ g[N] = Converted(refs, called)
<1> DEFINE Converts(g) ==
      g = [s \in SUBSET (1 .. N) |->
             IF s = {} THEN <<>> ELSE Convert(g[s \ {Max(s)}], refs[Max(s)], called)]
<1>1. /\ First("convert", called) = <<>>
      /\ \A list, rr : Turn("convert", list, rr, called) = Convert(list, rr, called)
  BY DEF First, Turn
<1>2. \A g : IsFold(g, N, "convert", refs, called) <=> Converts(g)
  BY <1>1 DEF IsFold
<1>3. \E g : Converts(g)
  <2>1. \E g : IsFold(g, N, "convert", refs, called)
    BY FoldExists
  <2> QED BY <2>1, <1>2
<1>4. Converted(refs, called) = (CHOOSE iter : Converts(iter))[1 .. N]
  BY DEF Converted, FoldLeft, MapThenFoldSet
<1>5. PICK i : IsFold(i, N, "convert", refs, called) /\ Converted(refs, called) = i[1 .. N]
  <2> HIDE DEF Converts
  <2> QED BY <1>2, <1>3, <1>4
<1>6. PICK g : /\ g[0] = <<>>
               /\ \A n \in 1 .. N : g[n] = Turn("convert", g[n - 1], refs[n], called)
               /\ g[N] = i[1 .. N]
  BY <1>1, <1>5, FoldSteps, SMTT(30)
<1> QED BY <1>1, <1>5, <1>6

\* The references with a field, in their order.
Selected(refs, field) ==
  FoldLeft(LAMBDA list, rr : IF Has(rr, field) THEN Append(list, rr) ELSE list, <<>>, refs)

\* The elements of an array one by one.
LEMMA SelectedSteps ==
  ASSUME NEW N \in Nat, NEW refs, DOMAIN refs = 1 .. N, NEW field
  PROVE  \E g : /\ g[0] = <<>>
                /\ \A n \in 1 .. N : g[n] = (IF Has(refs[n], field) THEN Append(g[n - 1], refs[n]) ELSE g[n - 1])
                /\ g[N] = Selected(refs, field)
<1> DEFINE Selects(g) ==
      g = [s \in SUBSET (1 .. N) |->
             IF s = {} THEN <<>>
             ELSE IF Has(refs[Max(s)], field) THEN Append(g[s \ {Max(s)}], refs[Max(s)])
                  ELSE g[s \ {Max(s)}]]
<1>0. First("select", field) = <<>>
  BY DEF First
<1>1. \A list, rr : Turn("select", list, rr, field) =
                        IF Has(rr, field) THEN Append(list, rr) ELSE list
  BY DEF Turn
<1>2. \A g : IsFold(g, N, "select", refs, field) <=> Selects(g)
  BY <1>0, <1>1 DEF IsFold
<1>3. \E g : Selects(g)
  <2>1. \E g : IsFold(g, N, "select", refs, field)
    BY FoldExists
  <2> QED BY <2>1, <1>2
<1>4. Selected(refs, field) = (CHOOSE iter : Selects(iter))[1 .. N]
  BY DEF Selected, FoldLeft, MapThenFoldSet
<1>5. PICK i : IsFold(i, N, "select", refs, field) /\ Selected(refs, field) = i[1 .. N]
  <2> HIDE DEF Selects
  <2> QED BY <1>2, <1>3, <1>4
<1>6. PICK g : /\ g[0] = <<>>
               /\ \A n \in 1 .. N : g[n] = Turn("select", g[n - 1], refs[n], field)
               /\ g[N] = i[1 .. N]
  BY <1>0, <1>5, FoldSteps
<1> QED BY <1>1, <1>5, <1>6, ZenonT(60)

\* The arguments that are no transactions one by one.
LEMMA BasicSteps ==
  ASSUME NEW N \in Nat, DOMAIN arguments = 1 .. N
  PROVE  \E g : /\ g[0] = <<>>
                /\ \A n \in 1 .. N :
                     g[n] = (IF IsTransaction(arguments[n]) THEN g[n - 1]
                             ELSE Append(g[n - 1], arguments[n]))
                /\ g[N] = Basic
<1> DEFINE Collects(g) ==
      g = [s \in SUBSET (1 .. N) |->
             IF s = {} THEN <<>>
             ELSE IF IsTransaction(arguments[Max(s)]) THEN g[s \ {Max(s)}]
                  ELSE Append(g[s \ {Max(s)}], arguments[Max(s)])]
<1>1. /\ First("basic", 0) = <<>>
      /\ \A list, arg : Turn("basic", list, arg, 0) =
                          IF IsTransaction(arg) THEN list ELSE Append(list, arg)
  BY DEF First, Turn
<1>2. \A g : IsFold(g, N, "basic", arguments, 0) <=> Collects(g)
  BY <1>1 DEF IsFold
<1>3. \E g : Collects(g)
  <2>1. \E g : IsFold(g, N, "basic", arguments, 0)
    BY FoldExists
  <2> QED BY <2>1, <1>2
<1>4. Basic = (CHOOSE iter : Collects(iter))[1 .. N]
  BY DEF Basic, FoldLeft, MapThenFoldSet
<1>5. PICK i : IsFold(i, N, "basic", arguments, 0) /\ Basic = i[1 .. N]
  <2> HIDE DEF Collects
  <2> QED BY <1>2, <1>3, <1>4
<1>6. PICK g : /\ g[0] = <<>>
               /\ \A n \in 1 .. N : g[n] = Turn("basic", g[n - 1], arguments[n], 0)
               /\ g[N] = i[1 .. N]
  BY <1>1, <1>5, FoldSteps, SMTT(30)
<1> QED BY <1>1, <1>5, <1>6

\* The references that populateForeignArray is called for, one by one.
LEMMA ResolvedSteps ==
  ASSUME NEW N \in Nat, DOMAIN Basic = 1 .. N, NEW withAccess
  PROVE  \E g : /\ g[0] = [arrays |-> ArraysGiven(withAccess), values |-> <<>>]
                /\ \A n \in 1 .. N : g[n] = Resolve(g[n - 1], Basic[n])
                /\ g[N] = Resolved(withAccess)
<1> DEFINE first == [arrays |-> ArraysGiven(withAccess), values |-> <<>>]
           Resolves(g) ==
      g = [s \in SUBSET (1 .. N) |->
             IF s = {} THEN first ELSE Resolve(g[s \ {Max(s)}], Basic[Max(s)])]
<1>0. Resolved(withAccess) = (CHOOSE iter : Resolves(iter))[1 .. N]
  BY DEF Resolved, FoldLeft, MapThenFoldSet
<1> HIDE DEF first
<1>1. /\ First("resolve", first) = first
      /\ \A list, arg : Turn("resolve", list, arg, first) = Resolve(list, arg)
  BY DEF First, Turn
<1>2. \A g : IsFold(g, N, "resolve", Basic, first) <=> Resolves(g)
  BY <1>1 DEF IsFold
<1>3. \E g : Resolves(g)
  <2>1. \E g : IsFold(g, N, "resolve", Basic, first)
    BY FoldExists
  <2> QED BY <2>1, <1>2
<1>5. PICK i : IsFold(i, N, "resolve", Basic, first) /\ Resolved(withAccess) = i[1 .. N]
  <2> HIDE DEF Resolves
  <2> QED BY <1>0, <1>2, <1>3
<1>6. PICK g : /\ g[0] = first
               /\ \A n \in 1 .. N : g[n] = Turn("resolve", g[n - 1], Basic[n], first)
               /\ g[N] = i[1 .. N]
  BY <1>1, <1>5, FoldSteps
<1> QED BY <1>1, <1>5, <1>6 DEF first

-----------------------------------------------------------------------------
(* References and entries by their shape *)

\* A reference has one of six fields, ...
LEMMA ReferenceCases ==
  ASSUME NEW addresses, NEW assets, NEW apps, NEW names,
         NEW rr \in References(addresses, assets, apps, names)
  PROVE  \/ /\ DOMAIN rr = {"address"} /\ rr.address \in addresses
            /\ rr = [address |-> rr.address]
         \/ /\ DOMAIN rr = {"assetIndex"} /\ rr.assetIndex \in assets
            /\ rr = [assetIndex |-> rr.assetIndex]
         \/ /\ DOMAIN rr = {"appIndex"} /\ rr.appIndex \in apps
            /\ rr = [appIndex |-> rr.appIndex]
         \/ /\ DOMAIN rr = {"holding"} /\ rr.holding.address \in addresses
            /\ rr.holding.assetIndex \in assets
            /\ rr = Holding(rr.holding.address, rr.holding.assetIndex)
         \/ /\ DOMAIN rr = {"locals"} /\ rr.locals.address \in addresses
            /\ rr.locals.appIndex \in apps
            /\ rr = Locals(rr.locals.address, rr.locals.appIndex)
         \/ /\ DOMAIN rr = {"box"} /\ rr.box.appIndex \in apps /\ rr.box.name \in names
            /\ rr = Box(rr.box.appIndex, rr.box.name)
<1>1. CASE rr \in [address : addresses] \cup [assetIndex : assets] \cup [appIndex : apps]
  BY <1>1
<1>2. CASE \E a \in addresses, s \in assets : rr = Holding(a, s)
  BY <1>2 DEF Holding
<1>3. CASE \E a \in addresses, p \in apps : rr = Locals(a, p)
  BY <1>3 DEF Locals
<1>4. CASE \E p \in apps, n \in names : rr = Box(p, n)
  BY <1>4 DEF Box
<1> QED BY <1>1, <1>2, <1>3, <1>4 DEF References

\* ... and what has one is a reference.
LEMMA ReferencesTyped ==
  ASSUME NEW addresses, NEW assets, NEW apps, NEW names
  PROVE  /\ \A a \in addresses :
              [address |-> a] \in References(addresses, assets, apps, names)
         /\ \A s \in assets :
              [assetIndex |-> s] \in References(addresses, assets, apps, names)
         /\ \A p \in apps :
              [appIndex |-> p] \in References(addresses, assets, apps, names)
         /\ \A a \in addresses, s \in assets :
              Holding(a, s) \in References(addresses, assets, apps, names)
         /\ \A a \in addresses, p \in apps :
              Locals(a, p) \in References(addresses, assets, apps, names)
         /\ \A p \in apps, n \in names :
              Box(p, n) \in References(addresses, assets, apps, names)
<1>1. \A a \in addresses : [address |-> a] \in [address : addresses]
  OBVIOUS
<1>2. \A s \in assets : [assetIndex |-> s] \in [assetIndex : assets]
  OBVIOUS
<1>3. \A p \in apps : [appIndex |-> p] \in [appIndex : apps]
  OBVIOUS
<1> QED BY <1>1, <1>2, <1>3 DEF References

\* The fields of a reference to a holding, a local state or a box.
LEMMA ReferenceValues ==
  ASSUME NEW a, NEW x, NEW n
  PROVE  /\ DOMAIN Holding(a, x) = {"holding"} /\ DOMAIN Locals(a, x) = {"locals"}
         /\ DOMAIN Box(x, n) = {"box"}
         /\ Holding(a, x).holding.address = a /\ Holding(a, x).holding.assetIndex = x
         /\ Locals(a, x).locals.address = a /\ Locals(a, x).locals.appIndex = x
         /\ Box(x, n).box.appIndex = x /\ Box(x, n).box.name = n
  BY SMTT(30) DEF Holding, Locals, Box

LocalsEntry(list, address, app, called) ==
  [l |-> [d |-> AddressPosition(list, address), p |-> AppPosition(list, app, called)]]

BoxEntry(list, app, name, called) ==
  [b |-> [i |-> AppPosition(list, app, called), n |-> name]]

\* What a turn of the loop that encodes does with each of them,
LEMMA EncodeCases ==
  ASSUME NEW list, NEW called, NEW rr
  PROVE  /\ DOMAIN rr = {"address"} =>
              Encode(list, rr, called) = WithEntry(list, [d |-> rr.address])
         /\ DOMAIN rr = {"assetIndex"} =>
              Encode(list, rr, called) = WithAsset(list, rr.assetIndex)
         /\ DOMAIN rr = {"appIndex"} =>
              Encode(list, rr, called) =
                IF rr.appIndex = 0 THEN list ELSE WithEntry(list, [p |-> rr.appIndex])
         /\ DOMAIN rr = {"holding"} =>
              Encode(list, rr, called) =
                LET full == WithAsset(WithAddress(list, rr.holding.address),
                                      rr.holding.assetIndex)
                IN  Append(full, HoldingEntry(full, rr.holding.address,
                                              rr.holding.assetIndex))
         /\ DOMAIN rr = {"locals"} =>
              Encode(list, rr, called) =
                LET full == WithApp(WithAddress(list, rr.locals.address),
                                    rr.locals.appIndex, called)
                IN  Append(full, LocalsEntry(full, rr.locals.address,
                                             rr.locals.appIndex, called))
         /\ DOMAIN rr = {"box"} =>
              Encode(list, rr, called) =
                LET full == WithApp(list, rr.box.appIndex, called)
                IN  Append(full, BoxEntry(full, rr.box.appIndex, rr.box.name, called))
  BY DEF Encode, Has, LocalsEntry, BoxEntry

\* what one of the loops that convert does,
LEMMA ConvertCases ==
  ASSUME NEW list, NEW called, NEW rr
  PROVE  /\ DOMAIN rr = {"address"} =>
              Convert(list, rr, called) = EnsureAddress(list, rr.address)
         /\ DOMAIN rr = {"assetIndex"} =>
              Convert(list, rr, called) = EnsureAsset(list, rr.assetIndex)
         /\ DOMAIN rr = {"appIndex"} =>
              Convert(list, rr, called) = EnsureApp(list, rr.appIndex)
         /\ DOMAIN rr = {"holding"} =>
              Convert(list, rr, called) =
                Append(EnsureAsset(EnsureAddress(list, rr.holding.address),
                                   rr.holding.assetIndex), rr)
         /\ DOMAIN rr = {"locals"} =>
              Convert(list, rr, called) =
                Append(EnsureOther(EnsureAddress(list, rr.locals.address),
                                   rr.locals.appIndex, called), rr)
         /\ DOMAIN rr = {"box"} =>
              Convert(list, rr, called) =
                Append(EnsureOther(list, rr.box.appIndex, called), rr)
  BY DEF Convert, Has

\* what the constructor makes of it,
LEMMA ConstructedCases ==
  ASSUME NEW rr
  PROVE  /\ DOMAIN rr = {"address"} => Constructed(rr) = rr
         /\ DOMAIN rr = {"assetIndex"} =>
              Constructed(rr) = [assetIndex |-> rr.assetIndex.value]
         /\ DOMAIN rr = {"appIndex"} =>
              Constructed(rr) = [appIndex |-> rr.appIndex.value]
         /\ DOMAIN rr = {"holding"} =>
              Constructed(rr) = Holding(rr.holding.address, rr.holding.assetIndex.value)
         /\ DOMAIN rr = {"locals"} =>
              Constructed(rr) = Locals(rr.locals.address, rr.locals.appIndex.value)
         /\ DOMAIN rr = {"box"} =>
              Constructed(rr) = Box(rr.box.appIndex.value, rr.box.name)
  BY DEF Constructed, Has

\* what it means,
LEMMA MeansCases ==
  ASSUME NEW rr
  PROVE  /\ DOMAIN rr = {"address"} => Means(rr) = rr
         /\ DOMAIN rr = {"assetIndex"} => Means(rr) = rr
         /\ DOMAIN rr = {"appIndex"} => Means(rr) = rr
         /\ DOMAIN rr = {"holding"} => Means(rr) = rr
         /\ DOMAIN rr = {"locals"} =>
              Means(rr) = Locals(rr.locals.address, Own(rr.locals.appIndex))
         /\ DOMAIN rr = {"box"} => Means(rr) = Box(Own(rr.box.appIndex), rr.box.name)
  BY DEF Means, Has

\* and the resources that it is in.
LEMMA PartsCases ==
  ASSUME NEW rr
  PROVE  /\ DOMAIN rr = {"address"} => Parts(rr) = {}
         /\ DOMAIN rr = {"assetIndex"} => Parts(rr) = {}
         /\ DOMAIN rr = {"appIndex"} => Parts(rr) = {}
         /\ DOMAIN rr = {"holding"} =>
              Parts(rr) = Addresses(rr.holding.address)
                            \cup {[assetIndex |-> rr.holding.assetIndex]}
         /\ DOMAIN rr = {"locals"} =>
              Parts(rr) = Addresses(rr.locals.address)
                            \cup ForeignApps(rr.locals.appIndex)
         /\ DOMAIN rr = {"box"} => Parts(rr) = ForeignApps(rr.box.appIndex)
  BY DEF Parts, Has

\* What needs no entry, and what names nothing.
LEMMA NeedsCases ==
  ASSUME NEW rr
  PROVE  /\ DOMAIN rr = {"address"} =>
              /\ NeedsNoEntry(rr) <=> rr = [address |-> ZeroAddress]
              /\ ~NamesNothing(rr)
         /\ DOMAIN rr = {"assetIndex"} =>
              /\ ~NeedsNoEntry(rr)
              /\ NamesNothing(rr) <=> rr = [assetIndex |-> 0]
         /\ DOMAIN rr = {"appIndex"} =>
              /\ ~NeedsNoEntry(rr)
              /\ NamesNothing(rr) <=> rr = [appIndex |-> 0]
         /\ DOMAIN rr = {"holding"} => ~NeedsNoEntry(rr) /\ ~NamesNothing(rr)
         /\ DOMAIN rr = {"locals"} =>
              /\ NeedsNoEntry(rr) <=>
                   rr.locals.address = ZeroAddress /\ IsOwn(rr.locals.appIndex)
              /\ ~NamesNothing(rr)
         /\ DOMAIN rr = {"box"} => ~NeedsNoEntry(rr) /\ ~NamesNothing(rr)
<1>1. /\ DOMAIN [address |-> ZeroAddress] = {"address"}
      /\ DOMAIN [assetIndex |-> 0] = {"assetIndex"} /\ DOMAIN [appIndex |-> 0] = {"appIndex"}
      /\ DOMAIN Locals(ZeroAddress, 0) = {"locals"}
      /\ Locals(ZeroAddress, 0).locals.address = ZeroAddress
      /\ Locals(ZeroAddress, 0).locals.appIndex = 0
  BY ReferenceValues
<1>2. NamesNothing(rr) => DOMAIN rr \in {{"assetIndex"}, {"appIndex"}}
  BY DEF NamesNothing
<1>3. NeedsNoEntry(rr) => DOMAIN Means(rr) \in {{"address"}, {"locals"}}
  BY <1>1 DEF NeedsNoEntry
<1>4. CASE DOMAIN rr = {"address"}
  <2>1. rr # Locals(ZeroAddress, 0)
    BY <1>1, <1>4
  <2> QED BY <1>2, <1>4, <2>1, MeansCases DEF NeedsNoEntry
<1>5. CASE DOMAIN rr \in {{"assetIndex"}, {"appIndex"}}
  BY <1>1, <1>3, <1>5, MeansCases DEF NamesNothing
<1>6. CASE DOMAIN rr = {"holding"}
  BY <1>2, <1>3, <1>6, MeansCases
<1>7. CASE DOMAIN rr = {"locals"}
  <2> DEFINE a == rr.locals.address
             p == Own(rr.locals.appIndex)
  <2>1. Means(rr) = Locals(a, p)
    BY <1>7, MeansCases
  <2>2. /\ DOMAIN Locals(a, p) = {"locals"} /\ Locals(a, p).locals.address = a
        /\ Locals(a, p).locals.appIndex = p
    BY ReferenceValues
  <2>3. Locals(a, p) # [address |-> ZeroAddress]
    BY <1>1, <2>2
  <2>4. Locals(a, p) = Locals(ZeroAddress, 0) <=> a = ZeroAddress /\ p = 0
    BY <1>1, <2>2
  <2>5. p = 0 <=> IsOwn(rr.locals.appIndex)
    BY DEF Own, IsOwn
  <2> QED BY <1>2, <1>7, <2>1, <2>3, <2>4, <2>5 DEF NeedsNoEntry
<1>8. CASE DOMAIN rr = {"box"}
  BY <1>2, <1>3, <1>8, MeansCases, ReferenceValues
<1> QED BY <1>4, <1>5, <1>6, <1>7, <1>8

\* An entry has one key, or none when it is empty.
LEMMA EntryFields ==
  ASSUME NEW x, NEW y, NEW f
  PROVE  /\ Has([d |-> x], f) <=> f = "d"
         /\ Has([s |-> x], f) <=> f = "s"
         /\ Has([p |-> x], f) <=> f = "p"
         /\ Has([h |-> [d |-> x, s |-> y]], f) <=> f = "h"
         /\ Has([l |-> [d |-> x, p |-> y]], f) <=> f = "l"
         /\ Has([b |-> [i |-> x, n |-> y]], f) <=> f = "b"
         /\ ~Has(Empty, f)
  BY DEF Has, Empty

\* An empty entry has no key.
LEMMA EmptyHasNoKey == DOMAIN Empty = {}
  BY DEF Empty

\* What a peer reads an entry as.
LEMMA DecodeCases ==
  ASSUME NEW list, NEW e
  PROVE  /\ DOMAIN e = {"d"} => Decode(list, e) = [address |-> e.d]
         /\ DOMAIN e = {"s"} => Decode(list, e) = [assetIndex |-> e.s]
         /\ DOMAIN e = {"p"} => Decode(list, e) = [appIndex |-> e.p]
         /\ DOMAIN e = {"h"} => Decode(list, e) =
              Holding(AddressAt(list, e.h.d), list[e.h.s].s)
         /\ DOMAIN e = {"l"} => Decode(list, e) =
              Locals(AddressAt(list, e.l.d), AppAt(list, e.l.p))
         /\ DOMAIN e = {"b"} => Decode(list, e) = Box(AppAt(list, e.b.i), e.b.n)
         /\ Decode(list, Empty) = Box(0, EmptyName)
<1>1. DOMAIN e # {} => e # Empty
  BY EmptyHasNoKey
<1>2. Decode(list, Empty) = Box(0, EmptyName)
  BY EmptyHasNoKey DEF Decode, Has
<1> QED BY <1>1, <1>2 DEF Decode, Has

\* What is left of an entry.
SentEntry(e) == IF e \in DefaultEntries THEN Empty ELSE e

\* What an entry is sent as.
LEMMA SentCases ==
  ASSUME NEW x, NEW y
  PROVE  /\ SentEntry([d |-> x]) = IF x = ZeroAddress THEN Empty ELSE [d |-> x]
         /\ SentEntry([s |-> x]) = [s |-> x]
         /\ SentEntry([p |-> x]) = [p |-> x]
         /\ SentEntry([h |-> [d |-> x, s |-> y]]) =
              IF x = 0 /\ y = 0 THEN Empty ELSE [h |-> [d |-> x, s |-> y]]
         /\ SentEntry([l |-> [d |-> x, p |-> y]]) =
              IF x = 0 /\ y = 0 THEN Empty ELSE [l |-> [d |-> x, p |-> y]]
         /\ SentEntry([b |-> [i |-> x, n |-> y]]) =
              IF x = 0 /\ y = EmptyName THEN Empty ELSE [b |-> [i |-> x, n |-> y]]
         /\ SentEntry(Empty) = Empty
<1>1. /\ DOMAIN [d |-> x] = {"d"} /\ DOMAIN [s |-> x] = {"s"} /\ DOMAIN [p |-> x] = {"p"}
      /\ DOMAIN [h |-> [d |-> x, s |-> y]] = {"h"}
      /\ DOMAIN [l |-> [d |-> x, p |-> y]] = {"l"}
      /\ DOMAIN [b |-> [i |-> x, n |-> y]] = {"b"} /\ DOMAIN Empty = {}
  BY DEF Empty
<1>2. \A e \in DefaultEntries :
        \/ DOMAIN e = {"d"} /\ e.d = ZeroAddress
        \/ DOMAIN e = {"h"} /\ e.h.d = 0 /\ e.h.s = 0
        \/ DOMAIN e = {"l"} /\ e.l.d = 0 /\ e.l.p = 0
        \/ DOMAIN e = {"b"} /\ e.b.i = 0 /\ e.b.n = EmptyName
  BY DEF DefaultEntries
<1>3. [d |-> x] \in DefaultEntries <=> x = ZeroAddress
  BY <1>1, <1>2 DEF DefaultEntries
<1>4. [h |-> [d |-> x, s |-> y]] \in DefaultEntries <=> x = 0 /\ y = 0
  BY <1>1, <1>2 DEF DefaultEntries
<1>5. [l |-> [d |-> x, p |-> y]] \in DefaultEntries <=> x = 0 /\ y = 0
  BY <1>1, <1>2 DEF DefaultEntries
<1>6. [b |-> [i |-> x, n |-> y]] \in DefaultEntries <=> x = 0 /\ y = EmptyName
  BY <1>1, <1>2 DEF DefaultEntries
<1>7. {[s |-> x], [p |-> x], Empty} \cap DefaultEntries = {}
  BY <1>1, <1>2
<1> QED BY <1>3, <1>4, <1>5, <1>6, <1>7 DEF SentEntry

-----------------------------------------------------------------------------
(* Lists of entries that encoding makes *)

\* An entry that is a resource and no reference to others.
Keyed(e) == Has(e, "d") \/ Has(e, "s") \/ Has(e, "p")

\* 0, or the position of an entry before i for an address, for an application.
AddressBefore(list, i, x) ==
  /\ x \in 0 .. i - 1
  /\ x # 0 => list[x] \in [d : Address \ {ZeroAddress}]

AppBefore(list, i, x, called) ==
  /\ x \in 0 .. i - 1
  /\ x # 0 => list[x] \in [p : AppIDs \ {0, called}]

\* Entry i refers to entries before it, but a holding of the asset 0 to any.
PointsBack(list, i, called) ==
  /\ Has(list[i], "h") => /\ AddressBefore(list, i, list[i].h.d)
                          /\ list[i].h.s \in 0 .. i - 1
  /\ Has(list[i], "l") => /\ AddressBefore(list, i, list[i].l.d)
                          /\ AppBefore(list, i, list[i].l.p, called)
  /\ Has(list[i], "b") => AppBefore(list, i, list[i].b.i, called)

\* What encoding makes: every resource has one entry.
WellFormed(list, called) ==
  /\ list \in Seq(Entry)
  /\ \A i, j \in DOMAIN list : Keyed(list[i]) /\ list[i] = list[j] => i = j
  /\ \A i \in DOMAIN list : PointsBack(list, i, called)

\* No holding is of the asset 0.
NamesAssets(list) ==
  \A i \in DOMAIN list : Has(list[i], "h") => PointsTo(list, list[i].h.s, "s")

Extends(longer, list) ==
  Len(list) <= Len(longer) /\ \A i \in 1 .. Len(list) : longer[i] = list[i]

\* An entry has one of six shapes, ...
LEMMA EntryCases ==
  ASSUME NEW e \in Entry
  PROVE  \/ \E a \in Address : e = [d |-> a]
         \/ \E s \in AssetIDs \ {0} : e = [s |-> s]
         \/ \E p \in AppIDs \ {0} : e = [p |-> p]
         \/ \E x, y \in Nat : e = [h |-> [d |-> x, s |-> y]]
         \/ \E x, y \in Nat : e = [l |-> [d |-> x, p |-> y]]
         \/ \E x \in Nat, n \in Name : e = [b |-> [i |-> x, n |-> n]]
<1>1. e \in [d : Address] => \E a \in Address : e = [d |-> a]
  OBVIOUS
<1>2. e \in [s : AssetIDs \ {0}] => \E s \in AssetIDs \ {0} : e = [s |-> s]
  OBVIOUS
<1>3. e \in [p : AppIDs \ {0}] => \E p \in AppIDs \ {0} : e = [p |-> p]
  OBVIOUS
<1>4. e \in [h : [d : Nat, s : Nat]] => \E x, y \in Nat : e = [h |-> [d |-> x, s |-> y]]
  <2> HAVE e \in [h : [d : Nat, s : Nat]]
  <2>1. e = [h |-> e.h] /\ e.h \in [d : Nat, s : Nat]
    OBVIOUS
  <2>2. e.h = [d |-> e.h.d, s |-> e.h.s] /\ e.h.d \in Nat /\ e.h.s \in Nat
    BY <2>1
  <2> QED BY <2>1, <2>2
<1>5. e \in [l : [d : Nat, p : Nat]] => \E x, y \in Nat : e = [l |-> [d |-> x, p |-> y]]
  <2> HAVE e \in [l : [d : Nat, p : Nat]]
  <2>1. e = [l |-> e.l] /\ e.l \in [d : Nat, p : Nat]
    OBVIOUS
  <2>2. e.l = [d |-> e.l.d, p |-> e.l.p] /\ e.l.d \in Nat /\ e.l.p \in Nat
    BY <2>1
  <2> QED BY <2>1, <2>2
<1>6. e \in [b : [i : Nat, n : Name]] =>
        \E x \in Nat, n \in Name : e = [b |-> [i |-> x, n |-> n]]
  <2> HAVE e \in [b : [i : Nat, n : Name]]
  <2>1. e = [b |-> e.b] /\ e.b \in [i : Nat, n : Name]
    OBVIOUS
  <2>2. e.b = [i |-> e.b.i, n |-> e.b.n] /\ e.b.i \in Nat /\ e.b.n \in Name
    BY <2>1
  <2> QED BY <2>1, <2>2
<1> QED BY <1>1, <1>2, <1>3, <1>4, <1>5, <1>6 DEF Entry

\* ... and whatever has one of these is an entry.
LEMMA EntryTypes ==
  /\ \A a \in Address : [d |-> a] \in Entry
  /\ \A s \in AssetIDs \ {0} : [s |-> s] \in Entry
  /\ \A p \in AppIDs \ {0} : [p |-> p] \in Entry
  /\ \A x, y \in Nat : [h |-> [d |-> x, s |-> y]] \in Entry
  /\ \A x, y \in Nat : [l |-> [d |-> x, p |-> y]] \in Entry
  /\ \A x \in Nat, n \in Name : [b |-> [i |-> x, n |-> n]] \in Entry
  BY DEF Entry

\* The position that ensure returns of an entry that is there.
LEMMA PositionFound ==
  ASSUME NEW N \in Nat, NEW list, DOMAIN list = 1 .. N,
         NEW target, target \in Range(list)
  PROVE  /\ PositionOf(list, target) \in 1 .. N
         /\ list[PositionOf(list, target)] = target
<1> DEFINE S == {i \in 1 .. N : list[i] = target}
<1>1. S \subseteq Nat /\ S # {}
  BY DEF Range
<1>2. PICK i \in S : \A j \in S : i <= j
  <2> HIDE DEF S
  <2> QED BY <1>1, Least
<1>3. i \in DOMAIN list /\ list[i] = target /\ \A j \in 1 .. i - 1 : list[j] # target
  <2>1. i \in 1 .. N /\ list[i] = target
    OBVIOUS
  <2>2. ASSUME NEW j \in 1 .. i - 1, list[j] = target PROVE FALSE
    <3>1. j \in S
      BY <2>1, <2>2
    <3> QED BY <1>2, <2>1, <3>1
  <2> QED BY <2>1, <2>2
<1>4. \E x \in DOMAIN list : list[x] = target /\ \A j \in 1 .. x - 1 : list[j] # target
  BY <1>3
<1> QED BY <1>4 DEF PositionOf

\* A list with one entry more, which refers to entries that are there.
LEMMA AppendedIsWellFormed ==
  ASSUME NEW called, NEW list, WellFormed(list, called), NEW e \in Entry,
         Keyed(e) => e \notin Range(list),
         PointsBack(Append(list, e), Len(list) + 1, called)
  PROVE  /\ WellFormed(Append(list, e), called)
         /\ Extends(Append(list, e), list)
<1> DEFINE longer == Append(list, e)
<1>1. /\ list \in Seq(Entry) /\ Len(list) \in Nat /\ DOMAIN list = 1 .. Len(list)
      /\ longer \in Seq(Entry) /\ DOMAIN longer = 1 .. Len(list) + 1
      /\ Len(longer) = Len(list) + 1
      /\ longer[Len(list) + 1] = e /\ \A i \in DOMAIN list : longer[i] = list[i]
  BY DEF WellFormed
<1>2. PointsBack(longer, Len(list) + 1, called)
  OBVIOUS
<1> HIDE DEF longer
<1>3. \A i, j \in DOMAIN longer : Keyed(longer[i]) /\ longer[i] = longer[j] => i = j
  <2> SUFFICES ASSUME NEW i \in DOMAIN longer, NEW j \in DOMAIN longer,
                      Keyed(longer[i]), longer[i] = longer[j]
               PROVE  i = j
    OBVIOUS
  <2>1. CASE i \in DOMAIN list /\ j \in DOMAIN list
    BY <1>1, <2>1 DEF WellFormed
  <2>2. CASE i = Len(list) + 1 /\ j \in DOMAIN list
    BY <1>1, <2>2 DEF Range
  <2>3. CASE j = Len(list) + 1 /\ i \in DOMAIN list
    BY <1>1, <2>3 DEF Range
  <2>4. CASE i = Len(list) + 1 /\ j = Len(list) + 1
    BY <2>4
  <2> QED BY <1>1, <2>1, <2>2, <2>3, <2>4
<1>4. ASSUME NEW i \in DOMAIN list PROVE PointsBack(longer, i, called)
  <2>1. PointsBack(list, i, called) /\ longer[i] = list[i] /\ i \in 1 .. Len(list)
    BY <1>1 DEF WellFormed
  <2>2. \A x \in 1 .. i - 1 : longer[x] = list[x]
    BY <1>1, <2>1
  <2>3. \A x : AddressBefore(list, i, x) => AddressBefore(longer, i, x)
    BY <2>1, <2>2 DEF AddressBefore
  <2>4. \A x : AppBefore(list, i, x, called) => AppBefore(longer, i, x, called)
    BY <2>1, <2>2 DEF AppBefore
  <2> QED BY <2>1, <2>3, <2>4 DEF PointsBack
<1>5. \A i \in DOMAIN longer : PointsBack(longer, i, called)
  BY <1>1, <1>2, <1>4
<1>6. WellFormed(longer, called) /\ Extends(longer, list)
  BY <1>1, <1>3, <1>5 DEF WellFormed, Extends
<1> QED BY <1>6 DEF longer

\* What the old entries name stays named.
LEMMA AssetsStayNamed ==
  ASSUME NEW list \in Seq(Entry), NEW longer \in Seq(Entry), Extends(longer, list),
         NamesAssets(list),
         \A i \in DOMAIN longer \ DOMAIN list :
           Has(longer[i], "h") => PointsTo(longer, longer[i].h.s, "s")
  PROVE  NamesAssets(longer)
<1>1. /\ DOMAIN list = 1 .. Len(list) /\ DOMAIN longer = 1 .. Len(longer)
      /\ Len(list) \in Nat /\ Len(longer) \in Nat /\ DOMAIN list \subseteq DOMAIN longer
      /\ \A i \in DOMAIN list : longer[i] = list[i]
  BY DEF Extends
<1>2. ASSUME NEW i \in DOMAIN list, Has(longer[i], "h")
      PROVE  PointsTo(longer, longer[i].h.s, "s")
  <2>1. PointsTo(list, list[i].h.s, "s") /\ longer[i] = list[i]
    BY <1>1, <1>2 DEF NamesAssets
  <2> QED BY <1>1, <2>1 DEF PointsTo
<1> QED BY <1>1, <1>2 DEF NamesAssets

\* A list that extends one that extends a third extends that.
LEMMA ExtendsIsTransitive ==
  ASSUME NEW a \in Seq(Entry), NEW b \in Seq(Entry), NEW c \in Seq(Entry),
         Extends(b, a), Extends(c, b)
  PROVE  Extends(c, a)
  BY DEF Extends

\* An address, an asset or an application refers to no other entry.
LEMMA KeyedCases ==
  ASSUME NEW e \in Entry, Keyed(e)
  PROVE  /\ \/ \E a \in Address : e = [d |-> a]
            \/ \E s \in AssetIDs \ {0} : e = [s |-> s]
            \/ \E p \in AppIDs \ {0} : e = [p |-> p]
         /\ ~Has(e, "h") /\ ~Has(e, "l") /\ ~Has(e, "b")
<1>1. \A x, y : /\ e # [h |-> [d |-> x, s |-> y]]
                /\ e # [l |-> [d |-> x, p |-> y]]
                /\ e # [b |-> [i |-> x, n |-> y]]
  BY DEF Keyed, Has
<1>2. \/ \E a \in Address : e = [d |-> a]
      \/ \E s \in AssetIDs \ {0} : e = [s |-> s]
      \/ \E p \in AppIDs \ {0} : e = [p |-> p]
  BY <1>1, EntryCases
<1>3. \A x : /\ ~Has([d |-> x], "h") /\ ~Has([d |-> x], "l") /\ ~Has([d |-> x], "b")
             /\ ~Has([s |-> x], "h") /\ ~Has([s |-> x], "l") /\ ~Has([s |-> x], "b")
             /\ ~Has([p |-> x], "h") /\ ~Has([p |-> x], "l") /\ ~Has([p |-> x], "b")
  BY DEF Has
<1> QED BY <1>2, <1>3

\* ensure of a resource.
LEMMA WithEntryStep ==
  ASSUME NEW called, NEW list, WellFormed(list, called), NEW e \in Entry, Keyed(e)
  PROVE  /\ WellFormed(WithEntry(list, e), called)
         /\ Extends(WithEntry(list, e), list)
         /\ e \in Range(WithEntry(list, e))
         /\ \A i \in DOMAIN WithEntry(list, e) \ DOMAIN list : WithEntry(list, e)[i] = e
         /\ NamesAssets(list) => NamesAssets(WithEntry(list, e))
<1>1. list \in Seq(Entry) /\ Len(list) \in Nat /\ DOMAIN list = 1 .. Len(list)
  BY DEF WellFormed
<1>2. CASE e \in Range(list)
  BY <1>1, <1>2 DEF WithEntry, Extends
<1>3. CASE e \notin Range(list)
  <2> DEFINE longer == Append(list, e)
  <2>1. /\ WithEntry(list, e) = longer /\ longer \in Seq(Entry)
        /\ DOMAIN longer = 1 .. Len(list) + 1 /\ longer[Len(list) + 1] = e
    BY <1>1, <1>3 DEF WithEntry
  <2>2. ~Has(e, "h") /\ ~Has(e, "l") /\ ~Has(e, "b")
    BY KeyedCases
  <2>3. PointsBack(longer, Len(list) + 1, called)
    BY <2>1, <2>2 DEF PointsBack
  <2>4. WellFormed(longer, called) /\ Extends(longer, list)
    BY <1>3, <2>3, AppendedIsWellFormed
  <2> HIDE DEF longer
  <2>5. \A i \in DOMAIN longer \ DOMAIN list : longer[i] = e
    BY <1>1, <2>1
  <2>6. e \in Range(longer)
    <3>1. Len(list) + 1 \in DOMAIN longer
      BY <1>1, <2>1
    <3> QED BY <2>1, <3>1 DEF Range
  <2>7. NamesAssets(list) => NamesAssets(longer)
    BY <1>1, <2>1, <2>2, <2>4, <2>5, AssetsStayNamed
  <2> QED BY <2>1, <2>4, <2>5, <2>6, <2>7
<1> QED BY <1>2, <1>3

\* So it does with an address, but that of zeros,
LEMMA WithAddressStep ==
  ASSUME NEW called, NEW list, WellFormed(list, called), NEW a \in Address
  PROVE  /\ WellFormed(WithAddress(list, a), called)
         /\ Extends(WithAddress(list, a), list)
         /\ a # ZeroAddress => [d |-> a] \in Range(WithAddress(list, a))
         /\ \A i \in DOMAIN WithAddress(list, a) \ DOMAIN list :
              a # ZeroAddress /\ WithAddress(list, a)[i] = [d |-> a]
         /\ NamesAssets(list) => NamesAssets(WithAddress(list, a))
<1>1. [d |-> a] \in Entry /\ Keyed([d |-> a])
  BY EntryTypes, EntryFields DEF Keyed
<1>2. CASE a = ZeroAddress
  BY <1>2 DEF WithAddress, Extends, WellFormed
<1>3. CASE a # ZeroAddress
  <2>1. WithAddress(list, a) = WithEntry(list, [d |-> a])
    BY <1>3 DEF WithAddress
  <2> QED BY <1>1, <1>3, <2>1, WithEntryStep
<1> QED BY <1>2, <1>3

\* with an asset, but 0,
LEMMA WithAssetStep ==
  ASSUME NEW called, NEW list, WellFormed(list, called), NEW s \in AssetIDs
  PROVE  /\ WellFormed(WithAsset(list, s), called)
         /\ Extends(WithAsset(list, s), list)
         /\ s # 0 => [s |-> s] \in Range(WithAsset(list, s))
         /\ \A i \in DOMAIN WithAsset(list, s) \ DOMAIN list :
              s # 0 /\ WithAsset(list, s)[i] = [s |-> s]
         /\ NamesAssets(list) => NamesAssets(WithAsset(list, s))
<1>1. CASE s = 0
  BY <1>1 DEF WithAsset, Extends, WellFormed
<1>2. CASE s # 0
  <2>1. [s |-> s] \in Entry /\ Keyed([s |-> s])
    BY <1>2, EntryTypes, EntryFields DEF Keyed
  <2>2. WithAsset(list, s) = WithEntry(list, [s |-> s])
    BY <1>2 DEF WithAsset
  <2> QED BY <1>2, <2>1, <2>2, WithEntryStep
<1> QED BY <1>1, <1>2

\* and with an application that is neither the called one nor 0.
LEMMA WithAppStep ==
  ASSUME NEW called, NEW list, WellFormed(list, called), NEW p \in AppIDs
  PROVE  /\ WellFormed(WithApp(list, p, called), called)
         /\ Extends(WithApp(list, p, called), list)
         /\ IsForeign(p, called) => [p |-> p] \in Range(WithApp(list, p, called))
         /\ \A i \in DOMAIN WithApp(list, p, called) \ DOMAIN list :
              IsForeign(p, called) /\ WithApp(list, p, called)[i] = [p |-> p]
         /\ NamesAssets(list) => NamesAssets(WithApp(list, p, called))
<1>1. CASE ~IsForeign(p, called)
  BY <1>1 DEF WithApp, Extends, WellFormed
<1>2. CASE IsForeign(p, called)
  <2>1. [p |-> p] \in Entry /\ Keyed([p |-> p])
    BY <1>2, EntryTypes, EntryFields DEF Keyed, IsForeign
  <2>2. WithApp(list, p, called) = WithEntry(list, [p |-> p])
    BY <1>2 DEF WithApp
  <2> QED BY <1>2, <2>1, <2>2, WithEntryStep
<1> QED BY <1>1, <1>2

\* The position of an address, an asset or an application in a list that it
\* was added to.
LEMMA AddressIsBefore ==
  ASSUME NEW list \in Seq(Entry), NEW a \in Address,
         a # ZeroAddress => [d |-> a] \in Range(list)
  PROVE  LET x == AddressPosition(list, a)
         IN  /\ x \in 0 .. Len(list)
             /\ x = 0 <=> a = ZeroAddress
             /\ x # 0 => list[x] = [d |-> a]
<1>1. Len(list) \in Nat /\ DOMAIN list = 1 .. Len(list)
  OBVIOUS
<1>2. CASE a = ZeroAddress
  BY <1>1, <1>2 DEF AddressPosition
<1>3. CASE a # ZeroAddress
  BY <1>1, <1>3, PositionFound DEF AddressPosition
<1> QED BY <1>2, <1>3

\* that of an asset,
LEMMA AssetIsBefore ==
  ASSUME NEW list \in Seq(Entry), NEW s \in AssetIDs,
         s # 0 => [s |-> s] \in Range(list)
  PROVE  LET x == AssetPosition(list, s)
         IN  /\ x \in 0 .. Len(list)
             /\ s # 0 => x # 0 /\ list[x] = [s |-> s]
<1>1. Len(list) \in Nat /\ DOMAIN list = 1 .. Len(list)
  OBVIOUS
<1>2. CASE s = 0
  BY <1>1, <1>2 DEF AssetPosition
<1>3. CASE s # 0
  BY <1>1, <1>3, PositionFound DEF AssetPosition
<1> QED BY <1>2, <1>3

\* and that of an application.
LEMMA AppIsBefore ==
  ASSUME NEW called, NEW list \in Seq(Entry), NEW p \in AppIDs,
         IsForeign(p, called) => [p |-> p] \in Range(list)
  PROVE  LET x == AppPosition(list, p, called)
         IN  /\ x \in 0 .. Len(list)
             /\ x # 0 <=> IsForeign(p, called)
             /\ x # 0 => list[x] = [p |-> p]
<1>1. Len(list) \in Nat /\ DOMAIN list = 1 .. Len(list)
  OBVIOUS
<1>2. CASE ~IsForeign(p, called)
  BY <1>1, <1>2 DEF AppPosition
<1>3. CASE IsForeign(p, called)
  BY <1>1, <1>3, PositionFound DEF AppPosition
<1> QED BY <1>2, <1>3

-----------------------------------------------------------------------------
(* What a peer makes of the entries *)

Meaning(list, i) ==
  IF list[i] \in DefaultEntries THEN Box(0, EmptyName) ELSE Decode(list, list[i])

\* What is sent has the same positions.
LEMMA SentAt ==
  ASSUME NEW list \in Seq(Entry)
  PROVE  /\ DOMAIN Sent(list) = DOMAIN list
         /\ Sent(list) \in Seq(Entry \cup {Empty}) /\ Len(Sent(list)) = Len(list)
         /\ \A i \in DOMAIN list : Sent(list)[i] = SentEntry(list[i])
<1>1. \A i \in DOMAIN list : list[i] \in Entry
  OBVIOUS
<1>2. Sent(list) = [i \in 1 .. Len(list) |-> SentEntry(list[i])]
  BY DEF Sent, SentEntry
<1>3. \A e \in Entry : SentEntry(e) \in Entry \cup {Empty}
  BY DEF SentEntry
<1> QED BY <1>1, <1>2, <1>3

\* What an entry can be sent as, whoever writes it: nothing is left of the
\* default values.
Sendable == (Entry \ DefaultEntries) \cup {Empty}

LEMMA SentIsSendable ==
  ASSUME NEW list \in Seq(Entry)
  PROVE  Sent(list) \in Seq(Sendable)
<1>1. \A e \in Entry : SentEntry(e) \in Sendable
  BY DEF SentEntry, Sendable
<1>2. Sent(list) = [i \in 1 .. Len(list) |-> SentEntry(list[i])]
  BY DEF Sent, SentEntry
<1> QED BY <1>1, <1>2

\* Entries that others refer to are sent as they are.
LEMMA TargetsAreSent ==
  ASSUME NEW called, NEW list \in Seq(Entry), NEW i \in Nat, i <= Len(list) + 1, NEW x
  PROVE  /\ AddressBefore(list, i, x) =>
              /\ x # 0 => Sent(list)[x] = list[x]
              /\ AddressAt(Sent(list), x) = AddressAt(list, x)
         /\ AppBefore(list, i, x, called) =>
              /\ x # 0 => Sent(list)[x] = list[x]
              /\ AppAt(Sent(list), x) = AppAt(list, x)
<1>1. ASSUME AddressBefore(list, i, x), x # 0
      PROVE  Sent(list)[x] = list[x]
  <2>1. PICK a \in Address \ {ZeroAddress} : list[x] = [d |-> a]
    <3>1. list[x] \in [d : Address \ {ZeroAddress}]
      BY <1>1 DEF AddressBefore
    <3> QED BY <3>1
  <2>2. x \in DOMAIN list
    BY <1>1 DEF AddressBefore
  <2>3. SentEntry([d |-> a]) = [d |-> a]
    BY SentCases
  <2> QED BY <2>1, <2>2, <2>3, SentAt
<1>2. ASSUME AppBefore(list, i, x, called), x # 0
      PROVE  Sent(list)[x] = list[x]
  <2>1. PICK p \in AppIDs : list[x] = [p |-> p]
    <3>1. list[x] \in [p : AppIDs \ {0, called}]
      BY <1>2 DEF AppBefore
    <3> QED BY <3>1
  <2>2. x \in DOMAIN list
    BY <1>2 DEF AppBefore
  <2>3. SentEntry([p |-> p]) = [p |-> p]
    BY SentCases
  <2> QED BY <2>1, <2>2, <2>3, SentAt
<1> QED BY <1>1, <1>2 DEF AddressAt, AppAt

\* An asset that a holding is of is sent as it is.
LEMMA AssetIsSent ==
  ASSUME NEW list \in Seq(Entry), NEW x, PointsTo(list, x, "s")
  PROVE  /\ Sent(list)[x] = list[x]
         /\ \E s \in AssetIDs \ {0} : list[x] = [s |-> s]
<1>1. x \in DOMAIN list /\ Has(list[x], "s") /\ list[x] \in Entry
  BY DEF PointsTo
<1>2. PICK s \in AssetIDs \ {0} : list[x] = [s |-> s]
  <2>1. Keyed(list[x])
    BY <1>1 DEF Keyed
  <2>2. \A y : list[x] # [d |-> y] /\ list[x] # [p |-> y]
    BY <1>1 DEF Has
  <2> QED BY <1>1, <2>1, <2>2, KeyedCases
<1>3. SentEntry([s |-> s]) = [s |-> s]
  BY SentCases
<1> QED BY <1>1, <1>2, <1>3, SentAt

\* An entry of what was sent is read as what it means in the list.
LEMMA ReadsAsItMeans ==
  ASSUME NEW called, NEW list, WellFormed(list, called), NamesAssets(list),
         NEW i \in DOMAIN list
  PROVE  Decode(Sent(list), Sent(list)[i]) = Meaning(list, i)
<1>1. /\ list \in Seq(Entry) /\ i \in Nat /\ i <= Len(list) + 1 /\ list[i] \in Entry
      /\ PointsBack(list, i, called)
      /\ Sent(list)[i] = SentEntry(list[i])
  BY SentAt DEF WellFormed
<1>2. CASE list[i] \in DefaultEntries
  <2>1. Sent(list)[i] = Empty
    BY <1>1, <1>2 DEF SentEntry
  <2> QED BY <1>2, <2>1, DecodeCases DEF Meaning
<1>3. CASE list[i] \notin DefaultEntries
  <2>1. Sent(list)[i] = list[i] /\ Meaning(list, i) = Decode(list, list[i])
    BY <1>1, <1>3 DEF SentEntry, Meaning
  <2>2. CASE \E a \in Address : list[i] = [d |-> a]
    BY <2>1, <2>2, DecodeCases
  <2>3. CASE \E s \in AssetIDs \ {0} : list[i] = [s |-> s]
    BY <2>1, <2>3, DecodeCases
  <2>4. CASE \E p \in AppIDs \ {0} : list[i] = [p |-> p]
    BY <2>1, <2>4, DecodeCases
  <2>5. CASE \E x, y \in Nat : list[i] = [h |-> [d |-> x, s |-> y]]
    <3>1. PICK x, y \in Nat : list[i] = [h |-> [d |-> x, s |-> y]]
      BY <2>5
    <3>2. Has(list[i], "h") /\ list[i].h.d = x /\ list[i].h.s = y
      BY <3>1 DEF Has
    <3>3. AddressBefore(list, i, x) /\ PointsTo(list, y, "s")
      BY <1>1, <3>2 DEF PointsBack, NamesAssets
    <3>4. AddressAt(Sent(list), x) = AddressAt(list, x) /\ Sent(list)[y] = list[y]
      BY <1>1, <3>3, TargetsAreSent, AssetIsSent
    <3> QED BY <2>1, <3>1, <3>4, DecodeCases
  <2>6. CASE \E x, y \in Nat : list[i] = [l |-> [d |-> x, p |-> y]]
    <3>1. PICK x, y \in Nat : list[i] = [l |-> [d |-> x, p |-> y]]
      BY <2>6
    <3>2. Has(list[i], "l") /\ list[i].l.d = x /\ list[i].l.p = y
      BY <3>1 DEF Has
    <3>3. AddressBefore(list, i, x) /\ AppBefore(list, i, y, called)
      BY <1>1, <3>2 DEF PointsBack
    <3>4. AddressAt(Sent(list), x) = AddressAt(list, x) /\ AppAt(Sent(list), y) = AppAt(list, y)
      BY <1>1, <3>3, TargetsAreSent
    <3> QED BY <2>1, <3>1, <3>4, DecodeCases
  <2>7. CASE \E x \in Nat, n \in Name : list[i] = [b |-> [i |-> x, n |-> n]]
    <3>1. PICK x \in Nat, n \in Name : list[i] = [b |-> [i |-> x, n |-> n]]
      BY <2>7
    <3>2. Has(list[i], "b") /\ list[i].b.i = x
      BY <3>1 DEF Has
    <3>3. AppBefore(list, i, x, called)
      BY <1>1, <3>2 DEF PointsBack
    <3>4. AppAt(Sent(list), x) = AppAt(list, x)
      BY <1>1, <3>3, TargetsAreSent
    <3> QED BY <2>1, <3>1, <3>4, DecodeCases
  <2> QED BY <1>1, <2>2, <2>3, <2>4, <2>5, <2>6, <2>7, EntryCases
<1> QED BY <1>2, <1>3

\* What is added to a list does not change what its entries mean.
LEMMA MeaningIsKept ==
  ASSUME NEW called, NEW list, WellFormed(list, called), NamesAssets(list),
         NEW longer, Extends(longer, list), NEW i \in DOMAIN list
  PROVE  Meaning(longer, i) = Meaning(list, i)
<1>1. /\ list \in Seq(Entry) /\ i \in 1 .. Len(list) /\ list[i] \in Entry
      /\ PointsBack(list, i, called) /\ longer[i] = list[i]
      /\ \A j \in DOMAIN list : longer[j] = list[j]
  BY DEF WellFormed, Extends
<1>2. /\ \A x : AddressBefore(list, i, x) => AddressAt(longer, x) = AddressAt(list, x)
      /\ \A x : AppBefore(list, i, x, called) => AppAt(longer, x) = AppAt(list, x)
      /\ \A x : PointsTo(list, x, "s") => longer[x] = list[x]
  BY <1>1 DEF AddressBefore, AppBefore, AddressAt, AppAt, PointsTo
<1>3. Decode(longer, list[i]) = Decode(list, list[i])
  <2>1. CASE \E a \in Address : list[i] = [d |-> a]
    BY <2>1, DecodeCases
  <2>2. CASE \E s \in AssetIDs \ {0} : list[i] = [s |-> s]
    BY <2>2, DecodeCases
  <2>3. CASE \E p \in AppIDs \ {0} : list[i] = [p |-> p]
    BY <2>3, DecodeCases
  <2>4. CASE \E x, y \in Nat : list[i] = [h |-> [d |-> x, s |-> y]]
    <3>1. PICK x, y \in Nat : list[i] = [h |-> [d |-> x, s |-> y]]
      BY <2>4
    <3>2. Has(list[i], "h") /\ list[i].h.d = x /\ list[i].h.s = y
      BY <3>1 DEF Has
    <3>3. AddressAt(longer, x) = AddressAt(list, x) /\ longer[y] = list[y]
      BY <1>1, <1>2, <3>2 DEF PointsBack, NamesAssets
    <3> QED BY <3>1, <3>3, DecodeCases
  <2>5. CASE \E x, y \in Nat : list[i] = [l |-> [d |-> x, p |-> y]]
    <3>1. PICK x, y \in Nat : list[i] = [l |-> [d |-> x, p |-> y]]
      BY <2>5
    <3>2. Has(list[i], "l") /\ list[i].l.d = x /\ list[i].l.p = y
      BY <3>1 DEF Has
    <3>3. AddressAt(longer, x) = AddressAt(list, x) /\ AppAt(longer, y) = AppAt(list, y)
      BY <1>1, <1>2, <3>2 DEF PointsBack
    <3> QED BY <3>1, <3>3, DecodeCases
  <2>6. CASE \E x \in Nat, n \in Name : list[i] = [b |-> [i |-> x, n |-> n]]
    <3>1. PICK x \in Nat, n \in Name : list[i] = [b |-> [i |-> x, n |-> n]]
      BY <2>6
    <3>2. Has(list[i], "b") /\ list[i].b.i = x
      BY <3>1 DEF Has
    <3>3. AppAt(longer, x) = AppAt(list, x)
      BY <1>1, <1>2, <3>2 DEF PointsBack
    <3> QED BY <3>1, <3>3, DecodeCases
  <2> QED BY <1>1, <2>1, <2>2, <2>3, <2>4, <2>5, <2>6, EntryCases
<1> QED BY <1>1, <1>3 DEF Meaning

\* What an entry of each shape means.
LEMMA MeaningCases ==
  ASSUME NEW list, NEW i, list[i] \in Entry
  PROVE  /\ DOMAIN list[i] = {"d"} =>
              Meaning(list, i) = IF list[i].d = ZeroAddress THEN Box(0, EmptyName)
                                 ELSE [address |-> list[i].d]
         /\ DOMAIN list[i] = {"s"} => Meaning(list, i) = [assetIndex |-> list[i].s]
         /\ DOMAIN list[i] = {"p"} => Meaning(list, i) = [appIndex |-> list[i].p]
         /\ DOMAIN list[i] = {"h"} /\ list[i].h.s # 0 =>
              Meaning(list, i) =
                Holding(AddressAt(list, list[i].h.d), list[list[i].h.s].s)
         /\ DOMAIN list[i] = {"l"} =>
              Meaning(list, i) =
                IF list[i].l.d = 0 /\ list[i].l.p = 0 THEN Box(0, EmptyName)
                ELSE Locals(AddressAt(list, list[i].l.d), AppAt(list, list[i].l.p))
         /\ DOMAIN list[i] = {"b"} =>
              Meaning(list, i) = Box(AppAt(list, list[i].b.i), list[i].b.n)
<1> DEFINE e == list[i]
<1>1. \A x \in DefaultEntries :
        \/ DOMAIN x = {"d"} /\ x.d = ZeroAddress
        \/ DOMAIN x = {"h"} /\ x.h.d = 0 /\ x.h.s = 0
        \/ DOMAIN x = {"l"} /\ x.l.d = 0 /\ x.l.p = 0
        \/ DOMAIN x = {"b"} /\ x.b.i = 0 /\ x.b.n = EmptyName
  BY DEF DefaultEntries
<1>2. DOMAIN e = {"d"} => (e \in DefaultEntries <=> e.d = ZeroAddress)
  <2> SUFFICES ASSUME DOMAIN e = {"d"}, e.d = ZeroAddress PROVE e \in DefaultEntries
    BY <1>1
  <2>1. e = [d |-> ZeroAddress]
    BY DEF Entry
  <2> QED BY <2>1 DEF DefaultEntries
<1>3. DOMAIN e = {"l"} => (e \in DefaultEntries <=> e.l.d = 0 /\ e.l.p = 0)
  <2> SUFFICES ASSUME DOMAIN e = {"l"}, e.l.d = 0, e.l.p = 0 PROVE e \in DefaultEntries
    BY <1>1
  <2>1. e \in [l : [d : Nat, p : Nat]]
    BY DEF Entry
  <2>2. e = [l |-> e.l] /\ e.l = [d |-> 0, p |-> 0]
    BY <2>1
  <2>3. e = [l |-> [d |-> 0, p |-> 0]]
    BY <2>2
  <2> QED BY <2>3 DEF DefaultEntries
<1>4. DOMAIN e = {"h"} /\ e.h.s # 0 => e \notin DefaultEntries
  BY <1>1
<1>5. DOMAIN e = {"b"} /\ e \in DefaultEntries => e.b.i = 0 /\ e.b.n = EmptyName
  BY <1>1
<1>6. DOMAIN e \in {{"s"}, {"p"}} => e \notin DefaultEntries
  BY <1>1
<1>7. AppAt(list, 0) = 0
  BY DEF AppAt
<1> HIDE DEF e
<1>8. Meaning(list, i) = IF e \in DefaultEntries THEN Box(0, EmptyName) ELSE Decode(list, e)
  BY DEF Meaning, e
<1>9. /\ DOMAIN e = {"d"} =>
           Meaning(list, i) = IF e.d = ZeroAddress THEN Box(0, EmptyName)
                              ELSE [address |-> e.d]
      /\ DOMAIN e = {"s"} => Meaning(list, i) = [assetIndex |-> e.s]
      /\ DOMAIN e = {"p"} => Meaning(list, i) = [appIndex |-> e.p]
      /\ DOMAIN e = {"h"} /\ e.h.s # 0 =>
           Meaning(list, i) = Holding(AddressAt(list, e.h.d), list[e.h.s].s)
      /\ DOMAIN e = {"l"} =>
           Meaning(list, i) =
             IF e.l.d = 0 /\ e.l.p = 0 THEN Box(0, EmptyName)
             ELSE Locals(AddressAt(list, e.l.d), AppAt(list, e.l.p))
      /\ DOMAIN e = {"b"} => Meaning(list, i) = Box(AppAt(list, e.b.i), e.b.n)
  BY <1>2, <1>3, <1>4, <1>5, <1>6, <1>7, <1>8, DecodeCases
<1> QED BY <1>9 DEF e

-----------------------------------------------------------------------------
(* One turn of the loop that encodes *)

\* Why an entry is there that reads as r: it is what rr means or in, or a
\* reference that needs none has an empty one.
Reason(rr, r) ==
  \/ ~NeedsNoEntry(rr) /\ ~NamesNothing(rr) /\ r \in {Means(rr)} \cup Parts(rr)
  \/ NeedsNoEntry(rr) /\ r = Box(0, EmptyName)

NamesAsset(rr) == Has(rr, "holding") => rr.holding.assetIndex # 0

\* What encoding of rr adds to the list.
AddsWhatItMeans(list, rr, longer) ==
  /\ NamesAssets(longer)
  /\ \A i \in DOMAIN longer \ DOMAIN list : Reason(rr, Meaning(longer, i))
  /\ \/ NeedsNoEntry(rr) \/ NamesNothing(rr)
     \/ \E i \in DOMAIN longer : Meaning(longer, i) = Means(rr)

\* The shapes of the references that a transaction has.
LEMMA TxnReferenceCases ==
  ASSUME NEW rr \in TxnReferences
  PROVE  \/ /\ DOMAIN rr = {"address"} /\ rr.address \in Address
            /\ rr = [address |-> rr.address]
         \/ /\ DOMAIN rr = {"assetIndex"} /\ rr.assetIndex \in AssetIDs
            /\ rr = [assetIndex |-> rr.assetIndex]
         \/ /\ DOMAIN rr = {"appIndex"} /\ rr.appIndex \in AppIDs
            /\ rr = [appIndex |-> rr.appIndex]
         \/ /\ DOMAIN rr = {"holding"} /\ rr.holding.address \in Address
            /\ rr.holding.assetIndex \in AssetIDs
            /\ rr = Holding(rr.holding.address, rr.holding.assetIndex)
         \/ /\ DOMAIN rr = {"locals"} /\ rr.locals.address \in Address
            /\ rr.locals.appIndex \in AppIDs
            /\ rr = Locals(rr.locals.address, rr.locals.appIndex)
         \/ /\ DOMAIN rr = {"box"} /\ rr.box.appIndex \in AppIDs /\ rr.box.name \in Name
            /\ rr = Box(rr.box.appIndex, rr.box.name)
<1>1. rr \in References(Address, AssetIDs, AppIDs, Name)
  BY DEF TxnReferences
<1> QED BY <1>1, ReferenceCases

\* Encoding a reference to an address,
LEMMA EncodedAddress ==
  ASSUME NEW called, NEW list, WellFormed(list, called),
         NEW rr \in TxnReferences, DOMAIN rr = {"address"}
  PROVE  /\ WellFormed(Encode(list, rr, called), called)
         /\ Extends(Encode(list, rr, called), list)
         /\ NamesAssets(list) => AddsWhatItMeans(list, rr, Encode(list, rr, called))
<1> DEFINE longer == Encode(list, rr, called)
           e == [d |-> rr.address]
<1>0. rr.address \in Address /\ rr = [address |-> rr.address]
  BY TxnReferenceCases
<1>1. longer = WithEntry(list, e)
  BY EncodeCases
<1>2. e \in Entry /\ Keyed(e) /\ DOMAIN e = {"d"} /\ e.d = rr.address
  <2>1. rr.address \in Address
    BY <1>0
  <2> QED BY <2>1, EntryTypes, EntryFields DEF Keyed
<1> HIDE DEF longer, e
<1>3. /\ WellFormed(longer, called) /\ Extends(longer, list)
      /\ e \in Range(longer) /\ \A i \in DOMAIN longer \ DOMAIN list : longer[i] = e
      /\ NamesAssets(list) => NamesAssets(longer)
  BY <1>1, <1>2, WithEntryStep
<1>4. \A i : longer[i] = e =>
        Meaning(longer, i) = IF rr.address = ZeroAddress THEN Box(0, EmptyName) ELSE rr
  BY <1>0, <1>2, MeaningCases
<1>5. /\ NeedsNoEntry(rr) <=> rr.address = ZeroAddress
      /\ ~NamesNothing(rr) /\ Means(rr) = rr
  BY <1>0, NeedsCases, MeansCases
<1>6. PICK i \in DOMAIN longer : longer[i] = e
  BY <1>3 DEF Range
<1>7. NamesAssets(list) => AddsWhatItMeans(list, rr, longer)
  BY <1>3, <1>4, <1>5, <1>6 DEF AddsWhatItMeans, Reason
<1> QED BY <1>3, <1>7 DEF longer

\* to an asset,
LEMMA EncodeAsset ==
  ASSUME NEW called, NEW list, WellFormed(list, called),
         NEW rr \in TxnReferences, DOMAIN rr = {"assetIndex"}
  PROVE  /\ WellFormed(Encode(list, rr, called), called)
         /\ Extends(Encode(list, rr, called), list)
         /\ NamesAssets(list) => AddsWhatItMeans(list, rr, Encode(list, rr, called))
<1> DEFINE longer == Encode(list, rr, called)
           s == rr.assetIndex
<1>0. s \in AssetIDs /\ rr = [assetIndex |-> s]
  BY TxnReferenceCases
<1>1. longer = WithAsset(list, s)
  BY EncodeCases, ZenonT(60)
<1> HIDE DEF longer
<1>2. /\ WellFormed(longer, called) /\ Extends(longer, list)
      /\ s # 0 => [s |-> s] \in Range(longer)
      /\ \A i \in DOMAIN longer \ DOMAIN list : s # 0 /\ longer[i] = [s |-> s]
      /\ NamesAssets(list) => NamesAssets(longer)
  BY <1>0, <1>1, WithAssetStep
<1>3. s # 0 => [s |-> s] \in Entry
  BY <1>0, EntryTypes
<1>4. \A i : s # 0 /\ longer[i] = [s |-> s] => Meaning(longer, i) = rr
  <2> SUFFICES ASSUME NEW i, s # 0, longer[i] = [s |-> s] PROVE Meaning(longer, i) = rr
    OBVIOUS
  <2>1. longer[i] \in Entry /\ DOMAIN longer[i] = {"s"} /\ longer[i].s = s
    BY <1>3
  <2> QED BY <1>0, <2>1, MeaningCases
<1>5. /\ ~NeedsNoEntry(rr) /\ Means(rr) = rr
      /\ NamesNothing(rr) <=> s = 0
  BY <1>0, NeedsCases, MeansCases
<1>6. s # 0 => \E i \in DOMAIN longer : Meaning(longer, i) = rr
  BY <1>2, <1>4 DEF Range
<1>7. NamesAssets(list) => AddsWhatItMeans(list, rr, longer)
  BY <1>2, <1>4, <1>5, <1>6 DEF AddsWhatItMeans, Reason
<1> QED BY <1>2, <1>7 DEF longer

\* to an application,
LEMMA EncodeApp ==
  ASSUME NEW called, NEW list, WellFormed(list, called),
         NEW rr \in TxnReferences, DOMAIN rr = {"appIndex"}
  PROVE  /\ WellFormed(Encode(list, rr, called), called)
         /\ Extends(Encode(list, rr, called), list)
         /\ NamesAssets(list) => AddsWhatItMeans(list, rr, Encode(list, rr, called))
<1> DEFINE longer == Encode(list, rr, called)
           p == rr.appIndex
           e == [p |-> p]
<1>0. p \in AppIDs /\ rr = [appIndex |-> p]
  BY TxnReferenceCases
<1>1. longer = IF p = 0 THEN list ELSE WithEntry(list, e)
  BY EncodeCases, ZenonT(60)
<1>2. p # 0 => e \in Entry /\ Keyed(e) /\ DOMAIN e = {"p"} /\ e.p = p
  BY <1>0, EntryTypes, EntryFields DEF Keyed
<1>3. /\ ~NeedsNoEntry(rr) /\ Means(rr) = rr
      /\ NamesNothing(rr) <=> p = 0
  BY <1>0, NeedsCases, MeansCases
<1> HIDE DEF longer, e
<1>4. CASE p = 0
  <2>1. WellFormed(longer, called) /\ Extends(longer, list)
    BY <1>1, <1>4 DEF WellFormed, Extends
  <2>2. NamesAssets(list) => AddsWhatItMeans(list, rr, longer)
    BY <1>1, <1>3, <1>4 DEF AddsWhatItMeans
  <2> QED BY <2>1, <2>2 DEF longer
<1>5. CASE p # 0
  <2>1. /\ WellFormed(longer, called) /\ Extends(longer, list)
        /\ e \in Range(longer) /\ \A i \in DOMAIN longer \ DOMAIN list : longer[i] = e
        /\ NamesAssets(list) => NamesAssets(longer)
    BY <1>1, <1>2, <1>5, WithEntryStep
  <2>2. \A i : longer[i] = e => Meaning(longer, i) = rr
    BY <1>0, <1>2, <1>5, MeaningCases
  <2>3. PICK i \in DOMAIN longer : longer[i] = e
    BY <2>1 DEF Range
  <2>4. NamesAssets(list) => AddsWhatItMeans(list, rr, longer)
    BY <1>3, <1>5, <2>1, <2>2, <2>3 DEF AddsWhatItMeans, Reason
  <2> QED BY <2>1, <2>4 DEF longer
<1> QED BY <1>4, <1>5

\* A reference behind the resources that it is to.
LEMMA AppendReference ==
  ASSUME NEW called, NEW list \in Seq(Entry), NEW full, WellFormed(full, called),
         Extends(full, list), NEW e \in Entry, ~Keyed(e),
         PointsBack(Append(full, e), Len(full) + 1, called)
  PROVE  LET longer == Append(full, e)
         IN  /\ WellFormed(longer, called) /\ Extends(longer, list)
             /\ Len(full) + 1 \in DOMAIN longer /\ longer[Len(full) + 1] = e
             /\ \A i \in DOMAIN full : longer[i] = full[i]
             /\ \A i \in DOMAIN longer \ DOMAIN list :
                  i \in DOMAIN full \ DOMAIN list \/ i = Len(full) + 1
             /\ \A i \in DOMAIN full : i \in DOMAIN longer
<1>1. full \in Seq(Entry) /\ Len(full) \in Nat /\ DOMAIN full = 1 .. Len(full)
  BY DEF WellFormed
<1>2. WellFormed(Append(full, e), called) /\ Extends(Append(full, e), full)
  BY AppendedIsWellFormed
<1>3. Append(full, e) \in Seq(Entry)
  BY <1>1
<1>4. Extends(Append(full, e), list)
  BY <1>1, <1>2, <1>3, ExtendsIsTransitive
<1> QED BY <1>1, <1>2, <1>4

\* to a holding,
LEMMA EncodeHolding ==
  ASSUME NEW called, NEW list, WellFormed(list, called),
         NEW rr \in TxnReferences, DOMAIN rr = {"holding"}
  PROVE  /\ WellFormed(Encode(list, rr, called), called)
         /\ Extends(Encode(list, rr, called), list)
         /\ NamesAssets(list) /\ NamesAsset(rr) =>
              AddsWhatItMeans(list, rr, Encode(list, rr, called))
<1> DEFINE a == rr.holding.address
           s == rr.holding.assetIndex
           first == WithAddress(list, a)
           full == WithAsset(first, s)
           x == AddressPosition(full, a)
           y == AssetPosition(full, s)
           e == HoldingEntry(full, a, s)
           end == Len(full) + 1
           longer == Append(full, e)
<1>1. Encode(list, rr, called) = longer
  BY DEF Encode, Has
<1>2. a \in Address /\ s \in AssetIDs /\ rr = Holding(a, s)
  BY TxnReferenceCases
<1>3. DOMAIN e = {"h"} /\ e.h.d = x /\ e.h.s = y /\ ~Keyed(e) /\ ~Has(e, "l") /\ ~Has(e, "b")
  BY DEF Keyed, Has, HoldingEntry
<1>4. x \in Nat /\ y \in Nat => e \in Entry
  BY EntryTypes DEF HoldingEntry
<1>5. NamesAsset(rr) => s # 0
  BY DEF NamesAsset, Has
<1> HIDE DEF a, s, first, e
<1>6. /\ WellFormed(first, called) /\ Extends(first, list)
      /\ a # ZeroAddress => [d |-> a] \in Range(first)
      /\ \A i \in DOMAIN first \ DOMAIN list : a # ZeroAddress /\ first[i] = [d |-> a]
      /\ NamesAssets(list) => NamesAssets(first)
  BY <1>2, WithAddressStep DEF first
<1>7. /\ WellFormed(full, called) /\ Extends(full, first)
      /\ s # 0 => [s |-> s] \in Range(full)
      /\ \A i \in DOMAIN full \ DOMAIN first : s # 0 /\ full[i] = [s |-> s]
      /\ NamesAssets(first) => NamesAssets(full)
  BY <1>2, <1>6, WithAssetStep
<1> HIDE DEF full
<1>8. /\ list \in Seq(Entry) /\ first \in Seq(Entry) /\ full \in Seq(Entry)
      /\ Len(full) \in Nat /\ DOMAIN full = 1 .. Len(full)
      /\ DOMAIN first = 1 .. Len(first) /\ Len(first) \in Nat
  BY <1>6, <1>7 DEF WellFormed
<1>9. Extends(full, list)
  BY <1>6, <1>7, <1>8, ExtendsIsTransitive
<1>10. a # ZeroAddress => [d |-> a] \in Range(full)
  BY <1>6, <1>7, <1>8 DEF Range, Extends
<1>11. /\ x \in 0 .. Len(full) /\ (x = 0 <=> a = ZeroAddress)
       /\ x # 0 => full[x] = [d |-> a]
  BY <1>2, <1>8, <1>10, AddressIsBefore
<1>12. y \in 0 .. Len(full) /\ (s # 0 => y # 0 /\ full[y] = [s |-> s])
  BY <1>2, <1>7, <1>8, AssetIsBefore
<1> HIDE DEF x, y
<1>13. e \in Entry
  BY <1>4, <1>8, <1>11, <1>12
<1>14. longer[end] = e /\ \A i \in DOMAIN full : longer[i] = full[i]
  BY <1>8
<1> HIDE DEF longer
<1>15. PointsBack(longer, end, called)
  <2>1. AddressBefore(longer, end, x)
    <3>1. x \in 0 .. end - 1
      BY <1>8, <1>11
    <3>2. x # 0 => longer[x] \in [d : Address \ {ZeroAddress}]
      BY <1>2, <1>8, <1>11, <1>14
    <3> QED BY <3>1, <3>2 DEF AddressBefore
  <2> QED BY <1>3, <1>8, <1>12, <1>14, <2>1 DEF PointsBack
<1>16. /\ WellFormed(longer, called) /\ Extends(longer, list)
       /\ end \in DOMAIN longer
       /\ \A i \in DOMAIN longer \ DOMAIN list :
            i \in DOMAIN full \ DOMAIN list \/ i = end
       /\ \A i \in DOMAIN full : i \in DOMAIN longer
  BY <1>3, <1>7, <1>8, <1>9, <1>13, <1>15, AppendReference DEF longer
<1>17. ASSUME NamesAssets(list), NamesAsset(rr)
       PROVE  AddsWhatItMeans(list, rr, longer)
  <2>1. s # 0 /\ y # 0 /\ y \in DOMAIN full /\ full[y] = [s |-> s]
    BY <1>5, <1>8, <1>12, <1>17
  <2>2. ~NeedsNoEntry(rr) /\ ~NamesNothing(rr) /\ Means(rr) = rr
    BY <1>3, NeedsCases, MeansCases
  <2>3. [address |-> a] \in Parts(rr) \/ a = ZeroAddress
    BY PartsCases DEF a, Addresses
  <2>4. [assetIndex |-> s] \in Parts(rr)
    BY PartsCases DEF s
  <2>5. \A i \in DOMAIN longer : longer[i] \in Entry
    BY <1>16 DEF WellFormed
  <2>6. Meaning(longer, end) = rr
    <3>1. AddressAt(longer, x) = a
      BY <1>8, <1>11, <1>14 DEF AddressAt
    <3>2. longer[y].s = s
      BY <1>14, <2>1
    <3>3. DOMAIN longer[end] = {"h"} /\ longer[end].h.d = x /\ longer[end].h.s = y
      BY <1>3, <1>14
    <3>4. Meaning(longer, end) = Holding(a, s)
      BY <1>16, <2>1, <2>5, <3>1, <3>2, <3>3, MeaningCases
    <3> QED BY <1>2, <3>4
  <2>7. ASSUME NEW i \in DOMAIN full \ DOMAIN list
        PROVE  Meaning(longer, i) \in Parts(rr)
    <3>1. i \in DOMAIN longer /\ longer[i] = full[i]
      BY <1>14, <1>16
    <3>2. CASE i \in DOMAIN first
      <4>1. a # ZeroAddress /\ longer[i] = [d |-> a]
        BY <1>6, <1>7, <1>8, <3>1, <3>2 DEF Extends
      <4>2. Meaning(longer, i) = [address |-> a]
        BY <2>5, <3>1, <4>1, MeaningCases
      <4> QED BY <2>3, <4>1, <4>2
    <3>3. CASE i \notin DOMAIN first
      <4>1. longer[i] = [s |-> s]
        BY <1>7, <3>1, <3>3
      <4>2. Meaning(longer, i) = [assetIndex |-> s]
        BY <2>5, <3>1, <4>1, MeaningCases
      <4> QED BY <2>4, <4>2
    <3> QED BY <3>2, <3>3
  <2>8. \A i \in DOMAIN longer \ DOMAIN list : Reason(rr, Meaning(longer, i))
    BY <1>16, <2>2, <2>6, <2>7 DEF Reason
  <2>9. NamesAssets(longer)
    <3>1. NamesAssets(full)
      BY <1>6, <1>7, <1>17
    <3>2. Extends(longer, full) /\ longer \in Seq(Entry)
      BY <1>8, <1>13 DEF longer, Extends
    <3>3. DOMAIN longer \ DOMAIN full \subseteq {end}
      BY <1>8, <1>13 DEF longer
    <3>4. PointsTo(longer, y, "s")
      BY <1>14, <1>16, <2>1 DEF PointsTo, Has
    <3>5. longer[end].h.s = y
      BY <1>3, <1>14
    <3> QED BY <1>8, <3>1, <3>2, <3>3, <3>4, <3>5, AssetsStayNamed
  <2> QED BY <1>16, <2>2, <2>6, <2>8, <2>9 DEF AddsWhatItMeans
<1> QED BY <1>1, <1>16, <1>17

\* to a local state,
LEMMA EncodeLocals ==
  ASSUME NEW list, WellFormed(list, appIndex.value),
         NEW rr \in TxnReferences, DOMAIN rr = {"locals"}
  PROVE  /\ WellFormed(Encode(list, rr, appIndex.value), appIndex.value)
         /\ Extends(Encode(list, rr, appIndex.value), list)
         /\ NamesAssets(list) =>
              AddsWhatItMeans(list, rr, Encode(list, rr, appIndex.value))
<1> DEFINE called == appIndex.value
           a == rr.locals.address
           p == rr.locals.appIndex
           first == WithAddress(list, a)
           full == WithApp(first, p, called)
           x == AddressPosition(full, a)
           y == AppPosition(full, p, called)
           e == LocalsEntry(full, a, p, called)
           end == Len(full) + 1
           longer == Append(full, e)
<1>1. Encode(list, rr, called) = longer
  BY EncodeCases, ZenonT(60)
<1>2. a \in Address /\ p \in AppIDs /\ rr = Locals(a, p)
  BY TxnReferenceCases
<1>3. DOMAIN e = {"l"} /\ e.l.d = x /\ e.l.p = y /\ ~Keyed(e) /\ ~Has(e, "h") /\ ~Has(e, "b")
  BY DEF Keyed, Has, LocalsEntry
<1>4. x \in Nat /\ y \in Nat => e \in Entry
  BY EntryTypes DEF LocalsEntry
<1>5. IsForeign(p, called) <=> ~IsOwn(p)
  BY DEF IsForeign, IsOwn
<1>6. WellFormed(list, called)
  OBVIOUS
<1> HIDE DEF a, p, first, e, called
<1>7. /\ WellFormed(first, called) /\ Extends(first, list)
      /\ a # ZeroAddress => [d |-> a] \in Range(first)
      /\ \A i \in DOMAIN first \ DOMAIN list : a # ZeroAddress /\ first[i] = [d |-> a]
      /\ NamesAssets(list) => NamesAssets(first)
  BY <1>2, <1>6, WithAddressStep DEF first
<1>8. /\ WellFormed(full, called) /\ Extends(full, first)
      /\ IsForeign(p, called) => [p |-> p] \in Range(full)
      /\ \A i \in DOMAIN full \ DOMAIN first : IsForeign(p, called) /\ full[i] = [p |-> p]
      /\ NamesAssets(first) => NamesAssets(full)
  BY <1>2, <1>7, WithAppStep
<1> HIDE DEF full
<1>9. /\ list \in Seq(Entry) /\ first \in Seq(Entry) /\ full \in Seq(Entry)
      /\ Len(full) \in Nat /\ DOMAIN full = 1 .. Len(full)
      /\ DOMAIN first = 1 .. Len(first) /\ Len(first) \in Nat
  BY <1>6, <1>7, <1>8 DEF WellFormed
<1>10. Extends(full, list)
  BY <1>7, <1>8, <1>9, ExtendsIsTransitive
<1>11. a # ZeroAddress => [d |-> a] \in Range(full)
  BY <1>7, <1>8, <1>9 DEF Range, Extends
<1>12. /\ x \in 0 .. Len(full) /\ (x = 0 <=> a = ZeroAddress)
       /\ x # 0 => full[x] = [d |-> a]
  BY <1>2, <1>9, <1>11, AddressIsBefore
<1>13. /\ y \in 0 .. Len(full) /\ (y # 0 <=> IsForeign(p, called))
       /\ y # 0 => full[y] = [p |-> p]
  BY <1>2, <1>8, <1>9, AppIsBefore
<1> HIDE DEF x, y
<1>14. e \in Entry
  BY <1>4, <1>9, <1>12, <1>13
<1>15. longer[end] = e /\ \A i \in DOMAIN full : longer[i] = full[i]
  BY <1>9
<1> HIDE DEF longer
<1>20. /\ x # 0 => longer[x] = [d |-> a]
       /\ y # 0 => longer[y] = [p |-> p]
  <2>1. /\ x # 0 => x \in DOMAIN full
        /\ y # 0 => y \in DOMAIN full
    BY <1>9, <1>12, <1>13
  <2> QED BY <1>12, <1>13, <1>15, <2>1
<1>16. PointsBack(longer, end, called)
  <2>1. AddressBefore(longer, end, x)
    <3>1. x \in 0 .. end - 1
      BY <1>9, <1>12
    <3>2. x # 0 => longer[x] \in [d : Address \ {ZeroAddress}]
      BY <1>2, <1>12, <1>20
    <3> QED BY <3>1, <3>2 DEF AddressBefore
  <2>2. AppBefore(longer, end, y, called)
    <3>1. y \in 0 .. end - 1
      BY <1>9, <1>13
    <3>2. y # 0 => longer[y] \in [p : AppIDs \ {0, called}]
      BY <1>2, <1>13, <1>20 DEF IsForeign
    <3> QED BY <3>1, <3>2 DEF AppBefore
  <2> QED BY <1>3, <1>9, <1>15, <2>1, <2>2 DEF PointsBack, Has
<1>17. /\ WellFormed(longer, called) /\ Extends(longer, list)
       /\ end \in DOMAIN longer
       /\ \A i \in DOMAIN longer \ DOMAIN list :
            i \in DOMAIN full \ DOMAIN list \/ i = end
       /\ \A i \in DOMAIN full : i \in DOMAIN longer
  BY <1>3, <1>8, <1>9, <1>10, <1>14, <1>16, AppendReference, ZenonT(60) DEF longer
<1>18. ASSUME NamesAssets(list)
       PROVE  AddsWhatItMeans(list, rr, longer)
  <2>1. /\ NeedsNoEntry(rr) <=> a = ZeroAddress /\ IsOwn(p)
        /\ ~NamesNothing(rr) /\ Means(rr) = Locals(a, Own(p))
    BY NeedsCases, MeansCases DEF a, p
  <2>2. Parts(rr) = Addresses(a) \cup ForeignApps(p)
    BY PartsCases DEF a, p
  <2>3. /\ a # ZeroAddress => [address |-> a] \in Parts(rr)
        /\ IsForeign(p, called) => [appIndex |-> p] \in Parts(rr)
    BY <1>5, <2>2 DEF Addresses, ForeignApps
  <2>4. \A i \in DOMAIN longer : longer[i] \in Entry
    BY <1>17 DEF WellFormed
  <2>5. Meaning(longer, end) = IF NeedsNoEntry(rr) THEN Box(0, EmptyName) ELSE Means(rr)
    <3>1. AddressAt(longer, x) = a
      BY <1>12, <1>20 DEF AddressAt
    <3>2. AppAt(longer, y) = Own(p)
      BY <1>5, <1>13, <1>20 DEF AppAt, Own
    <3>3. DOMAIN longer[end] = {"l"} /\ longer[end].l.d = x /\ longer[end].l.p = y
      BY <1>3, <1>15
    <3>4. NeedsNoEntry(rr) <=> x = 0 /\ y = 0
      BY <1>5, <1>12, <1>13, <2>1
    <3> QED BY <1>17, <2>1, <2>4, <3>1, <3>2, <3>3, <3>4, MeaningCases
  <2>6. ASSUME NEW i \in DOMAIN full \ DOMAIN list
        PROVE  Meaning(longer, i) \in Parts(rr) /\ ~NeedsNoEntry(rr)
    <3>1. i \in DOMAIN longer /\ longer[i] = full[i]
      BY <1>15, <1>17
    <3>2. CASE i \in DOMAIN first
      <4>1. a # ZeroAddress /\ longer[i] = [d |-> a]
        BY <1>7, <1>8, <1>9, <3>1, <3>2 DEF Extends
      <4>2. Meaning(longer, i) = [address |-> a]
        BY <2>4, <3>1, <4>1, MeaningCases
      <4> QED BY <2>1, <2>3, <4>1, <4>2
    <3>3. CASE i \notin DOMAIN first
      <4>1. IsForeign(p, called) /\ longer[i] = [p |-> p]
        BY <1>8, <3>1, <3>3
      <4>2. Meaning(longer, i) = [appIndex |-> p]
        BY <2>4, <3>1, <4>1, MeaningCases
      <4> QED BY <1>5, <2>1, <2>3, <4>1, <4>2
    <3> QED BY <3>2, <3>3
  <2>7. \A i \in DOMAIN longer \ DOMAIN list : Reason(rr, Meaning(longer, i))
    BY <1>17, <2>1, <2>5, <2>6 DEF Reason
  <2>8. NamesAssets(longer)
    <3>1. NamesAssets(full)
      BY <1>7, <1>8, <1>18
    <3>2. Extends(longer, full) /\ longer \in Seq(Entry)
      BY <1>9, <1>14 DEF longer, Extends
    <3>3. DOMAIN longer \ DOMAIN full \subseteq {end}
      BY <1>9, <1>14 DEF longer
    <3>4. ~Has(longer[end], "h")
      BY <1>3, <1>15
    <3> QED BY <1>9, <3>1, <3>2, <3>3, <3>4, AssetsStayNamed
  <2> QED BY <1>17, <2>5, <2>7, <2>8 DEF AddsWhatItMeans
<1>19. called = appIndex.value
  BY DEF called
<1> QED BY <1>1, <1>17, <1>18, <1>19

\* and to a box.
LEMMA EncodeBox ==
  ASSUME NEW list, WellFormed(list, appIndex.value),
         NEW rr \in TxnReferences, DOMAIN rr = {"box"}
  PROVE  /\ WellFormed(Encode(list, rr, appIndex.value), appIndex.value)
         /\ Extends(Encode(list, rr, appIndex.value), list)
         /\ NamesAssets(list) =>
              AddsWhatItMeans(list, rr, Encode(list, rr, appIndex.value))
<1> DEFINE called == appIndex.value
           p == rr.box.appIndex
           n == rr.box.name
           full == WithApp(list, p, called)
           y == AppPosition(full, p, called)
           e == BoxEntry(full, p, n, called)
           end == Len(full) + 1
           longer == Append(full, e)
<1>1. Encode(list, rr, called) = longer
  BY EncodeCases, ZenonT(60)
<1>2. p \in AppIDs /\ n \in Name /\ rr = Box(p, n)
  BY TxnReferenceCases
<1>3. DOMAIN e = {"b"} /\ e.b.i = y /\ e.b.n = n /\ ~Keyed(e) /\ ~Has(e, "h") /\ ~Has(e, "l")
  BY DEF Keyed, Has, BoxEntry
<1>4. y \in Nat /\ n \in Name => e \in Entry
  BY EntryTypes DEF BoxEntry
<1>5. IsForeign(p, called) <=> ~IsOwn(p)
  BY DEF IsForeign, IsOwn
<1>6. WellFormed(list, called)
  OBVIOUS
<1> HIDE DEF n, p, e, called
<1>7. /\ WellFormed(full, called) /\ Extends(full, list)
      /\ IsForeign(p, called) => [p |-> p] \in Range(full)
      /\ \A i \in DOMAIN full \ DOMAIN list : IsForeign(p, called) /\ full[i] = [p |-> p]
      /\ NamesAssets(list) => NamesAssets(full)
  BY <1>2, <1>6, WithAppStep
<1> HIDE DEF full
<1>8. /\ list \in Seq(Entry) /\ full \in Seq(Entry)
      /\ Len(full) \in Nat /\ DOMAIN full = 1 .. Len(full)
  BY <1>6, <1>7 DEF WellFormed
<1>9. /\ y \in 0 .. Len(full) /\ (y # 0 <=> IsForeign(p, called))
      /\ y # 0 => full[y] = [p |-> p]
  BY <1>2, <1>7, <1>8, AppIsBefore
<1> HIDE DEF y
<1>10. e \in Entry
  BY <1>2, <1>4, <1>8, <1>9
<1>11. longer[end] = e /\ \A i \in DOMAIN full : longer[i] = full[i]
  BY <1>8
<1> HIDE DEF longer
<1>12. PointsBack(longer, end, called)
  <2>1. AppBefore(longer, end, y, called)
    <3>1. y \in 0 .. end - 1
      BY <1>8, <1>9
    <3>2. y # 0 => longer[y] \in [p : AppIDs \ {0, called}]
      BY <1>2, <1>8, <1>9, <1>11 DEF IsForeign
    <3> QED BY <3>1, <3>2 DEF AppBefore
  <2> QED BY <1>3, <1>8, <1>11, <2>1 DEF PointsBack, Has
<1>13. /\ WellFormed(longer, called) /\ Extends(longer, list)
       /\ end \in DOMAIN longer
       /\ \A i \in DOMAIN longer \ DOMAIN list :
            i \in DOMAIN full \ DOMAIN list \/ i = end
       /\ \A i \in DOMAIN full : i \in DOMAIN longer
  BY <1>3, <1>7, <1>8, <1>10, <1>12, AppendReference DEF longer
<1>14. ASSUME NamesAssets(list)
       PROVE  AddsWhatItMeans(list, rr, longer)
  <2>1. ~NeedsNoEntry(rr) /\ ~NamesNothing(rr) /\ Means(rr) = Box(Own(p), n)
    BY NeedsCases, MeansCases DEF p, n
  <2>2. IsForeign(p, called) => [appIndex |-> p] \in Parts(rr)
    BY <1>5, PartsCases DEF ForeignApps, p
  <2>3. \A i \in DOMAIN longer : longer[i] \in Entry
    BY <1>13 DEF WellFormed
  <2>4. Meaning(longer, end) = Means(rr)
    <3>1. AppAt(longer, y) = Own(p)
      BY <1>5, <1>8, <1>9, <1>11 DEF AppAt, Own
    <3>2. DOMAIN longer[end] = {"b"} /\ longer[end].b.i = y /\ longer[end].b.n = n
      BY <1>3, <1>11
    <3> QED BY <1>13, <2>1, <2>3, <3>1, <3>2, MeaningCases
  <2>5. ASSUME NEW i \in DOMAIN full \ DOMAIN list
        PROVE  Meaning(longer, i) \in Parts(rr)
    <3>1. i \in DOMAIN longer /\ IsForeign(p, called) /\ longer[i] = [p |-> p]
      BY <1>7, <1>11, <1>13
    <3>2. Meaning(longer, i) = [appIndex |-> p]
      BY <2>3, <3>1, MeaningCases
    <3> QED BY <2>2, <3>1, <3>2
  <2>6. \A i \in DOMAIN longer \ DOMAIN list : Reason(rr, Meaning(longer, i))
    BY <1>13, <2>1, <2>4, <2>5 DEF Reason
  <2>7. NamesAssets(longer)
    <3>1. NamesAssets(full)
      BY <1>7, <1>14
    <3>2. Extends(longer, full) /\ longer \in Seq(Entry)
      BY <1>8, <1>10 DEF longer, Extends
    <3>3. DOMAIN longer \ DOMAIN full \subseteq {end}
      BY <1>8, <1>10 DEF longer
    <3>4. ~Has(longer[end], "h")
      BY <1>3, <1>11
    <3> QED BY <1>8, <3>1, <3>2, <3>3, <3>4, AssetsStayNamed
  <2> QED BY <1>13, <2>4, <2>6, <2>7 DEF AddsWhatItMeans
<1>15. called = appIndex.value
  BY DEF called
<1> QED BY <1>1, <1>13, <1>14, <1>15

\* Every turn of the loop that encodes keeps the list well-formed, and adds what
\* the reference means and what it is in.
LEMMA EncodeStep ==
  ASSUME NEW list, WellFormed(list, appIndex.value), NEW rr \in TxnReferences
  PROVE  /\ WellFormed(Encode(list, rr, appIndex.value), appIndex.value)
         /\ Extends(Encode(list, rr, appIndex.value), list)
         /\ NamesAssets(list) /\ NamesAsset(rr) =>
              AddsWhatItMeans(list, rr, Encode(list, rr, appIndex.value))
  BY TxnReferenceCases, EncodedAddress, EncodeAsset, EncodeApp, EncodeHolding, EncodeLocals,
     EncodeBox

-----------------------------------------------------------------------------
(* The list that is encoded *)

\* The empty list is well-formed.
LEMMA NothingIsWellFormed ==
  ASSUME NEW called
  PROVE  WellFormed(<<>>, called) /\ NamesAssets(<<>>)
<1>1. <<>> \in Seq(Entry) /\ DOMAIN <<>> = {}
  OBVIOUS
<1> QED BY <1>1 DEF WellFormed, NamesAssets

\* Encoding any references makes a well-formed list.
LEMMA EncodedIsWellFormed ==
  ASSUME NEW refs \in Seq(TxnReferences)
  PROVE  WellFormed(Encoded(refs, appIndex.value), appIndex.value)
<1> DEFINE called == appIndex.value
           N == Len(refs)
<1>1. N \in Nat /\ DOMAIN refs = 1 .. N /\ \A n \in 1 .. N : refs[n] \in TxnReferences
  OBVIOUS
<1> HIDE DEF N
<1>2. PICK g : /\ g[0] = <<>>
               /\ \A n \in 1 .. N : g[n] = Encode(g[n - 1], refs[n], called)
               /\ g[N] = Encoded(refs, called)
  <2>1. N \in Nat /\ DOMAIN refs = 1 .. N
    BY <1>1
  <2> HIDE DEF called
  <2> QED BY <2>1, EncodedSteps
<1> DEFINE S == {n \in 0 .. N : WellFormed(g[n], called)}
<1>3. 0 \in S
  BY <1>1, <1>2, NothingIsWellFormed
<1>4. ASSUME NEW n \in 1 .. N, n - 1 \in S PROVE n \in S
  <2>1. WellFormed(g[n - 1], called) /\ refs[n] \in TxnReferences
    BY <1>1, <1>4
  <2>2. WellFormed(Encode(g[n - 1], refs[n], called), called)
    BY <2>1, EncodeStep
  <2> QED BY <1>1, <1>2, <2>2
<1>5. N \in S
  <2> HIDE DEF S
  <2> QED BY <1>1, <1>3, <1>4, InductionUpTo
<1> QED BY <1>2, <1>5

\* It has an entry for the meaning of every reference that needs one, and every
\* entry has its reason, if no holding is of the asset 0.
LEMMA EncodedMeans ==
  ASSUME NEW refs \in Seq(TxnReferences), \A k \in DOMAIN refs : NamesAsset(refs[k])
  PROVE  LET list == Encoded(refs, appIndex.value)
         IN  /\ NamesAssets(list)
             /\ \A i \in DOMAIN list :
                  \E k \in DOMAIN refs : Reason(refs[k], Meaning(list, i))
             /\ \A k \in DOMAIN refs :
                  \/ NeedsNoEntry(refs[k]) \/ NamesNothing(refs[k])
                  \/ \E i \in DOMAIN list : Meaning(list, i) = Means(refs[k])
<1> DEFINE called == appIndex.value
           N == Len(refs)
<1>1. /\ N \in Nat /\ DOMAIN refs = 1 .. N
      /\ \A n \in 1 .. N : refs[n] \in TxnReferences /\ NamesAsset(refs[n])
  OBVIOUS
<1> HIDE DEF N
<1>2. PICK g : /\ g[0] = <<>>
               /\ \A n \in 1 .. N : g[n] = Encode(g[n - 1], refs[n], called)
               /\ g[N] = Encoded(refs, called)
  <2>1. N \in Nat /\ DOMAIN refs = 1 .. N
    BY <1>1
  <2> HIDE DEF called
  <2> QED BY <2>1, EncodedSteps
<1> DEFINE HasReasons(n) ==
             \A i \in DOMAIN g[n] : \E k \in 1 .. n : Reason(refs[k], Meaning(g[n], i))
           HasMeanings(n) ==
             \A k \in 1 .. n :
               \/ NeedsNoEntry(refs[k]) \/ NamesNothing(refs[k])
               \/ \E i \in DOMAIN g[n] : Meaning(g[n], i) = Means(refs[k])
           S == {n \in 0 .. N : /\ WellFormed(g[n], called) /\ NamesAssets(g[n])
                                /\ HasReasons(n) /\ HasMeanings(n)}
<1>3. 0 \in S
  <2>1. DOMAIN g[0] = {} /\ 1 .. 0 = {}
    BY <1>2
  <2> QED BY <1>1, <1>2, <2>1, NothingIsWellFormed
<1>4. ASSUME NEW n \in 1 .. N, n - 1 \in S PROVE n \in S
  <2> DEFINE list == g[n - 1]
             longer == g[n]
             rr == refs[n]
  <2>1. /\ WellFormed(list, called) /\ NamesAssets(list)
        /\ HasReasons(n - 1) /\ HasMeanings(n - 1)
    BY <1>4
  <2>2. rr \in TxnReferences /\ NamesAsset(rr) /\ longer = Encode(list, rr, called)
    BY <1>1, <1>2
  <2>3. /\ WellFormed(longer, called) /\ Extends(longer, list)
        /\ AddsWhatItMeans(list, rr, longer)
    BY <2>1, <2>2, EncodeStep
  <2>4. \A i \in DOMAIN list : i \in DOMAIN longer /\ Meaning(longer, i) = Meaning(list, i)
    <3>1. list \in Seq(Entry) /\ longer \in Seq(Entry)
      BY <2>1, <2>3 DEF WellFormed
    <3>2. \A i \in DOMAIN list : i \in DOMAIN longer
      BY <2>3, <3>1 DEF Extends
    <3>3. \A i \in DOMAIN list : Meaning(longer, i) = Meaning(list, i)
      BY <2>1, <2>3, MeaningIsKept
    <3> QED BY <3>2, <3>3
  <2>5. ASSUME NEW i \in DOMAIN longer
        PROVE  \E k \in 1 .. n : Reason(refs[k], Meaning(longer, i))
    <3>1. CASE i \in DOMAIN list
      <4>1. PICK k \in 1 .. n - 1 : Reason(refs[k], Meaning(list, i))
        BY <2>1, <3>1
      <4>2. k \in 1 .. n /\ Meaning(longer, i) = Meaning(list, i)
        BY <2>4, <3>1
      <4> QED BY <4>1, <4>2
    <3>2. CASE i \notin DOMAIN list
      <4>1. Reason(rr, Meaning(longer, i)) /\ n \in 1 .. n
        BY <2>3, <3>2 DEF AddsWhatItMeans
      <4> QED BY <4>1
    <3> QED BY <3>1, <3>2
  <2>6. ASSUME NEW k \in 1 .. n
        PROVE  \/ NeedsNoEntry(refs[k]) \/ NamesNothing(refs[k])
               \/ \E i \in DOMAIN longer : Meaning(longer, i) = Means(refs[k])
    <3>1. CASE k \in 1 .. n - 1
      BY <2>1, <2>4, <3>1
    <3>2. CASE k = n
      BY <2>3, <3>2 DEF AddsWhatItMeans
    <3> QED BY <3>1, <3>2
  <2>7. HasReasons(n) /\ HasMeanings(n)
    BY <2>5, <2>6
  <2>8. NamesAssets(longer)
    BY <2>3 DEF AddsWhatItMeans
  <2> HIDE DEF HasReasons, HasMeanings
  <2>9. n \in 0 .. N
    BY <1>1
  <2> QED BY <2>3, <2>7, <2>8, <2>9
<1>5. N \in S
  <2> HIDE DEF S
  <2> QED BY <1>1, <1>3, <1>4, InductionUpTo
<1>6. NamesAssets(g[N]) /\ HasReasons(N) /\ HasMeanings(N)
  BY <1>5
<1> QED BY <1>1, <1>2, <1>6

\* A peer reads every prefix of it, to which the entries refer.
LEMMA PrefixIsDecodable ==
  ASSUME NEW called, NEW list, WellFormed(list, called), NamesAssets(list),
         NEW n \in 0 .. Len(list)
  PROVE  Decodable(SubSeq(Sent(list), 1, n))
<1> DEFINE prefix == SubSeq(Sent(list), 1, n)
<1>1. list \in Seq(Entry) /\ Len(list) \in Nat /\ DOMAIN list = 1 .. Len(list)
  BY DEF WellFormed
<1>2. /\ DOMAIN prefix = 1 .. n
      /\ \A i \in 1 .. n : prefix[i] = Sent(list)[i] /\ prefix[i] = SentEntry(list[i])
  BY <1>1, SentAt
<1> HIDE DEF prefix
<1>3. ASSUME NEW i \in 1 .. n, NEW x
      PROVE  /\ AddressBefore(list, i, x) => x = 0 \/ PointsTo(prefix, x, "d")
             /\ AppBefore(list, i, x, called) => x = 0 \/ PointsTo(prefix, x, "p")
             /\ x \in 0 .. i - 1 /\ PointsTo(list, x, "s") => PointsTo(prefix, x, "s")
  <2>1. ASSUME AddressBefore(list, i, x), x # 0 PROVE PointsTo(prefix, x, "d")
    <3>1. x \in 1 .. n /\ x \in 1 .. i - 1 /\ Has(list[x], "d")
      BY <1>1, <2>1 DEF AddressBefore, Has
    <3>2. list \in Seq(Entry) /\ i \in Nat /\ i <= Len(list) + 1
      BY <1>1
    <3>3. Sent(list)[x] = list[x]
      BY <2>1, <3>2, TargetsAreSent
    <3> QED BY <1>2, <3>1, <3>3 DEF PointsTo
  <2>2. ASSUME AppBefore(list, i, x, called), x # 0 PROVE PointsTo(prefix, x, "p")
    <3>1. x \in 1 .. n /\ x \in 1 .. i - 1 /\ Has(list[x], "p")
      BY <1>1, <2>2 DEF AppBefore, Has
    <3>2. prefix[x] = list[x]
      BY <1>1, <1>2, <2>2, <3>1, TargetsAreSent
    <3> QED BY <1>2, <3>1, <3>2 DEF PointsTo
  <2>3. ASSUME x \in 0 .. i - 1, PointsTo(list, x, "s") PROVE PointsTo(prefix, x, "s")
    <3>1. x \in 1 .. n /\ Has(list[x], "s")
      BY <1>1, <2>3 DEF PointsTo
    <3>2. prefix[x] = list[x]
      BY <1>1, <1>2, <2>3, <3>1, AssetIsSent
    <3> QED BY <1>2, <3>1, <3>2 DEF PointsTo
  <2> QED BY <2>1, <2>2, <2>3
<1>4. ASSUME NEW i \in 1 .. n, prefix[i] # Empty
      PROVE  /\ Has(prefix[i], "h") =>
                  /\ prefix[i].h.d = 0 \/ PointsTo(prefix, prefix[i].h.d, "d")
                  /\ PointsTo(prefix, prefix[i].h.s, "s")
             /\ Has(prefix[i], "l") =>
                  /\ prefix[i].l.d = 0 \/ PointsTo(prefix, prefix[i].l.d, "d")
                  /\ prefix[i].l.p = 0 \/ PointsTo(prefix, prefix[i].l.p, "p")
             /\ Has(prefix[i], "b") =>
                  prefix[i].b.i = 0 \/ PointsTo(prefix, prefix[i].b.i, "p")
  <2>1. prefix[i] = list[i]
    BY <1>2, <1>4 DEF SentEntry
  <2>2. /\ PointsBack(list, i, called)
        /\ Has(list[i], "h") => PointsTo(list, list[i].h.s, "s")
    BY <1>1 DEF WellFormed, NamesAssets
  <2> QED BY <1>3, <2>1, <2>2 DEF PointsBack
<1>5. \A i \in 1 .. n : prefix[i] = Empty => ~Has(prefix[i], "h") /\ ~Has(prefix[i], "l")
                                             /\ ~Has(prefix[i], "b")
  BY EmptyHasNoKey DEF Has
<1>6. Decodable(prefix)
  BY <1>2, <1>4, <1>5 DEF Decodable, Range
<1> QED BY <1>6 DEF prefix

\* What a peer reads of it.
LEMMA ReadReferences ==
  ASSUME NEW called, NEW list, WellFormed(list, called), NamesAssets(list)
  PROVE  /\ Decodable(Sent(list))
         /\ Range(Decoded(Sent(list))) = {Meaning(list, i) : i \in DOMAIN list}
<1>1. list \in Seq(Entry) /\ Len(list) \in Nat /\ DOMAIN list = 1 .. Len(list)
  BY DEF WellFormed
<1>2. /\ Sent(list) \in Seq(Entry \cup {Empty}) /\ Len(Sent(list)) = Len(list)
      /\ DOMAIN Sent(list) = DOMAIN list
  BY <1>1, SentAt
<1>3. SubSeq(Sent(list), 1, Len(list)) = Sent(list)
  BY <1>1, <1>2
<1>4. Decodable(SubSeq(Sent(list), 1, Len(list)))
  BY <1>1, PrefixIsDecodable
<1>5. Decodable(Sent(list))
  BY <1>3, <1>4
<1>6. \A i \in DOMAIN list : Decoded(Sent(list))[i] = Meaning(list, i)
  BY <1>2, ReadsAsItMeans DEF Decoded
<1>7. DOMAIN Decoded(Sent(list)) = DOMAIN list
  BY <1>2 DEF Decoded
<1>8. Range(Decoded(Sent(list))) = {Meaning(list, i) : i \in DOMAIN list}
  BY <1>6, <1>7 DEF Range
<1> QED BY <1>5, <1>8

-----------------------------------------------------------------------------
(* Reading a list and writing it again *)

\* An entry of which the encoding so far has one is found where it was.
IsOnlyAt(z, j, list, n, al) ==
  /\ n \in Nat /\ DOMAIN list = 1 .. n
  /\ \A k \in 1 .. n : SentEntry(list[k]) = al[k]
  /\ z \notin DefaultEntries /\ z # Empty /\ j \in 1 .. n /\ al[j] = z
  /\ \A k \in 1 .. n : al[k] = z => k = j

\* Its place, where it is looked for.
LEMMA FoundAgain ==
  ASSUME NEW al, NEW n, NEW list, NEW z, NEW j, IsOnlyAt(z, j, list, n, al)
  PROVE  /\ z \in Range(list) /\ WithEntry(list, z) = list
         /\ PositionOf(list, z) = j
<1> USE DEF IsOnlyAt
<1>1. list[j] = z
  BY DEF SentEntry
<1>2. z \in Range(list)
  BY <1>1 DEF Range
<1>3. WithEntry(list, z) = list
  BY <1>2 DEF WithEntry
<1>4. PositionOf(list, z) \in 1 .. n /\ list[PositionOf(list, z)] = z
  BY <1>2, PositionFound
<1>5. SentEntry(z) = z
  BY DEF SentEntry
<1>6. PositionOf(list, z) = j
  BY <1>4, <1>5
<1> QED BY <1>2, <1>3, <1>6

\* An entry is the record of its fields.
LEMMA EntryIsRecord ==
  ASSUME NEW e \in Entry
  PROVE  /\ DOMAIN e \in {{"d"}, {"s"}, {"p"}, {"h"}, {"l"}, {"b"}}
         /\ DOMAIN e = {"d"} => e = [d |-> e.d] /\ e.d \in Address
         /\ DOMAIN e = {"s"} => e = [s |-> e.s] /\ e.s \in AssetIDs \ {0}
         /\ DOMAIN e = {"p"} => e = [p |-> e.p] /\ e.p \in AppIDs \ {0}
         /\ DOMAIN e = {"h"} => /\ e = [h |-> [d |-> e.h.d, s |-> e.h.s]]
                                /\ e.h.d \in Nat /\ e.h.s \in Nat
         /\ DOMAIN e = {"l"} => /\ e = [l |-> [d |-> e.l.d, p |-> e.l.p]]
                                /\ e.l.d \in Nat /\ e.l.p \in Nat
         /\ DOMAIN e = {"b"} => /\ e = [b |-> [i |-> e.b.i, n |-> e.b.n]]
                                /\ e.b.i \in Nat /\ e.b.n \in Name
<1>1. DOMAIN e \in {{"d"}, {"s"}, {"p"}, {"h"}, {"l"}, {"b"}}
  BY EntryCases
<1>2. DOMAIN e = {"d"} => e = [d |-> e.d] /\ e.d \in Address
  BY EntryCases
<1>3. DOMAIN e = {"s"} => e = [s |-> e.s] /\ e.s \in AssetIDs \ {0}
  BY EntryCases
<1>4. DOMAIN e = {"p"} => e = [p |-> e.p] /\ e.p \in AppIDs \ {0}
  BY EntryCases
<1>5. DOMAIN e = {"h"} => /\ e = [h |-> [d |-> e.h.d, s |-> e.h.s]]
                          /\ e.h.d \in Nat /\ e.h.s \in Nat
  BY EntryCases
<1>6. DOMAIN e = {"l"} => /\ e = [l |-> [d |-> e.l.d, p |-> e.l.p]]
                          /\ e.l.d \in Nat /\ e.l.p \in Nat
  BY EntryCases
<1>7. DOMAIN e = {"b"} => /\ e = [b |-> [i |-> e.b.i, n |-> e.b.n]]
                          /\ e.b.i \in Nat /\ e.b.n \in Name
  BY EntryCases
<1> QED BY <1>1, <1>2, <1>3, <1>4, <1>5, <1>6, <1>7

\* What was sent, of any references: an entry that is not empty is that of the
\* list, and every resource has one.
LEMMA SentIsWellFormed ==
  ASSUME NEW called, NEW list, WellFormed(list, called),
         NEW i \in DOMAIN list, Sent(list)[i] # Empty
  PROVE  /\ Sent(list)[i] = list[i] /\ list[i] \in Entry /\ list[i] \notin DefaultEntries
         /\ Keyed(Sent(list)[i]) =>
              \A j \in DOMAIN list : Sent(list)[j] = Sent(list)[i] => j = i
<1> DEFINE al == Sent(list)
<1>1. list \in Seq(Entry) /\ \A j \in DOMAIN list : al[j] = SentEntry(list[j])
  BY SentAt DEF WellFormed
<1>2. \A j \in DOMAIN list : al[j] # Empty => al[j] = list[j] /\ al[j] \notin DefaultEntries
  BY <1>1 DEF SentEntry
<1>3. al[i] = list[i] /\ list[i] \in Entry /\ list[i] \notin DefaultEntries
  BY <1>1, <1>2
<1>4. Keyed(al[i]) => \A j \in DOMAIN list : al[j] = al[i] => j = i
  BY <1>2, <1>3 DEF WellFormed
<1> QED BY <1>3, <1>4

\* What an address, an asset or another application is sent as.
IsAddressEntry(e) == DOMAIN e = {"d"} /\ e # Empty /\ e.d # ZeroAddress
IsAssetEntry(e) == DOMAIN e = {"s"} /\ e # Empty
IsAppEntry(e, called) == DOMAIN e = {"p"} /\ e # Empty /\ IsForeign(e.p, called)

\* The entry for the address that entry i refers to, or that for the application.
LEMMA TargetSent ==
  ASSUME NEW called, NEW list, WellFormed(list, called), NEW i \in DOMAIN list, NEW x
  PROVE  /\ AddressBefore(list, i, x) =>
              /\ x \in 0 .. i - 1
              /\ x # 0 => IsAddressEntry(Sent(list)[x])
         /\ AppBefore(list, i, x, called) =>
              /\ x \in 0 .. i - 1
              /\ x # 0 => IsAppEntry(Sent(list)[x], called)
<1> DEFINE al == Sent(list)
<1>1. list \in Seq(Entry) /\ i \in Nat /\ i <= Len(list) + 1
  BY DEF WellFormed
<1>2. ASSUME AddressBefore(list, i, x)
      PROVE  /\ x \in 0 .. i - 1
             /\ x # 0 => IsAddressEntry(al[x])
  <2>1. x # 0 => al[x] = list[x]
    BY <1>1, <1>2, TargetsAreSent
  <2>2. x # 0 => DOMAIN al[x] = {"d"} /\ al[x].d # ZeroAddress
    BY <1>2, <2>1 DEF AddressBefore
  <2>3. x \in 0 .. i - 1
    BY <1>2 DEF AddressBefore
  <2> QED BY <2>2, <2>3, EmptyHasNoKey DEF IsAddressEntry
<1>3. ASSUME AppBefore(list, i, x, called)
      PROVE  /\ x \in 0 .. i - 1
             /\ x # 0 => IsAppEntry(al[x], called)
  <2>1. x # 0 => al[x] = list[x]
    BY <1>1, <1>3, TargetsAreSent
  <2>2. x # 0 => DOMAIN al[x] = {"p"} /\ IsForeign(al[x].p, called)
    BY <1>3, <2>1 DEF AppBefore, IsForeign
  <2>3. x \in 0 .. i - 1
    BY <1>3 DEF AppBefore
  <2> QED BY <2>2, <2>3, EmptyHasNoKey DEF IsAppEntry
<1> QED BY <1>2, <1>3

\* The entries that a holding refers to: that for an asset is one even if the
\* holding is of the asset 0, or else reading throws.
LEMMA HoldingSent ==
  ASSUME NEW called, NEW list, WellFormed(list, called), Decodable(Sent(list)),
         NEW i \in DOMAIN list, Sent(list)[i] # Empty, DOMAIN Sent(list)[i] = {"h"}
  PROVE  /\ Sent(list)[i].h.d \in 0 .. i - 1 /\ Sent(list)[i].h.s \in 1 .. i - 1
         /\ Sent(list)[i].h.d # 0 => IsAddressEntry(Sent(list)[Sent(list)[i].h.d])
         /\ IsAssetEntry(Sent(list)[Sent(list)[i].h.s])
<1> DEFINE al == Sent(list)
           e == al[i]
<1>1. /\ list \in Seq(Entry) /\ DOMAIN al = DOMAIN list /\ DOMAIN list = 1 .. Len(list)
      /\ Len(list) \in Nat /\ PointsBack(list, i, called) /\ e = list[i]
  <2>1. list \in Seq(Entry) /\ PointsBack(list, i, called)
    BY DEF WellFormed
  <2>2. DOMAIN al = DOMAIN list
    BY <2>1, SentAt
  <2>3. e = list[i]
    BY SentIsWellFormed
  <2> QED BY <2>1, <2>2, <2>3
<1>2. AddressBefore(list, i, e.h.d) /\ e.h.s \in 0 .. i - 1
  <2>1. Has(list[i], "h")
    BY <1>1 DEF Has
  <2> QED BY <1>1, <2>1 DEF PointsBack
<1>3. e \in Range(al)
  BY <1>1 DEF Range
<1>4. PointsTo(al, e.h.s, "s")
  BY <1>3 DEF Decodable, Has
<1>5. e.h.s \in DOMAIN list /\ Has(al[e.h.s], "s") /\ e.h.s \in 1 .. i - 1
  BY <1>1, <1>2, <1>4 DEF PointsTo
<1>6. al[e.h.s] # Empty
  BY <1>5, EmptyHasNoKey DEF Has
<1>7. al[e.h.s] \in Entry
  BY <1>5, <1>6, SentIsWellFormed
<1>8. DOMAIN al[e.h.s] = {"s"}
  BY <1>5, <1>7, EntryIsRecord DEF Has
<1> DEFINE x == e.h.d
<1>9. /\ x \in 0 .. i - 1
      /\ x # 0 => IsAddressEntry(al[x])
  <2>1. AddressBefore(list, i, x)
    BY <1>2
  <2> HIDE DEF x
  <2> QED BY <2>1, TargetSent
<1> DEFINE y == e.h.s
<1>10. y \in 1 .. i - 1
  BY <1>5
<1>11. IsAssetEntry(al[y])
  BY <1>6, <1>8 DEF IsAssetEntry
<1> QED BY <1>9, <1>10, <1>11

\* Those that a local state refers to.
LEMMA LocalsSent ==
  ASSUME NEW called, NEW list, WellFormed(list, called),
         NEW i \in DOMAIN list, Sent(list)[i] # Empty, DOMAIN Sent(list)[i] = {"l"}
  PROVE  LET x == Sent(list)[i].l.d
             y == Sent(list)[i].l.p
         IN  /\ x \in 0 .. i - 1 /\ y \in 0 .. i - 1
             /\ x # 0 => IsAddressEntry(Sent(list)[x])
             /\ y # 0 => IsAppEntry(Sent(list)[y], called)
<1> DEFINE al == Sent(list)
           x == al[i].l.d
           y == al[i].l.p
<1>1. PointsBack(list, i, called) /\ al[i] = list[i]
  BY SentIsWellFormed DEF WellFormed
<1>2. Has(list[i], "l")
  BY <1>1 DEF Has
<1>3. AddressBefore(list, i, x) /\ AppBefore(list, i, y, called)
  BY <1>1, <1>2 DEF PointsBack
<1> HIDE DEF x, y
<1>4. /\ x \in 0 .. i - 1
      /\ x # 0 => IsAddressEntry(al[x])
  BY <1>3, TargetSent
<1>5. /\ y \in 0 .. i - 1
      /\ y # 0 => IsAppEntry(al[y], called)
  BY <1>3, TargetSent
<1> QED BY <1>4, <1>5 DEF x, y

\* That which a box refers to.
LEMMA BoxSent ==
  ASSUME NEW called, NEW list, WellFormed(list, called),
         NEW i \in DOMAIN list, Sent(list)[i] # Empty, DOMAIN Sent(list)[i] = {"b"}
  PROVE  LET y == Sent(list)[i].b.i
         IN  /\ y \in 0 .. i - 1
             /\ y # 0 => IsAppEntry(Sent(list)[y], called)
<1> DEFINE al == Sent(list)
           y == al[i].b.i
<1>1. PointsBack(list, i, called) /\ al[i] = list[i]
  BY SentIsWellFormed DEF WellFormed
<1>2. Has(list[i], "b")
  BY <1>1 DEF Has
<1>3. AppBefore(list, i, y, called)
  BY <1>1, <1>2 DEF PointsBack
<1> HIDE DEF y
<1>4. /\ y \in 0 .. i - 1
      /\ y # 0 => IsAppEntry(al[y], called)
  BY <1>3, TargetSent
<1> QED BY <1>4 DEF y

\* The entries so far of the list that is encoded again: all before entry n.
Rewritten(before, al, n) ==
  /\ before \in Seq(Entry) /\ Len(before) = n - 1
  /\ \A j \in 1 .. n - 1 : SentEntry(before[j]) = al[j]

\* A resource of which there is an entry has the same position again.
LEMMA EntryAgain ==
  ASSUME NEW called, NEW list, WellFormed(list, called), Decodable(Sent(list)),
         NEW n \in DOMAIN list, NEW before, Rewritten(before, Sent(list), n),
         NEW x \in 1 .. n - 1, Keyed(Sent(list)[x]), Sent(list)[x] # Empty
  PROVE  /\ WithEntry(before, Sent(list)[x]) = before
         /\ PositionOf(before, Sent(list)[x]) = x
         /\ Sent(list)[x] \in Entry
<1> DEFINE al == Sent(list)
           z == al[x]
           m == n - 1
<1>1. /\ DOMAIN list = 1 .. Len(list) /\ Len(list) \in Nat /\ n \in 1 .. Len(list)
      /\ m \in Nat /\ DOMAIN before = 1 .. m /\ \A j \in 1 .. m : SentEntry(before[j]) = al[j]
  BY DEF WellFormed, Rewritten
<1>2. x \in DOMAIN list /\ x \in 1 .. m
  BY <1>1
<1>3. /\ z \notin DefaultEntries /\ z \in Entry
      /\ Keyed(z) => \A j \in DOMAIN list : al[j] = z => j = x
  BY <1>2, SentIsWellFormed
<1>4. \A j \in 1 .. m : al[j] = z => j = x
  BY <1>1, <1>3
<1>5. m \in Nat /\ DOMAIN before = 1 .. m
  BY <1>1
<1>6. \A j \in 1 .. m : SentEntry(before[j]) = al[j]
  BY <1>1
<1>7. al[x] = z /\ z # Empty
  OBVIOUS
<1>8. WithEntry(before, z) = before /\ PositionOf(before, z) = x
  <2> HIDE DEF al, z, m
  <2>1. x \in 1 .. m
    BY <1>2
  <2>2. z \notin DefaultEntries
    BY <1>3
  <2>3. z # Empty
    BY <1>7
  <2>4. al[x] = z
    BY <1>7
  <2>5. IsOnlyAt(z, x, before, m, al)
    BY <2>1, <2>2, <2>3, <2>4, <1>4, <1>5, <1>6 DEF IsOnlyAt
  <2> QED BY <2>5, FoundAgain
<1> QED BY <1>3, <1>8

\* So has an address,
LEMMA AddressAgain ==
  ASSUME NEW called, NEW list, WellFormed(list, called), Decodable(Sent(list)),
         NEW n \in DOMAIN list, NEW before, Rewritten(before, Sent(list), n),
         NEW x \in 0 .. n - 1,
         x # 0 => IsAddressEntry(Sent(list)[x])
  PROVE  /\ WithAddress(before, AddressAt(Sent(list), x)) = before
         /\ AddressPosition(before, AddressAt(Sent(list), x)) = x
<1>1. CASE x = 0
  BY <1>1 DEF AddressAt, WithAddress, AddressPosition
<1>2. CASE x # 0
  <2> DEFINE al == Sent(list)
             z == al[x]
  <2>1. Keyed(z) /\ z # Empty /\ DOMAIN z = {"d"} /\ z.d # ZeroAddress
    BY <1>2 DEF IsAddressEntry, Keyed, Has
  <2>2. n \in Nat /\ x \in 1 .. n - 1
    BY <1>2 DEF WellFormed
  <2>3. WithEntry(before, z) = before /\ PositionOf(before, z) = x /\ z \in Entry
    BY <2>1, <2>2, EntryAgain
  <2>4. z = [d |-> z.d]
    BY <2>1, <2>3, EntryIsRecord
  <2>5. AddressAt(al, x) = z.d
    BY <1>2 DEF AddressAt
  <2> HIDE DEF z, al
  <2>6. WithAddress(before, z.d) = WithEntry(before, z)
    BY <2>1, <2>4 DEF WithAddress
  <2>7. AddressPosition(before, z.d) = PositionOf(before, z)
    BY <2>1, <2>4 DEF AddressPosition
  <2>8. /\ WithAddress(before, AddressAt(al, x)) = before
        /\ AddressPosition(before, AddressAt(al, x)) = x
    BY <2>3, <2>5, <2>6, <2>7
  <2> QED BY <2>8 DEF al
<1> QED BY <1>1, <1>2

\* an asset,
LEMMA AssetAgain ==
  ASSUME NEW called, NEW list, WellFormed(list, called), Decodable(Sent(list)),
         NEW n \in DOMAIN list, NEW before, Rewritten(before, Sent(list), n),
         NEW x \in 1 .. n - 1, IsAssetEntry(Sent(list)[x])
  PROVE  /\ WithAsset(before, Sent(list)[x].s) = before
         /\ AssetPosition(before, Sent(list)[x].s) = x
<1> DEFINE al == Sent(list)
           z == al[x]
<1>1. Keyed(z) /\ z # Empty /\ DOMAIN z = {"s"}
  BY DEF IsAssetEntry, Keyed, Has
<1>2. WithEntry(before, z) = before /\ PositionOf(before, z) = x /\ z \in Entry
  BY <1>1, EntryAgain
<1>3. z = [s |-> z.s] /\ z.s # 0
  BY <1>1, <1>2, EntryIsRecord
<1> HIDE DEF z
<1>4. WithAsset(before, z.s) = WithEntry(before, z)
  BY <1>3 DEF WithAsset
<1>5. AssetPosition(before, z.s) = PositionOf(before, z)
  BY <1>3 DEF AssetPosition
<1>6. WithAsset(before, z.s) = before /\ AssetPosition(before, z.s) = x
  BY <1>2, <1>4, <1>5
<1> QED BY <1>6 DEF z, al

\* and an application.
LEMMA AppAgain ==
  ASSUME NEW called, NEW list, WellFormed(list, called), Decodable(Sent(list)),
         NEW n \in DOMAIN list, NEW before, Rewritten(before, Sent(list), n),
         NEW x \in 0 .. n - 1,
         x # 0 => IsAppEntry(Sent(list)[x], called)
  PROVE  /\ WithApp(before, AppAt(Sent(list), x), called) = before
         /\ AppPosition(before, AppAt(Sent(list), x), called) = x
<1>1. CASE x = 0
  BY <1>1 DEF AppAt, WithApp, AppPosition, IsForeign
<1>2. CASE x # 0
  <2> DEFINE al == Sent(list)
             z == al[x]
  <2>1. Keyed(z) /\ z # Empty /\ DOMAIN z = {"p"} /\ IsForeign(z.p, called)
    BY <1>2 DEF IsAppEntry, Keyed, Has
  <2>2. n \in Nat /\ x \in 1 .. n - 1
    BY <1>2 DEF WellFormed
  <2>3. WithEntry(before, z) = before /\ PositionOf(before, z) = x /\ z \in Entry
    BY <2>1, <2>2, EntryAgain
  <2>4. z = [p |-> z.p]
    BY <2>1, <2>3, EntryIsRecord
  <2>5. AppAt(al, x) = z.p
    BY <1>2 DEF AppAt
  <2> HIDE DEF z, al
  <2>6. WithApp(before, z.p, called) = WithEntry(before, z)
    BY <2>1, <2>4 DEF WithApp
  <2>7. AppPosition(before, z.p, called) = PositionOf(before, z)
    BY <2>1, <2>4 DEF AppPosition
  <2>8. /\ WithApp(before, AppAt(al, x), called) = before
        /\ AppPosition(before, AppAt(al, x), called) = x
    BY <2>3, <2>5, <2>6, <2>7
  <2> QED BY <2>8 DEF al
<1> QED BY <1>1, <1>2

\* Encoding what entry n was read as appends the same entry, or the box that an
\* empty one was read as and that is sent as an empty one.
LEMMA EncodeAgain ==
  ASSUME NEW called, NEW list, WellFormed(list, called), Decodable(Sent(list)),
         NEW n \in DOMAIN list, NEW before, Rewritten(before, Sent(list), n)
  PROVE  \E e \in Entry :
           /\ SentEntry(e) = Sent(list)[n]
           /\ Encode(before, Decode(Sent(list), Sent(list)[n]), called) = Append(before, e)
<1> DEFINE al == Sent(list)
           z == al[n]
           rr == Decode(al, z)
<1>1. n \in Nat /\ n \in 1 .. Len(list) /\ DOMAIN list = 1 .. Len(list)
  BY DEF WellFormed
<1>2. CASE z = Empty
  <2>1. rr = Box(0, EmptyName)
    BY <1>2, DecodeCases
  <2>2. DOMAIN rr = {"box"} /\ rr.box.appIndex = 0 /\ rr.box.name = EmptyName
    BY <2>1, ReferenceValues
  <2> HIDE DEF rr
  <2>3. Encode(before, rr, called) =
          Append(WithApp(before, 0, called),
                 BoxEntry(WithApp(before, 0, called), 0, EmptyName, called))
    BY <2>2 DEF Encode, Has, BoxEntry
  <2>4. /\ WithApp(before, 0, called) = before
        /\ BoxEntry(before, 0, EmptyName, called) = [b |-> [i |-> 0, n |-> EmptyName]]
    BY DEF WithApp, BoxEntry, AppPosition, IsForeign
  <2>5. [b |-> [i |-> 0, n |-> EmptyName]] \in Entry
    BY EntryTypes, ConstantsAssumption
  <2>6. SentEntry([b |-> [i |-> 0, n |-> EmptyName]]) = z
    BY <1>2, SentCases
  <2>7. Encode(before, rr, called) = Append(before, [b |-> [i |-> 0, n |-> EmptyName]])
    BY <2>3, <2>4
  <2> QED BY <2>5, <2>6, <2>7 DEF rr
<1>3. CASE z # Empty
  <2>1. /\ z \in Entry /\ z \notin DefaultEntries
        /\ Keyed(z) => \A j \in DOMAIN list : al[j] = z => j = n
    BY <1>3, SentIsWellFormed
  <2>2. SentEntry(z) = z
    BY <2>1 DEF SentEntry
  <2>3. SUFFICES Encode(before, rr, called) = Append(before, z)
    BY <2>1, <2>2
  <2>4. Keyed(z) => WithEntry(before, z) = Append(before, z)
    <3>1. SUFFICES ASSUME Keyed(z), z \in Range(before) PROVE FALSE
      BY DEF WithEntry
    <3>2. PICK j \in 1 .. n - 1 : before[j] = z
      BY <1>1, <3>1 DEF Rewritten, Range
    <3>3. al[j] = z
      BY <2>2, <3>2 DEF Rewritten
    <3>4. j \in DOMAIN list /\ j # n
      BY <1>1, <3>2
    <3> QED BY <2>1, <3>1, <3>3, <3>4
  <2>5. CASE DOMAIN z = {"d"}
    <3>1. Keyed(z) /\ z = [d |-> z.d]
      BY <2>1, <2>5, EntryIsRecord DEF Keyed, Has
    <3>2. rr = [address |-> z.d]
      BY <2>5, DecodeCases
    <3>3. DOMAIN rr = {"address"} /\ rr.address = z.d
      BY <3>2
    <3> HIDE DEF rr
    <3>4. Encode(before, rr, called) = WithEntry(before, [d |-> z.d])
      BY <3>3 DEF Encode, Has
    <3>5. Encode(before, rr, called) = WithEntry(before, z)
      <4> HIDE DEF z
      <4> QED BY <3>1, <3>4
    <3> QED BY <2>4, <3>1, <3>5
  <2>6. CASE DOMAIN z = {"s"}
    <3>1. Keyed(z) /\ z = [s |-> z.s] /\ z.s # 0
      BY <2>1, <2>6, EntryIsRecord DEF Keyed, Has
    <3>2. rr = [assetIndex |-> z.s]
      BY <2>6, DecodeCases
    <3>3. DOMAIN rr = {"assetIndex"} /\ rr.assetIndex = z.s
      BY <3>2
    <3> HIDE DEF rr
    <3>4. Encode(before, rr, called) = WithAsset(before, z.s)
      BY <3>3 DEF Encode, Has
    <3>5. Encode(before, rr, called) = WithEntry(before, [s |-> z.s])
      BY <3>1, <3>4 DEF WithAsset
    <3>6. Encode(before, rr, called) = WithEntry(before, z)
      <4> HIDE DEF z
      <4> QED BY <3>1, <3>5
    <3> QED BY <2>4, <3>1, <3>6
  <2>7. CASE DOMAIN z = {"p"}
    <3>1. Keyed(z) /\ z = [p |-> z.p] /\ z.p # 0
      BY <2>1, <2>7, EntryIsRecord DEF Keyed, Has
    <3>2. rr = [appIndex |-> z.p]
      BY <2>7, DecodeCases
    <3>3. DOMAIN rr = {"appIndex"} /\ rr.appIndex = z.p
      BY <3>2
    <3> HIDE DEF rr
    <3>4. Encode(before, rr, called) =
            IF z.p = 0 THEN before ELSE WithEntry(before, [p |-> z.p])
      BY <3>3 DEF Encode, Has
    <3>5. Encode(before, rr, called) = WithEntry(before, [p |-> z.p])
      BY <3>1, <3>4
    <3>6. Encode(before, rr, called) = WithEntry(before, z)
      <4> HIDE DEF z
      <4> QED BY <3>1, <3>5
    <3> QED BY <2>4, <3>1, <3>6
  <2>8. CASE DOMAIN z = {"h"}
    <3> DEFINE a == AddressAt(al, z.h.d)
               s == al[z.h.s].s
    <3>1. /\ z.h.d \in 0 .. n - 1 /\ z.h.s \in 1 .. n - 1
          /\ z.h.d # 0 => IsAddressEntry(al[z.h.d])
          /\ IsAssetEntry(al[z.h.s])
      BY <1>3, <2>8, HoldingSent
    <3>2. WithAddress(before, a) = before /\ AddressPosition(before, a) = z.h.d
      BY <3>1, AddressAgain
    <3>3. WithAsset(before, s) = before /\ AssetPosition(before, s) = z.h.s
      BY <3>1, AssetAgain
    <3>4. rr = Holding(a, s)
      BY <2>8, DecodeCases
    <3>5. DOMAIN rr = {"holding"} /\ rr.holding.address = a /\ rr.holding.assetIndex = s
      BY <3>4, ReferenceValues
    <3>6. z = [h |-> [d |-> z.h.d, s |-> z.h.s]]
      BY <2>1, <2>8, EntryIsRecord
    <3> HIDE DEF rr, a, s, z
    <3>7. Encode(before, rr, called) =
            Append(WithAsset(WithAddress(before, a), s),
                   HoldingEntry(WithAsset(WithAddress(before, a), s), a, s))
      BY <3>5 DEF Encode, Has
    <3>8. HoldingEntry(before, a, s) = z
      BY <3>2, <3>3, <3>6 DEF HoldingEntry
    <3> QED BY <3>2, <3>3, <3>7, <3>8
  <2>9. CASE DOMAIN z = {"l"}
    <3> DEFINE a == AddressAt(al, z.l.d)
               p == AppAt(al, z.l.p)
    <3>1. /\ z.l.d \in 0 .. n - 1 /\ z.l.p \in 0 .. n - 1
          /\ z.l.d # 0 => IsAddressEntry(al[z.l.d])
          /\ z.l.p # 0 => IsAppEntry(al[z.l.p], called)
      BY <1>3, <2>9, LocalsSent
    <3>2. WithAddress(before, a) = before /\ AddressPosition(before, a) = z.l.d
      BY <3>1, AddressAgain
    <3>3. WithApp(before, p, called) = before /\ AppPosition(before, p, called) = z.l.p
      BY <3>1, AppAgain
    <3>4. rr = Locals(a, p)
      BY <2>9, DecodeCases
    <3>5. DOMAIN rr = {"locals"} /\ rr.locals.address = a /\ rr.locals.appIndex = p
      BY <3>4, ReferenceValues
    <3>6. z = [l |-> [d |-> z.l.d, p |-> z.l.p]]
      BY <2>1, <2>9, EntryIsRecord
    <3> HIDE DEF rr, a, p, z
    <3>7. Encode(before, rr, called) =
            Append(WithApp(WithAddress(before, a), p, called),
                   LocalsEntry(WithApp(WithAddress(before, a), p, called), a, p, called))
      BY <3>5 DEF Encode, Has, LocalsEntry
    <3>8. LocalsEntry(before, a, p, called) = z
      BY <3>2, <3>3, <3>6 DEF LocalsEntry
    <3> QED BY <3>2, <3>3, <3>7, <3>8
  <2>10. CASE DOMAIN z = {"b"}
    <3> DEFINE p == AppAt(al, z.b.i)
               name == z.b.n
    <3>1. /\ z.b.i \in 0 .. n - 1
          /\ z.b.i # 0 => IsAppEntry(al[z.b.i], called)
      BY <1>3, <2>10, BoxSent
    <3>2. WithApp(before, p, called) = before /\ AppPosition(before, p, called) = z.b.i
      BY <3>1, AppAgain
    <3>3. rr = Box(p, name)
      BY <2>10, DecodeCases
    <3>4. DOMAIN rr = {"box"} /\ rr.box.appIndex = p /\ rr.box.name = name
      BY <3>3, ReferenceValues
    <3>5. z = [b |-> [i |-> z.b.i, n |-> name]]
      BY <2>1, <2>10, EntryIsRecord
    <3> HIDE DEF rr, p, name, z
    <3>6. Encode(before, rr, called) =
            Append(WithApp(before, p, called),
                   BoxEntry(WithApp(before, p, called), p, name, called))
      BY <3>4 DEF Encode, Has, BoxEntry
    <3>7. BoxEntry(before, p, name, called) = z
      BY <3>2, <3>5 DEF BoxEntry
    <3> QED BY <3>2, <3>6, <3>7
  <2> HIDE DEF z, rr
  <2> QED BY <2>1, <2>5, <2>6, <2>7, <2>8, <2>9, <2>10, EntryIsRecord
<1> QED BY <1>2, <1>3

\* A list that a peer reads is the same when it is written again.
LEMMA EncodedAgain ==
  ASSUME NEW called, NEW list, WellFormed(list, called), Decodable(Sent(list))
  PROVE  Sent(Encoded(Decoded(Sent(list)), called)) = Sent(list)
<1> DEFINE al == Sent(list)
           refs == Decoded(al)
           N == Len(list)
<1>1. /\ list \in Seq(Entry) /\ N \in Nat /\ DOMAIN list = 1 .. N
      /\ DOMAIN al = 1 .. N /\ al \in Seq(Entry \cup {Empty})
  BY SentAt DEF WellFormed
<1>2. DOMAIN refs = 1 .. N /\ \A n \in 1 .. N : refs[n] = Decode(al, al[n])
  BY <1>1 DEF Decoded
<1>3. PICK g : /\ g[0] = <<>>
               /\ \A n \in 1 .. N : g[n] = Encode(g[n - 1], refs[n], called)
               /\ g[N] = Encoded(refs, called)
  <2>1. N \in Nat /\ DOMAIN refs = 1 .. N
    BY <1>1, <1>2
  <2> HIDE DEF refs, N
  <2> QED BY <2>1, EncodedSteps
<1> DEFINE S == {n \in 0 .. N : Rewritten(g[n], al, n + 1)}
<1>4. 0 \in S
  <2>1. g[0] \in Seq(Entry) /\ Len(g[0]) = 0
    BY <1>3
  <2> QED BY <1>1, <2>1 DEF Rewritten
<1>5. ASSUME NEW n \in 1 .. N, n - 1 \in S PROVE n \in S
  <2>1. Rewritten(g[n - 1], al, n) /\ n \in DOMAIN list
    <3>1. Rewritten(g[n - 1], al, n - 1 + 1)
      BY <1>5
    <3>2. n - 1 + 1 = n
      BY <1>5
    <3> QED BY <1>1, <3>1, <3>2
  <2>2. PICK e \in Entry : /\ SentEntry(e) = al[n]
                           /\ Encode(g[n - 1], Decode(al, al[n]), called) = Append(g[n - 1], e)
    BY <2>1, EncodeAgain
  <2>3. g[n] = Append(g[n - 1], e)
    BY <1>2, <1>3, <2>2
  <2>4. g[n - 1] \in Seq(Entry) /\ Len(g[n - 1]) = n - 1
    BY <2>1 DEF Rewritten
  <2>5. /\ g[n] \in Seq(Entry) /\ Len(g[n]) = n /\ g[n][n] = e
        /\ \A j \in 1 .. n - 1 : g[n][j] = g[n - 1][j]
    BY <2>3, <2>4
  <2>6. \A j \in 1 .. n : SentEntry(g[n][j]) = al[j]
    <3>1. \A j \in 1 .. n - 1 : SentEntry(g[n][j]) = al[j]
      BY <2>1, <2>5 DEF Rewritten
    <3>2. SentEntry(g[n][n]) = al[n]
      BY <2>2, <2>5
    <3> QED BY <3>1, <3>2
  <2>7. Rewritten(g[n], al, n + 1)
    BY <2>5, <2>6 DEF Rewritten
  <2> QED BY <1>1, <2>7
<1>6. N \in S
  <2> HIDE DEF S
  <2> QED BY <1>1, <1>4, <1>5, InductionUpTo, SMTT(30)
<1>7. /\ g[N] \in Seq(Entry) /\ DOMAIN g[N] = 1 .. N
      /\ \A j \in 1 .. N : SentEntry(g[N][j]) = al[j]
  BY <1>1, <1>6 DEF Rewritten
<1>8. Sent(g[N]) \in Seq(Entry \cup {Empty}) /\ Len(Sent(g[N])) = N
      /\ \A j \in 1 .. N : Sent(g[N])[j] = al[j]
  BY <1>7, SentAt
<1>9. Sent(g[N]) = al
  BY <1>1, <1>8
<1> QED BY <1>3, <1>9

\* The entry that another refers to as an address, an asset or an application.
LEMMA EntryAt ==
  ASSUME NEW al \in Seq(Sendable), NEW x
  PROVE  /\ PointsTo(al, x, "d") =>
              /\ x \in DOMAIN al /\ al[x] # Empty /\ DOMAIN al[x] = {"d"}
              /\ al[x] = [d |-> al[x].d] /\ al[x].d \in Address \ {ZeroAddress}
         /\ PointsTo(al, x, "s") =>
              /\ x \in DOMAIN al /\ al[x] # Empty /\ DOMAIN al[x] = {"s"}
              /\ al[x] = [s |-> al[x].s] /\ al[x].s \in AssetIDs \ {0}
         /\ PointsTo(al, x, "p") =>
              /\ x \in DOMAIN al /\ al[x] # Empty /\ DOMAIN al[x] = {"p"}
              /\ al[x] = [p |-> al[x].p] /\ al[x].p \in AppIDs \ {0}
<1>1. ASSUME NEW key, PointsTo(al, x, key)
      PROVE  /\ x \in DOMAIN al /\ al[x] # Empty /\ key \in DOMAIN al[x]
             /\ al[x] \in Entry /\ al[x] \notin DefaultEntries
  <2>1. x \in DOMAIN al /\ key \in DOMAIN al[x] /\ al[x] \in Sendable
    BY <1>1 DEF PointsTo, Has
  <2> QED BY <2>1, EmptyHasNoKey DEF Sendable
<1>2. CASE PointsTo(al, x, "d")
  <2>1. /\ x \in DOMAIN al /\ al[x] # Empty /\ "d" \in DOMAIN al[x]
        /\ al[x] \in Entry /\ al[x] \notin DefaultEntries
    BY <1>1, <1>2
  <2>2. DOMAIN al[x] = {"d"} /\ al[x] = [d |-> al[x].d] /\ al[x].d \in Address
    BY <2>1, EntryIsRecord
  <2>3. al[x].d # ZeroAddress
    BY <2>1, <2>2 DEF DefaultEntries
  <2>4. ~PointsTo(al, x, "s") /\ ~PointsTo(al, x, "p")
    BY <2>2 DEF PointsTo, Has
  <2> QED BY <2>1, <2>2, <2>3, <2>4
<1>3. CASE PointsTo(al, x, "s")
  <2>1. x \in DOMAIN al /\ al[x] # Empty /\ "s" \in DOMAIN al[x] /\ al[x] \in Entry
    BY <1>1, <1>3
  <2>2. DOMAIN al[x] = {"s"} /\ al[x] = [s |-> al[x].s] /\ al[x].s \in AssetIDs \ {0}
    BY <2>1, EntryIsRecord
  <2>3. ~PointsTo(al, x, "d") /\ ~PointsTo(al, x, "p")
    BY <2>2 DEF PointsTo, Has
  <2> QED BY <2>1, <2>2, <2>3
<1>4. CASE PointsTo(al, x, "p")
  <2>1. x \in DOMAIN al /\ al[x] # Empty /\ "p" \in DOMAIN al[x] /\ al[x] \in Entry
    BY <1>1, <1>4
  <2>2. DOMAIN al[x] = {"p"} /\ al[x] = [p |-> al[x].p] /\ al[x].p \in AppIDs \ {0}
    BY <2>1, EntryIsRecord
  <2>3. ~PointsTo(al, x, "d") /\ ~PointsTo(al, x, "s")
    BY <2>2 DEF PointsTo, Has
  <2> QED BY <2>1, <2>2, <2>3
<1> QED BY <1>2, <1>3, <1>4

\* What the positions of an entry are of, in a list that a peer reads.
LEMMA EntryRefers ==
  ASSUME NEW al \in Seq(Sendable), Decodable(al), NEW n \in DOMAIN al, al[n] # Empty
  PROVE  /\ al[n] \in Entry
         /\ DOMAIN al[n] = {"h"} =>
              /\ al[n].h.d \in Nat /\ al[n].h.s \in Nat
              /\ al[n].h.d = 0 \/ PointsTo(al, al[n].h.d, "d")
              /\ PointsTo(al, al[n].h.s, "s")
         /\ DOMAIN al[n] = {"l"} =>
              /\ al[n].l.d \in Nat /\ al[n].l.p \in Nat
              /\ al[n].l.d = 0 \/ PointsTo(al, al[n].l.d, "d")
              /\ al[n].l.p = 0 \/ PointsTo(al, al[n].l.p, "p")
         /\ DOMAIN al[n] = {"b"} =>
              /\ al[n].b.i \in Nat /\ al[n].b.n \in Name
              /\ al[n].b.i = 0 \/ PointsTo(al, al[n].b.i, "p")
<1>1. al[n] \in Entry
  BY DEF Sendable
<1>2. al[n] \in Range(al)
  BY DEF Range
<1>3. /\ DOMAIN al[n] = {"h"} =>
           /\ al[n].h.d = 0 \/ PointsTo(al, al[n].h.d, "d")
           /\ PointsTo(al, al[n].h.s, "s")
      /\ DOMAIN al[n] = {"l"} =>
           /\ al[n].l.d = 0 \/ PointsTo(al, al[n].l.d, "d")
           /\ al[n].l.p = 0 \/ PointsTo(al, al[n].l.p, "p")
      /\ DOMAIN al[n] = {"b"} => al[n].b.i = 0 \/ PointsTo(al, al[n].b.i, "p")
  BY <1>2 DEF Decodable, Has
<1>4. /\ DOMAIN al[n] = {"h"} => al[n].h.d \in Nat /\ al[n].h.s \in Nat
      /\ DOMAIN al[n] = {"l"} => al[n].l.d \in Nat /\ al[n].l.p \in Nat
      /\ DOMAIN al[n] = {"b"} => al[n].b.i \in Nat /\ al[n].b.n \in Name
  BY <1>1, EntryIsRecord
<1> QED BY <1>1, <1>3, <1>4

\* The address or the application that a position is of, with the entry that
\* reads as it.
LEMMA ReadAt ==
  ASSUME NEW al \in Seq(Sendable), NEW x
  PROVE  /\ x = 0 \/ PointsTo(al, x, "d") =>
              /\ AddressAt(al, x) \in Address
              /\ x # 0 => /\ AddressAt(al, x) # ZeroAddress
                          /\ Decode(al, al[x]) = [address |-> AddressAt(al, x)]
         /\ x = 0 \/ PointsTo(al, x, "p") =>
              /\ AppAt(al, x) \in AppIDs
              /\ x # 0 => /\ AppAt(al, x) # 0
                          /\ Decode(al, al[x]) = [appIndex |-> AppAt(al, x)]
         /\ PointsTo(al, x, "s") =>
              /\ al[x].s \in AssetIDs \ {0}
              /\ Decode(al, al[x]) = [assetIndex |-> al[x].s]
<1>1. ZeroAddress \in Address /\ 0 \in AppIDs
  BY ConstantsAssumption DEF AppIDs
<1>2. AddressAt(al, 0) = ZeroAddress /\ AppAt(al, 0) = 0
  BY DEF AddressAt, AppAt
<1>3. ASSUME PointsTo(al, x, "d"), x # 0
      PROVE  /\ AddressAt(al, x) \in Address \ {ZeroAddress}
             /\ Decode(al, al[x]) = [address |-> AddressAt(al, x)]
  <2>1. AddressAt(al, x) = al[x].d
    BY <1>3 DEF AddressAt
  <2>2. DOMAIN al[x] = {"d"} /\ al[x].d \in Address \ {ZeroAddress}
    BY <1>3, EntryAt
  <2>3. Decode(al, al[x]) = [address |-> al[x].d]
    BY <2>2, DecodeCases
  <2> QED BY <2>1, <2>2, <2>3
<1>4. ASSUME PointsTo(al, x, "p"), x # 0
      PROVE  /\ AppAt(al, x) \in AppIDs \ {0}
             /\ Decode(al, al[x]) = [appIndex |-> AppAt(al, x)]
  <2>1. AppAt(al, x) = al[x].p
    BY <1>4 DEF AppAt
  <2>2. DOMAIN al[x] = {"p"} /\ al[x].p \in AppIDs \ {0}
    BY <1>4, EntryAt
  <2>3. Decode(al, al[x]) = [appIndex |-> al[x].p]
    BY <2>2, DecodeCases
  <2> QED BY <2>1, <2>2, <2>3
<1>5. ASSUME PointsTo(al, x, "s")
      PROVE  /\ al[x].s \in AssetIDs \ {0}
             /\ Decode(al, al[x]) = [assetIndex |-> al[x].s]
  <2>1. DOMAIN al[x] = {"s"} /\ al[x].s \in AssetIDs \ {0}
    BY <1>5, EntryAt
  <2> QED BY <2>1, DecodeCases
<1> QED BY <1>1, <1>2, <1>3, <1>4, <1>5

\* What an entry is read as, of any list that a peer reads: a reference that
\* names something, and the resources that it is in were read of entries too.
IsReadOf(al, rr) ==
  /\ rr \in TxnReferences /\ NamesAsset(rr) /\ ~NamesNothing(rr)
  /\ \A part \in Parts(rr) :
       /\ ~NeedsNoEntry(part) /\ Means(part) = part
       /\ \E m \in DOMAIN al : part = Decode(al, al[m])

LEMMA EntryIsRead ==
  ASSUME NEW al \in Seq(Sendable), Decodable(al), NEW n \in DOMAIN al
  PROVE  IsReadOf(al, Decode(al, al[n]))
<1> DEFINE z == al[n]
           rr == Decode(al, z)
<1>1. /\ ZeroAddress \in Address /\ EmptyName \in Name /\ 0 \in AppIDs
      /\ TxnReferences = References(Address, AssetIDs, AppIDs, Name)
  BY ConstantsAssumption DEF TxnReferences, AppIDs
<1>2. \A x, key : key \in {"d", "s", "p"} /\ PointsTo(al, x, key) => x \in DOMAIN al
  BY DEF PointsTo
<1>3. \A a : a # ZeroAddress =>
        ~NeedsNoEntry([address |-> a]) /\ Means([address |-> a]) = [address |-> a]
  <2> SUFFICES ASSUME NEW a, a # ZeroAddress
               PROVE  ~NeedsNoEntry([address |-> a]) /\ Means([address |-> a]) = [address |-> a]
    OBVIOUS
  <2>1. DOMAIN [address |-> a] = {"address"} /\ [address |-> a] # [address |-> ZeroAddress]
    OBVIOUS
  <2> QED BY <2>1, NeedsCases, MeansCases
<1>4. \A x : /\ ~NeedsNoEntry([assetIndex |-> x]) /\ ~NeedsNoEntry([appIndex |-> x])
             /\ Means([assetIndex |-> x]) = [assetIndex |-> x]
             /\ Means([appIndex |-> x]) = [appIndex |-> x]
  <2> SUFFICES ASSUME NEW x
               PROVE  /\ ~NeedsNoEntry([assetIndex |-> x]) /\ ~NeedsNoEntry([appIndex |-> x])
                      /\ Means([assetIndex |-> x]) = [assetIndex |-> x]
                      /\ Means([appIndex |-> x]) = [appIndex |-> x]
    OBVIOUS
  <2>1. DOMAIN [assetIndex |-> x] = {"assetIndex"}
    BY Zenon
  <2>2. ~NeedsNoEntry([assetIndex |-> x]) /\ Means([assetIndex |-> x]) = [assetIndex |-> x]
    BY <2>1, NeedsCases, MeansCases
  <2>3. DOMAIN [appIndex |-> x] = {"appIndex"}
    BY Zenon
  <2>4. ~NeedsNoEntry([appIndex |-> x]) /\ Means([appIndex |-> x]) = [appIndex |-> x]
    BY <2>3, NeedsCases, MeansCases
  <2> QED BY <2>2, <2>4
<1>5. ASSUME NEW x, x = 0 \/ PointsTo(al, x, "d"), NEW part \in Addresses(AddressAt(al, x))
      PROVE  /\ ~NeedsNoEntry(part) /\ Means(part) = part
             /\ \E m \in DOMAIN al : part = Decode(al, al[m])
  <2>1. part = [address |-> AddressAt(al, x)] /\ AddressAt(al, x) # ZeroAddress
    BY <1>5 DEF Addresses
  <2>2. x # 0
    BY <2>1 DEF AddressAt
  <2>3. x \in DOMAIN al /\ part = Decode(al, al[x])
    BY <1>2, <1>5, <2>1, <2>2, ReadAt
  <2> QED BY <1>3, <2>1, <2>3
<1>6. ASSUME NEW x, x = 0 \/ PointsTo(al, x, "p"), NEW part \in ForeignApps(AppAt(al, x))
      PROVE  /\ ~NeedsNoEntry(part) /\ Means(part) = part
             /\ \E m \in DOMAIN al : part = Decode(al, al[m])
  <2>1. part = [appIndex |-> AppAt(al, x)] /\ AppAt(al, x) # 0
    BY <1>6 DEF ForeignApps, IsOwn
  <2>2. x # 0
    BY <2>1 DEF AppAt
  <2>3. x \in DOMAIN al /\ part = Decode(al, al[x])
    BY <1>2, <1>6, <2>1, <2>2, ReadAt
  <2> QED BY <1>4, <2>1, <2>3
<1>7. CASE z = Empty
  <2>1. rr = Box(0, EmptyName)
    BY <1>7, DecodeCases
  <2>2. rr \in TxnReferences
    BY <1>1, <2>1, ReferencesTyped
  <2>3. DOMAIN rr = {"box"} /\ rr.box.appIndex = 0
    BY <2>1, ReferenceValues
  <2> HIDE DEF rr
  <2>4. Parts(rr) = {}
    BY <2>3, PartsCases DEF ForeignApps, IsOwn
  <2>5. NamesAsset(rr) /\ ~NamesNothing(rr)
    BY <2>3, NeedsCases DEF NamesAsset, Has
  <2> QED BY <2>2, <2>4, <2>5 DEF IsReadOf, rr
<1>8. CASE z # Empty
  <2>1. z \in Entry
    BY <1>8, EntryRefers
  <2>2. CASE DOMAIN z = {"d"}
    <3>1. z.d \in Address /\ rr = [address |-> z.d]
      BY <2>1, <2>2, EntryIsRecord, DecodeCases
    <3>2. rr \in TxnReferences /\ DOMAIN rr = {"address"}
      BY <1>1, <3>1, ReferencesTyped
    <3> HIDE DEF rr
    <3> QED BY <3>2, PartsCases, NeedsCases DEF IsReadOf, NamesAsset, Has, rr
  <2>3. CASE DOMAIN z = {"s"}
    <3>1. z.s \in AssetIDs \ {0} /\ rr = [assetIndex |-> z.s]
      BY <2>1, <2>3, EntryIsRecord, DecodeCases
    <3>2. rr \in TxnReferences /\ DOMAIN rr = {"assetIndex"} /\ rr # [assetIndex |-> 0]
      BY <1>1, <3>1, ReferencesTyped
    <3> HIDE DEF rr
    <3> QED BY <3>2, PartsCases, NeedsCases DEF IsReadOf, NamesAsset, Has, rr
  <2>4. CASE DOMAIN z = {"p"}
    <3>1. z.p \in AppIDs \ {0} /\ rr = [appIndex |-> z.p]
      BY <2>1, <2>4, EntryIsRecord, DecodeCases
    <3>2. rr \in TxnReferences /\ DOMAIN rr = {"appIndex"} /\ rr # [appIndex |-> 0]
      BY <1>1, <3>1, ReferencesTyped
    <3> HIDE DEF rr
    <3> QED BY <3>2, PartsCases, NeedsCases DEF IsReadOf, NamesAsset, Has, rr
  <2>5. CASE DOMAIN z = {"h"}
    <3> DEFINE x == z.h.d
               y == z.h.s
               a == AddressAt(al, x)
               id == al[y].s
    <3>1. (x = 0 \/ PointsTo(al, x, "d")) /\ PointsTo(al, y, "s")
      BY <1>8, <2>5, EntryRefers
    <3>2. rr = Holding(a, id)
      BY <2>5, DecodeCases
    <3> HIDE DEF z, rr, x, y
    <3>3. a \in Address /\ id \in AssetIDs \ {0} /\ Decode(al, al[y]) = [assetIndex |-> id]
      BY <3>1, ReadAt
    <3>4. rr \in TxnReferences
      BY <1>1, <3>2, <3>3, ReferencesTyped
    <3>5. /\ DOMAIN rr = {"holding"} /\ rr.holding.address = a
          /\ rr.holding.assetIndex = id
      BY <3>2, ReferenceValues
    <3>6. NamesAsset(rr) /\ ~NamesNothing(rr)
      BY <3>3, <3>5, NeedsCases DEF NamesAsset
    <3>7. Parts(rr) = Addresses(a) \cup {[assetIndex |-> id]}
      BY <3>5, PartsCases
    <3>8. y \in DOMAIN al
      BY <1>2, <3>1
    <3>9. \A part \in Parts(rr) :
            /\ ~NeedsNoEntry(part) /\ Means(part) = part
            /\ \E m \in DOMAIN al : part = Decode(al, al[m])
      BY <1>4, <1>5, <3>1, <3>3, <3>7, <3>8
    <3>10. IsReadOf(al, rr)
      BY <3>4, <3>6, <3>9 DEF IsReadOf
    <3> QED BY <3>10 DEF rr, z
  <2>6. CASE DOMAIN z = {"l"}
    <3> DEFINE x == z.l.d
               y == z.l.p
               a == AddressAt(al, x)
               id == AppAt(al, y)
    <3>1. (x = 0 \/ PointsTo(al, x, "d")) /\ (y = 0 \/ PointsTo(al, y, "p"))
      BY <1>8, <2>6, EntryRefers
    <3>2. rr = Locals(a, id)
      BY <2>6, DecodeCases
    <3> HIDE DEF z, rr, x, y
    <3>3. a \in Address /\ id \in AppIDs
      BY <3>1, ReadAt
    <3>4. rr \in TxnReferences
      BY <1>1, <3>2, <3>3, ReferencesTyped
    <3>5. /\ DOMAIN rr = {"locals"} /\ rr.locals.address = a
          /\ rr.locals.appIndex = id
      BY <3>2, ReferenceValues
    <3>6. NamesAsset(rr) /\ ~NamesNothing(rr)
      BY <3>5, NeedsCases DEF NamesAsset, Has
    <3>7. Parts(rr) = Addresses(a) \cup ForeignApps(id)
      BY <3>5, PartsCases
    <3>8. \A part \in Parts(rr) :
            /\ ~NeedsNoEntry(part) /\ Means(part) = part
            /\ \E m \in DOMAIN al : part = Decode(al, al[m])
      BY <1>5, <1>6, <3>1, <3>7
    <3>9. IsReadOf(al, rr)
      BY <3>4, <3>6, <3>8 DEF IsReadOf
    <3> QED BY <3>9 DEF rr, z
  <2>7. CASE DOMAIN z = {"b"}
    <3> DEFINE y == z.b.i
               id == AppAt(al, y)
               name == z.b.n
    <3>1. (y = 0 \/ PointsTo(al, y, "p")) /\ name \in Name
      BY <1>8, <2>7, EntryRefers
    <3>2. rr = Box(id, name)
      BY <2>7, DecodeCases
    <3> HIDE DEF z, rr, y, name
    <3>3. id \in AppIDs
      BY <3>1, ReadAt
    <3>4. rr \in TxnReferences
      BY <1>1, <3>1, <3>2, <3>3, ReferencesTyped
    <3>5. DOMAIN rr = {"box"} /\ rr.box.appIndex = id
      BY <3>2, ReferenceValues
    <3>6. NamesAsset(rr) /\ ~NamesNothing(rr)
      BY <3>5, NeedsCases DEF NamesAsset, Has
    <3>7. Parts(rr) = ForeignApps(id)
      BY <3>5, PartsCases
    <3>8. \A part \in Parts(rr) :
            /\ ~NeedsNoEntry(part) /\ Means(part) = part
            /\ \E m \in DOMAIN al : part = Decode(al, al[m])
      BY <1>6, <3>1, <3>7
    <3>9. IsReadOf(al, rr)
      BY <3>4, <3>6, <3>8 DEF IsReadOf
    <3> QED BY <3>9 DEF rr, z
  <2>8. DOMAIN z \in {{"d"}, {"s"}, {"p"}, {"h"}, {"l"}, {"b"}}
    BY <2>1, EntryIsRecord
  <2> HIDE DEF z
  <2> QED BY <2>2, <2>3, <2>4, <2>5, <2>6, <2>7, <2>8 DEF z
<1> QED BY <1>7, <1>8

\* What a peer reads of a list are references of a transaction.
LEMMA DecodedTypes ==
  ASSUME NEW al \in Seq(Sendable), Decodable(al)
  PROVE  /\ Decoded(al) \in Seq(TxnReferences)
         /\ DOMAIN Decoded(al) = DOMAIN al
         /\ \A n \in DOMAIN al : Decoded(al)[n] = Decode(al, al[n]) /\ IsReadOf(al, Decoded(al)[n])
<1>1. Decoded(al) = [n \in 1 .. Len(al) |-> Decode(al, al[n])] /\ DOMAIN al = 1 .. Len(al)
  BY DEF Decoded
<1>2. \A n \in DOMAIN al : IsReadOf(al, Decode(al, al[n]))
  BY EntryIsRead
<1>3. \A n \in 1 .. Len(al) : Decode(al, al[n]) \in TxnReferences
  BY <1>1, <1>2 DEF IsReadOf
<1>4. [n \in 1 .. Len(al) |-> Decode(al, al[n])] \in Seq(TxnReferences)
  BY <1>3
<1> QED BY <1>1, <1>2, <1>4

\* Whoever wrote the list that was read, what is written of it means the same,
\* and an empty box is read where the sender's own state had an entry.
LEMMA MeaningIsWritten ==
  ASSUME NEW al \in Seq(Sendable), Decodable(al)
  PROVE  LET again == Sent(Encoded(Decoded(al), appIndex.value))
             meant == {Means(rr) : rr \in {read \in Range(Decoded(al)) : ~NeedsNoEntry(read)}}
         IN  /\ again \in Seq(Sendable) /\ Decodable(again)
             /\ meant \subseteq Range(Decoded(again))
             /\ Range(Decoded(again)) \subseteq meant \cup {Box(0, EmptyName)}
<1> DEFINE refs == Decoded(al)
           list == Encoded(refs, appIndex.value)
           meant == {Means(rr) : rr \in {read \in Range(refs) : ~NeedsNoEntry(read)}}
<1>1. /\ refs \in Seq(TxnReferences) /\ DOMAIN refs = DOMAIN al
      /\ \A n \in DOMAIN al : refs[n] = Decode(al, al[n]) /\ IsReadOf(al, refs[n])
  BY DecodedTypes
<1> HIDE DEF refs
<1>2. \A k \in DOMAIN refs : NamesAsset(refs[k]) /\ ~NamesNothing(refs[k])
  BY <1>1 DEF IsReadOf
<1>3. /\ WellFormed(list, appIndex.value) /\ NamesAssets(list)
      /\ \A i \in DOMAIN list : \E k \in DOMAIN refs : Reason(refs[k], Meaning(list, i))
      /\ \A k \in DOMAIN refs :
           NeedsNoEntry(refs[k]) \/ \E i \in DOMAIN list : Meaning(list, i) = Means(refs[k])
  BY <1>1, <1>2, EncodedIsWellFormed, EncodedMeans
<1> HIDE DEF list
<1>4. /\ Decodable(Sent(list))
      /\ Range(Decoded(Sent(list))) = {Meaning(list, i) : i \in DOMAIN list}
  BY <1>3, ReadReferences
<1>5. Sent(list) \in Seq(Sendable)
  BY <1>3, SentIsSendable DEF WellFormed
<1>6. meant \subseteq Range(Decoded(Sent(list)))
  BY <1>3, <1>4 DEF Range
<1>7. \A k \in DOMAIN refs : ~NeedsNoEntry(refs[k]) => Means(refs[k]) \in meant
  BY DEF Range
<1>8. ASSUME NEW i \in DOMAIN list PROVE Meaning(list, i) \in meant \cup {Box(0, EmptyName)}
  <2> DEFINE r == Meaning(list, i)
  <2>1. PICK k \in DOMAIN refs : Reason(refs[k], r)
    BY <1>3
  <2> HIDE DEF r
  <2>2. CASE ~NeedsNoEntry(refs[k]) /\ r = Means(refs[k])
    BY <1>7, <2>2 DEF r
  <2>3. CASE r \in Parts(refs[k])
    <3>1. /\ ~NeedsNoEntry(r) /\ Means(r) = r
          /\ \E m \in DOMAIN al : r = Decode(al, al[m])
      BY <1>1, <2>3 DEF IsReadOf
    <3>2. PICK m \in DOMAIN refs : r = refs[m]
      BY <1>1, <3>1
    <3>3. Means(refs[m]) \in meant
      BY <1>7, <3>1, <3>2
    <3> QED BY <3>1, <3>2, <3>3 DEF r
  <2>4. CASE r = Box(0, EmptyName)
    BY <2>4 DEF r
  <2> QED BY <2>1, <2>2, <2>3, <2>4 DEF Reason
<1>9. Range(Decoded(Sent(list))) \subseteq meant \cup {Box(0, EmptyName)}
  BY <1>4, <1>8
<1> QED BY <1>4, <1>5, <1>6, <1>9 DEF list, refs

\* A list that is as this library writes it is that of some references, ...
LEMMA AsWrittenIsSent ==
  ASSUME NEW al \in Seq(Sendable), Decodable(al), IsAsWritten(al)
  PROVE  \E list : WellFormed(list, appIndex.value) /\ Sent(list) = al
<1> DEFINE called == appIndex.value
           box == [b |-> [i |-> 0, n |-> EmptyName]]
           list == [n \in 1 .. Len(al) |-> IF al[n] = Empty THEN box ELSE al[n]]
<1>1. Len(al) \in Nat /\ DOMAIN al = 1 .. Len(al) /\ \A n \in DOMAIN al : al[n] \in Sendable
  OBVIOUS
<1>2. box \in Entry /\ SentEntry(box) = Empty /\ DOMAIN box = {"b"} /\ box.b.i = 0
  BY ConstantsAssumption, EntryTypes, SentCases
<1> HIDE DEF box
<1>3. \A n \in DOMAIN al : al[n] # Empty => al[n] \in Entry /\ SentEntry(al[n]) = al[n]
  BY <1>1 DEF Sendable, SentEntry
<1>4. /\ DOMAIN list = 1 .. Len(al)
      /\ \A n \in DOMAIN al : list[n] = IF al[n] = Empty THEN box ELSE al[n]
  BY <1>1
<1>5. list \in Seq(Entry)
  BY <1>1, <1>2, <1>3
<1> HIDE DEF list
<1>6. Len(list) = Len(al)
  BY <1>1, <1>4, <1>5
<1>7. Sent(list) = al
  <2>1. \A n \in DOMAIN al : SentEntry(list[n]) = al[n]
    BY <1>2, <1>3, <1>4
  <2>2. /\ Sent(list) \in Seq(Entry \cup {Empty}) /\ Len(Sent(list)) = Len(al)
        /\ \A n \in DOMAIN al : Sent(list)[n] = al[n]
    BY <1>1, <1>4, <1>5, <1>6, <2>1, SentAt
  <2> QED BY <1>1, <2>2
<1>8. ASSUME NEW i \in DOMAIN list, NEW j \in DOMAIN list,
             Keyed(list[i]), list[i] = list[j]
      PROVE  i = j
  <2>1. list[i] # box
    BY <1>2, <1>8 DEF Keyed, Has
  <2>2. list[i] = al[i] /\ list[j] = al[j] /\ i \in DOMAIN al /\ j \in DOMAIN al
    BY <1>1, <1>4, <1>8, <2>1
  <2> QED BY <1>8, <2>2 DEF IsAsWritten, Keyed
<1>9. ASSUME NEW x, NEW key \in {"d", "s", "p"}, PointsTo(al, x, key)
      PROVE  x \in DOMAIN al /\ list[x] = al[x]
  <2>1. x \in DOMAIN al /\ al[x] # Empty
    <3>1. CASE key = "d"
      BY <1>9, <3>1, EntryAt
    <3>2. CASE key = "s"
      BY <1>9, <3>2, EntryAt
    <3>3. CASE key = "p"
      BY <1>9, <3>3, EntryAt
    <3> QED BY <3>1, <3>2, <3>3
  <2> QED BY <1>4, <2>1
<1>10. ASSUME NEW i \in DOMAIN list PROVE PointsBack(list, i, called)
  <2>1. i \in DOMAIN al /\ i \in 1 .. Len(al)
    BY <1>1, <1>4
  <2>2. CASE al[i] = Empty
    <3>1. list[i] = box
      BY <1>4, <2>1, <2>2
    <3>2. AppBefore(list, i, 0, called)
      BY <2>1 DEF AppBefore
    <3> QED BY <1>2, <3>1, <3>2 DEF PointsBack, Has
  <2>3. CASE al[i] # Empty
    <3>1. list[i] = al[i] /\ al[i] \in Entry
      BY <1>3, <1>4, <2>1, <2>3
    <3>2. ASSUME NEW x \in Nat, x = 0 \/ PointsTo(al, x, "d"), x < i
          PROVE  AddressBefore(list, i, x)
      <4>1. x # 0 => al[x] = [d |-> al[x].d] /\ al[x].d \in Address \ {ZeroAddress}
        BY <3>2, EntryAt
      <4>2. x # 0 => list[x] = al[x]
        BY <1>9, <3>2
      <4>3. x # 0 => list[x] \in [d : Address \ {ZeroAddress}]
        BY <4>1, <4>2
      <4>4. x \in 0 .. i - 1
        BY <2>1, <3>2
      <4> QED BY <4>3, <4>4 DEF AddressBefore
    <3>3. ASSUME NEW x \in Nat, x = 0 \/ PointsTo(al, x, "p"), IsPlaceOfApp(al, i, x)
          PROVE  AppBefore(list, i, x, called)
      <4>1. x # 0 => al[x] = [p |-> al[x].p] /\ al[x].p \in AppIDs \ {0}
        BY <3>3, EntryAt
      <4>2. x # 0 => list[x] = al[x] /\ al[x] # [p |-> called]
        BY <1>9, <3>3 DEF IsPlaceOfApp
      <4>3. x # 0 => list[x] = [p |-> al[x].p] /\ al[x].p \in AppIDs \ {0, called}
        BY <4>1, <4>2
      <4>4. x # 0 => list[x] \in [p : AppIDs \ {0, called}]
        BY <4>3
      <4>5. x \in 0 .. i - 1
        BY <2>1, <3>3 DEF IsPlaceOfApp
      <4> QED BY <4>4, <4>5 DEF AppBefore
    <3>4. ASSUME Has(list[i], "h")
          PROVE  AddressBefore(list, i, list[i].h.d) /\ list[i].h.s \in 0 .. i - 1
      <4>1. DOMAIN al[i] = {"h"}
        BY <3>1, <3>4, EntryIsRecord DEF Has
      <4>2. /\ al[i].h.d \in Nat /\ al[i].h.s \in Nat
            /\ al[i].h.d = 0 \/ PointsTo(al, al[i].h.d, "d")
        BY <2>1, <2>3, <4>1, EntryRefers
      <4>3. al[i].h.d < i /\ al[i].h.s < i
        BY <2>1, <3>1, <3>4 DEF IsAsWritten
      <4>4. AddressBefore(list, i, al[i].h.d)
        BY <3>2, <4>2, <4>3
      <4> QED BY <2>1, <3>1, <4>2, <4>3, <4>4
    <3>5. ASSUME Has(list[i], "l")
          PROVE  /\ AddressBefore(list, i, list[i].l.d)
                 /\ AppBefore(list, i, list[i].l.p, called)
      <4>1. DOMAIN al[i] = {"l"}
        BY <3>1, <3>5, EntryIsRecord DEF Has
      <4>2. /\ al[i].l.d \in Nat /\ al[i].l.p \in Nat
            /\ al[i].l.d = 0 \/ PointsTo(al, al[i].l.d, "d")
            /\ al[i].l.p = 0 \/ PointsTo(al, al[i].l.p, "p")
        BY <2>1, <2>3, <4>1, EntryRefers
      <4>3. al[i].l.d < i /\ IsPlaceOfApp(al, i, al[i].l.p)
        BY <2>1, <3>1, <3>5 DEF IsAsWritten
      <4> QED BY <3>1, <3>2, <3>3, <4>2, <4>3
    <3>6. ASSUME Has(list[i], "b")
          PROVE  AppBefore(list, i, list[i].b.i, called)
      <4>1. DOMAIN al[i] = {"b"}
        BY <3>1, <3>6, EntryIsRecord DEF Has
      <4>2. al[i].b.i \in Nat /\ (al[i].b.i = 0 \/ PointsTo(al, al[i].b.i, "p"))
        BY <2>1, <2>3, <4>1, EntryRefers
      <4>3. IsPlaceOfApp(al, i, al[i].b.i)
        BY <2>1, <3>1, <3>6 DEF IsAsWritten
      <4> QED BY <3>1, <3>3, <4>2, <4>3
    <3> QED BY <3>4, <3>5, <3>6 DEF PointsBack
  <2> QED BY <2>2, <2>3
<1>11. WellFormed(list, called)
  BY <1>5, <1>8, <1>10 DEF WellFormed
<1> QED BY <1>7, <1>11

\* ... and is the same when it is written again.
LEMMA AsWrittenIsWrittenAgain ==
  ASSUME NEW al \in Seq(Sendable), Decodable(al), IsAsWritten(al)
  PROVE  Sent(Encoded(Decoded(al), appIndex.value)) = al
<1>1. PICK list : WellFormed(list, appIndex.value) /\ Sent(list) = al
  BY AsWrittenIsSent
<1> QED BY <1>1, EncodedAgain

\* What encoding makes is as this library writes it.
LEMMA SentIsAsWritten ==
  ASSUME NEW list, WellFormed(list, appIndex.value)
  PROVE  IsAsWritten(Sent(list))
<1> DEFINE called == appIndex.value
           al == Sent(list)
<1>1. /\ list \in Seq(Entry) /\ DOMAIN al = DOMAIN list
      /\ DOMAIN list = 1 .. Len(list) /\ Len(list) \in Nat
  BY SentAt DEF WellFormed
<1>2. ASSUME NEW i \in DOMAIN al, NEW j \in DOMAIN al, al[i] = al[j],
             NEW key \in {"d", "s", "p"}, Has(al[i], key)
      PROVE  i = j
  <2>1. al[i] # Empty /\ Keyed(al[i])
    BY <1>2, EmptyHasNoKey DEF Keyed, Has
  <2> QED BY <1>1, <1>2, <2>1, SentIsWellFormed
<1>3. ASSUME NEW i \in DOMAIN al, NEW x, AppBefore(list, i, x, called)
      PROVE  IsPlaceOfApp(al, i, x)
  <2>1. x \in 0 .. i - 1 /\ (x # 0 => IsAppEntry(al[x], called))
    BY <1>1, <1>3, TargetSent
  <2>2. x # 0 => al[x] # [p |-> called]
    BY <2>1 DEF IsAppEntry, IsForeign
  <2>3. x < i
    BY <1>1, <2>1
  <2> QED BY <2>2, <2>3 DEF IsPlaceOfApp
<1>4. ASSUME NEW i \in DOMAIN al, NEW key, Has(al[i], key)
      PROVE  al[i] = list[i] /\ Has(list[i], key) /\ PointsBack(list, i, called) /\ i \in Nat
  <2>1. al[i] # Empty
    BY <1>4, EmptyHasNoKey DEF Has
  <2>2. al[i] = list[i]
    BY <1>1, <2>1, SentIsWellFormed
  <2> QED BY <1>1, <1>4, <2>2 DEF WellFormed
<1>5. ASSUME NEW i \in DOMAIN al
      PROVE  /\ Has(al[i], "h") => al[i].h.d < i /\ al[i].h.s < i
             /\ Has(al[i], "l") => al[i].l.d < i /\ IsPlaceOfApp(al, i, al[i].l.p)
             /\ Has(al[i], "b") => IsPlaceOfApp(al, i, al[i].b.i)
  <2>1. Has(al[i], "h") => al[i].h.d < i /\ al[i].h.s < i
    BY <1>4 DEF PointsBack, AddressBefore
  <2>2. Has(al[i], "l") => al[i].l.d < i /\ IsPlaceOfApp(al, i, al[i].l.p)
    BY <1>3, <1>4 DEF PointsBack, AddressBefore
  <2>3. Has(al[i], "b") => IsPlaceOfApp(al, i, al[i].b.i)
    BY <1>3, <1>4 DEF PointsBack
  <2> QED BY <2>1, <2>2, <2>3
<1> HIDE DEF al
<1>6. IsAsWritten(al)
  BY <1>2, <1>5 DEF IsAsWritten
<1> QED BY <1>6 DEF al

-----------------------------------------------------------------------------
(* References that are made of arrays *)

AppReferences == References(Address, Asset, App, Name)

\* The resources that rr is in, as foreignArraysToResourceReferences adds them.
Added(r, rr, called) ==
  \/ /\ DOMAIN rr = {"holding"}
     /\ \/ r = [address |-> rr.holding.address] /\ rr.holding.address # ZeroAddress
        \/ r = [assetIndex |-> rr.holding.assetIndex]
  \/ /\ DOMAIN rr = {"locals"}
     /\ \/ r = [address |-> rr.locals.address] /\ rr.locals.address # ZeroAddress
        \/ r = [appIndex |-> rr.locals.appIndex] /\ IsOther(rr.locals.appIndex, called)
  \/ /\ DOMAIN rr = {"box"}
     /\ r = [appIndex |-> rr.box.appIndex] /\ IsOther(rr.box.appIndex, called)

\* A list with a reference more.
LEMMA WithReferenceStep ==
  ASSUME NEW U, NEW list \in Seq(U), NEW r \in U
  PROVE  /\ WithReference(list, r) \in Seq(U)
         /\ Range(WithReference(list, r)) = Range(list) \cup {r}
         /\ Append(list, r) \in Seq(U) /\ Range(Append(list, r)) = Range(list) \cup {r}
<1>1. Append(list, r) \in Seq(U) /\ Range(Append(list, r)) = Range(list) \cup {r}
  <2>1. /\ Append(list, r) \in Seq(U) /\ DOMAIN Append(list, r) = 1 .. Len(list) + 1
        /\ \A i \in 1 .. Len(list) : Append(list, r)[i] = list[i]
        /\ Append(list, r)[Len(list) + 1] = r /\ DOMAIN list = 1 .. Len(list)
        /\ Len(list) \in Nat
    OBVIOUS
  <2>2. 1 .. Len(list) + 1 = (1 .. Len(list)) \cup {Len(list) + 1}
    BY <2>1
  <2>3. Range(Append(list, r)) = Range(list) \cup {r}
    BY <2>1, <2>2 DEF Range
  <2> QED BY <2>1, <2>3
<1>2. CASE r \in Range(list)
  BY <1>1, <1>2 DEF WithReference
<1>3. CASE r \notin Range(list)
  BY <1>1, <1>3 DEF WithReference
<1> QED BY <1>2, <1>3

\* Making sure of a resource adds it.
LEMMA EnsureStep ==
  ASSUME NEW list \in Seq(AppReferences)
  PROVE  /\ \A a \in Address :
              /\ EnsureAddress(list, a) \in Seq(AppReferences)
              /\ Range(EnsureAddress(list, a)) = Range(list) \cup Addresses(a)
         /\ \A s \in Asset :
              /\ EnsureAsset(list, s) \in Seq(AppReferences)
              /\ Range(EnsureAsset(list, s)) = Range(list) \cup {[assetIndex |-> s]}
         /\ \A p \in App :
              /\ EnsureApp(list, p) \in Seq(AppReferences)
              /\ Range(EnsureApp(list, p)) = Range(list) \cup {[appIndex |-> p]}
<1>1. ASSUME NEW a \in Address
      PROVE  /\ EnsureAddress(list, a) \in Seq(AppReferences)
             /\ Range(EnsureAddress(list, a)) = Range(list) \cup Addresses(a)
  <2>1. [address |-> a] \in AppReferences
    BY ReferencesTyped DEF AppReferences
  <2>2. /\ WithReference(list, [address |-> a]) \in Seq(AppReferences)
        /\ Range(WithReference(list, [address |-> a])) = Range(list) \cup {[address |-> a]}
    BY <2>1, WithReferenceStep
  <2> QED BY <2>2 DEF EnsureAddress, Addresses
<1>2. ASSUME NEW s \in Asset
      PROVE  /\ EnsureAsset(list, s) \in Seq(AppReferences)
             /\ Range(EnsureAsset(list, s)) = Range(list) \cup {[assetIndex |-> s]}
  <2>1. [assetIndex |-> s] \in AppReferences
    BY ReferencesTyped DEF AppReferences
  <2> QED BY <2>1, WithReferenceStep DEF EnsureAsset
<1>3. ASSUME NEW p \in App
      PROVE  /\ EnsureApp(list, p) \in Seq(AppReferences)
             /\ Range(EnsureApp(list, p)) = Range(list) \cup {[appIndex |-> p]}
  <2>1. [appIndex |-> p] \in AppReferences
    BY ReferencesTyped DEF AppReferences
  <2> QED BY <2>1, WithReferenceStep DEF EnsureApp
<1> QED BY <1>1, <1>2, <1>3

\* Making sure of an application that is not the called one adds that.
LEMMA EnsureOtherStep ==
  ASSUME NEW called, NEW list \in Seq(AppReferences), NEW p \in App
  PROVE  /\ EnsureOther(list, p, called) \in Seq(AppReferences)
         /\ Range(EnsureOther(list, p, called)) =
              Range(list) \cup (IF IsOther(p, called) THEN {[appIndex |-> p]} ELSE {})
<1>1. CASE IsOther(p, called)
  BY <1>1, EnsureStep DEF EnsureOther
<1>2. CASE ~IsOther(p, called)
  BY <1>2 DEF EnsureOther
<1> QED BY <1>1, <1>2

\* One turn of the loops adds the element, but for the address of zeros, and
\* the resources that it is in, and nothing else.
LEMMA ConvertStep ==
  ASSUME NEW called, NEW list \in Seq(AppReferences), NEW rr \in AppReferences
  PROVE  /\ Convert(list, rr, called) \in Seq(AppReferences)
         /\ Range(list) \subseteq Range(Convert(list, rr, called))
         /\ rr = [address |-> ZeroAddress] \/ rr \in Range(Convert(list, rr, called))
         /\ \A r \in Range(Convert(list, rr, called)) :
              r \in Range(list) \/ r = rr \/ Added(r, rr, called)
<1> DEFINE longer == Convert(list, rr, called)
<1>1. CASE DOMAIN rr = {"address"}
  <2>1. rr.address \in Address /\ rr = [address |-> rr.address]
    BY <1>1, ReferenceCases DEF AppReferences
  <2>2. longer = EnsureAddress(list, rr.address)
    BY <1>1, ConvertCases
  <2>3. longer \in Seq(AppReferences) /\ Range(longer) = Range(list) \cup Addresses(rr.address)
    BY <2>1, <2>2, EnsureStep
  <2>4. Addresses(rr.address) = IF rr.address = ZeroAddress THEN {} ELSE {rr}
    BY <2>1 DEF Addresses
  <2>5. rr.address = ZeroAddress => rr = [address |-> ZeroAddress]
    BY <2>1
  <2> HIDE DEF longer
  <2>6. /\ Range(list) \subseteq Range(longer)
        /\ rr = [address |-> ZeroAddress] \/ rr \in Range(longer)
        /\ \A r \in Range(longer) : r \in Range(list) \/ r = rr
    BY <2>3, <2>4, <2>5
  <2> QED BY <2>3, <2>6 DEF longer
<1>2. CASE DOMAIN rr = {"assetIndex"}
  <2>1. rr.assetIndex \in Asset /\ rr = [assetIndex |-> rr.assetIndex]
    BY <1>2, ReferenceCases DEF AppReferences
  <2>2. longer = EnsureAsset(list, rr.assetIndex)
    BY <1>2, ConvertCases
  <2>3. /\ longer \in Seq(AppReferences)
        /\ Range(longer) = Range(list) \cup {[assetIndex |-> rr.assetIndex]}
    BY <2>1, <2>2, EnsureStep
  <2>4. Range(longer) = Range(list) \cup {rr}
    BY <2>1, <2>3
  <2> QED BY <2>3, <2>4
<1>3. CASE DOMAIN rr = {"appIndex"}
  <2>1. rr.appIndex \in App /\ rr = [appIndex |-> rr.appIndex]
    BY <1>3, ReferenceCases DEF AppReferences
  <2>2. longer = EnsureApp(list, rr.appIndex)
    BY <1>3, ConvertCases
  <2>3. /\ longer \in Seq(AppReferences)
        /\ Range(longer) = Range(list) \cup {[appIndex |-> rr.appIndex]}
    BY <2>1, <2>2, EnsureStep
  <2>4. Range(longer) = Range(list) \cup {rr}
    BY <2>1, <2>3
  <2> QED BY <2>3, <2>4
<1>4. CASE DOMAIN rr = {"holding"}
  <2> DEFINE a == rr.holding.address
             s == rr.holding.assetIndex
             first == EnsureAddress(list, a)
             full == EnsureAsset(first, s)
  <2>1. a \in Address /\ s \in Asset
    BY <1>4, ReferenceCases DEF AppReferences
  <2>2. longer = Append(full, rr)
    BY <1>4, ConvertCases
  <2>3. first \in Seq(AppReferences) /\ Range(first) = Range(list) \cup Addresses(a)
    BY <2>1, EnsureStep
  <2>4. full \in Seq(AppReferences) /\ Range(full) = Range(first) \cup {[assetIndex |-> s]}
    BY <2>1, <2>3, EnsureStep
  <2>5. longer \in Seq(AppReferences) /\ Range(longer) = Range(full) \cup {rr}
    BY <2>2, <2>4, WithReferenceStep
  <2>6. \A r \in Addresses(a) \cup {[assetIndex |-> s]} : Added(r, rr, called)
    BY <1>4 DEF Added, Addresses
  <2> HIDE DEF longer, full, first
  <2>7. /\ Range(list) \subseteq Range(longer) /\ rr \in Range(longer)
        /\ \A r \in Range(longer) : r \in Range(list) \/ r = rr \/ Added(r, rr, called)
    BY <2>3, <2>4, <2>5, <2>6
  <2> QED BY <2>5, <2>7 DEF longer
<1>5. CASE DOMAIN rr = {"locals"}
  <2> DEFINE a == rr.locals.address
             p == rr.locals.appIndex
             first == EnsureAddress(list, a)
             full == EnsureOther(first, p, called)
             others == IF IsOther(p, called) THEN {[appIndex |-> p]} ELSE {}
  <2>1. a \in Address /\ p \in App
    BY <1>5, ReferenceCases DEF AppReferences
  <2>2. longer = Append(full, rr)
    BY <1>5, ConvertCases
  <2>3. first \in Seq(AppReferences) /\ Range(first) = Range(list) \cup Addresses(a)
    BY <2>1, EnsureStep
  <2>4. full \in Seq(AppReferences) /\ Range(full) = Range(first) \cup others
    BY <2>1, <2>3, EnsureOtherStep
  <2>5. longer \in Seq(AppReferences) /\ Range(longer) = Range(full) \cup {rr}
    BY <2>2, <2>4, WithReferenceStep
  <2>6. \A r \in Addresses(a) \cup others : Added(r, rr, called)
    BY <1>5 DEF Added, Addresses
  <2> HIDE DEF longer, full, first, others
  <2>7. /\ Range(list) \subseteq Range(longer) /\ rr \in Range(longer)
        /\ \A r \in Range(longer) : r \in Range(list) \/ r = rr \/ Added(r, rr, called)
    BY <2>3, <2>4, <2>5, <2>6
  <2> QED BY <2>5, <2>7 DEF longer
<1>6. CASE DOMAIN rr = {"box"}
  <2> DEFINE p == rr.box.appIndex
             full == EnsureOther(list, p, called)
             others == IF IsOther(p, called) THEN {[appIndex |-> p]} ELSE {}
  <2>1. p \in App
    BY <1>6, ReferenceCases DEF AppReferences
  <2>2. longer = Append(full, rr)
    BY <1>6, ConvertCases
  <2>3. full \in Seq(AppReferences) /\ Range(full) = Range(list) \cup others
    BY <2>1, EnsureOtherStep
  <2>4. longer \in Seq(AppReferences) /\ Range(longer) = Range(full) \cup {rr}
    BY <2>2, <2>3, WithReferenceStep
  <2>5. \A r \in others : Added(r, rr, called)
    BY <1>6 DEF Added
  <2> HIDE DEF longer, full, others
  <2>6. /\ Range(list) \subseteq Range(longer) /\ rr \in Range(longer)
        /\ \A r \in Range(longer) : r \in Range(list) \/ r = rr \/ Added(r, rr, called)
    BY <2>3, <2>4, <2>5
  <2> QED BY <2>4, <2>6 DEF longer
<1>7. \/ DOMAIN rr = {"address"} \/ DOMAIN rr = {"assetIndex"} \/ DOMAIN rr = {"appIndex"}
      \/ DOMAIN rr = {"holding"} \/ DOMAIN rr = {"locals"} \/ DOMAIN rr = {"box"}
  BY ReferenceCases DEF AppReferences
<1> QED BY <1>1, <1>2, <1>3, <1>4, <1>5, <1>6, <1>7

\* The references that are made of arrays are the elements of these, but for
\* addresses of zeros, and the resources that they are in.
LEMMA ConvertedHolds ==
  ASSUME NEW called, NEW elements \in Seq(AppReferences)
  PROVE  /\ Converted(elements, called) \in Seq(AppReferences)
         /\ \A k \in DOMAIN elements :
              \/ elements[k] = [address |-> ZeroAddress]
              \/ elements[k] \in Range(Converted(elements, called))
         /\ \A r \in Range(Converted(elements, called)) :
              \E k \in DOMAIN elements : r = elements[k] \/ Added(r, elements[k], called)
<1> DEFINE N == Len(elements)
<1>1. /\ N \in Nat /\ DOMAIN elements = 1 .. N
      /\ \A n \in 1 .. N : elements[n] \in AppReferences
  OBVIOUS
<1> HIDE DEF N
<1>2. PICK g : /\ g[0] = <<>>
               /\ \A n \in 1 .. N : g[n] = Convert(g[n - 1], elements[n], called)
               /\ g[N] = Converted(elements, called)
  BY <1>1, ConvertedSteps
<1> DEFINE HasAll(n) ==
             \A k \in 1 .. n :
               elements[k] = [address |-> ZeroAddress] \/ elements[k] \in Range(g[n])
           HasOnly(n) ==
             \A r \in Range(g[n]) :
               \E k \in 1 .. n : r = elements[k] \/ Added(r, elements[k], called)
           S == {n \in 0 .. N : g[n] \in Seq(AppReferences) /\ HasAll(n) /\ HasOnly(n)}
<1>3. 0 \in S
  <2>1. g[0] \in Seq(AppReferences) /\ 1 .. 0 = {} /\ Range(g[0]) = {}
    BY <1>2 DEF Range
  <2> QED BY <1>1, <2>1
<1>4. ASSUME NEW n \in 1 .. N, n - 1 \in S PROVE n \in S
  <2> DEFINE list == g[n - 1]
             longer == g[n]
             rr == elements[n]
  <2>1. list \in Seq(AppReferences) /\ HasAll(n - 1) /\ HasOnly(n - 1)
    BY <1>4
  <2>2. longer = Convert(list, rr, called) /\ rr \in AppReferences
    BY <1>1, <1>2
  <2>3. /\ longer \in Seq(AppReferences)
        /\ Range(list) \subseteq Range(longer)
        /\ rr = [address |-> ZeroAddress] \/ rr \in Range(longer)
        /\ \A r \in Range(longer) : r \in Range(list) \/ r = rr \/ Added(r, rr, called)
    BY <2>1, <2>2, ConvertStep
  <2>4. \A k \in 1 .. n : k \in 1 .. n - 1 \/ k = n
    BY <1>1
  <2>5. HasAll(n)
    BY <2>1, <2>3, <2>4
  <2>6. ASSUME NEW r \in Range(longer)
        PROVE  \E k \in 1 .. n : r = elements[k] \/ Added(r, elements[k], called)
    <3>1. CASE r \in Range(list)
      <4>1. PICK k \in 1 .. n - 1 : r = elements[k] \/ Added(r, elements[k], called)
        BY <2>1, <3>1
      <4>2. k \in 1 .. n
        BY <1>1
      <4> QED BY <4>1, <4>2
    <3>2. CASE r \notin Range(list)
      <4>1. n \in 1 .. n
        BY <1>1
      <4>2. r = elements[n] \/ Added(r, elements[n], called)
        BY <2>3, <3>2
      <4> QED BY <4>1, <4>2
    <3> QED BY <3>1, <3>2
  <2>7. HasOnly(n)
    BY <2>6
  <2> HIDE DEF HasAll, HasOnly
  <2>8. n \in 0 .. N
    BY <1>1
  <2> QED BY <2>3, <2>5, <2>7, <2>8
<1>5. N \in S
  <2> HIDE DEF S
  <2> QED BY <1>1, <1>3, <1>4, InductionUpTo
<1>6. g[N] \in Seq(AppReferences) /\ HasAll(N) /\ HasOnly(N)
  BY <1>5
<1> QED BY <1>1, <1>2, <1>6

-----------------------------------------------------------------------------
(* What transactions are made of *)

\* The IDs of the elements become numbers.
LEMMA ConstructedTypes ==
  ASSUME NEW list \in Seq(AppReferences)
  PROVE  /\ ConstructedAll(list) \in Seq(TxnReferences)
         /\ DOMAIN ConstructedAll(list) = DOMAIN list
         /\ \A k \in DOMAIN list : ConstructedAll(list)[k] = Constructed(list[k])
<1>1. Asset \subseteq ID /\ App \subseteq ID /\ EmptyName \in Name
  BY ConstantsAssumption
<1>2. TxnReferences = References(Address, AssetIDs, AppIDs, Name)
  BY DEF TxnReferences
<1>3. (\A s \in Asset : s.value \in AssetIDs) /\ (\A p \in App : p.value \in AppIDs)
  BY DEF AssetIDs, AppIDs, Values
<1>4. ASSUME NEW rr \in AppReferences PROVE Constructed(rr) \in TxnReferences
  <2>1. CASE DOMAIN rr = {"address"}
    <3>1. rr.address \in Address /\ rr = [address |-> rr.address]
      BY <2>1, ReferenceCases DEF AppReferences
    <3>2. Constructed(rr) = rr
      BY <2>1, ConstructedCases
    <3>3. [address |-> rr.address] \in TxnReferences
      BY <1>2, <3>1, ReferencesTyped
    <3> QED BY <3>1, <3>2, <3>3
  <2>2. CASE DOMAIN rr = {"assetIndex"}
    <3>1. rr.assetIndex \in Asset
      BY <2>2, ReferenceCases DEF AppReferences
    <3>2. Constructed(rr) = [assetIndex |-> rr.assetIndex.value]
      BY <2>2, ConstructedCases
    <3> QED BY <1>2, <1>3, <3>1, <3>2, ReferencesTyped
  <2>3. CASE DOMAIN rr = {"appIndex"}
    <3>1. rr.appIndex \in App
      BY <2>3, ReferenceCases DEF AppReferences
    <3>2. Constructed(rr) = [appIndex |-> rr.appIndex.value]
      BY <2>3, ConstructedCases
    <3> QED BY <1>2, <1>3, <3>1, <3>2, ReferencesTyped
  <2>4. CASE DOMAIN rr = {"holding"}
    <3>1. rr.holding.address \in Address /\ rr.holding.assetIndex \in Asset
      BY <2>4, ReferenceCases DEF AppReferences
    <3>2. Constructed(rr) = Holding(rr.holding.address, rr.holding.assetIndex.value)
      BY <2>4, ConstructedCases
    <3> QED BY <1>2, <1>3, <3>1, <3>2, ReferencesTyped
  <2>5. CASE DOMAIN rr = {"locals"}
    <3>1. rr.locals.address \in Address /\ rr.locals.appIndex \in App
      BY <2>5, ReferenceCases DEF AppReferences
    <3>2. Constructed(rr) = Locals(rr.locals.address, rr.locals.appIndex.value)
      BY <2>5, ConstructedCases
    <3> QED BY <1>2, <1>3, <3>1, <3>2, ReferencesTyped
  <2>6. CASE DOMAIN rr = {"box"}
    <3>1. rr.box.appIndex \in App /\ rr.box.name \in Name
      BY <2>6, ReferenceCases DEF AppReferences
    <3>2. Constructed(rr) = Box(rr.box.appIndex.value, rr.box.name)
      BY <2>6, ConstructedCases
    <3> QED BY <1>2, <1>3, <3>1, <3>2, ReferencesTyped
  <2>7. \/ DOMAIN rr = {"address"} \/ DOMAIN rr = {"assetIndex"} \/ DOMAIN rr = {"appIndex"}
        \/ DOMAIN rr = {"holding"} \/ DOMAIN rr = {"locals"} \/ DOMAIN rr = {"box"}
    BY ReferenceCases DEF AppReferences
  <2> QED BY <2>1, <2>2, <2>3, <2>4, <2>5, <2>6, <2>7
<1>5. ConstructedAll(list) = [k \in 1 .. Len(list) |-> Constructed(list[k])]
  BY DEF ConstructedAll
<1> QED BY <1>4, <1>5

\* Those that are selected for a field have it.
LEMMA SelectedHave ==
  ASSUME NEW U, NEW refs \in Seq(U), NEW field
  PROVE  Selected(refs, field) \in Seq({rr \in U : Has(rr, field)})
<1> DEFINE N == Len(refs)
           V == {rr \in U : Has(rr, field)}
<1>1. N \in Nat /\ DOMAIN refs = 1 .. N /\ \A n \in 1 .. N : refs[n] \in U
  OBVIOUS
<1> HIDE DEF N
<1>2. PICK g : /\ g[0] = <<>>
               /\ \A n \in 1 .. N :
                    g[n] = IF Has(refs[n], field) THEN Append(g[n - 1], refs[n]) ELSE g[n - 1]
               /\ g[N] = Selected(refs, field)
  BY <1>1, SelectedSteps, SMTT(30)
<1> DEFINE S == {n \in 0 .. N : g[n] \in Seq(V)}
<1>3. 0 \in S
  <2>1. <<>> \in Seq(V)
    <3> HIDE DEF V
    <3> QED OBVIOUS
  <2>2. g[0] \in Seq(V)
    BY <1>2, <2>1
  <2> HIDE DEF V
  <2> QED BY <1>1, <2>2
<1>4. ASSUME NEW n \in 1 .. N, n - 1 \in S PROVE n \in S
  <2>1. g[n - 1] \in Seq(V)
    BY <1>4
  <2>2. Has(refs[n], field) => refs[n] \in V
    BY <1>1
  <2> HIDE DEF V
  <2>3. CASE Has(refs[n], field)
    <3>1. Append(g[n - 1], refs[n]) \in Seq(V)
      BY <2>1, <2>2, <2>3
    <3>2. g[n] = Append(g[n - 1], refs[n])
      BY <1>2, <2>3
    <3>3. g[n] \in Seq(V)
      BY <3>1, <3>2
    <3> QED BY <1>1, <3>3
  <2>4. CASE ~Has(refs[n], field)
    <3>1. g[n] = g[n - 1]
      BY <1>2, <2>4
    <3> QED BY <1>1, <2>1, <3>1
  <2> QED BY <2>3, <2>4
<1>5. N \in S
  <2> HIDE DEF S
  <2> QED BY <1>1, <1>3, <1>4, InductionUpTo
<1> QED BY <1>2, <1>5

\* The applications and the boxes that a transaction is made of.
LEMMA ElementsTyped ==
  ASSUME NEW field, given \in Seq(AppReferences)
  PROVE  Elements(field) \in Seq({rr \in TxnReferences : Has(rr, field)})
<1>1. Elements(field) = Selected(ConstructedAll(given), field)
  BY DEF Elements, Selected
<1>2. ConstructedAll(given) \in Seq(TxnReferences)
  BY ConstructedTypes
<1> QED BY <1>1, <1>2, SelectedHave

-----------------------------------------------------------------------------
(* The inductive invariant *)

\* The access list that the application gave, as the constructor leaves it.
Original ==
  CASE way = "access" -> ConstructedAll(given)
    [] way = "convert" -> ConstructedAll(Converted(given, appIndex))
    [] OTHER -> <<>>

\* What the fields hold, whatever was done.
Fields ==
  /\ appIndex \in CalledApp
  /\ given \in Seq(AppReferences)
  /\ way \in {"none", "access", "convert", "arrays", "received"}
  /\ last \in {"given", "made", "written", "received", "read"}
  /\ sent.al \in Seq(Sendable)
  /\ sent = [al |-> sent.al, apfa |-> sent.apfa, apbx |-> sent.apbx]
  /\ txn.access \in Seq(TxnReferences)
  /\ txn.foreignApps \in Seq(Nat) /\ sent.apfa \in Seq(Nat)
  /\ txn.boxes \in Seq([appIndex : Nat, name : Name])
  /\ sent.apbx \in Seq([i : Nat, n : Name])

\* The list of the transaction is that of the application, or what was read of
\* the one that was sent; and what was written is what it is written as.
AccessOfTxn ==
  /\ last \in {"given", "made"} => sent.al = <<>> /\ sent.apbx = <<>>
  /\ last = "made" => txn.access = Original
  /\ last = "written" => sent.al = Al
  /\ last = "read" => Decodable(sent.al) /\ txn.access = Decoded(sent.al)

\* However often it was written and read, what is sent is that which the
\* application's references were first written as, unless another
\* implementation wrote it.
SentOfOriginal ==
  last \in {"written", "received", "read"} /\ way # "received" =>
    sent.al = Sent(Encoded(Original, appIndex.value))

\* The boxes that were written are those of the transaction, and so are those
\* that were read.
BoxesOfTxn ==
  last \in {"written", "read"} =>
    /\ txn.foreignApps = sent.apfa
    /\ DOMAIN txn.boxes = DOMAIN sent.apbx
    /\ \A j \in DOMAIN txn.boxes :
         \/ /\ last = "written" /\ Writable(txn.boxes[j])
            /\ sent.apbx[j] = WrittenBox(txn.boxes[j])
         \/ /\ last = "read" /\ Readable(sent.apbx[j])
            /\ txn.boxes[j] = ReadBox(sent.apbx[j])

Inv == Fields /\ AccessOfTxn /\ SentOfOriginal /\ BoxesOfTxn

\* The list that was first written.
Written == Encoded(Original, appIndex.value)

\* It is well-formed, as the references of the application are.
LEMMA WrittenIsWellFormed ==
  ASSUME Fields
  PROVE  Original \in Seq(TxnReferences) /\ WellFormed(Written, appIndex.value)
<1>1. CASE way = "access"
  <2>1. given \in Seq(AppReferences)
    BY DEF Fields
  <2>2. ConstructedAll(given) \in Seq(TxnReferences)
    BY <2>1, ConstructedTypes
  <2>3. Original = ConstructedAll(given)
    BY <1>1 DEF Original
  <2>4. Original \in Seq(TxnReferences)
    BY <2>2, <2>3
  <2> QED BY <2>4, EncodedIsWellFormed DEF Written
<1>2. CASE way = "convert"
  <2>1. given \in Seq(AppReferences)
    BY DEF Fields
  <2>2. Converted(given, appIndex) \in Seq(AppReferences)
    BY <2>1, ConvertedHolds
  <2>3. ConstructedAll(Converted(given, appIndex)) \in Seq(TxnReferences)
    BY <2>2, ConstructedTypes
  <2>4. Original = ConstructedAll(Converted(given, appIndex))
    BY <1>2 DEF Original
  <2>5. Original \in Seq(TxnReferences)
    BY <2>3, <2>4
  <2> QED BY <2>5, EncodedIsWellFormed DEF Written
<1>3. CASE way \notin {"access", "convert"}
  <2>1. Original = <<>>
    BY <1>3 DEF Original
  <2>2. <<>> \in Seq(TxnReferences)
    OBVIOUS
  <2>3. Original \in Seq(TxnReferences)
    BY <2>1, <2>2
  <2> QED BY <2>3, EncodedIsWellFormed DEF Written
<1> QED BY <1>1, <1>2, <1>3

\* The position of an application in the foreign apps, or 0.
LEMMA ForeignPositionFound ==
  ASSUME txn.foreignApps \in Seq(Nat), NEW app
  PROVE  /\ ForeignPosition(app) \in 0 .. Len(txn.foreignApps)
         /\ app \in Range(txn.foreignApps) =>
              /\ ForeignPosition(app) # 0
              /\ txn.foreignApps[ForeignPosition(app)] = app
         /\ app \notin Range(txn.foreignApps) => ForeignPosition(app) = 0
<1> DEFINE list == txn.foreignApps
           N == Len(list)
<1>1. N \in Nat /\ DOMAIN list = 1 .. N
  OBVIOUS
<1>2. CASE app \in Range(list)
  <2>1. PositionOf(list, app) \in 1 .. N /\ list[PositionOf(list, app)] = app
    <3> HIDE DEF N, list
    <3> QED BY <1>1, <1>2, PositionFound
  <2>2. ForeignPosition(app) = PositionOf(list, app)
    BY <1>2 DEF ForeignPosition
  <2> QED BY <1>1, <1>2, <2>1, <2>2
<1>3. CASE app \notin Range(list)
  BY <1>1, <1>3 DEF ForeignPosition
<1> QED BY <1>2, <1>3

\* In the initial state.
LEMMA InvInit == Init => Inv
<1> SUFFICES ASSUME Init PROVE Inv
  OBVIOUS
<1>1. <<>> \in Seq(AppReferences) /\ <<>> \in Seq(TxnReferences) /\ <<>> \in Seq(Nat)
      /\ <<>> \in Seq(Sendable)
      /\ <<>> \in Seq([appIndex : Nat, name : Name]) /\ <<>> \in Seq([i : Nat, n : Name])
  OBVIOUS
<1>2. Fields
  BY <1>1 DEF Init, Fields
<1>3. AccessOfTxn
  BY DEF Init, AccessOfTxn
<1>4. SentOfOriginal /\ BoxesOfTxn
  BY DEF Init, SentOfOriginal, BoxesOfTxn
<1> QED BY <1>2, <1>3, <1>4 DEF Inv

\* When a reference is given.
LEMMA InvGive ==
  ASSUME Inv, NEW rr \in References(Address, Asset, App, Name), Give(rr)
  PROVE  Inv'
<1>1. given' \in Seq(AppReferences)
  <2>1. given \in Seq(AppReferences) /\ rr \in AppReferences /\ given' = Append(given, rr)
    BY DEF Inv, Fields, Give, AppReferences
  <2>2. Append(given, rr) \in Seq(AppReferences)
    BY <2>1
  <2> QED BY <2>1, <2>2
<1>2. Fields'
  BY <1>1 DEF Inv, Fields, Give
<1>3. AccessOfTxn'
  BY DEF Inv, AccessOfTxn, Give
<1>4. SentOfOriginal' /\ BoxesOfTxn'
  BY DEF SentOfOriginal, BoxesOfTxn, Give
<1> QED BY <1>2, <1>3, <1>4 DEF Inv

\* When a transaction is made of references.
LEMMA InvMake ==
  ASSUME Inv, MakeWithAccess \/ MakeConverting
  PROVE  Inv'
<1>1. given \in Seq(AppReferences)
  BY DEF Inv, Fields
<1>2. /\ UNCHANGED <<appIndex, given, sent>> /\ last = "given" /\ last' = "made"
      /\ txn'.foreignApps = <<>> /\ txn'.boxes = <<>>
      /\ way' \in {"access", "convert"}
      /\ way' = "access" => txn'.access = ConstructedAll(given)
      /\ way' = "convert" => txn'.access = ConstructedAll(Converted(given, appIndex))
  BY DEF MakeWithAccess, MakeConverting, Make
<1>3. txn'.access = Original'
  BY <1>2 DEF Original
<1>4. txn'.access \in Seq(TxnReferences)
  <2>1. ConstructedAll(given) \in Seq(TxnReferences)
    BY <1>1, ConstructedTypes
  <2>2. Converted(given, appIndex) \in Seq(AppReferences)
    BY <1>1, ConvertedHolds
  <2>3. ConstructedAll(Converted(given, appIndex)) \in Seq(TxnReferences)
    BY <2>2, ConstructedTypes
  <2> QED BY <1>2, <2>1, <2>3
<1>5. <<>> \in Seq(Nat) /\ <<>> \in Seq([appIndex : Nat, name : Name])
  OBVIOUS
<1>6. Fields'
  BY <1>2, <1>4, <1>5 DEF Inv, Fields
<1>7. AccessOfTxn'
  BY <1>2, <1>3 DEF Inv, AccessOfTxn
<1>8. SentOfOriginal' /\ BoxesOfTxn'
  BY <1>2 DEF SentOfOriginal, BoxesOfTxn
<1> QED BY <1>6, <1>7, <1>8 DEF Inv

\* An element of a sequence.
LEMMA ElementType ==
  ASSUME NEW U, NEW list \in Seq(U), NEW j \in DOMAIN list
  PROVE  list[j] \in U
  OBVIOUS

\* The boxes that a transaction is made of have numbers for IDs.
LEMMA BoxesTyped ==
  ASSUME given \in Seq(AppReferences)
  PROVE  [i \in DOMAIN Elements("box") |-> Elements("box")[i].box]
           \in Seq([appIndex : Nat, name : Name])
<1> DEFINE refs == Elements("box")
           V == {rr \in TxnReferences : Has(rr, "box")}
           T == [appIndex : Nat, name : Name]
<1>1. AppIDs \subseteq Nat
  BY ConstantsAssumption DEF AppIDs, Values, ID
<1>2. refs \in Seq(V)
  BY ElementsTyped
<1>3. ASSUME NEW rr \in V PROVE rr.box \in T
  <2>1. DOMAIN rr = {"box"} /\ rr.box.appIndex \in AppIDs /\ rr.box.name \in Name
    BY <1>3, TxnReferenceCases DEF Has
  <2>2. rr = Box(rr.box.appIndex, rr.box.name)
    BY <1>3, <2>1, TxnReferenceCases
  <2>3. rr.box = [appIndex |-> rr.box.appIndex, name |-> rr.box.name]
    BY <2>2 DEF Box
  <2> QED BY <1>1, <2>1, <2>3
<1> HIDE DEF V, T, refs
<1>4. DOMAIN refs = 1 .. Len(refs) /\ \A i \in 1 .. Len(refs) : refs[i].box \in T
  BY <1>2, <1>3
<1>5. [i \in 1 .. Len(refs) |-> refs[i].box] \in Seq(T)
  BY <1>2, <1>4
<1> QED BY <1>4, <1>5 DEF T, refs

\* When one is made of arrays: the IDs of the foreign apps and those of the
\* boxes are numbers.
LEMMA InvMakeWithArrays ==
  ASSUME Inv, MakeWithArrays
  PROVE  Inv'
<1> DEFINE apps == Elements("appIndex")
           refs == Elements("box")
<1>1. given \in Seq(AppReferences)
  BY DEF Inv, Fields
<1>2. /\ UNCHANGED <<appIndex, given, sent>> /\ last = "given" /\ last' = "made"
      /\ way' = "arrays" /\ txn'.access = <<>>
      /\ txn'.foreignApps = [i \in DOMAIN apps |-> apps[i].appIndex]
      /\ txn'.boxes = [i \in DOMAIN refs |-> refs[i].box]
  BY DEF MakeWithArrays, Make
<1>3. AppIDs \subseteq Nat
  BY ConstantsAssumption DEF AppIDs, Values, ID
<1>4. txn'.foreignApps \in Seq(Nat)
  <2>1. apps \in Seq({rr \in TxnReferences : Has(rr, "appIndex")})
    BY <1>1, ElementsTyped
  <2>2. \A rr \in TxnReferences : Has(rr, "appIndex") => rr.appIndex \in Nat
    BY <1>3, TxnReferenceCases DEF Has
  <2> DEFINE V == {rr \in TxnReferences : Has(rr, "appIndex")}
  <2>3. \A v \in V : v.appIndex \in Nat
    BY <2>2
  <2>4. apps \in Seq(V)
    BY <2>1
  <2> HIDE DEF V, apps
  <2>5. DOMAIN apps = 1 .. Len(apps) /\ \A i \in 1 .. Len(apps) : apps[i].appIndex \in Nat
    BY <2>3, <2>4
  <2>6. [i \in 1 .. Len(apps) |-> apps[i].appIndex] \in Seq(Nat)
    BY <2>4, <2>5
  <2> QED BY <1>2, <2>5, <2>6
<1>5. txn'.boxes \in Seq([appIndex : Nat, name : Name])
  BY <1>1, <1>2, BoxesTyped
<1> HIDE DEF apps, refs
<1>6. <<>> \in Seq(TxnReferences) /\ Original' = <<>>
  BY <1>2 DEF Original
<1>7. Fields'
  BY <1>2, <1>4, <1>5, <1>6 DEF Inv, Fields
<1>8. AccessOfTxn'
  BY <1>2, <1>6 DEF Inv, AccessOfTxn
<1>9. SentOfOriginal' /\ BoxesOfTxn'
  BY <1>2 DEF SentOfOriginal, BoxesOfTxn
<1> QED BY <1>7, <1>8, <1>9 DEF Inv

\* What the list of the transaction is written as.
LEMMA AlIsWellFormed ==
  ASSUME Fields
  PROVE  /\ WellFormed(Encoded(txn.access, appIndex.value), appIndex.value)
         /\ Al \in Seq(Sendable)
<1>1. WellFormed(Encoded(txn.access, appIndex.value), appIndex.value)
  BY EncodedIsWellFormed DEF Fields
<1> QED BY <1>1, SentIsSendable DEF Al, WellFormed

\* The list that is written is the first one that was.
LEMMA AlIsOriginal ==
  ASSUME Inv, last \in {"made", "read"}, way # "received"
  PROVE  Al = Sent(Written)
<1>1. CASE last = "made"
  BY <1>1 DEF Inv, AccessOfTxn, Al, Written
<1>2. CASE last = "read"
  <2>1. /\ sent.al = Sent(Written) /\ Decodable(sent.al)
        /\ txn.access = Decoded(sent.al)
    BY <1>2 DEF Inv, AccessOfTxn, SentOfOriginal, Written
  <2>2. WellFormed(Written, appIndex.value) /\ Decodable(Sent(Written))
    BY <2>1, WrittenIsWellFormed DEF Inv
  <2>3. Sent(Encoded(Decoded(Sent(Written)), appIndex.value)) = Sent(Written)
    BY <2>2, EncodedAgain
  <2> QED BY <2>1, <2>3 DEF Al
<1> QED BY <1>1, <1>2

\* When the transaction is written.
LEMMA InvWrite ==
  ASSUME Inv, Write
  PROVE  Inv'
<1> DEFINE T == [i : Nat, n : Name]
<1>1. /\ last \in {"made", "read"} /\ last' = "written"
      /\ UNCHANGED <<appIndex, given, way, txn>>
      /\ \A j \in DOMAIN txn.boxes : Writable(txn.boxes[j])
      /\ sent'.al = Al /\ sent'.apfa = txn.foreignApps
      /\ sent'.apbx = [j \in DOMAIN txn.boxes |-> WrittenBox(txn.boxes[j])]
      /\ sent' = [al |-> sent'.al, apfa |-> sent'.apfa, apbx |-> sent'.apbx]
  BY DEF Write
<1>2. Fields
  BY DEF Inv
<1>3. /\ way # "received" => sent'.al = Sent(Encoded(Original, appIndex.value))
      /\ Original' = Original /\ sent'.al \in Seq(Sendable) /\ Al' = Al
  BY <1>1, <1>2, AlIsOriginal, AlIsWellFormed DEF Written, Original, Al
<1>4. sent'.apbx \in Seq(T)
  <2>1. txn.boxes \in Seq([appIndex : Nat, name : Name]) /\ txn.foreignApps \in Seq(Nat)
    BY <1>2 DEF Fields
  <2>2. ASSUME NEW j \in DOMAIN txn.boxes PROVE WrittenBox(txn.boxes[j]) \in T
    <3>1. txn.boxes[j].name \in Name
      <4>1. txn.boxes[j] \in [appIndex : Nat, name : Name]
        BY <2>1, ElementType
      <4> QED BY <4>1
    <3>2. ForeignPosition(txn.boxes[j].appIndex) \in Nat
      BY <2>1, ForeignPositionFound
    <3> QED BY <3>1, <3>2 DEF WrittenBox
  <2> HIDE DEF T
  <2>3. sent'.apbx = [j \in 1 .. Len(txn.boxes) |-> WrittenBox(txn.boxes[j])]
    BY <1>1, <2>1
  <2> QED BY <2>1, <2>2, <2>3
<1>5. Fields'
  BY <1>1, <1>2, <1>3, <1>4 DEF Fields
<1>6. AccessOfTxn'
  BY <1>1, <1>3 DEF AccessOfTxn
<1>7. SentOfOriginal'
  BY <1>1, <1>3 DEF SentOfOriginal
<1>8. BoxesOfTxn'
  <2>1. DOMAIN txn.boxes = DOMAIN sent'.apbx /\ txn'.foreignApps = sent'.apfa
    BY <1>1
  <2>2. \A j \in DOMAIN txn.boxes :
          Writable(txn.boxes[j])' /\ sent'.apbx[j] = WrittenBox(txn.boxes[j])'
    BY <1>1 DEF Writable, WrittenBox, ForeignPosition, IsOwn
  <2> QED BY <1>1, <2>1, <2>2 DEF BoxesOfTxn
<1> QED BY <1>5, <1>6, <1>7, <1>8 DEF Inv

\* When another implementation wrote its boxes.
LEMMA InvReceiveBoxes ==
  ASSUME Inv, ReceiveBoxes
  PROVE  Inv'
<1> DEFINE T == [i : Nat, n : Name]
<1>1. PICK position \in [DOMAIN txn.boxes -> 0 .. Len(txn.foreignApps) + 1] :
        sent' = [al |-> Al, apfa |-> txn.foreignApps,
                 apbx |-> [j \in DOMAIN txn.boxes |->
                             [i |-> position[j], n |-> txn.boxes[j].name]]]
  BY DEF ReceiveBoxes
<1>2. /\ last = "made" /\ way = "arrays" /\ last' = "received" /\ UNCHANGED <<appIndex, given, way, txn>>
      /\ sent'.al = Al /\ sent'.apfa = txn.foreignApps
      /\ sent' = [al |-> sent'.al, apfa |-> sent'.apfa, apbx |-> sent'.apbx]
  BY <1>1 DEF ReceiveBoxes
<1>3. /\ sent'.al = Sent(Encoded(Original, appIndex.value)) /\ Original' = Original
      /\ sent'.al \in Seq(Sendable)
  BY <1>2, AlIsOriginal, AlIsWellFormed DEF Inv, Written, Original
<1>4. Fields
  BY DEF Inv
<1>5. sent'.apbx \in Seq(T)
  <2>1. txn.boxes \in Seq([appIndex : Nat, name : Name]) /\ txn.foreignApps \in Seq(Nat)
    BY <1>4 DEF Fields
  <2>2. ASSUME NEW j \in DOMAIN txn.boxes
        PROVE  [i |-> position[j], n |-> txn.boxes[j].name] \in T
    <3>1. txn.boxes[j].name \in Name
      <4>1. txn.boxes[j] \in [appIndex : Nat, name : Name]
        BY <2>1, ElementType
      <4> QED BY <4>1
    <3>2. position[j] \in Nat
      BY <2>1
    <3> QED BY <3>1, <3>2
  <2> HIDE DEF T
  <2>3. sent'.apbx = [j \in 1 .. Len(txn.boxes) |->
                        [i |-> position[j], n |-> txn.boxes[j].name]]
    BY <1>1, <2>1
  <2>4. DOMAIN txn.boxes = 1 .. Len(txn.boxes) /\ Len(txn.boxes) \in Nat
    BY <2>1
  <2> QED BY <2>2, <2>3, <2>4
<1>6. Fields'
  BY <1>2, <1>3, <1>4, <1>5 DEF Fields
<1>7. AccessOfTxn' /\ BoxesOfTxn'
  BY <1>2 DEF AccessOfTxn, BoxesOfTxn
<1>8. SentOfOriginal'
  BY <1>2, <1>3 DEF SentOfOriginal
<1> QED BY <1>6, <1>7, <1>8 DEF Inv

\* When another implementation wrote its access list.
LEMMA InvReceiveAccess ==
  ASSUME Inv, ReceiveAccess
  PROVE  Inv'
<1>1. PICK list \in AccessLists : sent' = [sent EXCEPT !.al = Sent(list)]
  BY DEF ReceiveAccess
<1>2. list \in Seq(Entry)
  BY AccessListsAssumption
<1>3. Sent(list) \in Seq(Sendable)
  BY <1>2, SentIsSendable
<1>4. /\ way' = "received" /\ last' = "received" /\ UNCHANGED <<appIndex, given, txn>>
  BY DEF ReceiveAccess
<1>5. /\ sent'.al = Sent(list) /\ sent'.apfa = sent.apfa /\ sent'.apbx = sent.apbx
      /\ sent' = [al |-> sent'.al, apfa |-> sent'.apfa, apbx |-> sent'.apbx]
  <2>1. sent = [al |-> sent.al, apfa |-> sent.apfa, apbx |-> sent.apbx]
    BY DEF Inv, Fields
  <2> QED BY <1>1, <2>1
<1>6. Fields'
  BY <1>3, <1>4, <1>5 DEF Inv, Fields
<1>7. AccessOfTxn' /\ SentOfOriginal' /\ BoxesOfTxn'
  BY <1>4 DEF AccessOfTxn, SentOfOriginal, BoxesOfTxn
<1> QED BY <1>6, <1>7 DEF Inv

\* When it is read.
LEMMA InvRead ==
  ASSUME Inv, Read
  PROVE  Inv'
<1> DEFINE T == [appIndex : Nat, name : Name]
<1>1. /\ last \in {"written", "received"} /\ last' = "read"
      /\ UNCHANGED <<appIndex, given, way, sent>>
      /\ Decodable(sent.al) /\ \A j \in DOMAIN sent.apbx : Readable(sent.apbx[j])
      /\ txn'.access = Decoded(sent.al) /\ txn'.foreignApps = sent.apfa
      /\ txn'.boxes = [j \in DOMAIN sent.apbx |-> ReadBox(sent.apbx[j])]
  BY DEF Read
<1>2. Fields
  BY DEF Inv
<1>3. Original' = Original
  BY <1>1 DEF Original
<1>4. txn'.access \in Seq(TxnReferences)
  BY <1>1, <1>2, DecodedTypes DEF Fields
<1>5. txn'.boxes \in Seq(T)
  <2>1. sent.apbx \in Seq([i : Nat, n : Name]) /\ sent.apfa \in Seq(Nat)
    BY <1>2 DEF Fields
  <2>2. ASSUME NEW j \in DOMAIN sent.apbx PROVE ReadBox(sent.apbx[j]) \in T
    <3>1. sent.apbx[j].n \in Name /\ sent.apbx[j].i \in Nat
      <4>1. sent.apbx[j] \in [i : Nat, n : Name]
        BY <2>1, ElementType
      <4> QED BY <4>1
    <3>2. sent.apbx[j].i <= Len(sent.apfa)
      BY <1>1 DEF Readable
    <3>3. ForeignAppAt(sent.apbx[j].i) \in Nat
      <4>1. CASE sent.apbx[j].i = 0
        BY <4>1 DEF ForeignAppAt
      <4>2. CASE sent.apbx[j].i # 0
        <5>1. sent.apbx[j].i \in DOMAIN sent.apfa
          BY <2>1, <3>1, <3>2, <4>2
        <5>2. sent.apfa[sent.apbx[j].i] \in Nat
          BY <2>1, <5>1, ElementType
        <5> QED BY <4>2, <5>2 DEF ForeignAppAt
      <4> QED BY <4>1, <4>2
    <3> QED BY <3>1, <3>3 DEF ReadBox
  <2> HIDE DEF T
  <2>3. txn'.boxes = [j \in 1 .. Len(sent.apbx) |-> ReadBox(sent.apbx[j])]
    BY <1>1, <2>1
  <2> QED BY <2>1, <2>2, <2>3
<1>6. Fields'
  BY <1>1, <1>2, <1>4, <1>5 DEF Fields
<1>7. AccessOfTxn'
  BY <1>1 DEF AccessOfTxn
<1>8. SentOfOriginal'
  BY <1>1, <1>3 DEF Inv, SentOfOriginal
<1>9. BoxesOfTxn'
  <2>1. DOMAIN txn'.boxes = DOMAIN sent.apbx /\ txn'.foreignApps = sent'.apfa
    BY <1>1
  <2>2. \A j \in DOMAIN sent.apbx :
          Readable(sent.apbx[j])' /\ txn'.boxes[j] = ReadBox(sent.apbx[j])'
    BY <1>1 DEF Readable, ReadBox, ForeignAppAt
  <2> QED BY <1>1, <2>1, <2>2 DEF BoxesOfTxn
<1> QED BY <1>6, <1>7, <1>8, <1>9 DEF Inv

\* When nothing is done.
LEMMA InvUnchanged ==
  ASSUME Inv, UNCHANGED vars
  PROVE  Inv'
<1>1. Original' = Original /\ Al' = Al
  BY DEF vars, Original, Al
<1>2. Fields' /\ AccessOfTxn'
  BY <1>1 DEF vars, Inv, Fields, AccessOfTxn
<1>3. SentOfOriginal'
  BY <1>1 DEF vars, Inv, SentOfOriginal
<1>4. BoxesOfTxn'
  BY DEF vars, Inv, BoxesOfTxn, Writable, WrittenBox, ForeignPosition, IsOwn,
         Readable, ReadBox, ForeignAppAt
<1> QED BY <1>2, <1>3, <1>4 DEF Inv

\* However the transaction is given, made, written and read.
THEOREM InvHolds == Spec => []Inv
<1>1. Init => Inv
  BY InvInit
<1>2. Inv /\ [Next]_vars => Inv'
  <2> SUFFICES ASSUME Inv, [Next]_vars PROVE Inv'
    OBVIOUS
  <2>1. CASE \E rr \in References(Address, Asset, App, Name) : Give(rr)
    BY <2>1, InvGive
  <2>2. CASE MakeWithAccess \/ MakeConverting
    BY <2>2, InvMake
  <2>3. CASE MakeWithArrays
    BY <2>3, InvMakeWithArrays
  <2>4. CASE Write
    BY <2>4, InvWrite
  <2>5. CASE ReceiveBoxes \/ ReceiveAccess
    BY <2>5, InvReceiveBoxes, InvReceiveAccess
  <2>6. CASE Read
    BY <2>6, InvRead
  <2>7. CASE UNCHANGED vars
    BY <2>7, InvUnchanged
  <2> QED BY <2>1, <2>2, <2>3, <2>4, <2>5, <2>6, <2>7 DEF Next
<1> QED BY <1>1, <1>2, PTL DEF Spec

-----------------------------------------------------------------------------
(* What was given and what a peer reads *)

\* The resources that g is in, as the list of the transaction has them.
AddedFor(r, g) ==
  \/ /\ DOMAIN g = {"holding"}
     /\ \/ r = [address |-> g.holding.address] /\ g.holding.address # ZeroAddress
        \/ r = [assetIndex |-> g.holding.assetIndex]
  \/ /\ DOMAIN g = {"locals"}
     /\ \/ r = [address |-> g.locals.address] /\ g.locals.address # ZeroAddress
        \/ r = [appIndex |-> g.locals.appIndex] /\ g.locals.appIndex # 0
  \/ /\ DOMAIN g = {"box"}
     /\ r = [appIndex |-> g.box.appIndex] /\ g.box.appIndex # 0

\* What is added for an element becomes what is added for what that becomes.
LEMMA AddedIsConstructed ==
  ASSUME NEW r, NEW rr, Added(r, rr, appIndex)
  PROVE  AddedFor(Constructed(r), Constructed(rr))
<1>1. /\ \A a : Constructed([address |-> a]) = [address |-> a]
      /\ \A s : Constructed([assetIndex |-> s]) = [assetIndex |-> s.value]
      /\ \A p : Constructed([appIndex |-> p]) = [appIndex |-> p.value]
  BY DEF Constructed, Has
<1>2. CASE DOMAIN rr = {"holding"}
  <2> DEFINE g == Constructed(rr)
  <2>1. g = Holding(rr.holding.address, rr.holding.assetIndex.value)
    BY <1>2, ConstructedCases
  <2>2. /\ DOMAIN g = {"holding"} /\ g.holding.address = rr.holding.address
        /\ g.holding.assetIndex = rr.holding.assetIndex.value
    BY <2>1, ReferenceValues
  <2> HIDE DEF g
  <2>3. \/ r = [address |-> rr.holding.address] /\ rr.holding.address # ZeroAddress
        \/ r = [assetIndex |-> rr.holding.assetIndex]
    BY <1>2 DEF Added
  <2>4. \/ Constructed(r) = [address |-> g.holding.address] /\ g.holding.address # ZeroAddress
        \/ Constructed(r) = [assetIndex |-> g.holding.assetIndex]
    BY <1>1, <2>2, <2>3
  <2>5. AddedFor(Constructed(r), g)
    BY <2>2, <2>4 DEF AddedFor
  <2> QED BY <2>5 DEF g
<1>3. CASE DOMAIN rr = {"locals"}
  <2> DEFINE g == Constructed(rr)
  <2>1. g = Locals(rr.locals.address, rr.locals.appIndex.value)
    BY <1>3, ConstructedCases
  <2>2. /\ DOMAIN g = {"locals"} /\ g.locals.address = rr.locals.address
        /\ g.locals.appIndex = rr.locals.appIndex.value
    BY <2>1, ReferenceValues
  <2> HIDE DEF g
  <2>3. \/ r = [address |-> rr.locals.address] /\ rr.locals.address # ZeroAddress
        \/ r = [appIndex |-> rr.locals.appIndex] /\ rr.locals.appIndex.value # 0
    BY <1>3 DEF Added, IsOther
  <2>4. \/ Constructed(r) = [address |-> g.locals.address] /\ g.locals.address # ZeroAddress
        \/ Constructed(r) = [appIndex |-> g.locals.appIndex] /\ g.locals.appIndex # 0
    BY <1>1, <2>2, <2>3
  <2>5. AddedFor(Constructed(r), g)
    BY <2>2, <2>4 DEF AddedFor
  <2> QED BY <2>5 DEF g
<1>4. CASE DOMAIN rr = {"box"}
  <2> DEFINE g == Constructed(rr)
  <2>1. g = Box(rr.box.appIndex.value, rr.box.name)
    BY <1>4, ConstructedCases
  <2>2. DOMAIN g = {"box"} /\ g.box.appIndex = rr.box.appIndex.value
    BY <2>1, ReferenceValues
  <2> HIDE DEF g
  <2>3. r = [appIndex |-> rr.box.appIndex] /\ rr.box.appIndex.value # 0
    BY <1>4 DEF Added, IsOther
  <2>4. Constructed(r) = [appIndex |-> g.box.appIndex] /\ g.box.appIndex # 0
    BY <1>1, <2>2, <2>3
  <2>5. AddedFor(Constructed(r), g)
    BY <2>2, <2>4 DEF AddedFor
  <2> QED BY <2>5 DEF g
<1> QED BY <1>2, <1>3, <1>4 DEF Added

\* The list of the application has every reference that was given, but for the
\* address of zeros, and no other but those that these are in.
LEMMA OriginalIsGiven ==
  ASSUME Fields, way \in {"access", "convert"}
  PROVE  /\ \A g \in Given :
              \/ g = [address |-> ZeroAddress]
              \/ \E k \in DOMAIN Original : Original[k] = g
         /\ \A k \in DOMAIN Original :
              \/ Original[k] \in Given
              \/ way = "convert" /\ \E g \in Given : AddedFor(Original[k], g)
<1>1. /\ given \in Seq(AppReferences)
      /\ DOMAIN ConstructedAll(given) = DOMAIN given
      /\ \A m \in DOMAIN given : ConstructedAll(given)[m] = Constructed(given[m])
  BY ConstructedTypes DEF Fields
<1>2. Given = {Constructed(given[m]) : m \in DOMAIN given}
  BY <1>1 DEF Given, Range
<1>3. CASE way = "access"
  <2>1. Original = ConstructedAll(given)
    BY <1>3 DEF Original
  <2> QED BY <1>1, <1>2, <2>1
<1>4. CASE way = "convert"
  <2> DEFINE list == Converted(given, appIndex)
  <2>1. /\ list \in Seq(AppReferences)
        /\ \A m \in DOMAIN given :
             given[m] = [address |-> ZeroAddress] \/ given[m] \in Range(list)
        /\ \A r \in Range(list) :
             \E m \in DOMAIN given : r = given[m] \/ Added(r, given[m], appIndex)
    BY <1>1, ConvertedHolds
  <2>2. Original = ConstructedAll(list)
    BY <1>4 DEF Original
  <2> HIDE DEF list
  <2>3. /\ DOMAIN Original = DOMAIN list
        /\ \A k \in DOMAIN list : Original[k] = Constructed(list[k])
    BY <2>1, <2>2, ConstructedTypes
  <2>4. Constructed([address |-> ZeroAddress]) = [address |-> ZeroAddress]
    BY DEF Constructed, Has
  <2>5. ASSUME NEW m \in DOMAIN given
        PROVE  \/ Constructed(given[m]) = [address |-> ZeroAddress]
               \/ \E k \in DOMAIN Original : Original[k] = Constructed(given[m])
    <3>1. CASE given[m] = [address |-> ZeroAddress]
      BY <2>4, <3>1
    <3>2. CASE given[m] \in Range(list)
      <4>1. PICK k \in DOMAIN list : list[k] = given[m]
        BY <3>2 DEF Range
      <4> QED BY <2>3, <4>1
    <3> QED BY <2>1, <3>1, <3>2
  <2>6. ASSUME NEW k \in DOMAIN Original
        PROVE  Original[k] \in Given \/ \E g \in Given : AddedFor(Original[k], g)
    <3>1. k \in DOMAIN list /\ list[k] \in Range(list) /\ Original[k] = Constructed(list[k])
      BY <2>3 DEF Range
    <3>2. PICK m \in DOMAIN given : list[k] = given[m] \/ Added(list[k], given[m], appIndex)
      BY <2>1, <3>1
    <3>3. Constructed(given[m]) \in Given
      BY <1>2
    <3>4. CASE list[k] = given[m]
      BY <3>1, <3>3, <3>4
    <3>5. CASE Added(list[k], given[m], appIndex)
      <4>1. AddedFor(Constructed(list[k]), Constructed(given[m]))
        BY <3>5, AddedIsConstructed
      <4> QED BY <3>1, <3>3, <4>1
    <3> QED BY <3>2, <3>4, <3>5
  <2> QED BY <1>2, <1>4, <2>5, <2>6
<1> QED BY <1>3, <1>4

\* What is added has its entry for itself, and is what a reference is in, or
\* the called application.
LEMMA AddedIsPart ==
  ASSUME NEW g, NEW r, AddedFor(r, g), NamesAsset(g)
  PROVE  /\ NamesAsset(r)
         /\ \A x : Reason(r, x) => x = r
         /\ \/ ~NeedsNoEntry(g) /\ ~NamesNothing(g) /\ r \in Parts(g)
            \/ r = [appIndex |-> appIndex.value]
<1>1. CASE \E a : r = [address |-> a] /\ a # ZeroAddress
  <2>1. PICK a : r = [address |-> a] /\ a # ZeroAddress
    BY <1>1
  <2>2. DOMAIN r = {"address"} /\ r # [address |-> ZeroAddress]
    BY <2>1
  <2>3. ~NeedsNoEntry(r) /\ ~NamesNothing(r) /\ Means(r) = r /\ Parts(r) = {}
    BY <2>2, NeedsCases, MeansCases, PartsCases
  <2>4. NamesAsset(r) /\ \A x : Reason(r, x) => x = r
    BY <2>2, <2>3 DEF NamesAsset, Reason, Has
  <2>5. CASE DOMAIN g = {"holding"}
    <3>1. r = [address |-> g.holding.address] /\ g.holding.address # ZeroAddress
      BY <2>1, <2>2, <2>5 DEF AddedFor
    <3>2. Parts(g) = Addresses(g.holding.address) \cup {[assetIndex |-> g.holding.assetIndex]}
      BY <2>5, PartsCases
    <3>3. r \in Parts(g)
      BY <3>1, <3>2 DEF Addresses
    <3> QED BY <2>4, <2>5, <3>3, NeedsCases
  <2>6. CASE DOMAIN g = {"locals"}
    <3>1. r = [address |-> g.locals.address] /\ g.locals.address # ZeroAddress
      BY <2>1, <2>2, <2>6 DEF AddedFor
    <3>2. Parts(g) = Addresses(g.locals.address) \cup ForeignApps(g.locals.appIndex)
      BY <2>6, PartsCases
    <3>3. r \in Parts(g)
      BY <3>1, <3>2 DEF Addresses
    <3>4. ~NeedsNoEntry(g) /\ ~NamesNothing(g)
      BY <2>6, <3>1, NeedsCases
    <3> QED BY <2>4, <3>3, <3>4
  <2>7. CASE DOMAIN g = {"box"}
    BY <2>2, <2>7 DEF AddedFor
  <2> QED BY <2>5, <2>6, <2>7 DEF AddedFor
<1>2. CASE DOMAIN g = {"holding"} /\ r = [assetIndex |-> g.holding.assetIndex]
  <2>1. g.holding.assetIndex # 0
    BY <1>2 DEF NamesAsset, Has
  <2>2. DOMAIN r = {"assetIndex"} /\ r # [assetIndex |-> 0]
    BY <1>2, <2>1
  <2>3. ~NeedsNoEntry(r) /\ ~NamesNothing(r) /\ Means(r) = r /\ Parts(r) = {}
    BY <2>2, NeedsCases, MeansCases, PartsCases
  <2>4. NamesAsset(r) /\ \A x : Reason(r, x) => x = r
    BY <2>2, <2>3 DEF NamesAsset, Reason, Has
  <2>5. Parts(g) = Addresses(g.holding.address) \cup {[assetIndex |-> g.holding.assetIndex]}
    BY <1>2, PartsCases
  <2>6. r \in Parts(g)
    BY <1>2, <2>5
  <2>7. ~NeedsNoEntry(g) /\ ~NamesNothing(g)
    BY <1>2, NeedsCases
  <2> QED BY <2>4, <2>6, <2>7
<1>3. ASSUME NEW p, r = [appIndex |-> p], p # 0,
             \/ DOMAIN g = {"locals"} /\ p = g.locals.appIndex
             \/ DOMAIN g = {"box"} /\ p = g.box.appIndex
      PROVE  /\ NamesAsset(r)
             /\ \A x : Reason(r, x) => x = r
             /\ \/ ~NeedsNoEntry(g) /\ ~NamesNothing(g) /\ r \in Parts(g)
                \/ r = [appIndex |-> appIndex.value]
  <2>1. DOMAIN r = {"appIndex"} /\ r # [appIndex |-> 0]
    BY <1>3
  <2>2. ~NeedsNoEntry(r) /\ ~NamesNothing(r) /\ Means(r) = r /\ Parts(r) = {}
    BY <2>1, NeedsCases, MeansCases, PartsCases
  <2>3. NamesAsset(r) /\ \A x : Reason(r, x) => x = r
    BY <2>1, <2>2 DEF NamesAsset, Reason, Has
  <2>4. CASE IsOwn(p)
    BY <1>3, <2>3, <2>4 DEF IsOwn
  <2>5. CASE ~IsOwn(p)
    <3>1. r \in ForeignApps(p)
      BY <1>3, <2>5 DEF ForeignApps
    <3>2. ForeignApps(p) \subseteq Parts(g)
      BY <1>3, PartsCases
    <3>3. ~NeedsNoEntry(g) /\ ~NamesNothing(g)
      BY <1>3, <2>5, NeedsCases
    <3> QED BY <2>3, <3>1, <3>2, <3>3
  <2> QED BY <2>4, <2>5
<1> QED BY <1>1, <1>2, <1>3 DEF AddedFor

\* If no holding that was given is of the asset 0, none of the list is.
LEMMA OriginalNamesAssets ==
  ASSUME Fields, AccessSent
  PROVE  \A k \in DOMAIN Original : NamesAsset(Original[k])
<1>1. \A g \in Given : NamesAsset(g)
  BY DEF AccessSent, NamesAsset
<1>2. way \in {"access", "convert"}
  BY DEF AccessSent
<1>3. \A k \in DOMAIN Original :
        Original[k] \in Given \/ \E g \in Given : AddedFor(Original[k], g)
  BY <1>2, OriginalIsGiven
<1>4. \A g \in Given : \A r : AddedFor(r, g) => NamesAsset(r)
  BY <1>1, AddedIsPart
<1> QED BY <1>1, <1>3, <1>4

\* What is sent of the list.
LEMMA SentMeans ==
  ASSUME Inv, AccessSent
  PROVE  /\ NamesAssets(Written) /\ WellFormed(Written, appIndex.value)
         /\ sent.al = Sent(Written) /\ Decodable(sent.al)
         /\ \A k \in DOMAIN Original :
              \/ NeedsNoEntry(Original[k]) \/ NamesNothing(Original[k])
              \/ Means(Original[k]) \in PeerReads
         /\ \A r \in PeerReads : \E k \in DOMAIN Original : Reason(Original[k], r)
<1>1. Fields /\ sent.al = Sent(Written)
  BY DEF Inv, AccessSent, SentOfOriginal, Written
<1>2. Original \in Seq(TxnReferences) /\ WellFormed(Written, appIndex.value)
  BY <1>1, WrittenIsWellFormed
<1>3. \A k \in DOMAIN Original : NamesAsset(Original[k])
  BY <1>1, OriginalNamesAssets
<1>4. /\ NamesAssets(Written)
      /\ \A i \in DOMAIN Written :
           \E k \in DOMAIN Original : Reason(Original[k], Meaning(Written, i))
      /\ \A k \in DOMAIN Original :
           \/ NeedsNoEntry(Original[k]) \/ NamesNothing(Original[k])
           \/ \E i \in DOMAIN Written : Meaning(Written, i) = Means(Original[k])
  BY <1>2, <1>3, EncodedMeans DEF Written
<1>5. /\ Decodable(Sent(Written))
      /\ Range(Decoded(Sent(Written))) = {Meaning(Written, i) : i \in DOMAIN Written}
  BY <1>2, <1>4, ReadReferences
<1>6. PeerReads = {Meaning(Written, i) : i \in DOMAIN Written}
  BY <1>1, <1>5 DEF PeerReads
<1>7. \A k \in DOMAIN Original :
        \/ NeedsNoEntry(Original[k]) \/ NamesNothing(Original[k])
        \/ Means(Original[k]) \in PeerReads
  BY <1>4, <1>6
<1>8. \A r \in PeerReads : \E k \in DOMAIN Original : Reason(Original[k], r)
  BY <1>4, <1>6
<1> QED BY <1>1, <1>2, <1>4, <1>5, <1>7, <1>8

\* What was given is read in any state of the invariant.
LEMMA InvReadsGiven == Inv => GivenIsRead
<1> SUFFICES ASSUME Inv, AccessSent
             PROVE  /\ Decodable(sent.al)
                    /\ \A g \in Asked : Means(g) \in PeerReads
  BY DEF GivenIsRead
<1>1. Decodable(sent.al)
  BY SentMeans
<1>2. ASSUME NEW g \in Asked PROVE Means(g) \in PeerReads
  <2>1. g \in Given /\ ~NeedsNoEntry(g) /\ ~NamesNothing(g)
    BY DEF Asked
  <2>2. g # [address |-> ZeroAddress]
    BY <2>1 DEF NeedsNoEntry, Means, Has
  <2>3. Fields /\ way \in {"access", "convert"}
    BY DEF Inv, AccessSent
  <2>4. PICK k \in DOMAIN Original : Original[k] = g
    BY <2>1, <2>2, <2>3, OriginalIsGiven
  <2> QED BY <2>1, <2>4, SentMeans
<1> QED BY <1>1, <1>2

\* The peer finds what was given: the references of the application are in its
\* list, whichever way it is made (OriginalIsGiven), and the list has an entry
\* for each that needs one (EncodedMeans), which is read as it was meant.
THEOREM GivenIsReadAlways == Spec => []GivenIsRead
BY InvReadsGiven, InvHolds, PTL

\* Nothing else is, in any such state.
LEMMA InvReadsNothingElse == Inv => NothingElseIsRead
<1> SUFFICES ASSUME Inv, AccessSent, NEW r \in PeerReads
             PROVE  \/ \E asked \in Asked : r = Means(asked) \/ r \in Parts(asked)
                    \/ r = Box(0, EmptyName) /\ \E g \in Given : NeedsNoEntry(g)
                    \/ r = [appIndex |-> appIndex.value] /\ way = "convert"
  BY DEF NothingElseIsRead
<1>1. PICK k \in DOMAIN Original : Reason(Original[k], r)
  BY SentMeans
<1>2. Fields /\ way \in {"access", "convert"} /\ \A g \in Given : NamesAsset(g)
  BY DEF Inv, AccessSent, NamesAsset
<1>3. CASE Original[k] \in Given
  BY <1>1, <1>3 DEF Reason, Asked
<1>4. CASE way = "convert" /\ \E g \in Given : AddedFor(Original[k], g)
  <2>1. PICK g \in Given : AddedFor(Original[k], g)
    BY <1>4
  <2>2. /\ r = Original[k]
        /\ \/ ~NeedsNoEntry(g) /\ ~NamesNothing(g) /\ r \in Parts(g)
           \/ r = [appIndex |-> appIndex.value]
    BY <1>1, <1>2, <2>1, AddedIsPart
  <2> QED BY <1>4, <2>2 DEF Asked
<1> QED BY <1>2, <1>3, <1>4, OriginalIsGiven

\* It finds nothing else: every entry has the reason for which it was added.
THEOREM NothingElseIsReadAlways == Spec => []NothingElseIsRead
BY InvReadsNothingElse, InvHolds, PTL

-----------------------------------------------------------------------------
(* Types, boxes and what is written again *)

\* The types, in any such state.
LEMMA InvTypes == Inv => TypeOK
<1> SUFFICES ASSUME Inv PROVE TypeOK
  OBVIOUS
<1>1. Fields
  BY DEF Inv
<1>2. WellFormed(Written, appIndex.value)
  BY <1>1, WrittenIsWellFormed
<1>3. last = "written" => IsAsWritten(sent.al)
  BY <1>1, AlIsWellFormed, SentIsAsWritten DEF Inv, AccessOfTxn, Al
<1>4. AccessSent => \A i \in DOMAIN sent.al : Decodable(SubSeq(sent.al, 1, i))
  <2> SUFFICES ASSUME AccessSent, NEW i \in DOMAIN sent.al
               PROVE  Decodable(SubSeq(sent.al, 1, i))
    OBVIOUS
  <2>1. NamesAssets(Written) /\ sent.al = Sent(Written)
    BY SentMeans
  <2>2. DOMAIN Sent(Written) = 1 .. Len(Written) /\ Len(Written) \in Nat
    BY <1>2, SentAt DEF WellFormed
  <2>3. i \in 0 .. Len(Written)
    BY <2>1, <2>2
  <2> QED BY <1>2, <2>1, <2>3, PrefixIsDecodable
<1>5. last # "received" =>
        \A j \in DOMAIN sent.apbx : sent.apbx[j].i \in 0 .. Len(sent.apfa)
  <2>1. CASE last \in {"given", "made"}
    <3>1. DOMAIN sent.apbx = {}
      BY <2>1, EmptyHasNoKey DEF Inv, AccessOfTxn, Empty
    <3> QED BY <3>1
  <2>2. CASE last = "written"
    <3>1. txn.foreignApps \in Seq(Nat)
      BY <1>1 DEF Fields
    <3>2. /\ txn.foreignApps = sent.apfa /\ DOMAIN txn.boxes = DOMAIN sent.apbx
          /\ \A j \in DOMAIN txn.boxes : sent.apbx[j] = WrittenBox(txn.boxes[j])
      BY <2>2 DEF Inv, BoxesOfTxn
    <3>3. \A app : ForeignPosition(app) \in 0 .. Len(txn.foreignApps)
      BY <3>1, ForeignPositionFound
    <3>4. ASSUME NEW j \in DOMAIN sent.apbx PROVE sent.apbx[j].i \in 0 .. Len(sent.apfa)
      <4>1. sent.apbx[j] = WrittenBox(txn.boxes[j])
        BY <3>2
      <4>2. sent.apbx[j].i = ForeignPosition(txn.boxes[j].appIndex)
        BY <4>1 DEF WrittenBox
      <4> QED BY <3>2, <3>3, <4>2
    <3> QED BY <3>4
  <2>3. CASE last = "read"
    <3>1. sent.apbx \in Seq([i : Nat, n : Name]) /\ sent.apfa \in Seq(Nat)
      BY <1>1 DEF Fields
    <3>2. ASSUME NEW j \in DOMAIN sent.apbx PROVE sent.apbx[j].i \in 0 .. Len(sent.apfa)
      <4>1. sent.apbx[j].i \in Nat
        <5>1. sent.apbx[j] \in [i : Nat, n : Name]
          BY <3>1, ElementType
        <5> QED BY <5>1
      <4>2. sent.apbx[j].i <= Len(sent.apfa)
        BY <2>3 DEF Inv, BoxesOfTxn, Readable
      <4> QED BY <3>1, <4>1, <4>2
    <3> QED BY <3>2
  <2> QED BY <1>1, <2>1, <2>2, <2>3 DEF Fields
<1>6. given \in Seq(References(Address, Asset, App, Name))
  BY <1>1 DEF Fields, AppReferences
<1> QED BY <1>1, <1>3, <1>4, <1>5, <1>6 DEF TypeOK, Fields

\* The positions that are written are those of entries before, of the right
\* kind, every resource has one entry, and a box one of the foreign apps.
THEOREM TypesHold == Spec => []TypeOK
BY InvTypes, InvHolds, PTL

\* The boxes, in any such state.
LEMMA InvBoxes == Inv => BoxesAgree
<1> SUFFICES ASSUME Inv, last \in {"written", "read"}, 0 \notin Range(sent.apfa)
             PROVE  /\ Len(txn.boxes) = Len(sent.apbx)
                    /\ \A j \in DOMAIN txn.boxes :
                         IsReferredTo(txn.boxes[j]) = IsLookedFor(sent.apbx[j])
  BY DEF BoxesAgree
<1>1. Fields /\ txn.foreignApps = sent.apfa /\ DOMAIN txn.boxes = DOMAIN sent.apbx
  BY DEF Inv, BoxesOfTxn
<1>2. /\ txn.boxes \in Seq([appIndex : Nat, name : Name])
      /\ sent.apbx \in Seq([i : Nat, n : Name])
      /\ txn.foreignApps \in Seq(Nat) /\ sent.apfa \in Seq(Nat)
  BY <1>1 DEF Fields
<1>3. Len(txn.boxes) = Len(sent.apbx)
  <2>1. 1 .. Len(txn.boxes) = 1 .. Len(sent.apbx)
    BY <1>1, <1>2
  <2>2. Len(txn.boxes) \in Nat /\ Len(sent.apbx) \in Nat
    BY <1>2
  <2> QED BY <2>1, <2>2
<1>4. ASSUME NEW j \in DOMAIN txn.boxes, last = "written"
      PROVE  IsReferredTo(txn.boxes[j]) = IsLookedFor(sent.apbx[j])
  <2> DEFINE app == txn.boxes[j].appIndex
             x == ForeignPosition(app)
  <2>1. Writable(txn.boxes[j]) /\ sent.apbx[j] = WrittenBox(txn.boxes[j])
    BY <1>4 DEF Inv, BoxesOfTxn
  <2>2. sent.apbx[j].i = x /\ sent.apbx[j].n = txn.boxes[j].name
    BY <2>1 DEF WrittenBox
  <2>3. x # 0 \/ IsOwn(app)
    BY <2>1 DEF Writable
  <2>4. /\ x # 0 => sent.apfa[x] = app /\ app # 0
        /\ x = 0 => IsOwn(app)
    BY <1>1, <1>2, <2>3, ForeignPositionFound
  <2> HIDE DEF x
  <2>5. (IF IsOwn(app) THEN appIndex.value ELSE app) =
          (IF x = 0 THEN appIndex.value ELSE sent.apfa[x])
    BY <2>4 DEF IsOwn
  <2> QED BY <2>2, <2>5 DEF IsReferredTo, IsLookedFor
<1>5. ASSUME NEW j \in DOMAIN txn.boxes, last = "read"
      PROVE  IsReferredTo(txn.boxes[j]) = IsLookedFor(sent.apbx[j])
  <2> DEFINE app == txn.boxes[j].appIndex
             x == sent.apbx[j].i
  <2>1. Readable(sent.apbx[j]) /\ txn.boxes[j] = ReadBox(sent.apbx[j])
    BY <1>5 DEF Inv, BoxesOfTxn
  <2>2. app = (IF x = 0 THEN 0 ELSE sent.apfa[x]) /\ txn.boxes[j].name = sent.apbx[j].n
    BY <2>1 DEF ReadBox, ForeignAppAt
  <2>3. x \in Nat /\ x <= Len(sent.apfa)
    <3>1. sent.apbx[j] \in [i : Nat, n : Name]
      BY <1>1, <1>2, ElementType
    <3> QED BY <2>1, <3>1 DEF Readable
  <2>4. x # 0 => sent.apfa[x] # 0
    <3> SUFFICES ASSUME x # 0 PROVE sent.apfa[x] # 0
      OBVIOUS
    <3> HIDE DEF x
    <3>1. x \in DOMAIN sent.apfa
      BY <1>2, <2>3
    <3> QED BY <3>1 DEF Range
  <2> HIDE DEF x
  <2>5. (IF IsOwn(app) THEN appIndex.value ELSE app) =
          (IF x = 0 THEN appIndex.value ELSE sent.apfa[x])
    BY <2>2, <2>4 DEF IsOwn
  <2> QED BY <2>2, <2>5 DEF IsReferredTo, IsLookedFor, x
<1> QED BY <1>3, <1>4, <1>5

\* The network looks for the boxes that the transaction refers to.
THEOREM BoxesAlwaysAgree == Spec => []BoxesAgree
BY InvBoxes, InvHolds, PTL

\* A transaction that was read is written as it was, in any such state.
LEMMA SentIsSame ==
  ASSUME Inv, last = "read", Write, 0 \notin Range(txn.foreignApps),
         IsInjective(txn.foreignApps), IsAsWritten(sent.al)
  PROVE  sent' = sent
<1>1. Fields /\ sent.al \in Seq(Sendable)
  BY DEF Inv, Fields
<1>2. Al = sent.al
  <2>1. Decodable(sent.al) /\ txn.access = Decoded(sent.al)
    BY DEF Inv, AccessOfTxn
  <2> QED BY <1>1, <2>1, AsWrittenIsWrittenAgain DEF Al
<1>3. /\ txn.foreignApps = sent.apfa /\ DOMAIN txn.boxes = DOMAIN sent.apbx
      /\ \A j \in DOMAIN txn.boxes :
           Readable(sent.apbx[j]) /\ txn.boxes[j] = ReadBox(sent.apbx[j])
  BY DEF Inv, BoxesOfTxn
<1>4. /\ sent.apbx \in Seq([i : Nat, n : Name])
      /\ txn.foreignApps \in Seq(Nat) /\ sent.apfa \in Seq(Nat)
  BY <1>1 DEF Fields
<1>5. ASSUME NEW j \in DOMAIN txn.boxes
      PROVE  WrittenBox(txn.boxes[j]) = sent.apbx[j]
  <2> DEFINE x == sent.apbx[j].i
             app == txn.boxes[j].appIndex
  <2>1. sent.apbx[j] \in [i : Nat, n : Name]
    BY <1>3, <1>4, ElementType
  <2>2. x \in Nat /\ x <= Len(sent.apfa)
    BY <1>3, <2>1 DEF Readable
  <2>3. app = (IF x = 0 THEN 0 ELSE sent.apfa[x]) /\ txn.boxes[j].name = sent.apbx[j].n
    <3>1. txn.boxes[j] = ReadBox(sent.apbx[j])
      BY <1>3
    <3> QED BY <3>1 DEF ReadBox, ForeignAppAt
  <2>4. CASE x = 0
    <3>1. ForeignPosition(app) = 0
      BY <1>4, <2>3, <2>4, ForeignPositionFound
    <3> QED BY <2>1, <2>3, <2>4, <3>1 DEF WrittenBox
  <2>5. CASE x # 0
    <3> DEFINE y == ForeignPosition(app)
    <3>1. x \in DOMAIN txn.foreignApps /\ txn.foreignApps[x] = app
      BY <1>3, <1>4, <2>2, <2>3, <2>5
    <3>2. app \in Range(txn.foreignApps)
      BY <3>1 DEF Range
    <3>3. y \in 0 .. Len(txn.foreignApps) /\ y # 0 /\ txn.foreignApps[y] = app
      BY <1>4, <3>2, ForeignPositionFound
    <3> HIDE DEF y
    <3>4. y \in DOMAIN txn.foreignApps
      BY <1>4, <3>3
    <3>5. y = x
      BY <3>1, <3>3, <3>4 DEF IsInjective
    <3> QED BY <2>1, <2>3, <3>5 DEF WrittenBox, y
  <2> QED BY <2>4, <2>5
<1>6. sent.apbx = [j \in DOMAIN txn.boxes |-> WrittenBox(txn.boxes[j])]
  BY <1>3, <1>4, <1>5
<1>7. sent' = [al |-> sent.al, apfa |-> sent.apfa, apbx |-> sent.apbx]
  BY <1>2, <1>3, <1>6 DEF Write
<1>8. sent = [al |-> sent.al, apfa |-> sent.apfa, apbx |-> sent.apbx]
  BY <1>1 DEF Fields
<1> QED BY <1>7, <1>8

\* The access list of one means the same, whoever wrote what was read.
LEMMA SentMeansTheSame ==
  ASSUME Inv, last = "read", Write
  PROVE  /\ Decodable(sent'.al)
         /\ IsMeantForPeer \subseteq PeerReads'
         /\ PeerReads' \subseteq IsMeantForPeer \cup {Box(0, EmptyName)}
<1>1. /\ sent.al \in Seq(Sendable) /\ Decodable(sent.al)
      /\ txn.access = Decoded(sent.al)
  BY DEF Inv, Fields, AccessOfTxn
<1>2. sent'.al = Sent(Encoded(Decoded(sent.al), appIndex.value))
  BY <1>1 DEF Write, Al
<1> QED BY <1>1, <1>2, MeaningIsWritten DEF IsMeantForPeer, PeerReads

\* What WrittenAgain says of a step.
LEMMA StepWritesAgain ==
  ASSUME Inv, last = "read", Write
  PROVE  /\ Decodable(sent'.al)
         /\ IsMeantForPeer \subseteq PeerReads'
         /\ PeerReads' \subseteq IsMeantForPeer \cup {Box(0, EmptyName)}
         /\ /\ 0 \notin Range(txn.foreignApps) /\ IsInjective(txn.foreignApps)
            /\ IsAsWritten(sent.al)
            => sent' = sent
  BY SentMeansTheSame, SentIsSame

\* What was read, whoever wrote it, means the same when it is written again: the
\* references that were read all name something, so that each has an entry for
\* what it means and no other entry but for its parts (EncodedMeans), which were
\* read too.  It is the same if it is as this library writes it: a list of
\* distinct entries that point back, of the right kind, is encoded again to the
\* entries that were sent (EncodedAgain), and a foreign app that is there once
\* has one position.
THEOREM AlwaysWrittenAgain == Spec => WrittenAgain
<1>1. Inv /\ [Next]_vars =>
        [last = "read" /\ Write =>
           /\ Decodable(sent'.al)
           /\ IsMeantForPeer \subseteq PeerReads'
           /\ PeerReads' \subseteq IsMeantForPeer \cup {Box(0, EmptyName)}
           /\ /\ 0 \notin Range(txn.foreignApps) /\ IsInjective(txn.foreignApps)
              /\ IsAsWritten(sent.al)
              => sent' = sent]_vars
  BY StepWritesAgain
<1> QED BY <1>1, InvHolds, PTL DEF Spec, WrittenAgain

-----------------------------------------------------------------------------
(* What a contract returns *)

\* Arguments leave room for a type and a value around them.
LEMMA ArgumentsNest ==
  /\ SimpleTypes \subseteq ArgumentTypes /\ SimpleValues \subseteq ArgumentValues
  /\ ArgumentTypes \subseteq Types /\ ArgumentValues \subseteq AbiValues
  /\ TypesOf(ArgumentTypes) \subseteq Types
  /\ {"array"} \X Seq(ArgumentValues) \subseteq AbiValues
<1>1. MaxDepth \in 1 .. MaxDepth /\ MaxDepth - 1 \in 0 .. MaxDepth
  BY MethodAssumption, AbiAssumption
<1>2. ArgumentTypes \subseteq Types /\ ArgumentValues \subseteq AbiValues
  BY <1>1, TypesGrow, ValuesGrow DEF ArgumentTypes, ArgumentValues
<1>3. Types = SimpleTypes \cup TypesOf(ArgumentTypes)
  BY <1>1, TypesToIs DEF Types, ArgumentTypes
<1>4. AbiValues = SimpleValues \cup ({"array"} \X Seq(ArgumentValues))
  BY <1>1, ValuesToIs DEF AbiValues, ArgumentValues
<1>5. \A d \in 0 .. MaxDepth : SimpleTypes \subseteq TypesTo[d] /\ SimpleValues \subseteq ValuesTo[d]
  <2> SUFFICES ASSUME NEW d \in 0 .. MaxDepth
               PROVE  SimpleTypes \subseteq TypesTo[d] /\ SimpleValues \subseteq ValuesTo[d]
    OBVIOUS
  <2>1. CASE d = 0
    BY <2>1, TypesToIs, ValuesToIs
  <2>2. CASE d # 0
    <3>1. d \in 1 .. MaxDepth
      BY <2>2, AbiAssumption
    <3> QED BY <3>1, TypesToIs, ValuesToIs
  <2> QED BY <2>1, <2>2
<1>6. SimpleTypes \subseteq ArgumentTypes /\ SimpleValues \subseteq ArgumentValues
  BY <1>1, <1>5 DEF ArgumentTypes, ArgumentValues
<1> QED BY <1>2, <1>3, <1>4, <1>6

\* The bytes of the prefix.
LEMMA PrefixBytes ==
  /\ ReturnPrefix \in ByteStrings /\ Len(ReturnPrefix) = 4 /\ ReturnPrefix[4] = 1
  /\ SubSeq(ReturnPrefix, 1, 4) = ReturnPrefix
<1>1. 0 \in 0 .. Base - 1 /\ 1 \in 0 .. Base - 1 /\ 3 \in 0 .. Base - 1
  BY BaseIs
<1> DEFINE D == 0 .. Base - 1
<1>2. 1 \in D /\ 3 \in D
  BY <1>1
<1> HIDE DEF D
<1>3. <<1, 1, 3, 1>> \in Seq(D)
  BY <1>2
<1>4. ReturnPrefix \in ByteStrings
  BY <1>3 DEF D, ReturnPrefix, ByteStrings
<1>5. Len(ReturnPrefix) = 4 /\ ReturnPrefix[4] = 1
  BY DEF ReturnPrefix
<1>6. SubSeq(ReturnPrefix, 1, 4) = ReturnPrefix
  <2>1. ReturnPrefix \in Seq(D) /\ \A i \in 1 .. Len(ReturnPrefix) : ReturnPrefix[0 + i] = ReturnPrefix[i]
    BY <1>3, <1>5 DEF ReturnPrefix
  <2>2. SubSeq(ReturnPrefix, 0 + 1, 0 + Len(ReturnPrefix)) = ReturnPrefix
    BY <2>1, <1>5, SliceIs
  <2> QED BY <1>5, <2>2
<1> QED BY <1>4, <1>5, <1>6

\* The prefix and what follows it.
LEMMA PrefixJoined ==
  ASSUME NEW rest \in ByteStrings
  PROVE  LET joined == ReturnPrefix \o rest
         IN  /\ joined \in ByteStrings /\ Len(joined) = 4 + Len(rest) /\ Len(rest) \in Nat
             /\ \A i \in 1 .. 4 : joined[i] = ReturnPrefix[i]
             /\ \A i \in 1 .. Len(rest) : joined[4 + i] = rest[i]
<1> DEFINE D == 0 .. Base - 1
<1>1. ReturnPrefix \in Seq(D) /\ rest \in Seq(D)
  BY PrefixBytes DEF ByteStrings
<1>2. ByteStrings = Seq(D)
  BY DEF ByteStrings
<1> HIDE DEF D
<1>3. /\ ReturnPrefix \o rest \in Seq(D)
      /\ Len(ReturnPrefix \o rest) = Len(ReturnPrefix) + Len(rest)
      /\ Len(rest) \in Nat
  BY <1>1, JoinedIs
<1>4. \A i \in 1 .. Len(ReturnPrefix) : (ReturnPrefix \o rest)[i] = ReturnPrefix[i]
  BY <1>1, JoinedIs
<1>5. \A i \in 1 .. Len(rest) : (ReturnPrefix \o rest)[Len(ReturnPrefix) + i] = rest[i]
  BY <1>1, JoinedIs
<1> QED BY <1>1, <1>2, <1>3, <1>4, <1>5, PrefixBytes

\* A return value is read of what comes after the prefix.
LEMMA ReadsWhatFollows ==
  ASSUME NEW logs, logs # <<>>, NEW rest \in ByteStrings,
         ReturnLog(logs) = ReturnPrefix \o rest, NEW type, type # Void
  PROVE  ParseMethodResponse(type, logs) = ReadAs(AbiDecode[type][rest])
<1> DEFINE log == ReturnLog(logs)
           D == 0 .. Base - 1
<1>1. ReturnPrefix \in Seq(D) /\ rest \in Seq(D) /\ Len(ReturnPrefix) = 4
  BY PrefixBytes DEF ByteStrings
<1>2. /\ log \in Seq(D) /\ Len(log) = 4 + Len(rest) /\ Len(rest) \in Nat
      /\ \A i \in 1 .. 4 : log[i] = ReturnPrefix[i]
      /\ \A i \in 1 .. Len(rest) : log[4 + i] = rest[i]
  <2>1. \A joined : joined = ReturnPrefix \o rest =>
          /\ joined \in Seq(D) /\ Len(joined) = 4 + Len(rest) /\ Len(rest) \in Nat
          /\ \A i \in 1 .. 4 : joined[i] = ReturnPrefix[i]
          /\ \A i \in 1 .. Len(rest) : joined[4 + i] = rest[i]
    BY <1>1, PrefixJoined, SMTT(30) DEF ByteStrings
  <2> QED BY <2>1
<1> HIDE DEF log, D
<1>3. SubSeq(log, 0 + 1, 0 + Len(ReturnPrefix)) = ReturnPrefix
  <2>1. 0 + Len(ReturnPrefix) <= Len(log) /\ \A i \in 1 .. Len(ReturnPrefix) : log[0 + i] = ReturnPrefix[i]
    BY <1>1, <1>2
  <2> QED BY <1>1, <1>2, <2>1, SliceIs
<1>4. SubSeq(log, 4 + 1, 4 + Len(rest)) = rest
  BY <1>1, <1>2, SliceIs
<1>5. HasReturn(logs)
  BY <1>1, <1>2, <1>3, PrefixBytes DEF HasReturn, IsPrefix, log
<1>6. ParseMethodResponse(type, logs) =
        ReadAs(AbiDecode[type][SubSeq(log, Len(ReturnPrefix) + 1, Len(log))])
  BY <1>5 DEF ParseMethodResponse, log
<1> QED BY <1>1, <1>2, <1>4, <1>6

\* Without the prefix, or with three bytes of it, nothing is read.
LEMMA ReadsNothing ==
  ASSUME NEW logs, NEW type, type # Void,
         logs # <<>> => \/ Len(ReturnLog(logs)) = 3
                        \/ /\ ReturnLog(logs) \in Seq(Nat) /\ Len(ReturnLog(logs)) >= 4
                           /\ ReturnLog(logs)[4] # 1
  PROVE  ParseMethodResponse(type, logs) = NotRead
<1>1. ~HasReturn(logs)
  <2> SUFFICES ASSUME HasReturn(logs) PROVE FALSE
    OBVIOUS
  <2>1. /\ logs # <<>> /\ 4 <= Len(ReturnLog(logs))
        /\ ReturnPrefix = SubSeq(ReturnLog(logs), 1, 4)
    BY PrefixBytes DEF HasReturn, IsPrefix
  <2>2. CASE Len(ReturnLog(logs)) = 3
    BY <2>1, <2>2
  <2>3. CASE ReturnLog(logs) \in Seq(Nat) /\ Len(ReturnLog(logs)) >= 4 /\ ReturnLog(logs)[4] # 1
    <3>1. SubSeq(ReturnLog(logs), 1, 4)[4] = ReturnLog(logs)[4]
      BY <2>3
    <3> QED BY <2>1, <2>3, <3>1, PrefixBytes
  <2> QED BY <2>1, <2>2, <2>3
<1> QED BY <1>1 DEF ParseMethodResponse

Outcomes == {"returned", "last", "none", "short", "cut", "long"}

\* What a contract returns has bytes.
LEMMA ReturnHasBytes ==
  ASSUME NEW ret \in Return, ret.type # Void
  PROVE  /\ ret.type \in Types /\ ret.value \in AbiValues
         /\ AbiEncode[ret.type][ret.value] \in ByteStrings
         /\ Logged(ret) = ReturnPrefix \o AbiEncode[ret.type][ret.value]
<1>1. ret.type \in Types /\ ret.value \in AbiValues /\ Fits[ret.type][FALSE][ret.value]
  BY MethodAssumption, ArgumentsNest
<1>2. AbiEncode[ret.type][ret.value] \in ByteStrings
  BY <1>1, TypesEncode DEF EncodesAll
<1> QED BY <1>1, <1>2 DEF Logged, ReturnBytes

\* The value that was returned is read.
LEMMA ReturnedIsRead ==
  ASSUME NEW ret \in Return, ret.type # Void, Fits[ret.type][TRUE][ret.value]
  PROVE  LET result == ParseMethodResponse(ret.type, LogsOf(ret).returned)
         IN  \/ result = ReadAs(Meant[ret.type][ret.value])
             \/ result = NotRead /\ HasEmptyPart[ret.type]
<1> DEFINE bytes == AbiEncode[ret.type][ret.value]
           logs == LogsOf(ret).returned
<1>1. /\ ret.type \in Types /\ ret.value \in AbiValues
      /\ bytes \in ByteStrings /\ Logged(ret) = ReturnPrefix \o bytes
  BY ReturnHasBytes
<1>2. logs = <<OtherLog, Logged(ret)>>
  BY DEF LogsOf
<1>3. logs # <<>> /\ ReturnLog(logs) = Logged(ret)
  <2>1. \A a, b : <<a, b>> # <<>> /\ Last(<<a, b>>) = b
    BY DEF Last
  <2> HIDE DEF logs
  <2> QED BY <1>2, <2>1 DEF ReturnLog
<1> HIDE DEF logs
<1>4. ParseMethodResponse(ret.type, logs) = ReadAs(AbiDecode[ret.type][bytes])
  BY <1>1, <1>3, ReadsWhatFollows
<1>5. \/ AbiDecode[ret.type][bytes] = Meant[ret.type][ret.value]
      \/ AbiDecode[ret.type][bytes] = NoValue /\ HasEmptyPart[ret.type]
  <2>1. RoundTrip(ret.type)
    BY <1>1, TypesAreRead
  <2> HIDE DEF bytes
  <2> QED BY <1>1, <2>1 DEF RoundTrip, bytes
<1> QED BY <1>4, <1>5 DEF ReadAs, NotRead, logs

\* Logs that are not the contract's, or not all of it, are not read.
LEMMA OtherLogsAreNot ==
  ASSUME NEW ret \in Return, ret.type # Void
  PROVE  /\ ParseMethodResponse(ret.type, LogsOf(ret).last) = NotRead
         /\ ParseMethodResponse(ret.type, LogsOf(ret).none) = NotRead
         /\ ParseMethodResponse(ret.type, LogsOf(ret).short) = NotRead
<1>1. ParseMethodResponse(ret.type, LogsOf(ret).last) = NotRead
  <2>1. LogsOf(ret).last = <<Logged(ret), OtherLog>>
    BY DEF LogsOf
  <2>2. \A a, b : Last(<<a, b>>) = b
    BY DEF Last
  <2>3. ReturnLog(LogsOf(ret).last) = OtherLog
    BY <2>1, <2>2 DEF ReturnLog
  <2>4. OtherLog \in Seq(Nat) /\ Len(OtherLog) >= 4 /\ OtherLog[4] # 1
    BY DEF OtherLog
  <2>5. \A logs : ReturnLog(logs) = OtherLog => ParseMethodResponse(ret.type, logs) = NotRead
    BY <2>4, ReadsNothing
  <2> QED BY <2>3, <2>5
<1>2. ParseMethodResponse(ret.type, LogsOf(ret).none) = NotRead
  <2>1. LogsOf(ret).none = <<>>
    BY DEF LogsOf
  <2> QED BY <2>1, ReadsNothing
<1>3. ParseMethodResponse(ret.type, LogsOf(ret).short) = NotRead
  <2>1. LogsOf(ret).short = <<SubSeq(ReturnPrefix, 1, 3)>>
    BY DEF LogsOf
  <2>2. \A a : Last(<<a>>) = a
    BY DEF Last
  <2>3. ReturnLog(LogsOf(ret).short) = SubSeq(ReturnPrefix, 1, 3)
    BY <2>1, <2>2 DEF ReturnLog
  <2>4. Len(SubSeq(ReturnPrefix, 1, 3)) = 3
    BY PrefixBytes DEF ByteStrings
  <2>5. Len(ReturnLog(LogsOf(ret).short)) = 3
    BY <2>3, <2>4
  <2> QED BY <2>5, ReadsNothing
<1> QED BY <1>1, <1>2, <1>3

\* What is not returned as it was is not read, but for missing booleans.
LEMMA DamagedIsNot ==
  ASSUME NEW ret \in Return, ret.type # Void, Fits[ret.type][TRUE][ret.value]
  PROVE  \/ EndsInBools[ret.type]
         \/ /\ ParseMethodResponse(ret.type, LogsOf(ret).cut) = NotRead
            /\ ParseMethodResponse(ret.type, LogsOf(ret).long) = NotRead
<1> SUFFICES ASSUME ~EndsInBools[ret.type]
             PROVE  /\ ParseMethodResponse(ret.type, LogsOf(ret).cut) = NotRead
                    /\ ParseMethodResponse(ret.type, LogsOf(ret).long) = NotRead
  OBVIOUS
<1> DEFINE bytes == AbiEncode[ret.type][ret.value]
           D == 0 .. Base - 1
<1>1. /\ ret.type \in Types /\ ret.value \in AbiValues
      /\ bytes \in ByteStrings /\ Logged(ret) = ReturnPrefix \o bytes
  BY ReturnHasBytes
<1>2. /\ Logged(ret) \in ByteStrings /\ Len(Logged(ret)) = 4 + Len(bytes) /\ Len(bytes) \in Nat
      /\ \A i \in 1 .. 4 : Logged(ret)[i] = ReturnPrefix[i]
      /\ \A i \in 1 .. Len(bytes) : Logged(ret)[4 + i] = bytes[i]
  <2> HIDE DEF bytes
  <2> QED BY <1>1, PrefixJoined
<1>3. \A other : Damaged(bytes, other) => AbiDecode[ret.type][other] = NoValue
  BY <1>1, TypesAreNotMissed DEF NotMissed
<1>4. \A a : Last(<<a>>) = a /\ <<a>> # <<>>
  BY DEF Last
<1>5. ASSUME NEW other, Damaged(bytes, other), NEW logs, logs = <<ReturnPrefix \o other>>
      PROVE  ParseMethodResponse(ret.type, logs) = NotRead
  <2>1. other \in ByteStrings
    BY <1>5 DEF Damaged
  <2>2. ReturnLog(logs) = ReturnPrefix \o other /\ logs # <<>>
    BY <1>4, <1>5 DEF ReturnLog
  <2>3. ParseMethodResponse(ret.type, logs) = ReadAs(AbiDecode[ret.type][other])
    BY <2>1, <2>2, ReadsWhatFollows
  <2> QED BY <1>3, <1>5, <2>3 DEF ReadAs, NotRead
<1>6. ByteStrings = Seq(D) /\ 0 \in D
  BY BaseIs DEF ByteStrings
<1> HIDE DEF bytes, D
<1>7. ParseMethodResponse(ret.type, LogsOf(ret).long) = NotRead
  <2> DEFINE other == Append(bytes, 0)
  <2>1. /\ other \in Seq(D) /\ Len(other) = Len(bytes) + 1
        /\ \A i \in 1 .. Len(bytes) : other[i] = bytes[i]
    BY <1>1, <1>6
  <2>2. Damaged(bytes, other)
    <3> HIDE DEF other
    <3> QED BY <1>1, <1>6, <2>1 DEF Damaged
  <2>3. Append(Logged(ret), 0) = ReturnPrefix \o other
    BY <1>1, <1>6, PrefixBytes, SMTT(30)
  <2>4. LogsOf(ret).long = <<Append(Logged(ret), 0)>>
    BY DEF LogsOf
  <2> HIDE DEF other
  <2> QED BY <1>5, <2>2, <2>3, <2>4
<1>8. ParseMethodResponse(ret.type, LogsOf(ret).cut) = NotRead
  <2>1. LogsOf(ret).cut = <<Front(Logged(ret))>>
    BY DEF LogsOf
  <2>2. CASE Len(bytes) = 0
    <3>1. Len(Front(Logged(ret))) = 3
      BY <1>2, <1>6, <2>2 DEF Front
    <3>2. ReturnLog(LogsOf(ret).cut) = Front(Logged(ret))
      BY <1>4, <2>1 DEF ReturnLog
    <3> QED BY <3>1, <3>2, ReadsNothing
  <2>3. CASE Len(bytes) # 0
    <3> DEFINE n == Len(bytes) - 1
               other == SubSeq(bytes, 0 + 1, 0 + n)
    <3>1. n \in Nat /\ 0 + n <= Len(bytes) /\ Len(bytes) = n + 1
      BY <1>2, <2>3
    <3>2. /\ other \in Seq(D) /\ Len(other) = n
          /\ \A i \in 1 .. n : other[i] = bytes[0 + i]
      <4> HIDE DEF n
      <4> QED BY <1>1, <1>6, <3>1, SliceOf
    <3> HIDE DEF n, other
    <3>3. Damaged(bytes, other)
      BY <1>1, <1>6, <3>1, <3>2 DEF Damaged
    <3>4. Front(Logged(ret)) = ReturnPrefix \o other
      <4> DEFINE joined == ReturnPrefix \o other
      <4>1. /\ joined \in Seq(D) /\ Len(joined) = 4 + n
            /\ \A i \in 1 .. 4 : joined[i] = ReturnPrefix[i]
            /\ \A i \in 1 .. n : joined[4 + i] = other[i]
        BY <1>6, <3>2, PrefixJoined
      <4> HIDE DEF joined
      <4>2. \A i \in 1 .. 4 + n : Logged(ret)[0 + i] = joined[i]
        <5> SUFFICES ASSUME NEW i \in 1 .. 4 + n
                     PROVE  Logged(ret)[i] = joined[i]
          BY <3>1
        <5>1. CASE i <= 4
          BY <1>2, <3>1, <4>1, <5>1
        <5>2. CASE i > 4
          <6>1. i - 4 \in 1 .. n /\ i = 4 + (i - 4) /\ i - 4 \in 1 .. Len(bytes)
            BY <3>1, <5>2
          <6> QED BY <1>2, <3>2, <4>1, <6>1
        <5> QED BY <3>1, <5>1, <5>2
      <4>3. SubSeq(Logged(ret), 0 + 1, 0 + Len(joined)) = joined
        <5>1. Logged(ret) \in Seq(D) /\ 0 + Len(joined) <= Len(Logged(ret))
          BY <1>2, <1>6, <3>1, <4>1
        <5>2. \A i \in 1 .. Len(joined) : Logged(ret)[0 + i] = joined[i]
          BY <4>1, <4>2
        <5>3. joined \in Seq(D)
          BY <4>1
        <5> QED BY <5>1, <5>2, <5>3, SliceIs
      <4>4. 0 + Len(joined) = Len(Logged(ret)) - 1
        BY <1>2, <3>1, <4>1
      <4> QED BY <4>3, <4>4 DEF Front, joined
    <3> QED BY <1>5, <2>1, <3>3, <3>4
  <2> QED BY <2>2, <2>3
<1> QED BY <1>7, <1>8

\* What addMethodCall changes.
LEMMA MethodCallChanges ==
  ASSUME NEW withAccess \in BOOLEAN, AddMethodCall(withAccess)
  PROVE  UNCHANGED <<arguments, response, appIndex, given>>
<1>1. \/ Refuse(withAccess)
      \/ \E arrays, appArgs : CallWith(withAccess, arrays, appArgs)
  BY DEF AddMethodCall, CallResolved
<1>2. Refuse(withAccess) => UNCHANGED <<arguments, response, appIndex, given>>
  BY DEF Refuse, vars
<1>3. ASSUME NEW arrays, NEW appArgs, CallWith(withAccess, arrays, appArgs)
      PROVE  UNCHANGED <<arguments, response, appIndex, given>>
  <2>1. CASE NoBytes \in Range(appArgs)
    BY <1>2, <1>3, <2>1 DEF CallWith
  <2>2. CASE NoBytes \notin Range(appArgs)
    <3>1. CallMade(withAccess, arrays) /\ UNCHANGED <<arguments, response>>
      BY <1>3, <2>2 DEF CallWith
    <3>2. UNCHANGED <<appIndex, given>>
      BY <3>1 DEF CallMade, Make
    <3> QED BY <3>1, <3>2
  <2> QED BY <2>1, <2>2
<1> QED BY <1>1, <1>2, <1>3

\* What was read of what the contract logged.
ResponseIs ==
  \/ response = NoResponse
  \/ \E ret \in Return, outcome \in Outcomes :
       response = [status |-> outcome, ret |-> ret,
                   result |-> ParseMethodResponse(ret.type, LogsOf(ret)[outcome])]

\* What was read of a response stays what it was.
LEMMA ResponseRemains ==
  ASSUME ResponseIs, [MethodNext]_<<vars, methodVars>>
  PROVE  ResponseIs'
<1>1. response' = response => ResponseIs'
  BY DEF ResponseIs
<1>2. CASE GiveReference \/ WithoutMethod \/ OnTheWay \/ UNCHANGED <<vars, methodVars>>
  BY <1>1, <1>2 DEF GiveReference, WithoutMethod, OnTheWay, methodVars
<1>3. CASE \E arg \in Plain \cup Structured : GiveArgument(arg)
  BY <1>1, <1>3 DEF GiveArgument
<1>4. CASE \E withAccess \in BOOLEAN : AddMethodCall(withAccess)
  BY <1>1, <1>4, MethodCallChanges
<1>5. ASSUME NEW ret \in Return, NEW outcome \in Outcomes, Respond(ret, outcome)
      PROVE  ResponseIs'
  BY <1>5 DEF Respond, ResponseIs
<1> QED BY <1>2, <1>3, <1>4, <1>5 DEF MethodNext, Outcomes

\* What was read is what the contract returned.
LEMMA ResponseIsRead ==
  ASSUME ResponseIs
  PROVE  ReturnIsRead
<1> SUFFICES ASSUME response # NoResponse, response.ret.type # Void,
                    Fits[response.ret.type][TRUE][response.ret.value]
             PROVE  IF response.status = "returned"
                    THEN \/ response.result = ReadAs(Meant[response.ret.type][response.ret.value])
                         \/ response.result = NotRead /\ HasEmptyPart[response.ret.type]
                    ELSE response.result = NotRead \/ EndsInBools[response.ret.type]
  BY DEF ReturnIsRead
<1>1. PICK ret \in Return, outcome \in Outcomes :
        response = [status |-> outcome, ret |-> ret,
                    result |-> ParseMethodResponse(ret.type, LogsOf(ret)[outcome])]
  BY DEF ResponseIs
<1> DEFINE result == ParseMethodResponse(ret.type, LogsOf(ret)[outcome])
<1>2. /\ response.status = outcome /\ response.ret = ret /\ response.result = result
      /\ ret.type # Void /\ Fits[ret.type][TRUE][ret.value]
  BY <1>1
<1>3. CASE outcome = "returned"
  BY <1>2, <1>3, ReturnedIsRead
<1>4. CASE outcome \in {"last", "none", "short"}
  BY <1>2, <1>4, OtherLogsAreNot
<1>5. CASE outcome \in {"cut", "long"}
  BY <1>2, <1>5, DamagedIsNot
<1> QED BY <1>2, <1>3, <1>4, <1>5 DEF Outcomes

\* A value of its type that a contract returned is read as it is, and what it did
\* not return is not read, for every type and every value of it, texts being in
\* UTF-8 without a mark at their beginning, whatever TextDecoder makes of others
\* (src/src/composer.ts parseMethodResponse).
THEOREM ReturnIsAlwaysRead == MethodSpec => []ReturnIsRead
<1>1. MethodInit => ResponseIs
  BY DEF MethodInit, ResponseIs
<1>2. ResponseIs /\ [MethodNext]_<<vars, methodVars>> => ResponseIs'
  BY ResponseRemains
<1>3. ResponseIs => ReturnIsRead
  BY ResponseIsRead
<1> QED BY <1>1, <1>2, <1>3, PTL DEF MethodSpec

-----------------------------------------------------------------------------
(* What is encoded of the arguments *)

\* An argument of the call that is no transaction.
BasicArguments ==
  {arg \in Plain \cup Structured :
     ~IsTransaction(arg) /\ \E k \in DOMAIN arguments : arguments[k] = arg}

\* The arguments that are no transactions.
LEMMA BasicIs ==
  ASSUME arguments \in Seq(Plain \cup Structured)
  PROVE  Basic \in Seq(BasicArguments) /\ Len(Basic) <= Len(arguments)
<1> DEFINE N == Len(arguments)
           V == BasicArguments
<1>1. /\ N \in Nat /\ DOMAIN arguments = 1 .. N
      /\ \A n \in 1 .. N : arguments[n] \in Plain \cup Structured
  OBVIOUS
<1>2. \A n \in 1 .. N : ~IsTransaction(arguments[n]) => arguments[n] \in V
  BY <1>1 DEF BasicArguments
<1> HIDE DEF N, V
<1>3. PICK g : /\ g[0] = <<>>
               /\ \A n \in 1 .. N :
                    g[n] = (IF IsTransaction(arguments[n]) THEN g[n - 1]
                            ELSE Append(g[n - 1], arguments[n]))
               /\ g[N] = Basic
  BY <1>1, BasicSteps
<1> DEFINE S == {n \in 0 .. N : g[n] \in Seq(V) /\ Len(g[n]) <= n}
<1>4. 0 \in S
  <2>1. <<>> \in Seq(V) /\ Len(<<>>) <= 0
    OBVIOUS
  <2>2. g[0] \in Seq(V) /\ Len(g[0]) <= 0
    BY <1>3, <2>1
  <2> QED BY <1>1, <2>2
<1>5. ASSUME NEW n \in 1 .. N, n - 1 \in S PROVE n \in S
  <2>1. g[n - 1] \in Seq(V) /\ Len(g[n - 1]) <= n - 1 /\ Len(g[n - 1]) \in Nat
    BY <1>5
  <2>2. CASE IsTransaction(arguments[n])
    <3>1. g[n] = g[n - 1]
      BY <1>3, <2>2
    <3>2. g[n] \in Seq(V) /\ Len(g[n]) <= n
      BY <1>1, <2>1, <3>1
    <3> QED BY <1>1, <3>2
  <2>3. CASE ~IsTransaction(arguments[n])
    <3>1. g[n] = Append(g[n - 1], arguments[n]) /\ arguments[n] \in V
      BY <1>2, <1>3, <2>3
    <3>2. g[n] \in Seq(V) /\ Len(g[n]) = Len(g[n - 1]) + 1
      BY <2>1, <3>1
    <3>3. Len(g[n]) <= n
      BY <1>1, <2>1, <3>2
    <3> QED BY <1>1, <3>2, <3>3
  <2> QED BY <2>2, <2>3
<1>6. N \in S
  <2> HIDE DEF S
  <2>1. 0 .. N \subseteq S
    BY <1>1, <1>4, <1>5, InductionUpTo
  <2> QED BY <1>1, <2>1
<1> QED BY <1>3, <1>6 DEF N, V

\* An argument of the right kind, which is no transaction.
LEMMA BasicCases ==
  ASSUME NEW arg \in BasicArguments, Accepted
  PROVE  /\ TransactionAccepted(arg)
         /\ IsReference(arg) => ReferenceAccepted(arg)
         /\ ~IsReference(arg) => arg.type \in ArgumentTypes /\ arg.value \in ArgumentValues
         /\ IsReference(arg) => arg.type[1] \in {"account", "application", "asset"}
<1>1. PICK k \in DOMAIN arguments : arguments[k] = arg
  BY DEF BasicArguments
<1>2. TransactionAccepted(arg) /\ (IsReference(arg) => ReferenceAccepted(arg))
  BY <1>1 DEF Accepted
<1>3. arg \in Arguments /\ arg.type \notin TransactionTypes
  BY MethodAssumption DEF BasicArguments, IsTransaction
<1>4. ~IsA(arg.value, "transaction")
  BY <1>2, <1>3 DEF TransactionAccepted, IsTransaction
<1>5. arg.value \notin Transactions
  BY <1>4 DEF Transactions, Transaction, IsA
<1>6. ~IsReference(arg) => arg.type \in ArgumentTypes /\ arg.value \in ArgumentValues
  BY <1>3, <1>5 DEF IsReference, Arguments, ReferenceTypes
<1>7. IsReference(arg) => arg.type[1] \in {"account", "application", "asset"}
  BY DEF IsReference, ReferenceTypes
<1> QED BY <1>2, <1>6, <1>7

\* A reference to an application is one by its ID.
LEMMA ApplicationIsNumber ==
  ASSUME NEW arg \in BasicArguments, Accepted, arg.type = <<"application">>
  PROVE  arg.value[2] \in Nat
<1>1. IsReference(arg) /\ ReferenceAccepted(arg) /\ TransactionAccepted(arg)
  <2>1. IsReference(arg)
    BY DEF IsReference, ReferenceTypes
  <2> QED BY <2>1, BasicCases
<1>2. arg \in Arguments /\ arg.type \notin TransactionTypes
  BY MethodAssumption DEF BasicArguments, IsTransaction
<1>3. ~IsA(arg.value, "transaction")
  BY <1>1, <1>2 DEF TransactionAccepted, IsTransaction
<1>4. arg.value \notin Transactions
  BY <1>3 DEF Transactions, Transaction, IsA
<1>5. <<"application">> # <<"account">>
  <2>1. <<"application">>[1] # <<"account">>[1]
    OBVIOUS
  <2> QED BY <2>1
<1>6. arg.value \in AbiValues
  <2>1. arg.value \in ArgumentValues
    BY <1>2, <1>4, <1>5 DEF Arguments
  <2> QED BY <2>1, ArgumentsNest
<1>7. Uint(IDSize) \in Types /\ Uint(IDSize)[1] = "uint" /\ Uint(IDSize)[2] = IDSize /\ IDSize \in Nat
  BY MethodAssumption, SimpleTypesAreTypes DEF Uint, SimpleTypes
<1>8. AbiEncode[Uint(IDSize)][arg.value] # NoBytes
  BY <1>1, <1>5 DEF ReferenceAccepted
<1>9. EncodeInteger(arg.value, IDSize) # NoBytes
  <2>1. AbiEncode[Uint(IDSize)][arg.value] = EncodeAs(Uint(IDSize), arg.value, AbiEncode)
    BY <1>6, <1>7, FunctionsAre
  <2>2. EncodeAs(Uint(IDSize), arg.value, AbiEncode) = EncodeInteger(arg.value, IDSize)
    BY <1>7 DEF EncodeAs
  <2> QED BY <1>8, <2>1, <2>2
<1> QED BY <1>6, <1>7, <1>9, IntegerEncoded

\* What populateForeignArray leaves in place, and the position it gives.
Populated(U, value, array, zeroValue, added) ==
  /\ added.array \in Seq(U) /\ Len(array) <= Len(added.array)
  /\ \A i \in 1 .. Len(array) : added.array[i] = array[i]
  /\ added.index \in Nat
  /\ zeroValue = <<value>> => added.index = 0
  /\ zeroValue # <<value>> =>
       \E place \in 1 .. Len(added.array) :
         /\ added.array[place] = value
         /\ added.index = place - 1 + (IF zeroValue = NoZeroValue THEN 0 ELSE 1)

\* It is found there, and what was in the array stays where it is.
LEMMA PopulateIs ==
  ASSUME NEW U, NEW array \in Seq(U), NEW value \in U, NEW zeroValue
  PROVE  Populated(U, value, array, zeroValue, Populate(value, array, zeroValue))
<1> DEFINE added == Populate(value, array, zeroValue)
           offset == IF zeroValue = NoZeroValue THEN 0 ELSE 1
           place == IF value \in Range(array) THEN PositionOf(array, value) ELSE Len(array) + 1
           longer == IF value \in Range(array) THEN array ELSE Append(array, value)
<1>1. offset \in Nat /\ Len(array) \in Nat /\ DOMAIN array = 1 .. Len(array)
  OBVIOUS
<1>2. added = IF zeroValue = <<value>> THEN [index |-> 0, array |-> array]
              ELSE [index |-> place - 1 + offset, array |-> longer]
  BY DEF Populate
<1>3. \/ zeroValue = <<value>> /\ added.array = array /\ added.index = 0
      \/ zeroValue # <<value>> /\ added.array = longer /\ added.index = place - 1 + offset
  BY <1>2
<1>4. /\ longer \in Seq(U) /\ Len(array) <= Len(longer)
      /\ \A i \in 1 .. Len(array) : longer[i] = array[i]
      /\ place \in 1 .. Len(longer) /\ longer[place] = value
  <2>1. CASE value \in Range(array)
    <3>1. place \in 1 .. Len(array) /\ array[place] = value
      BY <1>1, <2>1, PositionFound
    <3> QED BY <1>1, <2>1, <3>1
  <2>2. CASE value \notin Range(array)
    BY <1>1, <2>2
  <2> QED BY <2>1, <2>2
<1>5. Len(longer) \in Nat
  BY <1>4
<1> HIDE DEF added, offset, place, longer
<1>6. place - 1 + offset \in Nat
  BY <1>1, <1>4, <1>5
<1>7. /\ added.array \in Seq(U) /\ Len(array) <= Len(added.array)
      /\ \A i \in 1 .. Len(array) : added.array[i] = array[i]
      /\ added.index \in Nat
  <2>1. CASE added.array = array /\ added.index = 0
    BY <1>1, <2>1
  <2>2. CASE added.array = longer /\ added.index = place - 1 + offset
    BY <1>4, <1>6, <2>2
  <2> QED BY <1>3, <2>1, <2>2
<1>8. zeroValue = <<value>> => added.index = 0
  BY <1>3
<1>9. zeroValue # <<value>> =>
        \E q \in 1 .. Len(added.array) : added.array[q] = value /\ added.index = q - 1 + offset
  BY <1>3, <1>4
<1> QED BY <1>7, <1>8, <1>9 DEF added, offset, Populated

-----------------------------------------------------------------------------
(* Every reference is found where its number says *)

ArrayKinds == {"account", "application", "asset"}

\* What may be in an array: IDs of applications in theirs.
ListedValues ==
  (UNION {Range(ArraysGiven(withAccess)[kind]) : withAccess \in BOOLEAN, kind \in ArrayKinds})
    \cup {arg.value[2] : arg \in BasicArguments}

ListedIn(kind) == IF kind = "application" THEN Nat ELSE ListedValues

Offset(kind) == IF ZeroValues[kind] = NoZeroValue THEN 0 ELSE 1

IsIn(arrays, kind, target, index) ==
  \/ ZeroValues[kind] = <<target>> /\ index = 0
  \/ /\ ZeroValues[kind] # <<target>>
     /\ \E place \in 1 .. Len(arrays[kind]) :
          arrays[kind][place] = target /\ index = place - 1 + Offset(kind)

IsResolvedTo(arg, value, arrays) ==
  IF IsReference(arg)
  THEN \E index \in Nat : value = Number(index) /\ IsIn(arrays, arg.type[1], arg.value[2], index)
  ELSE value = arg.value

AreArrays(arrays) ==
  /\ arrays = [kind \in ArrayKinds |-> arrays[kind]]
  /\ \A kind \in ArrayKinds : arrays[kind] \in Seq(ListedIn(kind))

ResolvedUpTo(resolved, n) ==
  /\ resolved = [arrays |-> resolved.arrays, values |-> resolved.values]
  /\ AreArrays(resolved.arrays)
  /\ resolved.values \in Seq(ArgumentValues) /\ Len(resolved.values) = n
  /\ \A k \in 1 .. n : IsResolvedTo(Basic[k], resolved.values[k], resolved.arrays)

\* The arrays that addMethodCall is given.
LEMMA GivenArrays ==
  ASSUME given \in Seq(AppReferences), NEW withAccess \in BOOLEAN
  PROVE  AreArrays(ArraysGiven(withAccess))
<1> DEFINE arrays == ArraysGiven(withAccess)
<1>1. arrays = [account |-> arrays.account, application |-> arrays.application, asset |-> arrays.asset]
  BY DEF ArraysGiven
<1>2. DOMAIN arrays = ArrayKinds
  BY <1>1 DEF ArrayKinds
<1>3. arrays = [kind \in ArrayKinds |-> arrays[kind]]
  BY <1>1, <1>2, SMTT(30) DEF ArrayKinds
<1>4. ASSUME NEW field
      PROVE  \E n \in Nat : /\ DOMAIN Field(field) = 1 .. n
                            /\ Field(field) = [i \in 1 .. n |-> Elements(field)[i][field]]
  <2>1. Elements(field) \in Seq({rr \in TxnReferences : Has(rr, field)})
    BY ElementsTyped
  <2>2. Len(Elements(field)) \in Nat /\ DOMAIN Elements(field) = 1 .. Len(Elements(field))
    BY <2>1, ElementIs
  <2> QED BY <2>2 DEF Field
<1>5. ASSUME NEW kind \in ArrayKinds
      PROVE  \E n \in Nat : arrays[kind] = [i \in 1 .. n |-> arrays[kind][i]]
  <2>1. CASE withAccess
    <3>1. arrays[kind] = <<>>
      BY <2>1 DEF ArraysGiven, ArrayKinds
    <3> QED BY <3>1
  <2>2. CASE ~withAccess
    <3>1. arrays[kind] \in {Field("address"), Field("appIndex"), Field("assetIndex")}
      BY <2>2 DEF ArraysGiven, ArrayKinds
    <3> HIDE DEF arrays
    <3> QED BY <1>4, <3>1
  <2> QED BY <2>1, <2>2
<1>6. ASSUME NEW kind \in ArrayKinds
      PROVE  \A i \in DOMAIN arrays[kind] : arrays[kind][i] \in ListedValues
  <2>1. \A i \in DOMAIN arrays[kind] : arrays[kind][i] \in Range(arrays[kind])
    BY DEF Range
  <2>2. Range(arrays[kind]) \subseteq ListedValues
    BY DEF ListedValues
  <2> QED BY <2>1, <2>2
<1>7. \A i \in DOMAIN arrays.application : arrays.application[i] \in Nat
  <2>1. CASE withAccess
    BY <2>1 DEF ArraysGiven
  <2>2. CASE ~withAccess
    <3>1. arrays.application = Field("appIndex")
      BY <2>2 DEF ArraysGiven
    <3>2. Elements("appIndex") \in Seq({rr \in TxnReferences : Has(rr, "appIndex")})
      BY ElementsTyped
    <3>3. AppIDs \subseteq Nat
      BY ConstantsAssumption DEF AppIDs, Values, ID
    <3>4. \A rr \in TxnReferences : Has(rr, "appIndex") => rr.appIndex \in Nat
      BY <3>3, TxnReferenceCases DEF Has
    <3>5. \A i \in DOMAIN Elements("appIndex") : Elements("appIndex")[i].appIndex \in Nat
      BY <3>2, <3>4, ElementType
    <3> QED BY <3>1, <3>5 DEF Field
  <2> QED BY <2>1, <2>2
<1> HIDE DEF arrays
<1>8. ASSUME NEW kind \in ArrayKinds PROVE arrays[kind] \in Seq(ListedIn(kind))
  <2>1. PICK n \in Nat : arrays[kind] = [i \in 1 .. n |-> arrays[kind][i]]
    BY <1>5
  <2>2. DOMAIN arrays[kind] = 1 .. n
    BY <2>1
  <2>3. \A i \in 1 .. n : arrays[kind][i] \in ListedIn(kind)
    BY <1>6, <1>7, <2>2 DEF ListedIn
  <2> QED BY <2>1, <2>3
<1> QED BY <1>3, <1>8 DEF AreArrays, arrays

\* Arrays that have more behind what they had.
Longer(arrays, longer) ==
  \A kind \in ArrayKinds :
    /\ Len(arrays[kind]) \in Nat /\ Len(longer[kind]) \in Nat
    /\ Len(arrays[kind]) <= Len(longer[kind])
    /\ \A i \in 1 .. Len(arrays[kind]) : longer[kind][i] = arrays[kind][i]

\* What was resolved remains so.
LEMMA RemainsResolved ==
  ASSUME NEW arrays, NEW longer, Longer(arrays, longer),
         NEW arg, IsReference(arg) => arg.type[1] \in ArrayKinds,
         NEW value, IsResolvedTo(arg, value, arrays)
  PROVE  IsResolvedTo(arg, value, longer)
<1>1. CASE ~IsReference(arg)
  BY <1>1 DEF IsResolvedTo
<1>2. CASE IsReference(arg)
  <2> DEFINE kind == arg.type[1]
             target == arg.value[2]
  <2>1. kind \in ArrayKinds
    BY <1>2
  <2>2. PICK index \in Nat : value = Number(index) /\ IsIn(arrays, kind, target, index)
    BY <1>2 DEF IsResolvedTo
  <2> HIDE DEF kind, target
  <2>3. IsIn(longer, kind, target, index)
    <3>1. CASE ZeroValues[kind] = <<target>> /\ index = 0
      BY <3>1 DEF IsIn
    <3>2. CASE ZeroValues[kind] # <<target>>
      <4>1. PICK place \in 1 .. Len(arrays[kind]) :
              arrays[kind][place] = target /\ index = place - 1 + Offset(kind)
        BY <2>2, <3>2 DEF IsIn
      <4>2. place \in 1 .. Len(longer[kind]) /\ longer[kind][place] = target
        BY <2>1, <4>1 DEF Longer
      <4> QED BY <3>2, <4>1, <4>2 DEF IsIn
    <3> QED BY <2>2, <3>1, <3>2 DEF IsIn
  <2> QED BY <1>2, <2>2, <2>3 DEF IsResolvedTo, kind, target
<1> QED BY <1>1, <1>2

\* What a reference becomes.
LEMMA ReferenceResolved ==
  ASSUME NEW arg \in BasicArguments, Accepted, IsReference(arg),
         NEW resolved, AreArrays(resolved.arrays), resolved.values \in Seq(ArgumentValues)
  PROVE  LET after == Resolve(resolved, arg)
         IN  /\ after = [arrays |-> after.arrays, values |-> after.values]
             /\ AreArrays(after.arrays) /\ Longer(resolved.arrays, after.arrays)
             /\ \E value \in ArgumentValues :
                  /\ after.values = Append(resolved.values, value)
                  /\ IsResolvedTo(arg, value, after.arrays)
<1> DEFINE kind == arg.type[1]
           target == arg.value[2]
           added == Populate(target, resolved.arrays[kind], ZeroValues[kind])
           after == Resolve(resolved, arg)
<1>1. kind \in ArrayKinds
  BY BasicCases DEF ArrayKinds
<1>2. target \in ListedIn(kind)
  <2>1. CASE kind = "application"
    <3>1. arg.type = <<"application">>
      BY <2>1 DEF IsReference, ReferenceTypes
    <3>2. target \in Nat
      BY <3>1, ApplicationIsNumber
    <3> QED BY <2>1, <3>2 DEF ListedIn
  <2>2. CASE kind # "application"
    <3>1. target \in {a.value[2] : a \in BasicArguments}
      OBVIOUS
    <3> HIDE DEF target, kind
    <3> DEFINE given2 == {a.value[2] : a \in BasicArguments}
               listed == UNION {Range(ArraysGiven(withAccess)[k]) :
                                  withAccess \in BOOLEAN, k \in ArrayKinds}
    <3>2. ListedValues = listed \cup given2
      BY DEF ListedValues
    <3>3. target \in given2
      BY <3>1
    <3> HIDE DEF given2, listed
    <3>4. target \in ListedValues
      BY <3>2, <3>3
    <3> QED BY <2>2, <3>4 DEF ListedIn
  <2> QED BY <2>1, <2>2
<1>3. /\ after = [arrays |-> [resolved.arrays EXCEPT ![kind] = added.array],
                  values |-> Append(resolved.values, Number(added.index))]
  BY DEF Resolve
<1> DEFINE arrays == resolved.arrays
<1>4. /\ arrays = [k \in ArrayKinds |-> arrays[k]]
      /\ \A k \in ArrayKinds : arrays[k] \in Seq(ListedIn(k))
  BY DEF AreArrays
<1> DEFINE value == Number(added.index)
           longer == after.arrays
<1>5. longer = [arrays EXCEPT ![kind] = added.array] /\ after.values = Append(resolved.values, value)
      /\ after = [arrays |-> after.arrays, values |-> after.values]
  BY <1>3
<1> HIDE DEF after, longer, arrays, kind, target
<1>6. /\ added.array \in Seq(ListedIn(kind)) /\ Len(arrays[kind]) <= Len(added.array)
      /\ \A i \in 1 .. Len(arrays[kind]) : added.array[i] = arrays[kind][i]
      /\ added.index \in Nat
      /\ ZeroValues[kind] = <<target>> => added.index = 0
      /\ ZeroValues[kind] # <<target>> =>
           \E place \in 1 .. Len(added.array) :
             added.array[place] = target /\ added.index = place - 1 + Offset(kind)
  <2> DEFINE U == ListedIn(kind)
             array == arrays[kind]
             zeroValue == ZeroValues[kind]
             offset == IF zeroValue = NoZeroValue THEN 0 ELSE 1
  <2>1. added = Populate(target, array, zeroValue)
    BY DEF arrays
  <2>2. array \in Seq(U) /\ target \in U
    BY <1>1, <1>2, <1>4
  <2>3. offset = Offset(kind)
    BY DEF Offset
  <2> HIDE DEF added, U, array, zeroValue, offset
  <2>4. /\ added.array \in Seq(U) /\ Len(array) <= Len(added.array)
        /\ \A i \in 1 .. Len(array) : added.array[i] = array[i]
        /\ added.index \in Nat
        /\ zeroValue = <<target>> => added.index = 0
        /\ zeroValue # <<target>> =>
             \E place \in 1 .. Len(added.array) :
               added.array[place] = target /\ added.index = place - 1 + offset
    <3>1. Populated(U, target, array, zeroValue, Populate(target, array, zeroValue))
      BY <2>2, PopulateIs
    <3> QED BY <2>1, <3>1, Zenon DEF offset, Populated
  <2> QED BY <2>3, <2>4 DEF U, array, zeroValue
<1> HIDE DEF added, value
<1>7. /\ longer = [k \in ArrayKinds |-> longer[k]] /\ longer[kind] = added.array
      /\ \A k \in ArrayKinds : k # kind => longer[k] = arrays[k]
  BY <1>1, <1>4, <1>5
<1>8. AreArrays(longer)
  BY <1>4, <1>6, <1>7 DEF AreArrays
<1>9. Longer(arrays, longer)
  <2> SUFFICES ASSUME NEW k \in ArrayKinds
               PROVE  /\ Len(arrays[k]) \in Nat /\ Len(longer[k]) \in Nat
                      /\ Len(arrays[k]) <= Len(longer[k])
                      /\ \A i \in 1 .. Len(arrays[k]) : longer[k][i] = arrays[k][i]
    BY DEF Longer
  <2>1. arrays[k] \in Seq(ListedIn(k)) /\ longer[k] \in Seq(ListedIn(k))
    BY <1>4, <1>8 DEF AreArrays
  <2>2. Len(arrays[k]) \in Nat /\ Len(longer[k]) \in Nat
    BY <2>1, ElementIs
  <2>3. CASE k = kind
    BY <1>6, <1>7, <2>2, <2>3
  <2>4. CASE k # kind
    BY <1>7, <2>2, <2>4
  <2> QED BY <2>3, <2>4
<1>10. IsIn(longer, kind, target, added.index)
  BY <1>6, <1>7 DEF IsIn
<1>11. value \in ArgumentValues
  BY <1>6, ArgumentsNest DEF value, Number, SimpleValues
<1>12. IsResolvedTo(arg, value, longer)
  BY <1>6, <1>10 DEF IsResolvedTo, value, kind, target
<1> QED BY <1>5, <1>8, <1>9, <1>11, <1>12 DEF after, longer, arrays

\* One turn of the loop, for any argument.
LEMMA ResolveKeeps ==
  ASSUME Accepted, Basic \in Seq(BasicArguments), NEW n \in 1 .. Len(Basic),
         NEW resolved, ResolvedUpTo(resolved, n - 1)
  PROVE  ResolvedUpTo(Resolve(resolved, Basic[n]), n)
<1> DEFINE arg == Basic[n]
           after == Resolve(resolved, arg)
<1>1. /\ arg \in BasicArguments /\ n \in Nat /\ n - 1 \in Nat
      /\ \A k \in 1 .. n : Basic[k] \in BasicArguments
  BY ElementIs
<1>2. /\ resolved = [arrays |-> resolved.arrays, values |-> resolved.values]
      /\ AreArrays(resolved.arrays)
      /\ resolved.values \in Seq(ArgumentValues) /\ Len(resolved.values) = n - 1
      /\ \A k \in 1 .. n - 1 : IsResolvedTo(Basic[k], resolved.values[k], resolved.arrays)
  BY DEF ResolvedUpTo
<1>3. /\ after = [arrays |-> after.arrays, values |-> after.values]
      /\ AreArrays(after.arrays) /\ Longer(resolved.arrays, after.arrays)
      /\ \E value \in ArgumentValues :
           /\ after.values = Append(resolved.values, value)
           /\ IsResolvedTo(arg, value, after.arrays)
  <2>1. CASE IsReference(arg)
    <3> HIDE DEF arg
    <3> QED BY <1>1, <1>2, <2>1, ReferenceResolved
  <2>2. CASE ~IsReference(arg)
    <3>1. after = [resolved EXCEPT !.values = Append(@, arg.value)]
      BY <2>2 DEF Resolve
    <3>2. after = [arrays |-> resolved.arrays, values |-> Append(resolved.values, arg.value)]
      <4> HIDE DEF arg, after
      <4> QED BY <1>2, <3>1
    <3>3. after.arrays = resolved.arrays /\ after.values = Append(resolved.values, arg.value)
          /\ after = [arrays |-> after.arrays, values |-> after.values]
      <4> HIDE DEF arg, after
      <4> QED BY <3>2
    <3>4. arg.value \in ArgumentValues
      BY <1>1, <2>2, BasicCases
    <3>5. IsResolvedTo(arg, arg.value, after.arrays)
      BY <2>2 DEF IsResolvedTo
    <3>6. Longer(resolved.arrays, resolved.arrays)
      <4>1. \A kind \in ArrayKinds : Len(resolved.arrays[kind]) \in Nat
        BY <1>2, ElementIs DEF AreArrays
      <4> QED BY <4>1 DEF Longer
    <3> HIDE DEF arg, after
    <3> QED BY <1>2, <3>3, <3>4, <3>5, <3>6
  <2> QED BY <2>1, <2>2
<1> HIDE DEF arg, after
<1>4. PICK value \in ArgumentValues :
        /\ after.values = Append(resolved.values, value)
        /\ IsResolvedTo(arg, value, after.arrays)
  BY <1>3
<1>5. /\ after.values \in Seq(ArgumentValues) /\ Len(after.values) = n
      /\ after.values[n] = value /\ \A k \in 1 .. n - 1 : after.values[k] = resolved.values[k]
  BY <1>1, <1>2, <1>4
<1>6. ASSUME NEW k \in 1 .. n PROVE IsResolvedTo(Basic[k], after.values[k], after.arrays)
  <2>1. CASE k = n
    BY <1>4, <1>5, <2>1 DEF arg
  <2>2. CASE k # n
    <3>1. k \in 1 .. n - 1
      BY <1>1, <2>2
    <3>2. Basic[k] \in BasicArguments /\ IsResolvedTo(Basic[k], after.values[k], resolved.arrays)
      BY <1>1, <1>2, <1>5, <3>1
    <3>3. IsReference(Basic[k]) => Basic[k].type[1] \in ArrayKinds
      BY <3>2, BasicCases DEF ArrayKinds
    <3> QED BY <1>3, <3>2, <3>3, RemainsResolved
  <2> QED BY <2>1, <2>2
<1>7. ResolvedUpTo(after, n)
  BY <1>3, <1>5, <1>6 DEF ResolvedUpTo
<1> QED BY <1>7 DEF after, arg

\* The whole loop.
LEMMA ResolvedIs ==
  ASSUME given \in Seq(AppReferences), arguments \in Seq(Plain \cup Structured), Accepted,
         NEW withAccess \in BOOLEAN
  PROVE  ResolvedUpTo(Resolved(withAccess), Len(Basic))
<1> DEFINE N == Len(Basic)
<1>1. Basic \in Seq(BasicArguments) /\ N \in Nat /\ DOMAIN Basic = 1 .. N
  BY BasicIs, ElementIs, SMTT(30)
<1>2. PICK g : /\ g[0] = [arrays |-> ArraysGiven(withAccess), values |-> <<>>]
               /\ \A n \in 1 .. N : g[n] = Resolve(g[n - 1], Basic[n])
               /\ g[N] = Resolved(withAccess)
  BY <1>1, ResolvedSteps
<1> DEFINE S == {n \in 0 .. N : ResolvedUpTo(g[n], n)}
<1>3. 0 \in S
  <2>1. g[0].arrays = ArraysGiven(withAccess) /\ g[0].values = <<>>
        /\ g[0] = [arrays |-> g[0].arrays, values |-> g[0].values]
    BY <1>2
  <2>2. ResolvedUpTo(g[0], 0)
    BY <2>1, GivenArrays DEF ResolvedUpTo
  <2> QED BY <1>1, <2>2
<1>4. ASSUME NEW n \in 1 .. N, n - 1 \in S PROVE n \in S
  <2>1. ResolvedUpTo(g[n - 1], n - 1)
    BY <1>4
  <2>2. ResolvedUpTo(g[n], n)
    BY <1>1, <1>2, <2>1, ResolveKeeps
  <2> QED BY <1>1, <2>2
<1>5. N \in S
  <2> HIDE DEF S, N
  <2>1. 0 .. N \subseteq S
    BY <1>1, <1>3, <1>4, InductionUpTo
  <2> QED BY <1>1, <2>1
<1> QED BY <1>2, <1>5

-----------------------------------------------------------------------------
(* What is encoded has a type and a value *)

\* The types that arguments are encoded as.
LEMMA TypesToEncodeAre ==
  ASSUME Basic \in Seq(BasicArguments), Accepted
  PROVE  /\ TypesToEncode \in Seq(ArgumentTypes) /\ Len(TypesToEncode) = Len(Basic)
         /\ \A i \in 1 .. Len(Basic) : TypesToEncode[i] = TypeToEncode(Basic[i])
<1> DEFINE N == Len(Basic)
<1>1. N \in Nat /\ DOMAIN Basic = 1 .. N /\ \A i \in 1 .. N : Basic[i] \in BasicArguments
  BY ElementIs
<1>2. Uint(1) \in ArgumentTypes
  BY ArgumentsNest DEF Uint, SimpleTypes
<1>3. \A i \in 1 .. N : TypeToEncode(Basic[i]) \in ArgumentTypes
  BY <1>1, <1>2, BasicCases DEF TypeToEncode
<1>4. TypesToEncode = [i \in 1 .. N |-> TypeToEncode(Basic[i])]
  BY <1>1 DEF TypesToEncode
<1> HIDE DEF N
<1>5. TypesToEncode \in Seq(ArgumentTypes) /\ Len(TypesToEncode) = N
  <2>1. TypesToEncode \in [1 .. N -> ArgumentTypes]
    BY <1>3, <1>4
  <2> QED BY <1>1, <2>1, FunctionIsSequence
<1> QED BY <1>4, <1>5 DEF N

\* What goes into the last argument when there are too many.
LEMMA RestIs ==
  ASSUME NEW S, NEW list \in Seq(S), Len(list) > MaxAppArgs - 1
  PROVE  /\ Rest(list) \in Seq(S) /\ Len(Rest(list)) = Len(list) - (MaxAppArgs - 2)
         /\ Len(Rest(list)) \in Nat /\ Len(Rest(list)) >= 2 /\ Len(Rest(list)) <= Len(list)
         /\ \A k \in 1 .. Len(Rest(list)) : Rest(list)[k] = list[MaxAppArgs - 2 + k]
<1> DEFINE m == MaxAppArgs - 2
           n == Len(list) - m
<1>1. MaxAppArgs \in Nat \ {0, 1} /\ Len(list) \in Nat
  BY MethodAssumption
<1>2. m \in Nat /\ n \in Nat /\ m + n = Len(list) /\ n >= 2 /\ n <= Len(list) /\ m + 1 = MaxAppArgs - 1
  BY <1>1
<1> HIDE DEF m, n
<1>3. /\ SubSeq(list, m + 1, m + n) \in Seq(S) /\ Len(SubSeq(list, m + 1, m + n)) = n
      /\ \A k \in 1 .. n : SubSeq(list, m + 1, m + n)[k] = list[m + k]
  BY <1>2, SliceOf
<1>4. Rest(list) = SubSeq(list, m + 1, m + n)
  BY <1>2 DEF Rest
<1>5. Rest(list) \in Seq(S) /\ Len(Rest(list)) = n
      /\ \A k \in 1 .. n : Rest(list)[k] = list[m + k]
  BY <1>3, <1>4
<1>6. Rest(list) \in Seq(S) /\ Len(Rest(list)) = n /\ Len(Rest(list)) \in Nat
  BY <1>2, <1>5
<1> QED BY <1>2, <1>5, <1>6 DEF m, n

\* The list that is sent.
LEMMA PackedIs ==
  ASSUME NEW T, NEW list \in Seq(T), NEW rest
  PROVE  /\ Len(list) <= MaxAppArgs - 1 => Packed(list, rest) = list
         /\ Len(list) > MaxAppArgs - 1 /\ rest \in T =>
              /\ Packed(list, rest) \in Seq(T) /\ Len(Packed(list, rest)) = MaxAppArgs - 1
              /\ \A i \in 1 .. MaxAppArgs - 2 : Packed(list, rest)[i] = list[i]
              /\ Packed(list, rest)[MaxAppArgs - 1] = rest
<1>1. MaxAppArgs \in Nat \ {0, 1} /\ Len(list) \in Nat
  BY MethodAssumption
<1>2. CASE Len(list) <= MaxAppArgs - 1
  <2>1. Packed(list, rest) = list
    BY <1>2 DEF Packed
  <2> QED BY <1>1, <1>2, <2>1
<1>3. ASSUME Len(list) > MaxAppArgs - 1, rest \in T
      PROVE  /\ Packed(list, rest) \in Seq(T) /\ Len(Packed(list, rest)) = MaxAppArgs - 1
             /\ \A i \in 1 .. MaxAppArgs - 2 : Packed(list, rest)[i] = list[i]
             /\ Packed(list, rest)[MaxAppArgs - 1] = rest
  <2> DEFINE m == MaxAppArgs - 2
             first == SubSeq(list, 0 + 1, 0 + m)
  <2>1. m \in Nat /\ m + 1 = MaxAppArgs - 1 /\ 0 + m <= Len(list) /\ ~(Len(list) <= MaxAppArgs - 1)
    BY <1>1, <1>3
  <2>2. list \in Seq(T)
    OBVIOUS
  <2> HIDE DEF m
  <2>3. /\ first \in Seq(T) /\ Len(first) = m /\ \A i \in 1 .. m : first[i] = list[0 + i]
    BY <2>1, <2>2, SliceOf
  <2>4. \A i \in 1 .. m : 0 + i = i
    BY <2>1
  <2>5. Packed(list, rest) = Append(SubSeq(list, 1, MaxAppArgs - 2), rest)
    BY <2>1 DEF Packed
  <2>6. Packed(list, rest) = Append(first, rest)
    BY <2>1, <2>5 DEF m
  <2> HIDE DEF first
  <2>7. /\ Packed(list, rest) \in Seq(T) /\ Len(Packed(list, rest)) = m + 1
        /\ \A i \in 1 .. m : Packed(list, rest)[i] = list[i]
        /\ Packed(list, rest)[m + 1] = rest
    BY <1>3, <2>1, <2>3, <2>4, <2>6
  <2> QED BY <2>1, <2>7 DEF m
<1> QED BY <1>1, <1>2, <1>3

\* Arguments and the values that are encoded of them.
AreEncoded(values) ==
  /\ Basic \in Seq(BasicArguments) /\ Accepted /\ Len(Basic) <= MaxArguments
  /\ values \in Seq(ArgumentValues) /\ Len(values) = Len(Basic)

PacksAll == Len(Basic) <= MaxAppArgs - 1

\* What is sent in the last place when there are too many arguments.
LEMMA RestsAre ==
  ASSUME NEW values, AreEncoded(values), ~PacksAll
  PROVE  LET types == Rest(TypesToEncode)
             rest == Rest(values)
         IN  /\ types \in Seq(ArgumentTypes) /\ rest \in Seq(ArgumentValues)
             /\ Len(types) = Len(Basic) - (MaxAppArgs - 2) /\ Len(rest) = Len(types)
             /\ Len(types) \in Nat /\ Len(types) >= 2 /\ Len(types) < MaxLen
             /\ \A k \in 1 .. Len(types) :
                  /\ types[k] = TypesToEncode[MaxAppArgs - 2 + k]
                  /\ rest[k] = values[MaxAppArgs - 2 + k]
             /\ Tuple(types) \in Types /\ ArrayValue(rest) \in AbiValues
<1> DEFINE types == Rest(TypesToEncode)
           rest == Rest(values)
<1>1. /\ TypesToEncode \in Seq(ArgumentTypes) /\ Len(TypesToEncode) = Len(Basic)
      /\ values \in Seq(ArgumentValues) /\ Len(values) = Len(Basic) /\ Len(Basic) \in Nat
  BY TypesToEncodeAre, ElementIs DEF AreEncoded
<1>2. Len(Basic) > MaxAppArgs - 1
  BY <1>1, MethodAssumption DEF PacksAll
<1>3. /\ types \in Seq(ArgumentTypes) /\ Len(types) = Len(Basic) - (MaxAppArgs - 2)
      /\ Len(types) \in Nat /\ Len(types) >= 2 /\ Len(types) <= Len(Basic)
      /\ \A k \in 1 .. Len(types) : types[k] = TypesToEncode[MaxAppArgs - 2 + k]
  BY <1>1, <1>2, RestIs
<1>4. /\ rest \in Seq(ArgumentValues) /\ Len(rest) = Len(Basic) - (MaxAppArgs - 2)
      /\ \A k \in 1 .. Len(rest) : rest[k] = values[MaxAppArgs - 2 + k]
  BY <1>1, <1>2, RestIs
<1> HIDE DEF types, rest
<1>5. Len(types) < MaxLen
  <2>1. Len(Basic) <= MaxArguments /\ MaxArguments < MaxLen /\ MaxArguments \in Nat /\ MaxLen \in Nat
    BY MethodAssumption, BaseIs DEF AreEncoded
  <2> QED BY <1>1, <1>3, <2>1
<1>6. Tuple(types) \in Types
  <2>1. Tuple(types) \in TypesOf(ArgumentTypes)
    BY <1>3, <1>5 DEF Tuple, TypesOf
  <2> QED BY <2>1, ArgumentsNest
<1>7. ArrayValue(rest) \in AbiValues
  <2>1. ArrayValue(rest) \in {"array"} \X Seq(ArgumentValues)
    BY <1>4 DEF ArrayValue
  <2> QED BY <2>1, ArgumentsNest
<1> QED BY <1>3, <1>4, <1>5, <1>6, <1>7 DEF types, rest

\* What is sent.
LEMMA PackedAre ==
  ASSUME NEW values, AreEncoded(values)
  PROVE  LET types == PackedTypes
             packed == PackedValues(values)
         IN  /\ types \in Seq(Types) /\ packed \in Seq(AbiValues) /\ Len(packed) = Len(types)
             /\ PacksAll => types = TypesToEncode /\ packed = values
             /\ ~PacksAll =>
                  /\ Len(types) = MaxAppArgs - 1
                  /\ \A i \in 1 .. MaxAppArgs - 2 : types[i] = TypesToEncode[i] /\ packed[i] = values[i]
                  /\ types[MaxAppArgs - 1] = Tuple(Rest(TypesToEncode))
                  /\ packed[MaxAppArgs - 1] = ArrayValue(Rest(values))
<1> DEFINE rt == Tuple(Rest(TypesToEncode))
           rv == ArrayValue(Rest(values))
<1>1. /\ TypesToEncode \in Seq(ArgumentTypes) /\ Len(TypesToEncode) = Len(Basic)
      /\ values \in Seq(ArgumentValues) /\ Len(values) = Len(Basic) /\ Len(Basic) \in Nat
      /\ MaxAppArgs \in Nat
  BY TypesToEncodeAre, ElementIs, MethodAssumption DEF AreEncoded
<1>2. ArgumentTypes \subseteq Types /\ ArgumentValues \subseteq AbiValues
  BY ArgumentsNest
<1>3. PackedTypes = Packed(TypesToEncode, rt) /\ PackedValues(values) = Packed(values, rv)
  BY DEF PackedTypes, PackedValues
<1>4. TypesToEncode \in Seq(Types) /\ values \in Seq(AbiValues)
  BY <1>1, <1>2
<1>5. CASE PacksAll
  <2> HIDE DEF rt, rv
  <2>1. Len(TypesToEncode) <= MaxAppArgs - 1 /\ Len(values) <= MaxAppArgs - 1
    BY <1>1, <1>5 DEF PacksAll
  <2>2. PackedTypes = TypesToEncode /\ PackedValues(values) = values
    BY <1>3, <1>4, <2>1, PackedIs
  <2> QED BY <1>1, <1>4, <1>5, <2>2
<1>6. CASE ~PacksAll
  <2>1. rt \in Types /\ rv \in AbiValues
    BY <1>6, RestsAre
  <2> HIDE DEF rt, rv
  <2>2. Len(TypesToEncode) > MaxAppArgs - 1 /\ Len(values) > MaxAppArgs - 1
    BY <1>1, <1>6 DEF PacksAll
  <2>3. /\ PackedTypes \in Seq(Types) /\ Len(PackedTypes) = MaxAppArgs - 1
        /\ \A i \in 1 .. MaxAppArgs - 2 : PackedTypes[i] = TypesToEncode[i]
        /\ PackedTypes[MaxAppArgs - 1] = rt
    BY <1>3, <1>4, <2>1, <2>2, PackedIs
  <2>4. /\ PackedValues(values) \in Seq(AbiValues) /\ Len(PackedValues(values)) = MaxAppArgs - 1
        /\ \A i \in 1 .. MaxAppArgs - 2 : PackedValues(values)[i] = values[i]
        /\ PackedValues(values)[MaxAppArgs - 1] = rv
    <3>1. values \in Seq(AbiValues) /\ Len(values) > MaxAppArgs - 1 /\ rv \in AbiValues
      BY <1>4, <2>1, <2>2
    <3>2. /\ Packed(values, rv) \in Seq(AbiValues)
          /\ Len(Packed(values, rv)) = MaxAppArgs - 1
          /\ \A i \in 1 .. MaxAppArgs - 2 : Packed(values, rv)[i] = values[i]
          /\ Packed(values, rv)[MaxAppArgs - 1] = rv
      BY <3>1, PackedIs
    <3> QED BY <1>3, <3>2
  <2> QED BY <1>6, <2>3, <2>4 DEF rt, rv
<1> QED BY <1>5, <1>6

-----------------------------------------------------------------------------
(* A contract reads what was given *)

\* A value of the type that is read whatever is around it.
IsReadable(type, value) == ~HasEmptyPart[type] /\ Fits[type][TRUE][value]

\* The codec of the types, for what can be read.
LEMMA ReadableIsRead ==
  ASSUME NEW type \in Types, NEW value \in AbiValues, IsReadable(type, value)
  PROVE  /\ AbiDecode[type][AbiEncode[type][value]] = Meant[type][value]
         /\ Meant[type][value] # NoValue
<1>1. RoundTrip(type)
  BY TypesAreRead
<1> QED BY <1>1 DEF RoundTrip, IsReadable

\* A number in a byte is read when it has a place in it.
LEMMA NumberIsReadable ==
  ASSUME NEW index \in Nat
  PROVE  /\ Number(index) \in AbiValues /\ Uint(1) \in Types
         /\ Meant[Uint(1)][Number(index)] = BigInt(index)
         /\ Fits[Uint(1)][FALSE][Number(index)] => IsReadable(Uint(1), Number(index))
<1>1. Uint(1) \in Types /\ Uint(1)[1] = "uint" /\ Uint(1)[2] = 1
  BY SimpleTypesAreTypes DEF Uint, SimpleTypes
<1>2. Number(index) \in AbiValues /\ Number(index)[2] = index
  BY SimpleValuesAreValues DEF Number, SimpleValues
<1>3. Meant[Uint(1)][Number(index)] = BigInt(index)
  <2>1. Meant[Uint(1)][Number(index)] = MeantAs(Uint(1), Number(index), Meant)
    BY <1>1, <1>2, FunctionsAre
  <2> QED BY <1>1, <1>2, <2>1 DEF MeantAs
<1>4. Fits[Uint(1)][FALSE][Number(index)] => Fits[Uint(1)][TRUE][Number(index)]
  <2>1. \A strictly \in BOOLEAN :
          Fits[Uint(1)][strictly][Number(index)] = FitsAs(Uint(1), Number(index), strictly, Fits)
    BY <1>1, <1>2, FunctionsAre
  <2>2. \A strictly \in BOOLEAN :
          FitsAs(Uint(1), Number(index), strictly, Fits) = (EncodeInteger(Number(index), 1) # NoBytes)
    BY <1>1 DEF FitsAs
  <2> QED BY <2>1, <2>2
<1>5. ~HasEmptyPart[Uint(1)]
  <2>1. ByteLen[Uint(1)] = 1
    BY <1>1, ByteLenCases
  <2> QED BY <1>1, <2>1, HasEmptyPartIs
<1> QED BY <1>1, <1>2, <1>3, <1>4, <1>5 DEF IsReadable

\* A tuple of what is readable, as many values as types, is readable.
LEMMA TupleIsReadable ==
  ASSUME NEW types \in Seq(Types), NEW elements \in Seq(AbiValues),
         Len(elements) = Len(types), Len(types) >= 2,
         \A i \in 1 .. Len(types) : IsReadable(types[i], elements[i]),
         Tuple(types) \in Types, ArrayValue(elements) \in AbiValues,
         Fits[Tuple(types)][FALSE][ArrayValue(elements)]
  PROVE  /\ IsReadable(Tuple(types), ArrayValue(elements))
         /\ Meant[Tuple(types)][ArrayValue(elements)] =
              ArrayValue([i \in 1 .. Len(types) |-> Meant[types[i]][elements[i]]])
<1> DEFINE type == Tuple(types)
           value == ArrayValue(elements)
<1>1. /\ type[1] = "tuple" /\ type[2] = types /\ value[2] = elements /\ value[1] = "array"
      /\ type \in Types /\ value \in AbiValues
  BY DEF Tuple, ArrayValue
<1>2. IsList(value) /\ ElementsOf(value) = elements /\ IsComposite(type)
      /\ ElementTypesOf(type, value) = types
  BY <1>1 DEF IsList, ElementsOf, IsA, IsComposite, ElementTypesOf, ElementTypes
<1> HIDE DEF type, value
<1>3. /\ Len(types) \in Nat /\ DOMAIN types = 1 .. Len(types) /\ DOMAIN elements = 1 .. Len(types)
      /\ \A i \in 1 .. Len(types) : types[i] \in Types
  BY ElementIs
<1>4. Fits[type][TRUE][value]
  <2>1. ElementsFit(types, elements, FALSE, Fits)
    BY <1>1, <1>2, CompositeFits DEF type, value
  <2>2. ElementsFit(types, elements, TRUE, Fits)
    BY <1>3, <2>1 DEF ElementsFit, IsReadable
  <2>3. type[1] # "array"
    BY <1>1
  <2> QED BY <1>1, <1>2, <2>2, <2>3, CompositeFits
<1>5. ByteLen[type] # 0
  <2>1. CASE IsDynamic[type]
    BY <1>1, <2>1, ByteLenCases DEF LengthSize
  <2>2. CASE ~IsDynamic[type]
    <3>1. ByteLen[type] = TupleSize(types, ByteLen)
      BY <1>1, <2>2, ByteLenCases
    <3>2. 1 \in 1 .. Len(types) /\ 1 \in Nat \ {0}
      BY <1>3
    <3>3. HasHead(types, 1)
      <4>1. HeadOf(types, 1) \in 1 .. 1
        BY <3>2, HeadOfIs
      <4> QED BY <4>1 DEF HasHead
    <3>4. /\ Start(types, 1) \in Nat /\ ByteLen[types[1]] \in Nat /\ TupleSize(types, ByteLen) \in Nat
          /\ Start(types, 1) + ByteLen[types[1]] <= TupleSize(types, ByteLen)
      BY <3>2, <3>3, HeadStarts
    <3>5. ByteLen[types[1]] # 0
      <4>1. ~HasEmptyPart[types[1]] /\ types[1] \in Types
        BY <1>3, <3>2 DEF IsReadable
      <4> QED BY <4>1, HasEmptyPartIs
    <3> QED BY <3>1, <3>4, <3>5
  <2> QED BY <2>1, <2>2
<1>6. ~HasEmptyPart[type]
  <2>1. \A i \in DOMAIN type[2] : ~HasEmptyPart[type[2][i]]
    BY <1>1, <1>3 DEF IsReadable
  <2> QED BY <1>1, <1>5, <2>1, HasEmptyPartIs
<1>7. Meant[type][value] = ArrayValue([i \in 1 .. Len(types) |-> Meant[types[i]][elements[i]]])
  <2>1. Meant[type][value] = MeantAs(type, value, Meant)
    BY <1>1, FunctionsAre
  <2>2. MeantAs(type, value, Meant) = ElementsMeant(ElementTypesOf(type, value), ElementsOf(value), Meant)
    BY <1>1 DEF MeantAs, ElementTypesOf
  <2>3. ElementsMeant(types, elements, Meant) =
          ArrayValue([i \in 1 .. Len(types) |-> Meant[types[i]][elements[i]]])
    BY <1>3 DEF ElementsMeant
  <2> QED BY <1>2, <2>1, <2>2, <2>3
<1> QED BY <1>4, <1>6, <1>7 DEF IsReadable, type, value

\* The bytes that are sent for values.
BytesFor(values) == EncodedArguments(PackedTypes, PackedValues(values))

MeantAt(values, i) == Meant[TypesToEncode[i]][values[i]]

DecodedFrom(bytes) == [i \in DOMAIN PackedTypes |-> AbiDecode[PackedTypes[i]][bytes[i]]]

\* What has bytes fits, be it sent in a place of its own or not.
LEMMA BytesFit ==
  ASSUME NEW values, AreEncoded(values)
  PROVE  NoBytes \in Range(BytesFor(values)) <=>
           \E i \in DOMAIN PackedTypes : ~Fits[PackedTypes[i]][FALSE][PackedValues(values)[i]]
<1> DEFINE types == PackedTypes
           packed == PackedValues(values)
<1>1. types \in Seq(Types) /\ packed \in Seq(AbiValues) /\ Len(packed) = Len(types)
  BY PackedAre
<1> HIDE DEF types, packed
<1>2. DOMAIN types = 1 .. Len(types) /\ DOMAIN packed = 1 .. Len(types)
  BY <1>1, ElementIs
<1>3. \A i \in DOMAIN types :
        AbiEncode[types[i]][packed[i]] # NoBytes <=> Fits[types[i]][FALSE][packed[i]]
  <2> SUFFICES ASSUME NEW i \in DOMAIN types
               PROVE  AbiEncode[types[i]][packed[i]] # NoBytes <=> Fits[types[i]][FALSE][packed[i]]
    OBVIOUS
  <2>1. types[i] \in Types /\ packed[i] \in AbiValues
    BY <1>1, <1>2, ElementIs
  <2> QED BY <2>1, TypesEncode DEF EncodesAll
<1>4. BytesFor(values) = [i \in DOMAIN types |-> AbiEncode[types[i]][packed[i]]]
  BY DEF BytesFor, EncodedArguments, types, packed
<1>5. NoBytes \in Range(BytesFor(values)) <=> \E i \in DOMAIN types : AbiEncode[types[i]][packed[i]] = NoBytes
  BY <1>4 DEF Range
<1> QED BY <1>3, <1>5 DEF types, packed

\* What the types and values of the arguments have to be.
AreReadable(values) ==
  \A i \in 1 .. Len(Basic) :
    /\ IsReference(Basic[i]) => \E index \in Nat : values[i] = Number(index)
    /\ ~IsReference(Basic[i]) =>
         values[i] = Basic[i].value /\ IsReadable(Basic[i].type, Basic[i].value)

\* A value that is not sent in a place of its own has bytes in the tuple.
LEMMA PartsHaveBytes ==
  ASSUME NEW values, AreEncoded(values), NoBytes \notin Range(BytesFor(values))
  PROVE  \A i \in 1 .. Len(Basic) : Fits[TypesToEncode[i]][FALSE][values[i]]
<1> DEFINE types == PackedTypes
           packed == PackedValues(values)
           N == Len(Basic)
           m == MaxAppArgs - 2
<1>1. N \in Nat /\ MaxAppArgs \in Nat \ {0, 1} /\ m \in Nat /\ MaxAppArgs - 1 = m + 1
  <2>1. N \in Nat
    BY ElementIs DEF AreEncoded
  <2> QED BY <2>1, MethodAssumption
<1>2. \A i \in DOMAIN types : Fits[types[i]][FALSE][packed[i]]
  BY BytesFit
<1>3. types \in Seq(Types) /\ DOMAIN types = 1 .. Len(types) /\ Len(types) \in Nat
  BY PackedAre, ElementIs
<1>4. CASE PacksAll
  <2>1. types = TypesToEncode /\ packed = values
    BY <1>4, PackedAre
  <2>2. Len(TypesToEncode) = N
    BY TypesToEncodeAre DEF AreEncoded
  <2> HIDE DEF types, packed, N
  <2> QED BY <1>2, <1>3, <2>1, <2>2 DEF N
<1>5. CASE ~PacksAll
  <2> DEFINE rt == Rest(TypesToEncode)
             rv == Rest(values)
  <2>1. /\ Len(types) = m + 1
        /\ \A i \in 1 .. m : types[i] = TypesToEncode[i] /\ packed[i] = values[i]
        /\ types[m + 1] = Tuple(rt) /\ packed[m + 1] = ArrayValue(rv)
    BY <1>1, <1>5, PackedAre
  <2>2. /\ Len(rt) = N - m /\ Len(rt) \in Nat /\ Len(rv) = Len(rt)
        /\ rt \in Seq(ArgumentTypes) /\ rv \in Seq(ArgumentValues)
        /\ \A k \in 1 .. Len(rt) : rt[k] = TypesToEncode[m + k] /\ rv[k] = values[m + k]
        /\ Tuple(rt) \in Types /\ ArrayValue(rv) \in AbiValues
    BY <1>5, RestsAre
  <2> HIDE DEF types, packed, m, N, rt, rv
  <2>3. Fits[Tuple(rt)][FALSE][ArrayValue(rv)]
    <3>1. m + 1 \in DOMAIN types
      BY <1>1, <1>3, <2>1
    <3> QED BY <1>2, <2>1, <3>1
  <2>4. \A k \in 1 .. Len(rt) : Fits[rt[k]][FALSE][rv[k]]
    <3> DEFINE type == Tuple(rt)
               value == ArrayValue(rv)
    <3>1. /\ type[1] = "tuple" /\ type[2] = rt /\ value[2] = rv /\ value[1] = "array"
      BY DEF Tuple, ArrayValue
    <3>2. /\ IsList(value) /\ ElementsOf(value) = rv /\ IsComposite(type)
          /\ ElementTypesOf(type, value) = rt
      BY <3>1 DEF IsList, ElementsOf, IsA, IsComposite, ElementTypesOf, ElementTypes
    <3>3. type \in Types /\ value \in AbiValues /\ Fits[type][FALSE][value]
      BY <2>2, <2>3
    <3> HIDE DEF type, value
    <3>4. ElementsFit(rt, rv, FALSE, Fits)
      BY <3>2, <3>3, CompositeFits
    <3>5. DOMAIN rt = 1 .. Len(rt) /\ DOMAIN rv = 1 .. Len(rt)
      BY <2>2, ElementIs
    <3> QED BY <3>4, <3>5 DEF ElementsFit
  <2>5. ASSUME NEW i \in 1 .. N PROVE Fits[TypesToEncode[i]][FALSE][values[i]]
    <3>1. CASE i <= m
      <4>1. i \in 1 .. m /\ i \in DOMAIN types
        BY <1>1, <1>3, <2>1, <3>1
      <4> QED BY <1>2, <2>1, <4>1
    <3>2. CASE i > m
      <4>1. i - m \in 1 .. Len(rt) /\ m + (i - m) = i
        BY <1>1, <2>2, <3>2
      <4>2. rt[i - m] = TypesToEncode[i] /\ rv[i - m] = values[i]
        BY <2>2, <4>1
      <4> QED BY <2>4, <4>1, <4>2
    <3>3. i <= m \/ i > m
      BY <1>1
    <3> QED BY <3>1, <3>2, <3>3
  <2> QED BY <2>5 DEF N
<1> QED BY <1>4, <1>5

\* Every value that is sent is readable.
LEMMA SentIsReadable ==
  ASSUME NEW values, AreEncoded(values), NoBytes \notin Range(BytesFor(values)),
         AreReadable(values)
  PROVE  /\ \A i \in 1 .. Len(Basic) : IsReadable(TypesToEncode[i], values[i])
         /\ \A i \in DOMAIN PackedTypes : IsReadable(PackedTypes[i], PackedValues(values)[i])
         /\ ~PacksAll =>
              Meant[Tuple(Rest(TypesToEncode))][ArrayValue(Rest(values))] =
                ArrayValue([k \in 1 .. Len(Rest(TypesToEncode)) |->
                              MeantAt(values, MaxAppArgs - 2 + k)])
<1> DEFINE types == PackedTypes
           packed == PackedValues(values)
           N == Len(Basic)
           m == MaxAppArgs - 2
           rt == Rest(TypesToEncode)
           rv == Rest(values)
<1>1. N \in Nat /\ MaxAppArgs \in Nat \ {0, 1} /\ m \in Nat /\ MaxAppArgs - 1 = m + 1
  <2>1. N \in Nat
    BY ElementIs DEF AreEncoded
  <2> QED BY <2>1, MethodAssumption
<1>2. /\ TypesToEncode \in Seq(ArgumentTypes) /\ Len(TypesToEncode) = N
      /\ \A i \in 1 .. N : TypesToEncode[i] = TypeToEncode(Basic[i])
  BY TypesToEncodeAre DEF AreEncoded
<1>3. ASSUME NEW i \in 1 .. N PROVE IsReadable(TypesToEncode[i], values[i])
  <2>1. Fits[TypesToEncode[i]][FALSE][values[i]]
    BY PartsHaveBytes
  <2>2. CASE IsReference(Basic[i])
    <3>1. TypesToEncode[i] = Uint(1)
      BY <1>2, <2>2 DEF TypeToEncode
    <3>2. PICK index \in Nat : values[i] = Number(index)
      BY <2>2 DEF AreReadable
    <3> QED BY <2>1, <3>1, <3>2, NumberIsReadable
  <2>3. CASE ~IsReference(Basic[i])
    BY <1>2, <2>3 DEF TypeToEncode, AreReadable
  <2> QED BY <2>2, <2>3
<1>4. types \in Seq(Types) /\ DOMAIN types = 1 .. Len(types) /\ Len(types) \in Nat
  BY PackedAre, ElementIs
<1>5. \A i \in DOMAIN types : Fits[types[i]][FALSE][packed[i]]
  BY BytesFit
<1>6. CASE PacksAll
  <2>1. types = TypesToEncode /\ packed = values
    BY <1>6, PackedAre
  <2> HIDE DEF types, packed, N, rt, rv
  <2>2. \A i \in DOMAIN types : IsReadable(types[i], packed[i])
    BY <1>2, <1>3, <1>4, <2>1
  <2> QED BY <1>3, <1>6, <2>2 DEF types, packed, N
<1>7. CASE ~PacksAll
  <2>1. /\ Len(types) = m + 1
        /\ \A i \in 1 .. m : types[i] = TypesToEncode[i] /\ packed[i] = values[i]
        /\ types[m + 1] = Tuple(rt) /\ packed[m + 1] = ArrayValue(rv)
    BY <1>1, <1>7, PackedAre
  <2>2. /\ Len(rt) = N - m /\ Len(rt) \in Nat /\ Len(rv) = Len(rt) /\ Len(rt) >= 2
        /\ rt \in Seq(ArgumentTypes) /\ rv \in Seq(ArgumentValues)
        /\ \A k \in 1 .. Len(rt) : rt[k] = TypesToEncode[m + k] /\ rv[k] = values[m + k]
        /\ Tuple(rt) \in Types /\ ArrayValue(rv) \in AbiValues
    BY <1>7, RestsAre
  <2> HIDE DEF types, packed, m, N, rt, rv
  <2>3. rt \in Seq(Types) /\ rv \in Seq(AbiValues)
    BY <2>2, ArgumentsNest
  <2>4. m + 1 \in DOMAIN types
    BY <1>1, <1>4, <2>1
  <2>5. Fits[Tuple(rt)][FALSE][ArrayValue(rv)]
    BY <1>5, <2>1, <2>4
  <2>6. \A k \in 1 .. Len(rt) : m + k \in 1 .. N
    BY <1>1, <2>2
  <2>7. \A k \in 1 .. Len(rt) : IsReadable(rt[k], rv[k])
    BY <1>3, <2>2, <2>6
  <2>8. /\ IsReadable(Tuple(rt), ArrayValue(rv))
        /\ Meant[Tuple(rt)][ArrayValue(rv)] =
             ArrayValue([k \in 1 .. Len(rt) |-> Meant[rt[k]][rv[k]]])
    BY <2>2, <2>3, <2>5, <2>7, TupleIsReadable
  <2>9. [k \in 1 .. Len(rt) |-> Meant[rt[k]][rv[k]]] = [k \in 1 .. Len(rt) |-> MeantAt(values, m + k)]
    BY <2>2 DEF MeantAt
  <2>10. ASSUME NEW i \in DOMAIN types PROVE IsReadable(types[i], packed[i])
    <3>1. CASE i = m + 1
      BY <2>1, <2>8, <3>1
    <3>2. CASE i # m + 1
      <4>1. i \in 1 .. m /\ i \in 1 .. N
        BY <1>1, <1>4, <2>1, <2>2, <3>2
      <4> QED BY <1>3, <2>1, <4>1
    <3> QED BY <3>1, <3>2
  <2> QED BY <1>3, <1>7, <2>8, <2>9, <2>10 DEF types, packed, m, N, rt, rv
<1> QED BY <1>6, <1>7

\* What a contract reads of what is sent.
LEMMA SentIsRead ==
  ASSUME NEW values, AreEncoded(values), NoBytes \notin Range(BytesFor(values)),
         AreReadable(values)
  PROVE  LET read == DecodedFrom(BytesFor(values))
         IN  /\ NoValue \notin Range(read)
             /\ \A i \in 1 .. Len(Basic) : Unpacked(read)[i] = MeantAt(values, i)
<1> DEFINE types == PackedTypes
           packed == PackedValues(values)
           N == Len(Basic)
           m == MaxAppArgs - 2
           rt == Rest(TypesToEncode)
           rv == Rest(values)
           read == DecodedFrom(BytesFor(values))
<1>1. N \in Nat /\ MaxAppArgs \in Nat \ {0, 1} /\ m \in Nat /\ MaxAppArgs - 1 = m + 1
  <2>1. N \in Nat
    BY ElementIs DEF AreEncoded
  <2> QED BY <2>1, MethodAssumption
<1>2. Len(TypesToEncode) = N
  BY TypesToEncodeAre DEF AreEncoded
<1>3. /\ types \in Seq(Types) /\ DOMAIN types = 1 .. Len(types) /\ Len(types) \in Nat
      /\ packed \in Seq(AbiValues) /\ DOMAIN packed = 1 .. Len(types)
  BY PackedAre, ElementIs
<1>4. \A i \in DOMAIN types : IsReadable(types[i], packed[i])
  BY SentIsReadable
<1>5. /\ read = [i \in DOMAIN types |-> AbiDecode[types[i]][AbiEncode[types[i]][packed[i]]]]
  BY DEF DecodedFrom, BytesFor, EncodedArguments
<1>6. /\ DOMAIN read = 1 .. Len(types)
      /\ \A i \in 1 .. Len(types) : read[i] = Meant[types[i]][packed[i]] /\ read[i] # NoValue
  <2> HIDE DEF types, packed, read
  <2>1. ASSUME NEW i \in 1 .. Len(types) PROVE read[i] = Meant[types[i]][packed[i]] /\ read[i] # NoValue
    <3>1. types[i] \in Types /\ packed[i] \in AbiValues /\ IsReadable(types[i], packed[i])
      BY <1>3, <1>4, ElementIs
    <3> QED BY <1>3, <1>5, <3>1, ReadableIsRead
  <2> QED BY <1>3, <1>5, <2>1
<1>7. NoValue \notin Range(read)
  <2> HIDE DEF types, packed, read
  <2> QED BY <1>6 DEF Range
<1>8. CASE PacksAll
  <2>1. types = TypesToEncode /\ packed = values
    BY <1>8, PackedAre
  <2>2. Unpacked(read) = read
    BY <1>8 DEF Unpacked, PacksAll
  <2> HIDE DEF types, packed, N, read
  <2>3. \A i \in 1 .. N : Unpacked(read)[i] = MeantAt(values, i)
    BY <1>2, <1>6, <2>1, <2>2 DEF MeantAt
  <2> QED BY <1>7, <2>3 DEF N, read
<1>9. CASE ~PacksAll
  <2>1. /\ Len(types) = m + 1
        /\ \A i \in 1 .. m : types[i] = TypesToEncode[i] /\ packed[i] = values[i]
        /\ types[m + 1] = Tuple(rt) /\ packed[m + 1] = ArrayValue(rv)
    BY <1>1, <1>9, PackedAre
  <2>2. Len(rt) = N - m /\ Len(rt) \in Nat
    BY <1>9, RestsAre
  <2>3. Meant[Tuple(rt)][ArrayValue(rv)] =
          ArrayValue([k \in 1 .. Len(rt) |-> MeantAt(values, m + k)])
    BY <1>9, SentIsReadable
  <2>4. Unpacked(read) = Front(read) \o Last(read)[2]
    BY <1>9 DEF Unpacked, PacksAll
  <2> DEFINE U == {MeantAt(values, i) : i \in 1 .. N} \cup Range(read)
             rest == [k \in 1 .. Len(rt) |-> MeantAt(values, m + k)]
             first == SubSeq(read, 0 + 1, 0 + m)
  <2>5. read \in Seq(U) /\ Len(read) = m + 1
    <3> HIDE DEF read
    <3>1. read \in [1 .. m + 1 -> U]
      <4>1. DOMAIN read = 1 .. m + 1 /\ \A i \in DOMAIN read : read[i] \in Range(read)
        BY <1>6, <2>1 DEF Range
      <4>2. read = [i \in DOMAIN read |-> read[i]]
        BY <1>5
      <4> QED BY <4>1, <4>2
    <3>2. m + 1 \in Nat
      BY <1>1
    <3> HIDE DEF U, m
    <3> QED BY <3>1, <3>2, FunctionIsSequence
  <2>6. rest \in Seq(U) /\ Len(rest) = Len(rt)
    <3>1. \A k \in 1 .. Len(rt) : m + k \in 1 .. N
      BY <1>1, <2>2
    <3>2. \A i \in 1 .. N : MeantAt(values, i) \in U
      OBVIOUS
    <3> HIDE DEF U, m, N, rt
    <3>3. rest \in [1 .. Len(rt) -> U]
      BY <3>1, <3>2
    <3> HIDE DEF rest
    <3> QED BY <2>2, <3>3, FunctionIsSequence
  <2>7. Last(read)[2] = rest
    <3>1. Last(read) = read[m + 1]
      BY <2>5 DEF Last
    <3>2. m + 1 \in 1 .. Len(types)
      BY <1>1, <2>1
    <3>3. read[m + 1] = ArrayValue(rest)
      <4> HIDE DEF types, packed, m, N, rt, rv, read, rest
      <4> QED BY <1>6, <2>1, <2>3, <3>2 DEF rest
    <3> HIDE DEF read, rest
    <3> QED BY <3>1, <3>3 DEF ArrayValue
  <2> HIDE DEF types, packed, m, N, rt, rv, read, U
  <2>8. Front(read) = first
    <3>1. Len(read) - 1 = 0 + m /\ 0 + 1 = 1
      BY <1>1, <2>5
    <3> QED BY <3>1 DEF Front
  <2>9. first \in Seq(U) /\ Len(first) = m /\ \A i \in 1 .. m : first[i] = read[0 + i]
    <3>1. 0 + m <= Len(read) /\ 0 \in Nat
      BY <1>1, <2>5
    <3> QED BY <1>1, <2>5, <3>1, SliceOf
  <2>10. \A k \in 1 .. Len(rt) : rest[k] = MeantAt(values, m + k)
    OBVIOUS
  <2> HIDE DEF first, rest
  <2>11. Unpacked(read) = first \o rest
    BY <2>4, <2>7, <2>8
  <2>12. /\ \A i \in 1 .. m : (first \o rest)[i] = first[i]
         /\ \A k \in 1 .. Len(rt) : (first \o rest)[m + k] = rest[k]
    BY <2>6, <2>9, JoinedIs
  <2>13. ASSUME NEW i \in 1 .. N PROVE Unpacked(read)[i] = MeantAt(values, i)
    <3>1. CASE i <= m
      <4>1. i \in 1 .. m /\ i \in 1 .. Len(types) /\ 0 + i = i
        BY <1>1, <2>1, <3>1
      <4>2. first[i] = read[i]
        BY <2>9, <4>1
      <4>3. read[i] = MeantAt(values, i)
        BY <1>6, <2>1, <4>1 DEF MeantAt
      <4> QED BY <2>11, <2>12, <4>1, <4>2, <4>3
    <3>2. CASE i > m
      <4>1. i - m \in 1 .. Len(rt) /\ m + (i - m) = i
        BY <1>1, <2>2, <3>2
      <4> QED BY <2>10, <2>11, <2>12, <4>1
    <3> QED BY <1>1, <3>1, <3>2
  <2> QED BY <1>7, <2>13 DEF N, read
<1> QED BY <1>8, <1>9

-----------------------------------------------------------------------------
(* What addMethodCall made of the arguments, as long as they are the same *)

\* What was made of them, or that nothing was.
CallIsOf(made, resolved) ==
  \/ /\ made.status = "refused"
     /\ ~Accepted \/ NoBytes \in Range(BytesFor(resolved.values))
  \/ /\ made.status = "made" /\ Accepted
     /\ NoBytes \notin Range(BytesFor(resolved.values))
     /\ made.appArgs = BytesFor(resolved.values)
     /\ made.arrays = SentArrays(made.withAccess, resolved.arrays)

CallIs ==
  /\ given \in Seq(AppReferences) /\ arguments \in Seq(Plain \cup Structured)
  /\ \/ call = NoCall
     \/ /\ Len(arguments) <= MaxArguments
        /\ \E withAccess \in BOOLEAN : \E made, resolved :
             /\ call = made /\ made.withAccess = withAccess
             /\ resolved = Resolved(withAccess) /\ CallIsOf(made, resolved)

\* What is made depends on the arguments, the references and the application.
LEMMA OfTheSame ==
  ASSUME UNCHANGED <<appIndex, given, arguments>>, NEW withAccess
  PROVE  /\ Basic' = Basic /\ Accepted' = Accepted
         /\ Resolved(withAccess)' = Resolved(withAccess)
         /\ \A values : BytesFor(values)' = BytesFor(values)
         /\ \A made, resolved : CallIsOf(made, resolved)' = CallIsOf(made, resolved)
<1>1. appIndex' = appIndex /\ given' = given /\ arguments' = arguments
  OBVIOUS
<1>2. Basic' = Basic
  BY <1>1, Zenon DEF Basic, FoldLeft, MapThenFoldSet, IsTransaction
<1>3. Accepted' = Accepted
  BY <1>1 DEF Accepted
<1>4. Resolved(withAccess)' = Resolved(withAccess)
  <2>1. appIndex' = appIndex /\ given' = given /\ arguments' = arguments
    BY <1>1
  <2> QED BY <2>1, SMT DEF Resolved, FoldLeft, MapThenFoldSet, Resolve, ZeroValues, ArraysGiven,
                           Field, Elements, Basic, IsTransaction
<1>5. PackedTypes' = PackedTypes
  BY <1>2 DEF PackedTypes, TypesToEncode
<1>6. \A values : BytesFor(values)' = BytesFor(values)
  BY <1>5 DEF BytesFor
<1>7. \A made, resolved : CallIsOf(made, resolved)' = CallIsOf(made, resolved)
  BY <1>3, <1>6 DEF CallIsOf, SentArrays, ArraysGiven
<1> QED BY <1>2, <1>3, <1>4, <1>6, <1>7

\* The call remains what it was made of.
LEMMA CallRemains ==
  ASSUME CallIs, UNCHANGED <<appIndex, given, arguments, call>>
  PROVE  CallIs'
<1>1. given' = given /\ arguments' = arguments /\ call' = call
  OBVIOUS
<1>2. given' \in Seq(AppReferences) /\ arguments' \in Seq(Plain \cup Structured)
  BY <1>1 DEF CallIs
<1>3. CASE call = NoCall
  BY <1>1, <1>2, <1>3 DEF CallIs, NoCall
<1>4. CASE call # NoCall
  <2>0. PICK withAccess \in BOOLEAN : \E made, resolved :
          /\ call = made /\ made.withAccess = withAccess
          /\ resolved = Resolved(withAccess) /\ CallIsOf(made, resolved)
    BY <1>4 DEF CallIs
  <2>1. PICK made, resolved :
          /\ call = made /\ made.withAccess = withAccess
          /\ resolved = Resolved(withAccess) /\ CallIsOf(made, resolved)
    BY <2>0
  <2>2. resolved = Resolved(withAccess)' /\ CallIsOf(made, resolved)'
    BY <2>1, OfTheSame
  <2>3. Len(arguments') <= MaxArguments
    BY <1>1, <1>4 DEF CallIs
  <2> QED BY <1>1, <1>2, <2>1, <2>2, <2>3 DEF CallIs
<1> QED BY <1>3, <1>4

\* What addMethodCall makes of them.
LEMMA CallMadeIs ==
  ASSUME CallIs, NEW withAccess \in BOOLEAN, AddMethodCall(withAccess)
  PROVE  CallIs'
<1>0. PICK resolved : resolved = Resolved(withAccess)
  OBVIOUS
<1>1. UNCHANGED <<appIndex, given, arguments>>
  BY MethodCallChanges
<1>2. given' \in Seq(AppReferences) /\ arguments' \in Seq(Plain \cup Structured)
  BY <1>1 DEF CallIs
<1>3. Len(arguments') <= MaxArguments
  <2>1. Len(given) \in Nat /\ Len(arguments) \in Nat
    BY ElementIs DEF CallIs
  <2>2. 2 * Len(given) + Len(arguments) <= MaxArguments /\ MaxArguments \in Nat
    BY MethodAssumption DEF AddMethodCall, Size
  <2>3. Len(arguments) <= MaxArguments
    BY <2>1, <2>2
  <2> QED BY <1>1, <2>3
<1>4. \E made : call' = made /\ made.withAccess = withAccess /\ CallIsOf(made, resolved)
  <2>1. CASE ~Accepted
    <3>1. Refuse(withAccess)
      BY <2>1 DEF AddMethodCall
    <3> QED BY <2>1, <3>1 DEF Refuse, CallIsOf
  <2>2. CASE Accepted
    <3> DEFINE bytes == BytesFor(resolved.values)
    <3>1. CallWith(withAccess, resolved.arrays, bytes)
      BY <1>0, <2>2 DEF AddMethodCall, CallResolved, BytesFor
    <3>2. CASE NoBytes \in Range(bytes)
      <4>1. Refuse(withAccess)
        BY <3>1, <3>2 DEF CallWith
      <4> QED BY <3>2, <4>1 DEF Refuse, CallIsOf
    <3>3. CASE NoBytes \notin Range(bytes)
      <4> DEFINE arrays == SentArrays(withAccess, resolved.arrays)
      <4>1. \E transactions :
              call' = [status |-> "made", withAccess |-> withAccess, appArgs |-> bytes,
                       arrays |-> arrays, transactions |-> transactions]
        BY <3>1, <3>3 DEF CallWith
      <4> HIDE DEF bytes, arrays
      <4>2. PICK transactions :
              call' = [status |-> "made", withAccess |-> withAccess, appArgs |-> bytes,
                       arrays |-> arrays, transactions |-> transactions]
        BY <4>1
      <4> DEFINE made == [status |-> "made", withAccess |-> withAccess, appArgs |-> bytes,
                          arrays |-> arrays, transactions |-> transactions]
      <4>3. /\ made.status = "made" /\ made.withAccess = withAccess
            /\ made.appArgs = bytes /\ made.arrays = arrays
        OBVIOUS
      <4>4. call' = made
        BY <4>2
      <4> HIDE DEF made
      <4>5. CallIsOf(made, resolved)
        BY <2>2, <3>3, <4>3 DEF CallIsOf, bytes, arrays
      <4> QED BY <4>3, <4>4, <4>5
    <3> QED BY <3>2, <3>3
  <2> QED BY <2>1, <2>2
<1>5. PICK made : call' = made /\ made.withAccess = withAccess /\ CallIsOf(made, resolved)
  BY <1>4
<1>6. resolved = Resolved(withAccess)' /\ CallIsOf(made, resolved)'
  BY <1>0, <1>1, <1>5, OfTheSame
<1> QED BY <1>2, <1>3, <1>5, <1>6 DEF CallIs

\* Whatever the application does.
LEMMA CallStaysTrue ==
  ASSUME CallIs, [MethodNext]_<<vars, methodVars>>
  PROVE  CallIs'
<1>1. CASE GiveReference
  <2>1. PICK rr \in References(Address, Asset, App, Name) : Give(rr)
    BY <1>1 DEF GiveReference
  <2>2. given' = Append(given, rr) /\ arguments' = arguments /\ call' = call /\ call = NoCall
    BY <1>1, <2>1 DEF GiveReference, Give, methodVars
  <2>3. given' \in Seq(AppReferences)
    <3>1. given \in Seq(AppReferences) /\ rr \in AppReferences
      BY DEF CallIs, AppReferences
    <3> HIDE DEF AppReferences
    <3> QED BY <2>2, <3>1
  <2> QED BY <2>2, <2>3 DEF CallIs, NoCall
<1>2. CASE \E arg \in Plain \cup Structured : GiveArgument(arg)
  <2>1. PICK arg \in Plain \cup Structured : GiveArgument(arg)
    BY <1>2
  <2>2. arguments' = Append(arguments, arg) /\ given' = given /\ call' = call /\ call = NoCall
    BY <2>1 DEF GiveArgument, vars
  <2>3. arguments' \in Seq(Plain \cup Structured)
    BY <2>2 DEF CallIs
  <2> QED BY <2>2, <2>3 DEF CallIs, NoCall
<1>3. CASE WithoutMethod
  <2>1. UNCHANGED <<appIndex, given, arguments, call>>
    BY <1>3 DEF WithoutMethod, MakeWithAccess, MakeConverting, MakeWithArrays, Make,
           ReceiveAccess, methodVars
  <2> QED BY <2>1, CallRemains
<1>4. CASE \E withAccess \in BOOLEAN : AddMethodCall(withAccess)
  BY <1>4, CallMadeIs
<1>5. CASE \E ret \in Return : \E outcome \in Outcomes : Respond(ret, outcome)
  <2>1. UNCHANGED <<appIndex, given, arguments, call>>
    BY <1>5 DEF Respond, vars
  <2> QED BY <2>1, CallRemains
<1>6. CASE OnTheWay
  <2>1. UNCHANGED <<appIndex, given, arguments, call>>
    BY <1>6 DEF OnTheWay, Write, ReceiveBoxes, Read, methodVars
  <2> QED BY <2>1, CallRemains
<1>7. CASE UNCHANGED <<vars, methodVars>>
  <2>1. UNCHANGED <<appIndex, given, arguments, call>>
    BY <1>7 DEF vars, methodVars
  <2> QED BY <2>1, CallRemains
<1> QED BY <1>1, <1>2, <1>3, <1>4, <1>5, <1>6, <1>7 DEF MethodNext, Outcomes

\* However the call is made.
LEMMA CallIsAlways == MethodSpec => []CallIs
<1>1. MethodInit => CallIs
  <2>1. <<>> \in Seq(AppReferences) /\ <<>> \in Seq(Plain \cup Structured)
    OBVIOUS
  <2> QED BY <2>1 DEF MethodInit, Init, CallIs
<1>2. CallIs /\ [MethodNext]_<<vars, methodVars>> => CallIs'
  BY CallStaysTrue
<1> QED BY <1>1, <1>2, PTL DEF MethodSpec

\* What was made of the arguments, for those that are as they have to be.
LEMMA CallWasMade ==
  ASSUME CallIs, call # NoCall
  PROVE  /\ call.withAccess \in BOOLEAN
         /\ CallIsOf(call, Resolved(call.withAccess))
         /\ Accepted => /\ ResolvedUpTo(Resolved(call.withAccess), Len(Basic))
                        /\ AreEncoded(Resolved(call.withAccess).values)
<1>1. /\ call.withAccess \in BOOLEAN /\ CallIsOf(call, Resolved(call.withAccess))
      /\ Len(arguments) <= MaxArguments
  BY DEF CallIs
<1>2. given \in Seq(AppReferences) /\ arguments \in Seq(Plain \cup Structured)
  BY DEF CallIs
<1>3. ASSUME Accepted
      PROVE  /\ ResolvedUpTo(Resolved(call.withAccess), Len(Basic))
             /\ AreEncoded(Resolved(call.withAccess).values)
  <2>1. ResolvedUpTo(Resolved(call.withAccess), Len(Basic))
    BY <1>1, <1>2, <1>3, ResolvedIs
  <2>2. Basic \in Seq(BasicArguments) /\ Len(Basic) <= Len(arguments)
    BY <1>2, BasicIs
  <2>3. Len(Basic) <= MaxArguments
    <3>1. Len(Basic) \in Nat /\ Len(arguments) \in Nat /\ MaxArguments \in Nat
      BY <1>2, <2>2, ElementIs, MethodAssumption
    <3> QED BY <1>1, <2>2, <3>1
  <2>4. /\ Resolved(call.withAccess).values \in Seq(ArgumentValues)
        /\ Len(Resolved(call.withAccess).values) = Len(Basic)
    BY <2>1 DEF ResolvedUpTo
  <2> QED BY <1>3, <2>1, <2>2, <2>3, <2>4 DEF AreEncoded
<1> QED BY <1>1, <1>3

\* What integers have bytes.
LEMMA IntegerHasBytes ==
  ASSUME NEW value \in AbiValues, NEW size \in Nat
  PROVE  EncodeInteger(value, size) # NoBytes <=>
           /\ value[1] \in {"number", "bigint"}
           /\ value[2] \in Nat /\ value[2] < Power[Bits * size]
           /\ IsA(value, "number") => value[2] <= MaxSafeInteger
<1>1. Power[Bits * size] \in Nat
  <2>1. Bits * size \in Nat
    <3>1. \A x, y \in Nat : x * y \in Nat
      OBVIOUS
    <3> QED BY <3>1, BaseIs
  <2> QED BY <2>1, PowerSteps
<1> DEFINE Right == /\ value[1] \in {"number", "bigint"}
                    /\ value[2] \in 0 .. Power[Bits * size] - 1
                    /\ IsA(value, "number") => value[2] <= MaxSafeInteger
<1>2. CASE Right
  <2>1. value[2] \in Nat /\ value[2] < Power[Bits * size]
    BY <1>1, <1>2
  <2>2. EncodeInteger(value, size) = BytesOf(value[2], size)
    BY <1>2, <2>1, NumberFits DEF EncodeInteger
  <2>3. EncodeInteger(value, size) # NoBytes
    BY <2>1, <2>2, BytesOfIs, NoBytesAreNone
  <2> QED BY <1>2, <2>1, <2>3
<1>3. CASE ~Right
  <2>1. EncodeInteger(value, size) = NoBytes
    BY <1>3 DEF EncodeInteger
  <2>2. ~(value[2] \in Nat /\ value[2] < Power[Bits * size]) <=> value[2] \notin 0 .. Power[Bits * size] - 1
    BY <1>1
  <2> QED BY <1>3, <2>1, <2>2
<1> QED BY <1>2, <1>3

\* What addresses have bytes.
LEMMA AddressHasBytes ==
  ASSUME NEW value \in AbiValues
  PROVE  EncodeAddress(value) # NoBytes <=>
           \/ IsA(value, "address")
           \/ IsA(value, "bytes") /\ Len(value[2]) = AddressSize
<1>1. CASE IsA(value, "address") \/ (IsA(value, "bytes") /\ Len(value[2]) = AddressSize)
  <2>1. EncodeAddress(value) = value[2]
    BY <1>1 DEF EncodeAddress, IsA
  <2>2. value[2] \in ByteStrings
    <3>1. value[1] = "bytes" => value[2] \in ByteStrings
      BY ValueKinds
    <3>2. value[1] = "address" => value[2] \in ByteStrings
      <4>1. value[1] = "address" => value[2] \in [1 .. AddressSize -> 0 .. Base - 1]
        BY ValueKinds
      <4>2. AddressSize \in Nat
        BY AbiAssumption
      <4> QED BY <4>1, <4>2, FunctionIsSequence DEF ByteStrings
    <3> QED BY <1>1, <3>1, <3>2 DEF IsA
  <2> QED BY <1>1, <2>1, <2>2, NoBytesAreNone
<1>2. CASE ~(IsA(value, "address") \/ (IsA(value, "bytes") /\ Len(value[2]) = AddressSize))
  BY <1>2 DEF EncodeAddress
<1> QED BY <1>1, <1>2

\* Transactions are taken where they are asked for.
LEMMA TransactionsOfTheirKind ==
  ASSUME NEW arg \in Arguments
  PROVE  TransactionAccepted(arg) <=>
           /\ IsA(arg.value, "transaction") <=> IsTransaction(arg)
           /\ IsTransaction(arg) =>
                /\ arg.value \in {Transaction(type[1], FALSE) : type \in TransactionTypes}
                /\ arg.type = <<"txn">> \/ arg.type = <<arg.value[2]>>
<1>1. CASE ~IsTransaction(arg)
  BY <1>1 DEF TransactionAccepted
<1>2. CASE IsTransaction(arg) /\ ~IsA(arg.value, "transaction")
  BY <1>2 DEF TransactionAccepted
<1>3. CASE IsTransaction(arg) /\ IsA(arg.value, "transaction")
  <2>1. arg.value \in Transactions
    <3>1. arg.value \in ArgumentValues => arg.value \in AbiValues
      BY ArgumentsNest
    <3>2. arg.value \in AbiValues => ~IsA(arg.value, "transaction")
      BY ValueKinds DEF IsA
    <3> QED BY <1>3, <3>1, <3>2 DEF Arguments
  <2>2. PICK name \in {type[1] : type \in TransactionTypes}, grouped \in BOOLEAN :
          arg.value = Transaction(name, grouped)
    BY <2>1 DEF Transactions
  <2>3. /\ arg.value[2] = name /\ arg.value[3] = grouped
        /\ arg.value = <<"transaction", name, grouped>>
    BY <2>2 DEF Transaction
  <2>4. arg.value \in {Transaction(type[1], FALSE) : type \in TransactionTypes} <=> ~grouped
    <3>1. ASSUME NEW type \in TransactionTypes, arg.value = Transaction(type[1], FALSE)
          PROVE  ~grouped
      <4>1. arg.value[3] = FALSE
        BY <3>1 DEF Transaction
      <4> QED BY <2>3, <4>1
    <3>2. ~grouped => arg.value = Transaction(name, FALSE)
      BY <2>2
    <3>3. \E type \in TransactionTypes : name = type[1]
      BY <2>2
    <3> QED BY <3>1, <3>2, <3>3
  <2>5. arg.type[1] \in {"txn", name} <=> arg.type = <<"txn">> \/ arg.type = <<name>>
    <3>1. arg.type = <<arg.type[1]>>
      BY <1>3 DEF IsTransaction, TransactionTypes
    <3> QED BY <3>1
  <2> QED BY <1>3, <2>3, <2>4, <2>5 DEF TransactionAccepted
<1> QED BY <1>1, <1>2, <1>3

\* An account is taken just when it is one, and an ID when it is a number.
LEMMA ReferencesOfTheirKind ==
  ASSUME NEW arg \in Arguments, IsReference(arg), ~IsA(arg.value, "transaction")
  PROVE  ReferenceAccepted(arg) <=>
           /\ arg.type = <<"account">> =>
                \/ IsA(arg.value, "address")
                \/ IsA(arg.value, "bytes") /\ Len(arg.value[2]) = AddressSize
           /\ arg.type \in {<<"application">>, <<"asset">>} =>
                /\ IsA(arg.value, "number") \/ IsA(arg.value, "bigint")
                /\ arg.value[2] \in 0 .. MaxSafeInteger /\ arg.value[2] < Power[Bits * IDSize]
<1>1. arg.value \in AbiValues
  <2>1. arg.value \notin Transactions
    BY DEF Transactions, Transaction, IsA
  <2> QED BY <2>1, ArgumentsNest DEF Arguments
<1>2. /\ AddressType \in Types /\ AddressType[1] = "address"
      /\ Uint(IDSize) \in Types /\ Uint(IDSize)[1] = "uint" /\ Uint(IDSize)[2] = IDSize
      /\ IDSize \in Nat /\ MaxSafeInteger \in Nat
  BY MethodAssumption, AbiAssumption, SimpleTypesAreTypes DEF Uint, AddressType, SimpleTypes
<1>3. AbiEncode[AddressType][arg.value] = EncodeAddress(arg.value)
  <2>1. AbiEncode[AddressType][arg.value] = EncodeAs(AddressType, arg.value, AbiEncode)
    BY <1>1, <1>2, FunctionsAre
  <2>2. EncodeAs(AddressType, arg.value, AbiEncode) = EncodeAddress(arg.value)
    BY <1>2 DEF EncodeAs
  <2> QED BY <2>1, <2>2
<1>4. AbiEncode[Uint(IDSize)][arg.value] = EncodeInteger(arg.value, IDSize)
  <2>1. AbiEncode[Uint(IDSize)][arg.value] = EncodeAs(Uint(IDSize), arg.value, AbiEncode)
    BY <1>1, <1>2, FunctionsAre
  <2>2. EncodeAs(Uint(IDSize), arg.value, AbiEncode) = EncodeInteger(arg.value, IDSize)
    BY <1>2 DEF EncodeAs
  <2> QED BY <2>1, <2>2
<1>5. <<"application">> # <<"account">> /\ <<"asset">> # <<"account">>
  <2>1. <<"application">>[1] # <<"account">>[1] /\ <<"asset">>[1] # <<"account">>[1]
    OBVIOUS
  <2> QED BY <2>1
<1>6. CASE arg.type = <<"account">>
  <2>1. arg.type \notin {<<"application">>, <<"asset">>}
    BY <1>5, <1>6
  <2>2. ReferenceAccepted(arg) <=> EncodeAddress(arg.value) # NoBytes
    BY <1>3, <1>6 DEF ReferenceAccepted
  <2>3. EncodeAddress(arg.value) # NoBytes <=>
          \/ IsA(arg.value, "address")
          \/ IsA(arg.value, "bytes") /\ Len(arg.value[2]) = AddressSize
    BY <1>1, AddressHasBytes
  <2> QED BY <1>6, <2>1, <2>2, <2>3
<1>7. CASE arg.type \in {<<"application">>, <<"asset">>}
  <2>1. arg.type # <<"account">>
    BY <1>5, <1>7
  <2>2. ReferenceAccepted(arg) <=>
          EncodeInteger(arg.value, IDSize) # NoBytes /\ arg.value[2] <= MaxSafeInteger
    BY <1>4, <2>1 DEF ReferenceAccepted
  <2>3. EncodeInteger(arg.value, IDSize) # NoBytes <=>
          /\ arg.value[1] \in {"number", "bigint"}
          /\ arg.value[2] \in Nat /\ arg.value[2] < Power[Bits * IDSize]
          /\ IsA(arg.value, "number") => arg.value[2] <= MaxSafeInteger
    BY <1>1, <1>2, IntegerHasBytes
  <2>4. arg.value[2] \in 0 .. MaxSafeInteger <=>
          arg.value[2] \in Nat /\ arg.value[2] <= MaxSafeInteger
    BY <1>2
  <2>5. arg.value[1] \in {"number", "bigint"} <=> IsA(arg.value, "number") \/ IsA(arg.value, "bigint")
    BY DEF IsA
  <2> QED BY <1>7, <2>1, <2>2, <2>3, <2>4, <2>5
<1> QED BY <1>6, <1>7 DEF IsReference, ReferenceTypes

\* addMethodCall takes just the arguments that are of their kind.
LEMMA AcceptedAreOfTheirKind ==
  ASSUME arguments \in Seq(Plain \cup Structured)
  PROVE  Accepted <=> \A i \in DOMAIN arguments : IsOfItsKind(arguments[i])
<1>1. \A i \in DOMAIN arguments : arguments[i] \in Arguments
  <2>1. \A i \in DOMAIN arguments : arguments[i] \in Plain \cup Structured
    BY ElementIs
  <2> QED BY <2>1, MethodAssumption
<1>2. ASSUME NEW arg \in Arguments
      PROVE  /\ TransactionAccepted(arg)
             /\ IsReference(arg) => ReferenceAccepted(arg)
             <=> IsOfItsKind(arg)
  <2>1. IsReference(arg) <=> arg.type \in {<<"account">>, <<"application">>, <<"asset">>}
    BY DEF IsReference, ReferenceTypes
  <2>2. IsReference(arg) => ~IsTransaction(arg)
    <3>1. IsReference(arg) => arg.type[1] \in {"account", "application", "asset"}
      BY DEF IsReference, ReferenceTypes
    <3>2. IsTransaction(arg) =>
            arg.type[1] \in {"txn", "pay", "keyreg", "acfg", "axfer", "afrz", "appl"}
      BY DEF IsTransaction, TransactionTypes
    <3> QED BY <3>1, <3>2
  <2> DEFINE Transacted ==
               /\ IsA(arg.value, "transaction") <=> IsTransaction(arg)
               /\ IsTransaction(arg) =>
                    /\ arg.value \in {Transaction(type[1], FALSE) : type \in TransactionTypes}
                    /\ arg.type = <<"txn">> \/ arg.type = <<arg.value[2]>>
             Referred ==
               /\ arg.type = <<"account">> =>
                    \/ IsA(arg.value, "address")
                    \/ IsA(arg.value, "bytes") /\ Len(arg.value[2]) = AddressSize
               /\ arg.type \in {<<"application">>, <<"asset">>} =>
                    /\ IsA(arg.value, "number") \/ IsA(arg.value, "bigint")
                    /\ arg.value[2] \in 0 .. MaxSafeInteger
                    /\ arg.value[2] < Power[Bits * IDSize]
  <2>3. IsOfItsKind(arg) <=> Transacted /\ Referred
    BY DEF IsOfItsKind
  <2>4. TransactionAccepted(arg) <=> Transacted
    BY TransactionsOfTheirKind
  <2>5. Transacted /\ IsReference(arg) => (ReferenceAccepted(arg) <=> Referred)
    BY <2>2, ReferencesOfTheirKind
  <2>6. ~IsReference(arg) => Referred
    BY <2>1
  <2> HIDE DEF Transacted, Referred
  <2> QED BY <2>3, <2>4, <2>5, <2>6
<1> QED BY <1>1, <1>2 DEF Accepted

\* What is of its kind and fits has bytes, and what has bytes is and does.
LEMMA FitsWhatIsMade ==
  ASSUME CallIs
  PROVE  EncodesWhatFits
<1> SUFFICES ASSUME call # NoCall
             PROVE  LET values == PackedValues(Resolved(call.withAccess).values)
                    IN  call.status = "refused" <=>
                          \/ \E i \in DOMAIN arguments : ~IsOfItsKind(arguments[i])
                          \/ \E i \in DOMAIN PackedTypes : ~Fits[PackedTypes[i]][FALSE][values[i]]
  BY DEF EncodesWhatFits
<1> DEFINE resolved == Resolved(call.withAccess)
           values == PackedValues(resolved.values)
           Unfit == \E i \in DOMAIN PackedTypes : ~Fits[PackedTypes[i]][FALSE][values[i]]
<1>1. CallIsOf(call, resolved)
  BY CallWasMade
<1>2. Accepted => (NoBytes \in Range(BytesFor(resolved.values)) <=> Unfit)
  <2>1. Accepted => AreEncoded(resolved.values)
    BY CallWasMade
  <2> HIDE DEF resolved
  <2> QED BY <2>1, BytesFit
<1> HIDE DEF resolved, Unfit
<1>3. call.status = "refused" <=> ~Accepted \/ Unfit
  BY <1>1, <1>2 DEF CallIsOf
<1>4. Accepted <=> \A i \in DOMAIN arguments : IsOfItsKind(arguments[i])
  BY AcceptedAreOfTheirKind DEF CallIs
<1> QED BY <1>3, <1>4 DEF resolved, Unfit

\* What is at the position that a reference became.
LEMMA TargetIsThere ==
  ASSUME NEW arg \in BasicArguments, Accepted, IsReference(arg), NEW index \in Nat,
         NEW arrays, AreArrays(arrays), IsIn(arrays, arg.type[1], arg.value[2], index),
         call.withAccess \in BOOLEAN, call.arrays = SentArrays(call.withAccess, arrays)
  PROVE  \/ At(arg.type[1], index) = <<arg.value[2]>>
         \/ call.withAccess /\ ZeroValues[arg.type[1]] # <<arg.value[2]>>
<1> DEFINE kind == arg.type[1]
           target == arg.value[2]
           sentArrays == call.arrays
<1>1. kind \in ArrayKinds
  BY BasicCases DEF ArrayKinds
<1>2. /\ ZeroValues["account"] = <<Sender>> /\ ZeroValues["application"] = <<appIndex.value>>
      /\ ZeroValues["asset"] = NoZeroValue
  BY DEF ZeroValues
<1>3. /\ IsIn(arrays, kind, target, index)
      /\ \E n \in Nat : DOMAIN arrays[kind] = 1 .. n /\ Len(arrays[kind]) = n
  <2>1. arrays[kind] \in Seq(ListedIn(kind))
    BY <1>1 DEF AreArrays
  <2> QED BY <2>1, ElementIs
<1>4. NoZeroValue # <<target>>
  BY DEF NoZeroValue
<1> HIDE DEF kind, target
<1>5. CASE ZeroValues[kind] = <<target>>
  <2>1. index = 0 /\ kind # "asset"
    BY <1>2, <1>3, <1>4, <1>5 DEF IsIn
  <2>2. sentArrays[kind] \in Seq(ListedIn(kind))
    <3>1. arrays[kind] \in Seq(ListedIn(kind)) /\ <<>> \in Seq(ListedIn(kind))
      BY <1>1 DEF AreArrays
    <3>2. sentArrays[kind] = arrays[kind] \/ sentArrays[kind] = <<>>
      BY <1>1 DEF SentArrays, ArraysGiven, ArrayKinds
    <3> QED BY <3>1, <3>2
  <2> DEFINE U == {target} \cup ListedIn(kind)
             list == <<target>> \o sentArrays[kind]
  <2>3. <<target>> \in Seq(U) /\ sentArrays[kind] \in Seq(U) /\ Len(<<target>>) = 1
    BY <2>2
  <2>4. list \in Seq(U) /\ Len(list) = 1 + Len(sentArrays[kind]) /\ Len(sentArrays[kind]) \in Nat
        /\ list[1] = <<target>>[1]
    <3> HIDE DEF U, sentArrays
    <3> QED BY <2>3, JoinedIs
  <2>5. list[1] = target /\ 1 <= Len(list)
    <3> HIDE DEF U, sentArrays, list
    <3> QED BY <2>4
  <2>6. At(kind, index) = IF 1 <= Len(list) THEN <<list[1]>> ELSE <<>>
    BY <1>5, <2>1 DEF At
  <2> HIDE DEF list
  <2> QED BY <2>5, <2>6 DEF kind, target
<1>6. CASE ZeroValues[kind] # <<target>> /\ call.withAccess
  BY <1>6 DEF kind, target
<1>7. CASE ZeroValues[kind] # <<target>> /\ ~call.withAccess
  <2>1. sentArrays = arrays
    BY <1>7 DEF SentArrays
  <2>2. PICK place \in 1 .. Len(arrays[kind]) :
          arrays[kind][place] = target /\ index = place - 1 + Offset(kind)
    BY <1>3, <1>7 DEF IsIn
  <2>3. Len(arrays[kind]) \in Nat /\ place \in Nat
    BY <1>3, <2>2
  <2>4. CASE kind = "asset"
    <3>1. index + 1 = place
      BY <1>2, <2>2, <2>3, <2>4 DEF Offset
    <3>2. At(kind, index) = IF index + 1 <= Len(arrays[kind]) THEN <<arrays[kind][index + 1]>> ELSE <<>>
      BY <2>1, <2>4 DEF At
    <3>3. index + 1 <= Len(arrays[kind])
      BY <2>2, <2>3, <3>1
    <3> QED BY <2>2, <3>1, <3>2, <3>3 DEF kind, target
  <2>5. CASE kind # "asset"
    <3>1. PICK zero : ZeroValues[kind] = <<zero>>
      BY <1>1, <1>2, <2>5 DEF ArrayKinds
    <3>2. Offset(kind) = 1
      BY <3>1 DEF Offset, NoZeroValue
    <3>3. index = place
      BY <2>2, <2>3, <3>2
    <3> DEFINE U == {zero} \cup ListedIn(kind)
               list == <<zero>> \o arrays[kind]
    <3>4. arrays[kind] \in Seq(ListedIn(kind))
      BY <1>1 DEF AreArrays
    <3>5. <<zero>> \in Seq(U) /\ arrays[kind] \in Seq(U) /\ Len(<<zero>>) = 1
      BY <3>4
    <3>6. Len(list) = 1 + Len(arrays[kind])
          /\ \A i \in 1 .. Len(arrays[kind]) : list[1 + i] = arrays[kind][i]
      <4> HIDE DEF U
      <4> QED BY <3>5, JoinedIs
    <3>7. At(kind, index) = IF index + 1 <= Len(list) THEN <<list[index + 1]>> ELSE <<>>
      BY <2>1, <2>5, <3>1 DEF At
    <3> HIDE DEF list
    <3>8. index + 1 <= Len(list) /\ index + 1 = 1 + place
      BY <2>2, <2>3, <3>3, <3>6
    <3>9. list[index + 1] = target
      BY <2>2, <3>6, <3>8
    <3> QED BY <3>7, <3>8, <3>9 DEF kind, target
  <2> QED BY <2>4, <2>5
<1> QED BY <1>5, <1>6, <1>7

\* What a contract reads of a call that was made.
LEMMA ReadsWhatIsMade ==
  ASSUME CallIs
  PROVE  ArgumentsAreRead
<1> DEFINE resolved == Resolved(call.withAccess)
           values == resolved.values
           read == DecodedFrom(BytesFor(values))
           Goal == /\ NoValue \notin Range(DecodedArguments)
                   /\ \A i \in DOMAIN Basic :
                        \/ IsMeant(Basic[i], Unpacked(DecodedArguments)[i])
                        \/ /\ IsReference(Basic[i]) /\ call.withAccess
                           /\ ZeroValues[Basic[i].type[1]] # <<Basic[i].value[2]>>
<1> SUFFICES ASSUME call.status = "made",
                    \A i \in DOMAIN Basic :
                      \/ IsReference(Basic[i])
                      \/ ~HasEmptyPart[Basic[i].type] /\ Fits[Basic[i].type][TRUE][Basic[i].value]
             PROVE  Goal
  BY DEF ArgumentsAreRead
<1>1. call # NoCall
  BY DEF NoCall
<1>2. /\ call.withAccess \in BOOLEAN /\ Accepted
      /\ NoBytes \notin Range(BytesFor(values)) /\ call.appArgs = BytesFor(values)
      /\ call.arrays = SentArrays(call.withAccess, resolved.arrays)
      /\ ResolvedUpTo(resolved, Len(Basic)) /\ AreEncoded(values)
  BY <1>1, CallWasMade DEF CallIsOf
<1>3. Basic \in Seq(BasicArguments) /\ DOMAIN Basic = 1 .. Len(Basic)
      /\ \A i \in 1 .. Len(Basic) : Basic[i] \in BasicArguments
  BY <1>2, ElementIs DEF AreEncoded
<1>4. /\ AreArrays(resolved.arrays)
      /\ \A i \in 1 .. Len(Basic) : IsResolvedTo(Basic[i], values[i], resolved.arrays)
  BY <1>2 DEF ResolvedUpTo
<1>5. AreReadable(values)
  <2> HIDE DEF resolved
  <2> QED BY <1>3, <1>4 DEF AreReadable, IsResolvedTo, IsReadable
<1>6. NoValue \notin Range(read) /\ \A i \in 1 .. Len(Basic) : Unpacked(read)[i] = MeantAt(values, i)
  <2> HIDE DEF resolved
  <2> QED BY <1>2, <1>5, SentIsRead
<1>7. DecodedArguments = read
  BY <1>2 DEF DecodedArguments, DecodedFrom
<1>8. \A i \in 1 .. Len(Basic) : TypesToEncode[i] = TypeToEncode(Basic[i])
  BY <1>2, <1>3, TypesToEncodeAre
<1> HIDE DEF resolved, read
<1>9. ASSUME NEW i \in DOMAIN Basic
      PROVE  \/ IsMeant(Basic[i], Unpacked(read)[i])
             \/ /\ IsReference(Basic[i]) /\ call.withAccess
                /\ ZeroValues[Basic[i].type[1]] # <<Basic[i].value[2]>>
  <2> DEFINE arg == Basic[i]
  <2>1. i \in 1 .. Len(Basic) /\ arg \in BasicArguments /\ IsResolvedTo(arg, values[i], resolved.arrays)
    BY <1>3, <1>4
  <2>2. Unpacked(read)[i] = Meant[TypeToEncode(arg)][values[i]]
    BY <1>6, <1>8, <2>1 DEF MeantAt
  <2>3. CASE ~IsReference(arg)
    BY <2>1, <2>2, <2>3 DEF IsMeant, IsResolvedTo, TypeToEncode
  <2>4. CASE IsReference(arg)
    <3>1. PICK index \in Nat :
            values[i] = Number(index) /\ IsIn(resolved.arrays, arg.type[1], arg.value[2], index)
      BY <2>1, <2>4 DEF IsResolvedTo
    <3>2. Unpacked(read)[i] = BigInt(index)
      BY <2>2, <2>4, <3>1, NumberIsReadable DEF TypeToEncode
    <3>3. Unpacked(read)[i][2] = index
      BY <3>2 DEF BigInt
    <3>4. \/ At(arg.type[1], index) = <<arg.value[2]>>
          \/ call.withAccess /\ ZeroValues[arg.type[1]] # <<arg.value[2]>>
      <4> HIDE DEF arg
      <4> QED BY <1>2, <1>4, <2>1, <2>4, <3>1, TargetIsThere
    <3> QED BY <2>4, <3>3, <3>4 DEF IsMeant
  <2> QED BY <2>3, <2>4
<1> QED BY <1>6, <1>7, <1>9

\* addMethodCall refuses a call just when a transaction or a reference is none of
\* its kind, or what is encoded of another argument does not fit its type or has
\* no place, however many they are (src/src/composer.ts addMethodCall).
THEOREM EncodesJustWhatFits == MethodSpec => []EncodesWhatFits
<1>1. CallIs => EncodesWhatFits
  BY FitsWhatIsMade
<1> QED BY <1>1, CallIsAlways, PTL

\* A contract reads what was given, be it packed into a tuple or referred to by
\* its position in a foreign array (src/src/composer.ts addMethodCall,
\* populateForeignArray).
THEOREM ArgumentsAreAlwaysRead == MethodSpec => []ArgumentsAreRead
<1>1. CallIs => ArgumentsAreRead
  BY ReadsWhatIsMade
<1> QED BY <1>1, CallIsAlways, PTL

-----------------------------------------------------------------------------
(* What is true of every application call is true of calls of methods *)

\* The foreign apps that are sent are numbers.
LEMMA SentAppsAreNumbers ==
  ASSUME CallIs, Accepted, NEW withAccess \in BOOLEAN
  PROVE  SentArrays(withAccess, Resolved(withAccess).arrays).application \in Seq(Nat)
<1>1. CASE withAccess
  <2>1. SentArrays(withAccess, Resolved(withAccess).arrays).application = <<>>
    BY <1>1 DEF SentArrays, ArraysGiven
  <2> QED BY <2>1
<1>2. CASE ~withAccess
  <2>1. SentArrays(withAccess, Resolved(withAccess).arrays) = Resolved(withAccess).arrays
    BY <1>2 DEF SentArrays
  <2>2. ResolvedUpTo(Resolved(withAccess), Len(Basic))
    BY ResolvedIs DEF CallIs
  <2>3. AreArrays(Resolved(withAccess).arrays)
    BY <2>2 DEF ResolvedUpTo
  <2>4. Resolved(withAccess).arrays["application"] \in Seq(ListedIn("application"))
    BY <2>3 DEF AreArrays, ArrayKinds
  <2>5. ListedIn("application") = Nat
    BY DEF ListedIn
  <2> QED BY <2>1, <2>4, <2>5
<1> QED BY <1>1, <1>2

\* Making the transaction of a call, with one list or with arrays.
LEMMA InvCallMade ==
  ASSUME Inv, NEW withAccess \in BOOLEAN, NEW arrays, CallMade(withAccess, arrays),
         SentArrays(withAccess, arrays).application \in Seq(Nat)
  PROVE  Inv'
<1> DEFINE T == [appIndex : Nat, name : Name]
           boxes == Field("box")
<1>1. given \in Seq(AppReferences)
  BY DEF Inv, Fields
<1>2. /\ UNCHANGED <<appIndex, given, sent>> /\ last = "given" /\ last' = "made"
      /\ way' = (IF withAccess THEN "access" ELSE "arrays")
      /\ txn'.access = (IF withAccess THEN ConstructedAll(given) ELSE <<>>)
      /\ txn'.foreignApps = SentArrays(withAccess, arrays).application
      /\ txn'.boxes = (IF withAccess THEN <<>> ELSE boxes)
  BY DEF CallMade, Make
<1>3. boxes \in Seq(T)
  BY <1>1, BoxesTyped DEF Field
<1> HIDE DEF boxes
<1>4. txn'.boxes \in Seq(T) /\ txn'.foreignApps \in Seq(Nat)
  <2>1. <<>> \in Seq(T)
    <3> HIDE DEF T
    <3> QED OBVIOUS
  <2> QED BY <1>2, <1>3, <2>1
<1>5. txn'.access = Original' /\ way' \in {"access", "arrays"}
  <2>1. CASE withAccess
    BY <1>2, <2>1 DEF Original
  <2>2. CASE ~withAccess
    BY <1>2, <2>2 DEF Original
  <2> QED BY <2>1, <2>2
<1>6. txn'.access \in Seq(TxnReferences)
  BY <1>1, <1>2, ConstructedTypes
<1>7. Fields'
  BY <1>2, <1>4, <1>5, <1>6 DEF Inv, Fields
<1>8. AccessOfTxn'
  BY <1>2, <1>5 DEF Inv, AccessOfTxn
<1>9. SentOfOriginal' /\ BoxesOfTxn'
  BY <1>2 DEF SentOfOriginal, BoxesOfTxn
<1> QED BY <1>7, <1>8, <1>9 DEF Inv

\* When addMethodCall makes one, or refuses to.
LEMMA InvMethodCall ==
  ASSUME Inv, CallIs, NEW withAccess \in BOOLEAN, AddMethodCall(withAccess)
  PROVE  Inv'
<1> DEFINE resolved == Resolved(withAccess)
           bytes == EncodedArguments(PackedTypes, PackedValues(resolved.values))
<1>1. CASE Refuse(withAccess)
  BY <1>1, InvUnchanged DEF Refuse
<1>2. CASE ~Refuse(withAccess)
  <2>1. Accepted /\ CallWith(withAccess, resolved.arrays, bytes)
    BY <1>2 DEF AddMethodCall, CallResolved
  <2>2. SentArrays(withAccess, resolved.arrays).application \in Seq(Nat)
    BY <2>1, SentAppsAreNumbers
  <2> HIDE DEF resolved, bytes
  <2>3. CallMade(withAccess, resolved.arrays)
    BY <1>2, <2>1 DEF CallWith
  <2> QED BY <2>2, <2>3, InvCallMade
<1> QED BY <1>1, <1>2

\* Every step.
LEMMA InvMethodStep ==
  ASSUME Inv, CallIs, [MethodNext]_<<vars, methodVars>>
  PROVE  Inv'
<1>1. CASE GiveReference
  BY <1>1, InvGive DEF GiveReference
<1>2. CASE WithoutMethod
  BY <1>2, InvMake, InvMakeWithArrays, InvReceiveAccess DEF WithoutMethod
<1>3. CASE \E arg \in Plain \cup Structured : GiveArgument(arg)
  BY <1>3, InvUnchanged DEF GiveArgument
<1>4. CASE \E withAccess \in BOOLEAN : AddMethodCall(withAccess)
  BY <1>4, InvMethodCall
<1>5. CASE \E ret \in Return : \E outcome \in Outcomes : Respond(ret, outcome)
  BY <1>5, InvUnchanged DEF Respond
<1>6. CASE OnTheWay
  BY <1>6, InvWrite, InvReceiveBoxes, InvRead DEF OnTheWay
<1>7. CASE UNCHANGED <<vars, methodVars>>
  BY <1>7, InvUnchanged
<1> QED BY <1>1, <1>2, <1>3, <1>4, <1>5, <1>6, <1>7 DEF MethodNext, Outcomes

\* However the transaction of a call is made, written and read.
LEMMA InvHoldsOfCalls == MethodSpec => []Inv
<1>1. MethodInit => Inv
  BY InvInit DEF MethodInit
<1>2. Inv /\ CallIs /\ [MethodNext]_<<vars, methodVars>> => Inv'
  BY InvMethodStep
<1> QED BY <1>1, <1>2, CallIsAlways, PTL DEF MethodSpec

\* A peer finds the references that were given beside the arguments of a method,
\* which are sent in its access list if there is one (composer.ts addMethodCall).
THEOREM GivenIsReadOfCalls == MethodSpec => []GivenIsRead
BY InvReadsGiven, InvHoldsOfCalls, PTL

\* It finds no others: an argument adds nothing to the access list.
THEOREM NothingElseIsReadOfCalls == MethodSpec => []NothingElseIsRead
BY InvReadsNothingElse, InvHoldsOfCalls, PTL

\* The positions that are written for a call of a method are those of entries
\* before, and its boxes have those of the foreign apps, to which its arguments
\* add some (populateForeignArray).
THEOREM TypesHoldOfCalls == MethodSpec => []TypeOK
BY InvTypes, InvHoldsOfCalls, PTL

\* The network looks for the boxes that a call refers to, though foreign apps
\* are added behind those that the positions of the boxes are of.
THEOREM BoxesAgreeOfCalls == MethodSpec => []BoxesAgree
BY InvBoxes, InvHoldsOfCalls, PTL

\* A call of a method that was read is written again with the meaning that it
\* had, and if it was as this library writes it, as it was.
THEOREM CallsAreWrittenAgain == MethodSpec => WrittenAgain
<1>1. Inv /\ [MethodNext]_<<vars, methodVars>> =>
        [last = "read" /\ Write =>
           /\ Decodable(sent'.al)
           /\ IsMeantForPeer \subseteq PeerReads'
           /\ PeerReads' \subseteq IsMeantForPeer \cup {Box(0, EmptyName)}
           /\ /\ 0 \notin Range(txn.foreignApps) /\ IsInjective(txn.foreignApps)
              /\ IsAsWritten(sent.al)
              => sent' = sent]_vars
  BY StepWritesAgain
<1> QED BY <1>1, InvHoldsOfCalls, PTL DEF MethodSpec, WrittenAgain

-----------------------------------------------------------------------------
(* The signatures of methods *)

\* What is given is of a type that a signature has.
LEMMA TypesInSignatures ==
  ASSUME arguments \in Seq(Plain \cup Structured)
  PROVE  /\ [i \in DOMAIN arguments |-> arguments[i].type] \in Seq(ArgTypes)
         /\ {arg.type : arg \in Range(Basic)} \subseteq Types \cup ReferenceTypes
<1> DEFINE types == [i \in DOMAIN arguments |-> arguments[i].type]
<1>1. \A arg \in Plain \cup Structured : arg.type \in ArgTypes
  <2>1. ArgumentTypes \subseteq Types
    BY ArgumentsNest
  <2>2. \A arg \in Arguments : arg.type \in ArgumentTypes \cup ReferenceTypes \cup TransactionTypes
    BY DEF Arguments, ReferenceTypes
  <2> QED BY <2>1, <2>2, MethodAssumption DEF ArgTypes
<1>2. types \in Seq(ArgTypes)
  <2> DEFINE A == Plain \cup Structured
             n == Len(arguments)
  <2>1. /\ n \in Nat /\ DOMAIN arguments = 1 .. n
        /\ \A i \in 1 .. n : arguments[i] \in A
    BY ElementIs
  <2>2. types = [i \in 1 .. n |-> types[i]] /\ \A i \in 1 .. n : types[i] \in ArgTypes
    BY <1>1, <2>1
  <2> HIDE DEF types, n
  <2> QED BY <2>1, <2>2
<1>3. {arg.type : arg \in Range(Basic)} \subseteq Types \cup ReferenceTypes
  <2>1. Basic \in Seq(BasicArguments)
    BY BasicIs
  <2>2. \A arg \in Range(Basic) : arg \in BasicArguments
    BY <2>1 DEF Range
  <2>3. \A arg \in BasicArguments : arg \in Plain \cup Structured /\ ~IsTransaction(arg)
    BY DEF BasicArguments
  <2> QED BY <1>1, <2>2, <2>3 DEF ArgTypes, IsTransaction
<1> QED BY <1>2, <1>3

\* The signature of whatever method is called, which its selector is the hash of,
\* is read as the method (src/src/abi/method.ts getSignature, fromSignature).
THEOREM SignatureIsAlwaysRead == MethodSpec => []SignatureIsRead
<1>1. CallIs => SignatureIsRead
  <2> SUFFICES ASSUME CallIs PROVE SignatureIsRead
    OBVIOUS
  <2>1. /\ [i \in DOMAIN arguments |-> arguments[i].type] \in Seq(ArgTypes)
        /\ {arg.type : arg \in Range(Basic)} \subseteq Types \cup ReferenceTypes
    BY TypesInSignatures DEF CallIs
  <2> DEFINE types == [i \in DOMAIN arguments |-> arguments[i].type]
  <2>2. types \in Seq(ArgTypes)
    BY <2>1
  <2>3. ASSUME NEW returns \in {Void} \cup {arg.type : arg \in Range(Basic)},
               returns \notin ReferenceTypes
        PROVE  MethodFrom(SignatureOf([args |-> types, returns |-> returns]))
                 = [args |-> types, returns |-> returns]
    <3>1. returns \in Types \cup {Void}
      BY <2>1, <2>3
    <3> HIDE DEF types
    <3> QED BY <2>2, <3>1, SignaturesAreRead
  <2> QED BY <2>3 DEF SignatureIsRead
<1> QED BY <1>1, CallIsAlways, PTL
=============================================================================
