--------------------------- MODULE ApplicationCall --------------------------
(***************************************************************************)
(* What an application call refers to, on its way: an application gives    *)
(* references, a transaction is made of them (src/src/makeTxn.ts), written *)
(* with positions in the place of addresses and IDs, read by a peer and    *)
(* written again (src/src/appAccess.ts, boxStorage.ts, transaction.ts).    *)
(* The transaction may be another implementation's, which is received.     *)
(***************************************************************************)
EXTENDS ResourceReferences

CONSTANTS
  Address,     \* addresses, the one of zeros among them
  Asset, App,  \* IDs
  Name,        \* names of boxes, the empty one among them
  CalledApp,   \* IDs of the application that is called, 0 when it is made
  AccessLists, \* access lists of another implementation
  MaxGiven     \* bound on the references of a transaction

\* A number or a bigint.
ID == [value : Nat, type : {"number", "bigint"}]

ASSUME ConstantsAssumption ==
  /\ ZeroAddress \in Address /\ EmptyName \in Name
  /\ Asset \subseteq ID /\ App \subseteq ID /\ CalledApp \subseteq ID
  /\ MaxGiven \in Nat

Values(ids) == {id.value : id \in ids}
AssetIDs == Values(Asset)
AppIDs == Values(App) \cup Values(CalledApp) \cup {0}

\* An entry of an access list, whoever writes it.
Entry ==
  [d : Address] \cup [s : AssetIDs \ {0}] \cup [p : AppIDs \ {0}]
    \cup [h : [d : Nat, s : Nat]] \cup [l : [d : Nat, p : Nat]]
    \cup [b : [i : Nat, n : Name]]

ASSUME AccessListsAssumption == AccessLists \subseteq Seq(Entry)

VARIABLES
  appIndex,  \* the application that is called
  given,     \* the references, or the elements of all arrays in their order
  way,       \* the fields that these are given in
  txn,       \* access, foreignApps and boxes of the transaction
  sent,      \* al, apfa and apbx, as its encoding has them
  last       \* what was done last

vars == <<appIndex, given, way, txn, sent, last>>

References(addresses, assets, apps, names) ==
  [address : addresses] \cup [assetIndex : assets] \cup [appIndex : apps]
    \cup {Holding(a, s) : a \in addresses, s \in assets}
    \cup {Locals(a, p) : a \in addresses, p \in apps}
    \cup {Box(p, n) : p \in apps, n \in names}

-----------------------------------------------------------------------------
(* Making a transaction *)

Arrays == <<"address", "assetIndex", "appIndex", "holding", "locals", "box">>

\* The array that rr is an element of.
ArrayOf(rr) == CHOOSE k \in DOMAIN Arrays : Has(rr, Arrays[k])

\* The elements of every array behind those of the arrays before it.
InArrays == \A i, j \in DOMAIN given : i < j => ArrayOf(given[i]) <= ArrayOf(given[j])

\* The constructor makes bigints of all IDs, here natural numbers.
Constructed(rr) ==
  CASE Has(rr, "assetIndex") -> [assetIndex |-> rr.assetIndex.value]
    [] Has(rr, "appIndex") -> [appIndex |-> rr.appIndex.value]
    [] Has(rr, "holding") -> Holding(rr.holding.address, rr.holding.assetIndex.value)
    [] Has(rr, "locals") -> Locals(rr.locals.address, rr.locals.appIndex.value)
    [] Has(rr, "box") -> Box(rr.box.appIndex.value, rr.box.name)
    [] OTHER -> rr

ConstructedAll(list) == [i \in DOMAIN list |-> Constructed(list[i])]

\* The array of the elements with the field.
Elements(field) ==
  FoldLeft(LAMBDA list, rr : IF Has(rr, field) THEN Append(list, rr) ELSE list,
           <<>>, ConstructedAll(given))

Give(rr) ==
  /\ last = "given" /\ Len(given) < MaxGiven
  /\ given' = Append(given, rr)
  /\ UNCHANGED <<appIndex, way, txn, sent, last>>

Make(fields, made) ==
  /\ last = "given"
  /\ way' = fields
  /\ txn' = made
  /\ last' = "made"
  /\ UNCHANGED <<appIndex, given, sent>>

MakeWithAccess ==
  Make("access", [access |-> ConstructedAll(given), foreignApps |-> <<>>, boxes |-> <<>>])

MakeConverting ==
  /\ InArrays
  /\ Make("convert",
       [access |-> ConstructedAll(Converted(given, appIndex)),
        foreignApps |-> <<>>, boxes |-> <<>>])

\* Accounts and foreign assets are sent as they are and left out here.
MakeWithArrays ==
  /\ InArrays
  /\ \A i \in DOMAIN given : Has(given[i], "appIndex") \/ Has(given[i], "box")
  /\ LET apps == Elements("appIndex")
         refs == Elements("box")
     IN  Make("arrays",
           [access |-> <<>>,
            foreignApps |-> [i \in DOMAIN apps |-> apps[i].appIndex],
            boxes |-> [i \in DOMAIN refs |-> refs[i].box]])

-----------------------------------------------------------------------------
(* boxReferencesToEncodingData and the part of fromEncodingData that reads it *)

IsOwn(app) == app \in {0, appIndex.value}

\* 0 for what is not there.
ForeignPosition(app) ==
  IF app \in Range(txn.foreignApps) THEN PositionOf(txn.foreignApps, app) ELSE 0

\* Faulty variant of Writable: a box of an unknown application is let through.
WritableAlways(box) == TRUE

Writable(box) == ForeignPosition(box.appIndex) # 0 \/ IsOwn(box.appIndex)

WrittenBox(box) == [i |-> ForeignPosition(box.appIndex), n |-> box.name]

ForeignAppAt(i) == IF i = 0 THEN 0 ELSE sent.apfa[i]

Readable(entry) == entry.i <= Len(sent.apfa)

ReadBox(entry) == [appIndex |-> ForeignAppAt(entry.i), name |-> entry.n]

-----------------------------------------------------------------------------
(* The way of the transaction *)

Al == Sent(Encoded(txn.access, appIndex.value))

Write ==
  /\ last \in {"made", "read"}
  /\ \A j \in DOMAIN txn.boxes : Writable(txn.boxes[j])
  /\ sent' = [al |-> Al, apfa |-> txn.foreignApps,
              apbx |-> [j \in DOMAIN txn.boxes |-> WrittenBox(txn.boxes[j])]]
  /\ last' = "written"
  /\ UNCHANGED <<appIndex, given, way, txn>>

\* Another implementation writes any positions of foreign apps,
ReceiveBoxes ==
  /\ last = "made" /\ way = "arrays"
  /\ \E position \in [DOMAIN txn.boxes -> 0 .. Len(txn.foreignApps) + 1] :
       sent' = [al |-> Al, apfa |-> txn.foreignApps,
                apbx |-> [j \in DOMAIN txn.boxes |->
                            [i |-> position[j], n |-> txn.boxes[j].name]]]
  /\ last' = "received"
  /\ UNCHANGED <<appIndex, given, way, txn>>

\* or any access list: with positions of later entries, a resource that is
\* there twice, or an entry of the called application that others point at.
ReceiveAccess ==
  /\ last = "given" /\ given = <<>>
  /\ \E list \in AccessLists : sent' = [sent EXCEPT !.al = Sent(list)]
  /\ way' = "received"
  /\ last' = "received"
  /\ UNCHANGED <<appIndex, given, txn>>

Read ==
  /\ last \in {"written", "received"}
  /\ Decodable(sent.al)
  /\ \A j \in DOMAIN sent.apbx : Readable(sent.apbx[j])
  /\ txn' = [access |-> Decoded(sent.al), foreignApps |-> sent.apfa,
             boxes |-> [j \in DOMAIN sent.apbx |-> ReadBox(sent.apbx[j])]]
  /\ last' = "read"
  /\ UNCHANGED <<appIndex, given, way, sent>>

Init ==
  /\ appIndex \in CalledApp
  /\ given = <<>>
  /\ way = "none"
  /\ txn = [access |-> <<>>, foreignApps |-> <<>>, boxes |-> <<>>]
  /\ sent = [al |-> <<>>, apfa |-> <<>>, apbx |-> <<>>]
  /\ last = "given"

Next ==
  \/ \E rr \in References(Address, Asset, App, Name) : Give(rr)
  \/ MakeWithAccess \/ MakeConverting \/ MakeWithArrays
  \/ Write \/ ReceiveBoxes \/ ReceiveAccess \/ Read

Spec == Init /\ [][Next]_vars

-----------------------------------------------------------------------------
(* What references mean *)

\* The called application is 0 to a peer.
Own(app) == IF IsOwn(app) THEN 0 ELSE app

Means(rr) ==
  CASE Has(rr, "locals") -> Locals(rr.locals.address, Own(rr.locals.appIndex))
    [] Has(rr, "box") -> Box(Own(rr.box.appIndex), rr.box.name)
    [] OTHER -> rr

\* The resources that a holding, a local state or a box is in, for which it
\* needs entries.
Addresses(address) == IF address = ZeroAddress THEN {} ELSE {[address |-> address]}
ForeignApps(app) == IF IsOwn(app) THEN {} ELSE {[appIndex |-> app]}

Parts(rr) ==
  CASE Has(rr, "holding") ->
         Addresses(rr.holding.address) \cup {[assetIndex |-> rr.holding.assetIndex]}
    [] Has(rr, "locals") ->
         Addresses(rr.locals.address) \cup ForeignApps(rr.locals.appIndex)
    [] Has(rr, "box") -> ForeignApps(rr.box.appIndex)
    [] OTHER -> {}

\* The sender and its local state of the called application are there without
\* an entry.
NeedsNoEntry(rr) == Means(rr) \in {[address |-> ZeroAddress], Locals(ZeroAddress, 0)}

\* An ID of 0 names no asset and no application.
NamesNothing(rr) == rr \in {[assetIndex |-> 0], [appIndex |-> 0]}

Given == Range(ConstructedAll(given))
Asked == {rr \in Given : ~NeedsNoEntry(rr) /\ ~NamesNothing(rr)}
PeerReads == Range(Decoded(sent.al))

\* What a peer is to find by the list.
IsMeantForPeer == {Means(rr) : rr \in {read \in PeerReads : ~NeedsNoEntry(read)}}

\* The access list of the application was sent, and no holding is of no asset.
AccessSent ==
  /\ way \in {"access", "convert"} /\ last = "written"
  /\ \A rr \in Given : Has(rr, "holding") => rr.holding.assetIndex # 0

\* The box that a reference of the transaction is to, and that the network
\* looks for: one of the called application, or of another.
IsReferredTo(box) ==
  [app |-> IF IsOwn(box.appIndex) THEN appIndex.value ELSE box.appIndex,
   name |-> box.name]

IsLookedFor(entry) ==
  [app |-> IF entry.i = 0 THEN appIndex.value ELSE sent.apfa[entry.i],
   name |-> entry.n]

\* The position of an application that an entry before i is for, and not of the
\* called one.
IsPlaceOfApp(list, i, x) == x < i /\ (x # 0 => list[x] # [p |-> appIndex.value])

\* Every resource has one entry, which comes before those that it is a part of.
IsAsWritten(list) ==
  /\ \A i, j \in DOMAIN list :
       list[i] = list[j] => i = j \/ \A key \in {"d", "s", "p"} : ~Has(list[i], key)
  /\ \A i \in DOMAIN list :
       /\ Has(list[i], "h") => list[i].h.d < i /\ list[i].h.s < i
       /\ Has(list[i], "l") => list[i].l.d < i /\ IsPlaceOfApp(list, i, list[i].l.p)
       /\ Has(list[i], "b") => IsPlaceOfApp(list, i, list[i].b.i)

-----------------------------------------------------------------------------
(* Properties *)

TxnReferences == References(Address, AssetIDs, AppIDs, Name)

\* What is written has positions of entries that come before, of the right
\* kind, an address, asset or application has one entry, and the position of
\* a box is one of the foreign apps (appAccess.ts ensure, boxStorage.ts).
TypeOK ==
  /\ appIndex \in CalledApp
  /\ given \in Seq(References(Address, Asset, App, Name))
  /\ way \in {"none", "access", "convert", "arrays", "received"}
  /\ txn.access \in Seq(TxnReferences)
  /\ last \in {"given", "made", "written", "received", "read"}
  /\ last = "written" => IsAsWritten(sent.al)
  /\ AccessSent => \A i \in DOMAIN sent.al : Decodable(SubSeq(sent.al, 1, i))
  /\ last # "received" =>
       \A j \in DOMAIN sent.apbx : sent.apbx[j].i \in 0 .. Len(sent.apfa)

\* A peer that reads the access list finds every reference that was given, as
\* it is or in one of the arrays.
GivenIsRead ==
  AccessSent => Decodable(sent.al) /\ {Means(rr) : rr \in Asked} \subseteq PeerReads

\* It finds no other, but for the resources that these are in, so that the list
\* is as short as it can be.  An empty box is what an entry of default values
\* reads as, and the called application may have an entry that is not needed.
NothingElseIsRead ==
  AccessSent =>
    \A rr \in PeerReads :
      \/ \E asked \in Asked : rr = Means(asked) \/ rr \in Parts(asked)
      \/ rr = Box(0, EmptyName) /\ \E g \in Given : NeedsNoEntry(g)
      \/ rr = [appIndex |-> appIndex.value] /\ way = "convert"

\* The network looks for the boxes that the application refers to, and a peer
\* reads what the network looks for, unless the ID 0 is one of the foreign apps.
BoxesAgree ==
  last \in {"written", "read"} /\ 0 \notin Range(sent.apfa) =>
    /\ Len(txn.boxes) = Len(sent.apbx)
    /\ \A j \in DOMAIN txn.boxes : IsReferredTo(txn.boxes[j]) = IsLookedFor(sent.apbx[j])

\* A transaction that is read, whoever wrote it, and written again refers to the
\* same: a peer finds what it found in the access list before, and no more but an
\* empty box where the sender's own state had an entry.  It is the same, and with
\* it its identifier and its signatures, if no foreign app is there twice or is
\* 0, and the list is as this library writes it; other lists are written anew,
\* with one entry for a resource, in its place, and none for the called
\* application on account of its boxes (appAccess.ts).
WrittenAgain ==
  [][last = "read" /\ Write =>
       /\ Decodable(sent'.al)
       /\ IsMeantForPeer \subseteq PeerReads'
       /\ PeerReads' \subseteq IsMeantForPeer \cup {Box(0, EmptyName)}
       /\ /\ 0 \notin Range(txn.foreignApps) /\ IsInjective(txn.foreignApps)
          /\ IsAsWritten(sent.al)
          => sent' = sent]_vars

\* appIndex may be a bigint or a number (appAccess.ts:213), and the application
\* that is called takes no entry of the list for its own boxes
\* (tests/5.Transaction.ts:2245).
OwnAppTakesNoEntry ==
  AccessSent /\ way = "convert" =>
    ([appIndex |-> appIndex.value] \in PeerReads => [appIndex |-> appIndex.value] \in Given)
=============================================================================
