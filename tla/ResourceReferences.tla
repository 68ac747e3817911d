------------------------- MODULE ResourceReferences -------------------------
(***************************************************************************)
(* The access list of an application call: how references to addresses,    *)
(* assets, applications, holdings, local states and boxes are made of      *)
(* arrays of these, how they become entries that refer to each other by    *)
(* position, and how these are read again (src/src/appAccess.ts).          *)
(*                                                                         *)
(* A reference is a record with the one field that is given, as            *)
(* ensureResourceReference leaves it; an entry is a record with the one    *)
(* key that it has.  Asset and application IDs are natural numbers.        *)
(***************************************************************************)
EXTENDS Naturals, Sequences, SequencesExt

CONSTANTS
  ZeroAddress,  \* stands for the sender
  EmptyName     \* the name of a box that is the empty array

Has(r, field) == field \in DOMAIN r

Holding(address, asset) ==
  [holding |-> [address |-> address, assetIndex |-> asset]]
Locals(address, app) == [locals |-> [address |-> address, appIndex |-> app]]
Box(app, name) == [box |-> [appIndex |-> app, name |-> name]]

-----------------------------------------------------------------------------
(* foreignArraysToResourceReferences, of elements with IDs that are still      *)
(* numbers or bigints: records of the value and the type, which === tells      *)
(* apart.                                                                      *)

WithReference(list, rr) == IF rr \in Range(list) THEN list ELSE Append(list, rr)

\* Faulty variant of EnsureAddress: the address of zeros is added.
EnsureAnyAddress(list, address) == WithReference(list, [address |-> address])

EnsureAddress(list, address) ==
  IF address = ZeroAddress THEN list ELSE WithReference(list, [address |-> address])

EnsureAsset(list, asset) == WithReference(list, [assetIndex |-> asset])

EnsureApp(list, app) == WithReference(list, [appIndex |-> app])

\* BigInt(app) !== called holds whenever called is a number.
IsOther(app, called) == app.value # 0 /\ [app EXCEPT !.type = "bigint"] # called

EnsureOther(list, app, called) ==
  IF IsOther(app, called) THEN EnsureApp(list, app) ELSE list

\* One turn of the loop over the array that rr is an element of.
Convert(list, rr, called) ==
  CASE Has(rr, "address") -> EnsureAddress(list, rr.address)
    [] Has(rr, "assetIndex") -> EnsureAsset(list, rr.assetIndex)
    [] Has(rr, "appIndex") -> EnsureApp(list, rr.appIndex)
    [] Has(rr, "holding") ->
         Append(EnsureAsset(EnsureAddress(list, rr.holding.address),
                            rr.holding.assetIndex), rr)
    [] Has(rr, "locals") ->
         Append(EnsureOther(EnsureAddress(list, rr.locals.address),
                            rr.locals.appIndex, called), rr)
    [] Has(rr, "box") -> Append(EnsureOther(list, rr.box.appIndex, called), rr)

Converted(elements, called) ==
  FoldLeft(LAMBDA list, rr : Convert(list, rr, called), <<>>, elements)

-----------------------------------------------------------------------------
(* resourceReferencesToEncodingData *)

PositionOf(list, target) == CHOOSE i \in DOMAIN list :
  list[i] = target /\ \A j \in 1 .. i - 1 : list[j] # target

\* Faulty variant of WithEntry: the target is added again.
AddedAgain(list, target) == Append(list, target)

\* The list after ensure(target).
WithEntry(list, target) ==
  IF target \in Range(list) THEN list ELSE Append(list, target)

\* ensure does not add an ID that is 0: what it returns is then the position
\* of whatever comes last.
WithAsset(list, asset) ==
  IF asset = 0 THEN list ELSE WithEntry(list, [s |-> asset])

AssetPosition(list, asset) ==
  IF asset = 0 THEN Len(list) ELSE PositionOf(list, [s |-> asset])

\* Neither 0 nor the ID of the called application, which both are index 0.
IsForeign(app, called) == app # 0 /\ app # called

WithAddress(list, address) ==
  IF address = ZeroAddress THEN list ELSE WithEntry(list, [d |-> address])

AddressPosition(list, address) ==
  IF address = ZeroAddress THEN 0 ELSE PositionOf(list, [d |-> address])

WithApp(list, app, called) ==
  IF IsForeign(app, called) THEN WithEntry(list, [p |-> app]) ELSE list

AppPosition(list, app, called) ==
  IF IsForeign(app, called) THEN PositionOf(list, [p |-> app]) ELSE 0

\* Faulty variant of HoldingEntry: positions start at 0.
HoldingEntryFromZero(list, address, asset) ==
  [h |-> [d |-> IF address = ZeroAddress THEN 0 ELSE AddressPosition(list, address) - 1,
          s |-> AssetPosition(list, asset)]]

HoldingEntry(list, address, asset) ==
  [h |-> [d |-> AddressPosition(list, address), s |-> AssetPosition(list, asset)]]

\* One turn of the loop over the references.
Encode(list, rr, called) ==
  CASE Has(rr, "address") -> WithEntry(list, [d |-> rr.address])
    [] Has(rr, "assetIndex") -> WithAsset(list, rr.assetIndex)
    [] Has(rr, "appIndex") ->
         IF rr.appIndex = 0 THEN list ELSE WithEntry(list, [p |-> rr.appIndex])
    [] Has(rr, "holding") ->
         LET full == WithAsset(WithAddress(list, rr.holding.address),
                               rr.holding.assetIndex)
         IN  Append(full, HoldingEntry(full, rr.holding.address, rr.holding.assetIndex))
    [] Has(rr, "locals") ->
         LET full == WithApp(WithAddress(list, rr.locals.address),
                             rr.locals.appIndex, called)
         IN  Append(full,
               [l |-> [d |-> AddressPosition(full, rr.locals.address),
                       p |-> AppPosition(full, rr.locals.appIndex, called)]])
    [] Has(rr, "box") ->
         LET full == WithApp(list, rr.box.appIndex, called)
         IN  Append(full,
               [b |-> [i |-> AppPosition(full, rr.box.appIndex, called),
                       n |-> rr.box.name]])

Encoded(references, called) ==
  FoldLeft(LAMBDA list, rr : Encode(list, rr, called), <<>>, references)

-----------------------------------------------------------------------------
(* The encoding schema of al *)

\* What is left of an entry whose value is the default one: nothing.
Empty == <<>>

DefaultEntries ==
  {[d |-> ZeroAddress], [h |-> [d |-> 0, s |-> 0]], [l |-> [d |-> 0, p |-> 0]],
   [b |-> [i |-> 0, n |-> EmptyName]]}

\* The list after it was written to bytes and read again.
Sent(list) ==
  [i \in DOMAIN list |-> IF list[i] \in DefaultEntries THEN Empty ELSE list[i]]

-----------------------------------------------------------------------------
(* convertIndicesToResourceReferences *)

\* The position is 0, where that is allowed, or has an entry with the key.
PointsTo(list, i, key) == i \in DOMAIN list /\ Has(list[i], key)

\* What reading does not throw on, there or in the constructor that it is for.
Decodable(list) ==
  \A e \in Range(list) :
    /\ Has(e, "h") => /\ e.h.d = 0 \/ PointsTo(list, e.h.d, "d")
                      /\ PointsTo(list, e.h.s, "s")
    /\ Has(e, "l") => /\ e.l.d = 0 \/ PointsTo(list, e.l.d, "d")
                      /\ e.l.p = 0 \/ PointsTo(list, e.l.p, "p")
    /\ Has(e, "b") => e.b.i = 0 \/ PointsTo(list, e.b.i, "p")

AddressAt(list, i) == IF i = 0 THEN ZeroAddress ELSE list[i].d
AppAt(list, i) == IF i = 0 THEN 0 ELSE list[i].p

Decode(list, e) ==
  CASE Has(e, "d") -> [address |-> e.d]
    [] Has(e, "s") -> [assetIndex |-> e.s]
    [] Has(e, "p") -> [appIndex |-> e.p]
    [] Has(e, "h") -> Holding(AddressAt(list, e.h.d), list[e.h.s].s)
    [] Has(e, "l") -> Locals(AddressAt(list, e.l.d), AppAt(list, e.l.p))
    [] Has(e, "b") -> Box(AppAt(list, e.b.i), e.b.n)
    [] e = Empty -> Box(0, EmptyName)

\* Faulty variant of Decoded: empty entries are left out.
DecodedWithoutEmpty(list) ==
  LET full == SelectSeq(list, LAMBDA e : e # Empty)
  IN  [i \in DOMAIN full |-> Decode(list, full[i])]

Decoded(list) == [i \in DOMAIN list |-> Decode(list, list[i])]
=============================================================================
