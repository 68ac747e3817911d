---------------------------- MODULE Transactions ----------------------------
(***************************************************************************)
(* The class Transaction (src/src/transaction.ts): what its constructor    *)
(* takes, what it keeps, the encoding data it gives and how it is made of  *)
(* encoding data again.                                                    *)
(*                                                                         *)
(* The fields of a transaction have the names of their keys in the         *)
(* encoding.  The conversion of an access list is in the module            *)
(* ResourceReferences, and access is empty here.  A state proof, its       *)
(* message and a heartbeat are held as their encoding data.                *)
(***************************************************************************)
EXTENDS Encoding

CONSTANT Size  \* stands for the estimated size of every transaction

ASSUME SizeAssumption == Size \in Nat \ {0}

TransactionTypes == {"pay", "keyreg", "acfg", "axfer", "afrz", "appl", "stpf", "hb"}

TransactionClass == <<"ledger", "Transaction">>

\* value ?? other
OrElse(value, other) == IF IsMissing(value) THEN other ELSE value

-----------------------------------------------------------------------------
(* Checks of what the constructor is given *)

\* An address of only zeros is an error, so that it is not dropped silently.
EnsureAddress(input) ==
  CASE IsA(input, "address") -> input
    [] IsA(input, "string") /\ input[2] = "address" -> AddressOf(input[3])
    [] OTHER -> Throws

OptionalAddress(input) ==
  LET address == EnsureAddress(input)
  IN  CASE IsMissing(input) -> Undefined
        [] address = ZeroAddress -> Throws
        [] OTHER -> address

OptionalUint64(input) == IF input = Undefined THEN Undefined ELSE EnsureUint64(input)

EnsureSafeUnsigned(input) == EnsureSafeInteger(OrElse(input, Number(0)))

EnsureBoolean(input) == IF IsA(input, "boolean") THEN input ELSE Throws

EnsureBytes(input) == IF IsA(input, "bytes") THEN input ELSE Throws

\* Bytes of only zeros are left out.
OptionalFixedLengthBytes(input, length) ==
  CASE input \in {Undefined, Zeros(length)} -> Undefined
    [] IsA(input, "bytes") /\ input[2] = length -> input
    [] OTHER -> Throws

GetKeyregKey(input, length) ==
  CASE IsMissing(input) -> Undefined
    [] IsA(input, "bytes") /\ input[2] = length -> input
    [] OTHER -> Throws

EnsureEach(input, ensured(_)) ==
  LET items == OrElse(input, ArrayOf(<<>>))
      checked == [i \in DOMAIN items[2] |-> ensured(items[2][i])]
  IN  IF IsA(items, "array") THEN UnlessThrown(checked, ArrayOf(checked)) ELSE Throws

-----------------------------------------------------------------------------
(* The fields of each type, as the constructor makes them of the parameters. *)

PaymentFields(p) ==
  [rcv |-> EnsureAddress(p.rcv), amt |-> EnsureUint64(p.amt), close |-> OptionalAddress(p.close)]

OnlineKeys == {"votekey", "selkey", "votefst", "votelst", "votekd"}

\* Not participating with keys, or online with only some of the keys.
KeyregIsInconsistent(f) ==
  LET given == {key \in OnlineKeys \cup {"sprfkey"} : f[key] # Undefined}
  IN  given # {} /\ (f.nonpart = Boolean(TRUE) \/ ~(OnlineKeys \subseteq given))

KeyregFields(p) ==
  LET f == [votekey |-> GetKeyregKey(p.votekey, 32), selkey |-> GetKeyregKey(p.selkey, 32),
            sprfkey |-> GetKeyregKey(p.sprfkey, 64),
            votefst |-> OptionalUint64(p.votefst), votelst |-> OptionalUint64(p.votelst),
            votekd |-> OptionalUint64(p.votekd),
            nonpart |-> EnsureBoolean(OrElse(p.nonpart, Boolean(FALSE)))]
  IN  IF KeyregIsInconsistent(f) THEN [f EXCEPT !.nonpart = Throws] ELSE f

AssetConfigFields(p) ==
  [caid |-> EnsureUint64(OrElse(p.caid, Number(0))), t |-> EnsureUint64(OrElse(p.t, Number(0))),
   dc |-> EnsureSafeUnsigned(p.dc), df |-> EnsureBoolean(OrElse(p.df, Boolean(FALSE))),
   m |-> OptionalAddress(p.m), r |-> OptionalAddress(p.r), f |-> OptionalAddress(p.f),
   c |-> OptionalAddress(p.c), un |-> p.un, an |-> p.an, au |-> p.au,
   am |-> OptionalFixedLengthBytes(p.am, 32)]

AssetTransferFields(p) ==
  [xaid |-> EnsureUint64(p.xaid), aamt |-> EnsureUint64(p.aamt), arcv |-> EnsureAddress(p.arcv),
   aclose |-> OptionalAddress(p.aclose), asnd |-> OptionalAddress(p.asnd)]

AssetFreezeFields(p) ==
  [faid |-> EnsureUint64(p.faid), fadd |-> EnsureAddress(p.fadd), afrz |-> EnsureBoolean(p.afrz)]

OnComplete(input) == IF input \in {Number(n) : n \in 0 .. 5} THEN input ELSE Throws

\* A box reference is the ID of the application and the name.
EnsureBoxReference(box) ==
  LET i == EnsureUint64(Get(box, "i"))
      n == EnsureBytes(Get(box, "n"))
  IN  UnlessThrown(<<i, n>>, MapOf([i |-> i, n |-> n]))

ApplicationFields(p) ==
  [apid |-> EnsureUint64(p.apid), apan |-> OnComplete(p.apan),
   localInts |-> EnsureSafeUnsigned(p.localInts), localBytes |-> EnsureSafeUnsigned(p.localBytes),
   globalInts |-> EnsureSafeUnsigned(p.globalInts),
   globalBytes |-> EnsureSafeUnsigned(p.globalBytes),
   apep |-> EnsureSafeUnsigned(p.apep), aprv |-> EnsureSafeUnsigned(p.aprv),
   apap |-> EnsureBytes(OrElse(p.apap, EmptyBytes)),
   apsu |-> EnsureBytes(OrElse(p.apsu, EmptyBytes)),
   apaa |-> EnsureEach(p.apaa, EnsureBytes), apat |-> EnsureEach(p.apat, EnsureAddress),
   apfa |-> EnsureEach(p.apfa, EnsureUint64), apas |-> EnsureEach(p.apas, EnsureUint64),
   apbx |-> EnsureEach(p.apbx, EnsureBoxReference)]

StateProofFields(p) == [sptype |-> EnsureSafeUnsigned(p.sptype), sp |-> p.sp, spmsg |-> p.spmsg]

HeartbeatFields(p) == [hb |-> IF IsMissing(p.hb) THEN Throws ELSE p.hb]

FieldsOfType(type, p) ==
  CASE type = "pay" -> PaymentFields(p)
    [] type = "keyreg" -> KeyregFields(p)
    [] type = "acfg" -> AssetConfigFields(p)
    [] type = "axfer" -> AssetTransferFields(p)
    [] type = "afrz" -> AssetFreezeFields(p)
    [] type = "appl" -> ApplicationFields(p)
    [] type = "stpf" -> StateProofFields(p)
    [] type = "hb" -> HeartbeatFields(p)

-----------------------------------------------------------------------------
(* toEncodingData *)

TypeOf(txn) == txn[2].type[3][3]

CommonKeys == {"type", "snd", "note", "lx", "rekey", "grp", "fv", "lv", "gen", "gh", "fee"}

\* Faulty variant of PositionIn: the first foreign application is index 0.
PositionFromZero(list, id) == SelectInSeq(list, LAMBDA e : e = id) - 1

\* indexOf + 1: the first of the positions, or 0.
PositionIn(list, id) == SelectInSeq(list, LAMBDA e : e = id)

\* The called application is index 0, unless it is a foreign one as well.
BoxToData(box, foreignApps, called) ==
  LET id == box[2].i
      index == PositionIn(foreignApps, id)
  IN  IF index = 0 /\ id \notin {BigInt(0), called} THEN Throws
      ELSE MapOf([i |-> Number(index), n |-> box[2].n])

ApplicationToData(f) ==
  LET boxes == [i \in DOMAIN f.apbx[2] |-> BoxToData(f.apbx[2][i], f.apfa[2], f.apid)]
  IN  [apid |-> f.apid, apan |-> f.apan, apaa |-> f.apaa, apat |-> f.apat, apas |-> f.apas,
       apfa |-> f.apfa, apbx |-> UnlessThrown(boxes, ArrayOf(boxes)), al |-> ArrayOf(<<>>),
       apap |-> f.apap, apsu |-> f.apsu,
       apls |-> MapOf([nui |-> f.localInts, nbs |-> f.localBytes]),
       apgs |-> MapOf([nui |-> f.globalInts, nbs |-> f.globalBytes]),
       apep |-> f.apep, aprv |-> f.aprv]

AssetConfigToData(f) ==
  [caid |-> f.caid, apar |-> MapOf([key \in DOMAIN Ledger!AssetConfigParams |-> f[key]])]

TransactionToData(txn) ==
  LET f == txn[2]
      own == CASE TypeOf(txn) = "appl" -> ApplicationToData(f)
               [] TypeOf(txn) = "acfg" -> AssetConfigToData(f)
               [] OTHER -> [key \in DOMAIN f \ CommonKeys |-> f[key]]
  IN  UnlessThrown(own, MapOf(own @@ [key \in CommonKeys |-> f[key]]))

-----------------------------------------------------------------------------
(* The constructor *)

FeeDependsOnSize(params) == OrElse(params.flatFee, Boolean(FALSE)) = Boolean(FALSE)

\* The fee is per byte unless flatFee is set, and at least minFee.  Nothing
\* checks that the product is a uint64.
Fee(params) ==
  LET fee == EnsureUint64(params.fee)
      minFee == EnsureUint64(params.minFee)
  IN  CASE ~FeeDependsOnSize(params) -> fee
        [] FeeDependsOnSize(params) /\ Throws \in {fee, minFee} -> Throws
        [] OTHER -> BigInt(IF fee[2] * Size < minFee[2] THEN minFee[2] ELSE fee[2] * Size)

\* estimateSize writes the transaction, which has the fee per byte by then.
HasSize(txn) ==
  LET data == TransactionToData(txn)
  IN  data # Throws /\ Prepare(NamedMapSchema(TransactionClass), data, "msgpack") # Throws

\* The parameters of the types that are given are params.of, a function of the
\* types; they must be those of params.type and no other.
NewTransaction(params) ==
  LET common ==
        [type |-> Word(params.type), snd |-> EnsureAddress(params.snd),
         note |-> EnsureBytes(OrElse(params.note, EmptyBytes)),
         lx |-> OptionalFixedLengthBytes(params.lx, 32), rekey |-> OptionalAddress(params.rekey),
         grp |-> Undefined, fv |-> EnsureUint64(params.fv), lv |-> EnsureUint64(params.lv),
         gen |-> IF params.gen = EmptyString THEN Undefined ELSE params.gen,
         gh |-> params.gh, fee |-> Fee(params)]
      fields == FieldsOfType(params.type, params.of[params.type])
      txn == UnlessThrown(common, UnlessThrown(fields, ObjectOf(common @@ fields)))
  IN  IF \/ params.type \notin TransactionTypes \/ DOMAIN params.of # {params.type}
         \/ txn # Throws /\ FeeDependsOnSize(params) /\ ~HasSize(txn)
      THEN Throws ELSE txn

-----------------------------------------------------------------------------
(* fromEncodingData: the parameters for the constructor *)

\* Index 0 stays 0, and is not made the ID of the called application, which
\* toEncodingData would find among the foreign ones.
BoxFromData(box, foreignApps) ==
  LET index == EnsureSafeUnsigned(Get(box, "i"))
      id == CASE index = Throws -> Throws
              [] index = Number(0) -> Number(0)
              [] index # Throws /\ index[2] \in 1 .. Len(foreignApps) -> foreignApps[index[2]]
              [] OTHER -> Throws
  IN  UnlessThrown(<<id>>, MapOf([i |-> id, n |-> OrElse(Get(box, "n"), EmptyBytes)]))

BoxesFromData(data) ==
  LET boxes == Get(data, "apbx")
      foreignApps == OrElse(Get(data, "apfa"), ArrayOf(<<>>))[2]
      read == [i \in DOMAIN boxes[2] |-> BoxFromData(boxes[2][i], foreignApps)]
  IN  IF boxes = Undefined THEN Undefined ELSE UnlessThrown(read, ArrayOf(read))

InMap(data, map, key) ==
  IF IsMissing(Get(data, map)) THEN Undefined ELSE Get(Get(data, map), key)

ApplicationParams(data) ==
  [apid |-> OrElse(Get(data, "apid"), Number(0)),
   apan |-> EnsureSafeUnsigned(Get(data, "apan")),
   localInts |-> InMap(data, "apls", "nui"), localBytes |-> InMap(data, "apls", "nbs"),
   globalInts |-> InMap(data, "apgs", "nui"), globalBytes |-> InMap(data, "apgs", "nbs"),
   apbx |-> BoxesFromData(data)]
  @@ [key \in {"apep", "aprv", "apap", "apsu", "apaa", "apat", "apfa", "apas"} |-> Get(data, key)]

AssetConfigParamsOf(data) ==
  [caid |-> Get(data, "caid")]
  @@ [key \in DOMAIN Ledger!AssetConfigParams |-> InMap(data, "apar", key)]

\* Of the keys that a transaction of the type has, and what replaces one that
\* is missing.
OwnParams(data, optional, integers, addresses) ==
  [key \in optional |-> Get(data, key)]
  @@ [key \in integers |-> OrElse(Get(data, key), Number(0))]
  @@ [key \in addresses |-> OrElse(Get(data, key), ZeroAddress)]

ParamsOfType(type, data) ==
  CASE type = "pay" -> OwnParams(data, {"close"}, {"amt"}, {"rcv"})
    [] type = "keyreg" -> OwnParams(data, OnlineKeys \cup {"sprfkey", "nonpart"}, {}, {})
    [] type = "acfg" -> AssetConfigParamsOf(data)
    [] type = "axfer" -> OwnParams(data, {"aclose", "asnd"}, {"xaid", "aamt"}, {"arcv"})
    [] type = "afrz" -> [afrz |-> OrElse(Get(data, "afrz"), Boolean(FALSE))]
                        @@ OwnParams(data, {}, {"faid"}, {"fadd"})
    [] type = "appl" -> ApplicationParams(data)
    [] type = "stpf" -> OwnParams(data, {"sptype", "sp", "spmsg"}, {}, {})
    [] type = "hb" -> OwnParams(data, {"hb"}, {}, {})

\* Fields of the map that are of another type are dropped.
WithGroup(txn, group) ==
  IF txn = Throws \/ group = Undefined THEN txn
  ELSE ObjectOf([txn[2] EXCEPT !.grp = group])

TransactionFromData(data) ==
  LET type == Get(data, "type")[3][3]
      params ==
        [type |-> type, snd |-> Get(data, "snd"), note |-> Get(data, "note"),
         lx |-> Get(data, "lx"), rekey |-> Get(data, "rekey"), fv |-> Get(data, "fv"),
         lv |-> Get(data, "lv"), gen |-> OrElse(Get(data, "gen"), EmptyString),
         gh |-> Get(data, "gh"), fee |-> Get(data, "fee"), minFee |-> BigInt(0),
         flatFee |-> Boolean(TRUE), of |-> (type :> ParamsOfType(type, data))]
  IN  IF ~IsA(data, "map") \/ type \notin TransactionTypes THEN Throws
      ELSE WithGroup(NewTransaction(params), Get(data, "grp"))
=============================================================================
