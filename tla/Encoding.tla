------------------------------ MODULE Encoding ------------------------------
(***************************************************************************)
(* How the SDK writes and reads values with a schema, in msgpack and in    *)
(* JSON (src/src/encoding/schema and src/src/encoding/encoding.ts).        *)
(*                                                                         *)
(* Integers are small: MaxSafeInteger stands for Number.MAX_SAFE_INTEGER   *)
(* and MaxUint64 for the largest uint64, and above the first a number is   *)
(* even, as it is in the code up to twice that integer.                    *)
(***************************************************************************)
EXTENDS ModelFields, Values, Integers, Sequences, SequencesExt

CONSTANTS MaxSafeInteger, MaxUint64

ASSUME IntegersAssumption ==
  /\ {MaxSafeInteger, MaxUint64} \subseteq Nat
  /\ MaxSafeInteger % 2 = 1 /\ MaxUint64 = 2 * MaxSafeInteger + 1

Formats == {"msgpack", "json"}

Algod == INSTANCE AlgodModels
Indexer == INSTANCE IndexerModels
Ledger == INSTANCE LedgerModels

\* A class is a pair of the file that defines it and its name.
FieldsOf(class) ==
  CASE class[1] = "algod" -> Algod!Classes[class[2]]
    [] class[1] = "indexer" -> Indexer!Classes[class[2]]
    [] class[1] = "ledger" -> Ledger!Classes[class[2]]

-----------------------------------------------------------------------------
(* Values made of others *)

\* The value made of the parts, unless one of them threw.
UnlessThrown(parts, value) ==
  IF \E i \in DOMAIN parts : parts[i] = Throws THEN Throws ELSE value

ArrayUnlessThrown(items) == UnlessThrown(items, ArrayOf(items))
MapUnlessThrown(values) == UnlessThrown(values, MapOf(values))
ObjectUnlessThrown(values) == UnlessThrown(values, ObjectOf(values))

\* A map with the keys changed and the values converted.  Of two keys that become
\* the same one is kept: in the code the later, here any, as maps have no order.
Rekeyed(keys, values) ==
  UnlessThrown(keys, UnlessThrown(values,
    MapOf([new \in {keys[key] : key \in DOMAIN keys} |->
             values[CHOOSE key \in DOMAIN keys : keys[key] = new]])))

Converted(map, convertedKey(_), convertedValue(_)) ==
  IF ~IsA(map, "map") THEN Throws
  ELSE Rekeyed([key \in DOMAIN map[2] |-> convertedKey(key)],
               [key \in DOMAIN map[2] |-> convertedValue(map[2][key])])

-----------------------------------------------------------------------------
(* Conversions of text and bytes *)

\* base64ToBytes.
FromBase64(string) == string[3]

\* TextDecoder puts a replacement character for what is not valid UTF-8.
IsUtf8(bytes) == bytes[3] # "not utf8"

BytesToString(bytes) ==
  String("text", IF IsUtf8(bytes) THEN bytes ELSE Bytes(bytes[2], "replaced"))

CoerceToBytes(string) == string[3]

-----------------------------------------------------------------------------
(* Integers (src/src/utils/utils.ts) *)

\* Number(bigint) rounds what it cannot hold to the nearest, or even, number.
Rounded(n) ==
  CASE n <= MaxSafeInteger \/ n % 2 = 0 -> n
    [] OTHER -> IF (n \div 2) % 2 = 0 THEN n - 1 ELSE n + 1

ToNumber(value) == Number(Rounded(value[2]))

IsSafe(value) == value[2] <= MaxSafeInteger

EnsureSafeInteger(value) ==
  IF value[1] \in {"bigint", "number"} /\ IsSafe(value) THEN Number(value[2]) ELSE Throws

EnsureBigInt(value) ==
  IF IsA(value, "bigint") \/ (IsA(value, "number") /\ IsSafe(value))
  THEN BigInt(value[2]) ELSE Throws

EnsureUint64(value) ==
  LET n == EnsureBigInt(value)
  IN  IF n # Throws /\ n[2] \in 0 .. MaxUint64 THEN n ELSE Throws

\* An integer of the encoding, which msgpack and JSON both decode with
\* IntDecoding.BIGINT.
Integer(n) == <<"integer", n>>

DecodedInteger(encoded) == BigInt(encoded[2])

-----------------------------------------------------------------------------
(* What a value of a schema is when it is left out. *)

RECURSIVE DefaultValue(_)

DefaultFields(fields) ==
  MapOf([key \in DOMAIN fields |-> DefaultValue(fields[key].schema)])

DefaultValue(schema) ==
  CASE schema[1] = "uint64" -> BigInt(0)
    [] schema[1] = "boolean" -> Boolean(FALSE)
    [] schema[1] = "string" -> EmptyString
    [] schema[1] \in {"bytes", "binary string"} -> EmptyBytes
    [] schema[1] = "fixed length" -> Zeros(schema[2])
    [] schema[1] = "block hash" -> Zeros(32)
    [] schema[1] = "address" -> ZeroAddress
    [] schema[1] \in {"optional", "untyped"} -> Undefined
    [] schema[1] = "array" -> ArrayOf(<<>>)
    [] schema[1] = "named map" -> DefaultFields(FieldsOf(schema[2]))
    [] schema[1] \in {"uint64 map", "bytes map", "binary string map"} -> EmptyMap

\* What map.get(key) is.
Get(map, key) == IF key \in DOMAIN map[2] THEN map[2][key] ELSE Undefined

RECURSIVE IsDefaultValue(_, _)

AreDefaultFields(fields, data) ==
  /\ IsA(data, "map")
  /\ \A key \in DOMAIN fields : IsDefaultValue(fields[key].schema, Get(data, key))

IsDefaultValue(schema, data) ==
  CASE schema[1] = "uint64" -> data \in {BigInt(0), Number(0)}
    [] schema[1] = "optional" -> data = Undefined \/ IsDefaultValue(schema[2], data)
    [] schema[1] = "named map" -> AreDefaultFields(FieldsOf(schema[2]), data)
    [] schema[1] \in {"uint64 map", "bytes map", "binary string map"} ->
         IsA(data, "map") /\ DOMAIN data[2] = {}
    [] OTHER -> data = DefaultValue(schema)

-----------------------------------------------------------------------------
(* prepareMsgpack and prepareJSON *)

RECURSIVE Prepare(_, _, _)

PrepareOptional(schema, data, format) ==
  CASE data # Undefined -> Prepare(schema[2], data, format)
    [] format = "json" -> Null
    [] format = "msgpack" -> Undefined

PrepareUint64(data) ==
  LET n == EnsureUint64(data) IN IF n = Throws THEN Throws ELSE Integer(n[2])

PrepareArray(schema, data, format) ==
  IF ~IsA(data, "array") THEN Throws
  ELSE ArrayUnlessThrown([i \in DOMAIN data[2] |-> Prepare(schema[2], data[2][i], format)])

PrepareBytes(data, format) ==
  CASE ~IsA(data, "bytes") -> Throws
    [] format = "json" -> Base64(data)
    [] format = "msgpack" -> data

PrepareFixedLengthBytes(schema, data, format) ==
  IF IsA(data, "bytes") /\ data[2] = schema[2] THEN PrepareBytes(data, format) ELSE Throws

PrepareBlockHash(data, format) ==
  CASE ~(IsA(data, "bytes") /\ data[2] = 32) -> Throws
    [] format = "json" -> String("blk", data)
    [] format = "msgpack" -> data

PrepareAddress(data, format) ==
  CASE ~IsA(data, "address") -> Throws
    [] format = "json" -> String("address", data[2])
    [] format = "msgpack" -> data[2]

\* RawBinaryString: in msgpack the bytes of a string are kept whatever they are.
RawString(bytes) == <<"raw string", bytes>>

\* Faulty variant of PrepareBinaryString: as if lossyBinaryStringConversion
\* were set.
PrepareLossyString(data, format) ==
  CASE ~IsA(data, "bytes") -> Throws
    [] format = "msgpack" -> RawString(data)
    [] OTHER -> BytesToString(data)

\* lossyBinaryStringConversion is not set.
PrepareBinaryString(data, format) ==
  CASE ~IsA(data, "bytes") -> Throws
    [] format = "msgpack" -> RawString(data)
    [] format = "json" /\ CoerceToBytes(BytesToString(data)) = data -> BytesToString(data)
    [] OTHER -> Throws

\* Faulty variant of IsOmitted: only what is undefined is left out.
IsUndefined(schema, value) == value = Undefined

\* Every entry of every class has omitEmpty.
IsOmitted(schema, value) == IsDefaultValue(schema, value)

KeptKeys(fields, data) ==
  {key \in DOMAIN fields : ~IsOmitted(fields[key].schema, Get(data, key))}

PrepareFields(fields, data, format) ==
  MapUnlessThrown([key \in KeptKeys(fields, data) |->
                     Prepare(fields[key].schema, Get(data, key), format)])

PrepareNamedMap(schema, data, format) ==
  IF IsA(data, "map") THEN PrepareFields(FieldsOf(schema[2]), data, format) ELSE Throws

\* The keys of a map that is not a NamedMap: what each is prepared to.
PreparedKey(schema, key, format) ==
  CASE schema[1] = "uint64 map" ->
         (CASE EnsureUint64(key) = Throws -> Throws
           [] format = "json" -> String("digits", key[2])
           [] OTHER -> Integer(key[2]))
    [] schema[1] = "bytes map" -> PrepareBytes(key, format)
    [] schema[1] = "binary string map" -> PrepareBinaryString(key, format)

PrepareMap(schema, data, format) ==
  Converted(data, LAMBDA key : PreparedKey(schema, key, format),
                  LAMBDA value : Prepare(schema[2], value, format))

Prepare(schema, data, format) ==
  CASE schema[1] = "optional" -> PrepareOptional(schema, data, format)
    [] schema[1] = "uint64" -> PrepareUint64(data)
    [] schema[1] \in {"boolean", "string"} -> IF IsA(data, schema[1]) THEN data ELSE Throws
    [] schema[1] = "bytes" -> PrepareBytes(data, format)
    [] schema[1] = "fixed length" -> PrepareFixedLengthBytes(schema, data, format)
    [] schema[1] = "block hash" -> PrepareBlockHash(data, format)
    [] schema[1] = "address" -> PrepareAddress(data, format)
    [] schema[1] = "binary string" -> PrepareBinaryString(data, format)
    [] schema[1] = "untyped" -> data
    [] schema[1] = "array" -> PrepareArray(schema, data, format)
    [] schema[1] = "named map" -> PrepareNamedMap(schema, data, format)
    [] schema[1] \in {"uint64 map", "bytes map", "binary string map"} ->
         PrepareMap(schema, data, format)

-----------------------------------------------------------------------------
(* fromPreparedMsgpack and fromPreparedJSON.  The provider of raw strings is   *)
(* the encoding itself: what is at the same path of it.                        *)

RECURSIVE Restore(_, _, _)

\* Faulty variant of RestoreOptional: only a missing key makes it undefined.
RestorePresent(schema, encoded, format) == Restore(schema[2], encoded, format)

RestoreOptional(schema, encoded, format) ==
  IF IsMissing(encoded) THEN Undefined ELSE Restore(schema[2], encoded, format)

RestoreUint64(encoded) ==
  IF IsA(encoded, "integer") THEN EnsureUint64(DecodedInteger(encoded)) ELSE Throws

RestoreArray(schema, encoded, format) ==
  IF ~IsA(encoded, "array") THEN Throws
  ELSE ArrayUnlessThrown([i \in DOMAIN encoded[2] |->
                            Restore(schema[2], encoded[2][i], format)])

\* Go writes a slice that is nil as null.
RestoreBytes(encoded, format) ==
  CASE format = "json" /\ IsMissing(encoded) -> EmptyBytes
    [] format = "json" /\ IsA(encoded, "string") -> FromBase64(encoded)
    [] format = "msgpack" /\ IsA(encoded, "bytes") -> encoded
    [] OTHER -> Throws

RestoreFixedLengthBytes(schema, encoded, format) ==
  LET bytes == IF IsMissing(encoded) THEN Throws ELSE RestoreBytes(encoded, format)
  IN  IF bytes # Throws /\ bytes[2] = schema[2] THEN bytes ELSE Throws

RestoreBlockHash(encoded, format) ==
  CASE format = "json" /\ IsA(encoded, "string") /\ encoded[2] = "blk" -> encoded[3]
    [] format = "msgpack" /\ IsA(encoded, "bytes") /\ encoded[2] = 32 -> encoded
    [] OTHER -> Throws

\* Address.fromString wants the text of an address, the constructor 32 bytes.
RestoreAddress(encoded, format) ==
  CASE format = "json" /\ IsA(encoded, "string") /\ encoded[2] = "address" ->
         AddressOf(encoded[3])
    [] format = "msgpack" /\ IsA(encoded, "bytes") /\ encoded[2] = 32 -> AddressOf(encoded)
    [] OTHER -> Throws

RestoreBinaryString(encoded, format) ==
  CASE format = "json" /\ IsA(encoded, "string") -> CoerceToBytes(encoded)
    [] format = "msgpack" /\ IsA(encoded, "raw string") -> encoded[2]
    [] OTHER -> Throws

RestoreFields(fields, encoded, format) ==
  MapUnlessThrown([key \in DOMAIN fields |->
                     IF key \in DOMAIN encoded[2]
                     THEN Restore(fields[key].schema, encoded[2][key], format)
                     ELSE DefaultValue(fields[key].schema)])

RestoreNamedMap(schema, encoded, format) ==
  IF IsA(encoded, "map") THEN RestoreFields(FieldsOf(schema[2]), encoded, format) ELSE Throws

RestoredKey(schema, key, format) ==
  CASE schema[1] = "uint64 map" ->
         IF format = "json" THEN BigInt(key[3]) ELSE EnsureUint64(DecodedInteger(key))
    [] schema[1] = "bytes map" -> IF format = "json" THEN FromBase64(key) ELSE key
    [] schema[1] = "binary string map" ->
         IF format = "json" THEN CoerceToBytes(key) ELSE key[2]

RestoreMap(schema, encoded, format) ==
  Converted(encoded, LAMBDA key : RestoredKey(schema, key, format),
                     LAMBDA value : Restore(schema[2], value, format))

Restore(schema, encoded, format) ==
  CASE schema[1] = "optional" -> RestoreOptional(schema, encoded, format)
    [] schema[1] = "uint64" -> RestoreUint64(encoded)
    [] schema[1] \in {"boolean", "string"} ->
         IF IsA(encoded, schema[1]) THEN encoded ELSE Throws
    [] schema[1] = "bytes" -> RestoreBytes(encoded, format)
    [] schema[1] = "fixed length" -> RestoreFixedLengthBytes(schema, encoded, format)
    [] schema[1] = "block hash" -> RestoreBlockHash(encoded, format)
    [] schema[1] = "address" -> RestoreAddress(encoded, format)
    [] schema[1] = "binary string" -> RestoreBinaryString(encoded, format)
    [] schema[1] = "untyped" -> encoded
    [] schema[1] = "array" -> RestoreArray(schema, encoded, format)
    [] schema[1] = "named map" -> RestoreNamedMap(schema, encoded, format)
    [] schema[1] \in {"uint64 map", "bytes map", "binary string map"} ->
         RestoreMap(schema, encoded, format)
=============================================================================
