----------------------------- MODULE ModelFields -----------------------------
(***************************************************************************)
(* How a model class of the SDK is described: for every key of its         *)
(* encoding, the schema of the value (src/src/encoding/schema), what the   *)
(* object holds for it, and whether it may be left out.                    *)
(*                                                                         *)
(* A class of src/src/client/v2/*/models/types.ts, of types/block.ts,      *)
(* types/statedelta.ts, stateproof.ts or heartbeat.ts says this four       *)
(* times: in its encodingSchema, its constructor, its toEncodingData and   *)
(* its fromEncodingData.  Here it says it once, and the module Models      *)
(* makes the four of it.                                                   *)
(***************************************************************************)
EXTENDS TLC

Uint64Schema == <<"uint64">>
BooleanSchema == <<"boolean">>
StringSchema == <<"string">>
ByteArraySchema == <<"bytes">>
FixedLengthByteArraySchema(length) == <<"fixed length", length>>
AddressSchema == <<"address">>
BlockHashSchema == <<"block hash">>
SpecialCaseBinaryStringSchema == <<"binary string">>
UntypedSchema == <<"untyped">>
OptionalSchema(schema) == <<"optional", schema>>
ArraySchema(schema) == <<"array", schema>>
NamedMapSchema(class) == <<"named map", class>>
Uint64MapSchema(schema) == <<"uint64 map", schema>>
ByteArrayMapSchema(schema) == <<"bytes map", schema>>
SpecialCaseBinaryStringMapSchema(schema) == <<"binary string map", schema>>

-----------------------------------------------------------------------------
(* Kinds of values: a schema, and what the object holds. *)

Kind(schema, holds) == [schema |-> schema, holds |-> holds]

\* The object holds what the schema restores.
Same == <<"same">>

Uint64 == Kind(Uint64Schema, Same)
Text == Kind(StringSchema, Same)
Flag == Kind(BooleanSchema, Same)
Blob == Kind(ByteArraySchema, Same)
FixedBlob(length) == Kind(FixedLengthByteArraySchema(length), Same)
AddressKey == Kind(AddressSchema, Same)
BlockHash == Kind(BlockHashSchema, Same)
BinaryText == Kind(SpecialCaseBinaryStringSchema, Same)
Untyped == Kind(UntypedSchema, Same)

\* The constructor calls ensureBigInt, ensureSafeInteger or Address.fromString,
\* fromEncodingData calls Number.
BigInteger == Kind(Uint64Schema, <<"bigint">>)
SafeInteger == Kind(Uint64Schema, <<"safe integer">>)
NumberOf == Kind(Uint64Schema, <<"number">>)
AddressText == Kind(StringSchema, <<"address text">>)

\* An object of a class, an array, and maps by uint64, byte array and binary
\* string; in MapByNumber the keys are made numbers.
ModelOf(class) == Kind(NamedMapSchema(class), <<"model", class>>)
ListOf(kind) == Kind(ArraySchema(kind.schema), <<"list", kind.holds>>)
MapByUint64(kind) == Kind(Uint64MapSchema(kind.schema), <<"map", kind.holds>>)
MapByNumber(kind) == Kind(Uint64MapSchema(kind.schema), <<"map by number", kind.holds>>)
MapByBytes(kind) == Kind(ByteArrayMapSchema(kind.schema), <<"map", kind.holds>>)
MapByBinaryText(kind) ==
  Kind(SpecialCaseBinaryStringMapSchema(kind.schema), <<"map", kind.holds>>)

-----------------------------------------------------------------------------
(* Fields of one kind, by their keys. *)

Field(kind, schema, presence) == [schema |-> schema, holds |-> kind.holds, presence |-> presence]

Required(kind, keys) == [key \in keys |-> Field(kind, kind.schema, "required")]

Optional(kind, keys) ==
  [key \in keys |-> Field(kind, OptionalSchema(kind.schema), "optional")]

\* The schema is optional, and the object holds an empty collection for a
\* value that is not there.
OrEmpty(kind, keys) ==
  [key \in keys |-> Field(kind, OptionalSchema(kind.schema), "or empty")]
=============================================================================
