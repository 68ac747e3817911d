------------------------------- MODULE Models -------------------------------
(***************************************************************************)
(* The objects of the model classes: how fromEncodingData and the          *)
(* constructor make one of encoding data, how toEncodingData gives the     *)
(* data back, and the four functions of src/src/encoding/encoding.ts that  *)
(* read and write an object.                                               *)
(*                                                                         *)
(* A class is described by its fields (FieldsOf); an attribute has the     *)
(* name of its key.                                                        *)
(***************************************************************************)
EXTENDS Transactions

SignedTransactionClasses ==
  {<<"ledger", "SignedTransaction">>, <<"ledger", "SignedTxnWithAD">>,
   <<"ledger", "SignedTxnInBlock">>}

EmptyCollection(holds) == IF holds[1] = "list" THEN ArrayOf(<<>>) ELSE EmptyMap

HasOneSignature(values) ==
  Cardinality({key \in {"sig", "msig", "lsig"} : values[key] # Undefined}) <= 1

-----------------------------------------------------------------------------
(* fromEncodingData and the constructor *)

RECURSIVE FromData(_, _)

\* What the object holds for a key, undefined where that is allowed.
FieldFromData(field, data) ==
  CASE data # Undefined \/ field.presence = "required" -> FromData(field.holds, data)
    [] data = Undefined /\ field.presence = "optional" -> Undefined
    [] data = Undefined /\ field.presence = "or empty" -> EmptyCollection(field.holds)

Constructed(class, values) ==
  IF class \in SignedTransactionClasses /\ ~HasOneSignature(values) THEN Throws
  ELSE ObjectUnlessThrown(values)

FieldsFromData(fields, data) ==
  [key \in DOMAIN fields |-> FieldFromData(fields[key], Get(data, key))]

InstanceFromData(class, data) == Constructed(class, FieldsFromData(FieldsOf(class), data))

FromData(holds, data) ==
  CASE holds[1] = "same" -> data
    [] holds[1] = "bigint" -> EnsureBigInt(data)
    [] holds[1] = "safe integer" -> EnsureSafeInteger(data)
    [] holds[1] = "number" -> ToNumber(data)
    [] holds[1] = "address text" -> EnsureAddress(data)
    [] holds[1] = "program" -> IF data = EmptyBytes THEN Throws ELSE data
    [] holds[1] = "model" -> IF holds[2] = TransactionClass THEN TransactionFromData(data)
                             ELSE InstanceFromData(holds[2], data)
    [] holds[1] = "list" ->
         ArrayUnlessThrown([i \in DOMAIN data[2] |-> FromData(holds[2], data[2][i])])
    [] holds[1] = "map" ->
         Converted(data, LAMBDA key : key, LAMBDA value : FromData(holds[2], value))
    [] holds[1] = "map by number" ->
         Converted(data, ToNumber, LAMBDA value : FromData(holds[2], value))

-----------------------------------------------------------------------------
(* toEncodingData *)

RECURSIVE ToData(_, _)

FieldsToData(fields, object) ==
  [key \in DOMAIN fields |->
     IF object[2][key] = Undefined THEN Undefined
     ELSE ToData(fields[key].holds, object[2][key])]

InstanceToData(class, object) == MapUnlessThrown(FieldsToData(FieldsOf(class), object))

ToData(holds, value) ==
  CASE holds[1] \in {"same", "bigint", "safe integer", "number", "program"} -> value
    [] holds[1] = "address text" -> String("address", value[2])
    [] holds[1] = "model" -> IF holds[2] = TransactionClass THEN TransactionToData(value)
                             ELSE InstanceToData(holds[2], value)
    [] holds[1] = "list" ->
         ArrayUnlessThrown([i \in DOMAIN value[2] |-> ToData(holds[2], value[2][i])])
    [] holds[1] \in {"map", "map by number"} ->
         Converted(value, LAMBDA key : key, LAMBDA v : ToData(holds[2], v))

-----------------------------------------------------------------------------
(* decodeMsgpack, decodeJSON, encodeMsgpack and encodeJSON *)

FromRestored(class, data) ==
  IF data = Throws THEN Throws ELSE FromData(<<"model", class>>, data)

Decode(class, encoded, format) ==
  FromRestored(class, Restore(NamedMapSchema(class), encoded, format))

PrepareData(class, data, format) ==
  IF data = Throws THEN Throws ELSE Prepare(NamedMapSchema(class), data, format)

Encode(class, object, format) ==
  PrepareData(class, ToData(<<"model", class>>, object), format)
=============================================================================
