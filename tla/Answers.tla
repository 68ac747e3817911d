------------------------------- MODULE Answers -------------------------------
(***************************************************************************)
(* What a node or an indexer says and how it writes it: the other end of   *)
(* the encoding, which is not code of this repository.                     *)
(*                                                                         *)
(* What is said is a value as a schema restores it, but a map has only the *)
(* keys that are said.  A sample says every key of a class, and those of   *)
(* the classes inside it down to a depth; a deviation changes one of them. *)
(* Every class is a sample of its own, so that every key of every class    *)
(* deviates.                                                               *)
(***************************************************************************)
EXTENDS Models

CONSTANT Depth

ASSUME DepthAssumption == Depth \in Nat

SignatureKeys == {"sig", "msig", "lsig"}

\* A registration is online or takes part no more.
TransactionVariants == TransactionTypes \cup {"nonpart"}

Variants(class) ==
  CASE class = TransactionClass -> TransactionVariants
    [] class \in SignedTransactionClasses -> SignatureKeys
    [] OTHER -> {"only"}

TypeOfVariant(variant) == IF variant = "nonpart" THEN "keyreg" ELSE variant

\* The keys that a transaction has beside those of all types.
OwnKeys(variant) ==
  CASE variant = "pay" -> {"rcv", "amt", "close"}
    [] variant = "keyreg" -> OnlineKeys \cup {"sprfkey"}
    [] variant = "nonpart" -> {"nonpart"}
    [] variant = "acfg" -> {"caid", "apar"}
    [] variant = "axfer" -> {"xaid", "aamt", "arcv", "aclose", "asnd"}
    [] variant = "afrz" -> {"faid", "fadd", "afrz"}
    [] variant = "appl" -> {"apid", "apan", "apls", "apgs", "apap", "apsu", "apep", "aprv",
                            "apaa", "apat", "apfa", "apas", "apbx"}
    [] variant = "stpf" -> {"sptype", "sp", "spmsg"}
    [] variant = "hb" -> {"hb"}

OtherSignatures(class, variant) ==
  IF class \in SignedTransactionClasses THEN SignatureKeys \ {variant} ELSE {}

KeysOf(class, variant) ==
  IF class = TransactionClass THEN CommonKeys \cup OwnKeys(variant)
  ELSE DOMAIN FieldsOf(class) \ OtherSignatures(class, variant)

\* The keys whose value a class cannot do without.
RECURSIVE Needs(_)

NeededKeys(fields) ==
  {key \in DOMAIN fields :
     /\ fields[key].presence = "required"
     /\ \/ fields[key].holds \in {<<"program">>, <<"address text">>}
        \/ fields[key].holds[1] = "model" /\ Needs(fields[key].holds[2]) # {}}

Needs(class) == IF class = TransactionClass THEN {"type"} ELSE NeededKeys(FieldsOf(class))

-----------------------------------------------------------------------------
(* Samples *)

RECURSIVE SampleOf(_, _, _)

WithoutEmptyMaps(f) == [key \in {k \in DOMAIN f : f[k] # EmptyMap} |-> f[key]]

SampleFields(fields, keys, variant, depth) ==
  [key \in keys |-> IF key = "type" /\ variant \in TransactionVariants
                    THEN Word(TypeOfVariant(variant))
                    ELSE SampleOf(fields[key].schema, fields[key].holds, depth)]

SampleMap(class, variant, depth) ==
  MapOf(WithoutEmptyMaps(
    SampleFields(FieldsOf(class), IF depth > 0 THEN KeysOf(class, variant) ELSE Needs(class),
                 variant, depth - 1)))

NestedVariant(class) ==
  CASE class = TransactionClass -> "pay"
    [] class \in SignedTransactionClasses -> "sig"
    [] OTHER -> "only"

Held(holds) == IF holds[1] \in {"list", "map", "map by number"} THEN holds[2] ELSE Same

SampleOf(schema, holds, depth) ==
  CASE schema[1] = "optional" -> SampleOf(schema[2], holds, depth)
    [] schema[1] = "uint64" -> BigInt(1)
    [] schema[1] = "boolean" -> Boolean(TRUE)
    [] schema[1] = "string" /\ holds = <<"address text">> -> String("address", Bytes(32, "key"))
    [] schema[1] = "string" /\ holds # <<"address text">> -> String("text", SomeText)
    [] schema[1] \in {"bytes", "binary string"} -> SomeText
    [] schema[1] = "fixed length" -> Bytes(schema[2], "key")
    [] schema[1] = "block hash" -> Bytes(32, "key")
    [] schema[1] = "address" -> AddressOf(Bytes(32, "key"))
    [] schema[1] = "untyped" -> String("text", SomeText)
    [] schema[1] = "array" -> ArrayOf(<<SampleOf(schema[2], Held(holds), depth)>>)
    [] schema[1] = "named map" -> SampleMap(schema[2], NestedVariant(schema[2]), depth)
    [] schema[1] = "uint64 map" ->
         MapOf(BigInt(1) :> SampleOf(schema[2], Held(holds), depth))
    [] schema[1] \in {"bytes map", "binary string map"} ->
         MapOf(SomeText :> SampleOf(schema[2], Held(holds), depth))

-----------------------------------------------------------------------------
(* Deviations of one key *)

Whole == [key |-> "none", what |-> "as is"]

\* What is signed is written in the canonical way, without defaults.
IsCanonical(class) == class = TransactionClass \/ class \in SignedTransactionClasses

UnwrappedSchema(field) == IF field.presence = "required" THEN field.schema ELSE field.schema[2]

DeviationsOf(field, format, canonical) ==
  LET schema == UnwrappedSchema(field)
  IN  {"left out"}
      \cup {what \in {"default", "null"} :
              /\ ~canonical
              /\ what = "default" => schema # UntypedSchema
              /\ what = "null" => \/ field.presence # "required"
                                  \/ schema[1] = "bytes" /\ format = "json"}
      \cup {what \in {"large"} : schema[1] = "uint64"}
      \cup {what \in {"not utf8"} : schema[1] = "binary string" /\ format = "msgpack"}
      \cup {what \in {"empty element"} :
              schema[1] = "array" /\ (schema[2][1] = "named map" => Needs(schema[2][2]) = {})}

Deviations(class, sample, format) ==
  {Whole} \cup
  UNION {{[key |-> key, what |-> what] :
            what \in DeviationsOf(FieldsOf(class)[key], format, IsCanonical(class))} :
         key \in DOMAIN sample[2]}

SaidDefault(schema) == IF schema[1] = "named map" THEN EmptyMap ELSE DefaultValue(schema)

Deviated(field, what) ==
  LET schema == UnwrappedSchema(field)
  IN  CASE what = "default" -> SaidDefault(schema)
        [] what = "null" -> Null
        [] what = "large" -> BigInt(MaxSafeInteger + 2)
        [] what = "not utf8" -> Bytes(4, "not utf8")
        [] what = "empty element" -> ArrayOf(<<SaidDefault(schema[2])>>)

Said(class, sample, deviation) ==
  LET key == deviation.key
  IN  CASE deviation = Whole -> sample
        [] deviation.what = "left out" ->
             MapOf([k \in DOMAIN sample[2] \ {key} |-> sample[2][k]])
        [] OTHER ->
             MapOf([sample[2] EXCEPT ![key] = Deviated(FieldsOf(class)[key], deviation.what)])

\* The same without what need not be said.
Canonical(class, sample, deviation) ==
  IF deviation.what \in {"default", "null"}
  THEN Said(class, sample, [deviation EXCEPT !.what = "left out"])
  ELSE Said(class, sample, deviation)

-----------------------------------------------------------------------------
(* Writing *)

WrittenText(bytes, format) == IF format = "json" THEN BytesToString(bytes) ELSE RawString(bytes)

WrittenBytes(bytes, format) == IF format = "json" THEN Base64(bytes) ELSE bytes

WrittenKey(schema, key, format) ==
  CASE schema[1] = "uint64 map" ->
         IF format = "json" THEN String("digits", key[2]) ELSE Integer(key[2])
    [] schema[1] = "bytes map" -> WrittenBytes(key, format)
    [] schema[1] = "binary string map" -> WrittenText(key, format)

RECURSIVE Written(_, _, _)
Written(schema, said, format) ==
  CASE said = Null -> Null
    [] said # Null /\ schema[1] = "optional" -> Written(schema[2], said, format)
    [] said # Null /\ schema[1] = "uint64" -> Integer(said[2])
    [] said # Null /\ schema[1] \in {"boolean", "string", "untyped"} -> said
    [] said # Null /\ schema[1] \in {"bytes", "fixed length"} -> WrittenBytes(said, format)
    [] said # Null /\ schema[1] = "binary string" -> WrittenText(said, format)
    [] said # Null /\ schema[1] = "block hash" ->
         IF format = "json" THEN String("blk", said) ELSE said
    [] said # Null /\ schema[1] = "address" ->
         IF format = "json" THEN String("address", said[2]) ELSE said[2]
    [] said # Null /\ schema[1] = "array" ->
         ArrayOf([i \in DOMAIN said[2] |-> Written(schema[2], said[2][i], format)])
    [] said # Null /\ schema[1] = "named map" ->
         MapOf([key \in DOMAIN said[2] |->
                  Written(FieldsOf(schema[2])[key].schema, said[2][key], format)])
    [] said # Null /\ schema[1] \in {"uint64 map", "bytes map", "binary string map"} ->
         MapOf([key \in {WrittenKey(schema, k, format) : k \in DOMAIN said[2]} |->
                  LET k == CHOOSE k \in DOMAIN said[2] : WrittenKey(schema, k, format) = key
                  IN  Written(schema[2], said[2][k], format)])
=============================================================================
