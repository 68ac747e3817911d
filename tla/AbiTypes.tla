------------------------------ MODULE AbiTypes ------------------------------
(***************************************************************************)
(* The types of the ABI (src/src/abi/abi_type.ts), and how values of them  *)
(* become bytes and are read again.                                        *)
(*                                                                         *)
(* Bytes are sequences of numbers below Base.  ufixed is encoded as uint.  *)
(* What the code defines by recursion over a type is a function on Types,  *)
(* which are nested up to a depth; a function that a definition goes on    *)
(* with, for the types inside, is its last argument.                       *)
(***************************************************************************)
EXTENDS Integers, Sequences, SequencesExt, Functions

CONSTANTS
  Bits,            \* of a byte, 8 in the code
  AddressSize,     \* ADDR_BYTE_SIZE, 32 in the code
  MaxSafeInteger,  \* Number.MAX_SAFE_INTEGER
  MaxDepth,        \* bound on the nesting of types and values
  DecodeText(_)    \* decode of TextDecoder, as the bytes of the text: without a
                   \* byte order mark at their beginning, and with a
                   \* replacement character in the place of what is no UTF-8

ASSUME AbiAssumption ==
  /\ {Bits, AddressSize, MaxSafeInteger} \subseteq Nat \ {0} /\ Bits % 2 = 0
  /\ MaxDepth \in Nat

-----------------------------------------------------------------------------
(* Sums and powers *)

\* 2 ^ n.
Power[n \in Nat] == IF n = 0 THEN 1 ELSE 2 * Power[n - 1]

\* The sum of the first n.
Total(sizes, n) ==
  LET total[i \in 0 .. n] == IF i = 0 THEN 0 ELSE total[i - 1] + sizes[i]
  IN  total[n]

Base == Power[Bits]
MaxLen == Base * Base - 1
LengthSize == 2

ByteStrings == Seq(0 .. Base - 1)

-----------------------------------------------------------------------------
(* Types and values *)

Uint(size) == <<"uint", size>>
Byte == <<"byte">>
Bool == <<"bool">>
AddressType == <<"address">>
Text == <<"string">>
Array(type, length) == <<"array", type, length>>
List(type) == <<"list", type>>
Tuple(types) == <<"tuple", types>>

Number(n) == <<"number", n>>
BigInt(n) == <<"bigint", n>>
Boolean(b) == <<"boolean", b>>
String(bytes) == <<"string", bytes>>
AddressOf(bytes) == <<"address", bytes>>
Bytes(bytes) == <<"bytes", bytes>>
ArrayValue(elements) == <<"array", elements>>
Undefined == <<"undefined">>

\* No type, no bytes or no value: the call threw.
NoType == <<"throws">>
NoBytes == <<-1>>
NoValue == <<"throws">>

SimpleTypes == ({"uint"} \X (Nat \ {0})) \cup {Byte, Bool, AddressType, Text}

TypesOf(parts) ==
  ({"array"} \X parts \X (0 .. MaxLen)) \cup ({"list"} \X parts)
    \cup ({"tuple"} \X {types \in Seq(parts) : Len(types) < MaxLen})

TypesTo[depth \in 0 .. MaxDepth] ==
  IF depth = 0 THEN SimpleTypes ELSE SimpleTypes \cup TypesOf(TypesTo[depth - 1])

Types == TypesTo[MaxDepth]

SimpleValues ==
  ({"number", "bigint"} \X Int) \cup ({"boolean"} \X BOOLEAN)
    \cup ({"string", "bytes"} \X ByteStrings)
    \cup ({"address"} \X [1 .. AddressSize -> 0 .. Base - 1]) \cup {Undefined}

ValuesTo[depth \in 0 .. MaxDepth] ==
  IF depth = 0 THEN SimpleValues ELSE SimpleValues \cup ({"array"} \X Seq(ValuesTo[depth - 1]))

AbiValues == ValuesTo[MaxDepth]

IsA(value, kind) == value[1] = kind

Slice(s, first, last) == SubSeq(s, first, IF last < Len(s) THEN last ELSE Len(s))

-----------------------------------------------------------------------------
(* Integers (src/src/encoding/bigint.ts) *)

BytesOf(n, size) == [i \in 1 .. size |-> (n \div Power[Bits * (size - i)]) % Base]

\* How many digits to the base 16 a number has, each half a byte, and not less
\* than there are to be.
Digit == Bits \div 2

HexLength(n, least) ==
  CHOOSE d \in least .. least + n :
    n < Power[Digit * d] /\ (d > least => n >= Power[Digit * (d - 1)])

\* A number that is too large for the bytes has more digits, and of an odd
\* number of digits the last is dropped.
BigIntToBytes(n, size) ==
  LET length == HexLength(n, 2 * size)
  IN  BytesOf(n \div Power[Digit * (length % 2)], length \div 2)

BytesToBigInt(bytes) ==
  LET read[i \in 0 .. Len(bytes)] == IF i = 0 THEN 0 ELSE read[i - 1] * Base + bytes[i]
  IN  read[Len(bytes)]

-----------------------------------------------------------------------------
(* Tuples: the heads *)

IsDynamic[type \in Types] ==
  \/ type[1] \in {"string", "list"}
  \/ type[1] = "array" /\ IsDynamic[type[2]]
  \/ type[1] = "tuple" /\ \E i \in DOMAIN type[2] : IsDynamic[type[2][i]]

Repeated(type, length) == [i \in 1 .. length |-> type]

\* findBoolLR: how many booleans there are without another type between them.
BoolsBefore(types, i) ==
  CHOOSE n \in 0 .. i - 1 :
    /\ \A k \in i - n .. i - 1 : types[k] = Bool
    /\ n < i - 1 => types[i - n - 1] # Bool

\* As many booleans as there are bits share a byte, which is the head of the first.
HeadOf(types, i) == IF types[i] = Bool THEN i - (BoolsBefore(types, i) % Bits) ELSE i

HasHead(types, i) == HeadOf(types, i) = i

HeadSize(types, i, byteLen) ==
  CASE ~HasHead(types, i) -> 0
    [] HasHead(types, i) /\ types[i] = Bool -> 1
    [] OTHER -> byteLen[types[i]]

HeadSizes(types, byteLen) == [i \in DOMAIN types |-> HeadSize(types, i, byteLen)]

TupleSize(types, byteLen) == Total(HeadSizes(types, byteLen), Len(types))

\* byteLen, or what the position of a tail takes.
ByteLenOf(type, byteLen) ==
  CASE IsDynamic[type] -> LengthSize
    [] type[1] = "uint" -> type[2]
    [] type[1] \in {"byte", "bool"} -> 1
    [] type[1] = "address" -> AddressSize
    [] type[1] = "array" /\ ~IsDynamic[type] ->
         IF type[2] = Bool THEN (type[3] + Bits - 1) \div Bits ELSE type[3] * byteLen[type[2]]
    [] type[1] = "tuple" /\ ~IsDynamic[type] -> TupleSize(type[2], byteLen)

ByteLen[type \in Types] == ByteLenOf(type, ByteLen)

-----------------------------------------------------------------------------
(* encode *)

EncodeInteger(value, size) ==
  IF /\ value[1] \in {"number", "bigint"}
     /\ value[2] \in 0 .. Power[Bits * size] - 1
     /\ IsA(value, "number") => value[2] <= MaxSafeInteger
  THEN BigIntToBytes(value[2], size) ELSE NoBytes

EncodeByte(value) ==
  IF value[1] \in {"number", "bigint"} /\ value[2] \in 0 .. Base - 1
  THEN <<value[2]>> ELSE NoBytes

EncodeBool(value) ==
  CASE ~IsA(value, "boolean") -> NoBytes
    [] value = Boolean(TRUE) -> <<Power[Bits - 1]>>
    [] value = Boolean(FALSE) -> <<0>>

EncodeAddress(value) ==
  CASE IsA(value, "address") -> value[2]
    [] IsA(value, "bytes") /\ Len(value[2]) = AddressSize -> value[2]
    [] OTHER -> NoBytes

\* The length is not checked; the text overwrites what is too long of it.
EncodeString(value) ==
  IF value[1] \in {"string", "bytes"}
  THEN SubSeq(BigIntToBytes(Len(value[2]), LengthSize), 1, LengthSize) \o value[2]
  ELSE NoBytes

IsList(value) == value[1] \in {"array", "bytes"}

ElementsOf(value) ==
  IF IsA(value, "array") THEN value[2] ELSE [i \in DOMAIN value[2] |-> Number(value[2][i])]

ElementAt(elements, i) == IF i \in DOMAIN elements THEN elements[i] ELSE Undefined

\* compressMultipleBool: booleans that are not there are as good as false.
CompressBools(types, elements, head) ==
  LET shared == {i \in DOMAIN types \cap DOMAIN elements : HeadOf(types, i) = head}
      bit(n) == IF head + n - 1 \in shared /\ elements[head + n - 1] = Boolean(TRUE)
                THEN Power[Bits - n] ELSE 0
  IN  IF \E i \in shared : ~IsA(elements[i], "boolean") THEN NoBytes
      ELSE <<Total([n \in 1 .. Bits |-> bit(n)], Bits)>>

EncodeHead(types, elements, i, encode) ==
  CASE ~HasHead(types, i) -> <<>>
    [] HasHead(types, i) /\ types[i] = Bool -> CompressBools(types, elements, i)
    [] IsDynamic[types[i]] -> <<0, 0>>
    [] OTHER -> encode[types[i]][ElementAt(elements, i)]

EncodeTail(types, elements, i, encode) ==
  IF IsDynamic[types[i]] THEN encode[types[i]][ElementAt(elements, i)] ELSE <<>>

\* The bytes before a part.
PositionIn(parts, i) == Total([k \in DOMAIN parts |-> Len(parts[k])], i - 1)

\* The heads of the dynamic elements say where their tails are.
JoinTuple(heads, tails, dynamic) ==
  LET position(i) == PositionIn(heads \o tails, Len(heads) + i)
  IN  IF \/ NoBytes \in Range(heads \o tails)
         \/ \E i \in dynamic : position(i) > MaxLen
      THEN NoBytes
      ELSE FlattenSeq([i \in DOMAIN heads |-> IF i \in dynamic THEN BytesOf(position(i), LengthSize)
                                             ELSE heads[i]] \o tails)

DynamicIn(types) == {i \in DOMAIN types : IsDynamic[types[i]]}

\* The constructor and encode of a tuple: too many types, or values, are refused.
EncodeTuple(types, elements, encode) ==
  IF Len(types) >= MaxLen \/ Len(elements) > MaxLen THEN NoBytes
  ELSE JoinTuple([i \in DOMAIN types |-> EncodeHead(types, elements, i, encode)],
                 [i \in DOMAIN types |-> EncodeTail(types, elements, i, encode)],
                 DynamicIn(types))

\* Faulty variant of EncodeArray: values are not counted.
EncodeUncounted(type, length, elements, encode) ==
  EncodeTuple(Repeated(type, length), elements, encode)

EncodeArray(type, length, elements, encode) ==
  IF Len(elements) = length THEN EncodeTuple(Repeated(type, length), elements, encode)
  ELSE NoBytes

EncodeList(type, elements, encode) ==
  LET encoded == EncodeTuple(Repeated(type, Len(elements)), elements, encode)
  IN  IF encoded = NoBytes THEN NoBytes
      ELSE BigIntToBytes(Len(elements), LengthSize) \o encoded

EncodeAs(type, value, encode) ==
  CASE type[1] = "uint" -> EncodeInteger(value, type[2])
    [] type[1] = "byte" -> EncodeByte(value)
    [] type[1] = "bool" -> EncodeBool(value)
    [] type[1] = "address" -> EncodeAddress(value)
    [] type[1] = "string" -> EncodeString(value)
    [] type[1] \in {"array", "list", "tuple"} /\ ~IsList(value) -> NoBytes
    [] type[1] = "array" /\ IsList(value) ->
         EncodeArray(type[2], type[3], ElementsOf(value), encode)
    [] type[1] = "list" /\ IsList(value) -> EncodeList(type[2], ElementsOf(value), encode)
    [] type[1] = "tuple" /\ IsList(value) -> EncodeTuple(type[2], ElementsOf(value), encode)

AbiEncode[type \in Types] == [value \in AbiValues |-> EncodeAs(type, value, AbiEncode)]

-----------------------------------------------------------------------------
(* decode *)

DecodeBool(bytes) ==
  CASE bytes = <<Power[Bits - 1]>> -> Boolean(TRUE)
    [] bytes = <<0>> -> Boolean(FALSE)
    [] OTHER -> NoValue

\* Bytes of a text that TextDecoder leaves as they are.
IsText(bytes) == DecodeText(bytes) = bytes

\* The bytes behind the length are decoded, whatever they are.
DecodeString(bytes) ==
  IF /\ Len(bytes) >= LengthSize
     /\ BytesToBigInt(SubSeq(bytes, 1, LengthSize)) = Len(bytes) - LengthSize
  THEN String(DecodeText(SubSeq(bytes, LengthSize + 1, Len(bytes)))) ELSE NoValue

\* The bytes that come before the head of an element.
HeadPosition(types, i) == Total(HeadSizes(types, ByteLen), HeadOf(types, i) - 1)

\* After every head but the last there must be a byte, even if what follows has
\* none.
HeadsAreThere(types, bytes) ==
  \A i \in DOMAIN types :
    HasHead(types, i) =>
      /\ IsDynamic[types[i]] => HeadPosition(types, i) + LengthSize <= Len(bytes)
      /\ (\E j \in DOMAIN types : j > i /\ HasHead(types, j)) =>
           HeadPosition(types, i) + ByteLen[types[i]] < Len(bytes)

\* dynamicIndex.
TailPositions(types, bytes) ==
  [i \in DynamicIn(types) |->
     BytesToBigInt(SubSeq(bytes, HeadPosition(types, i) + 1, HeadPosition(types, i) + LengthSize))]

\* The tails follow each other up to the last byte; where there are none the
\* heads reach that far.
TailsAreThere(types, bytes, tails) ==
  /\ \A i, j \in DOMAIN tails : i < j => tails[i] <= tails[j]
  /\ \A i \in DOMAIN tails : tails[i] <= Len(bytes)
  /\ DOMAIN tails = {} => TupleSize(types, ByteLen) >= Len(bytes)

TailEnd(tails, i, length) ==
  LET later == {j \in DOMAIN tails : j > i}
  IN  IF later = {} THEN length
      ELSE tails[CHOOSE j \in later : \A other \in later : j <= other]

\* The bit of a boolean, in a byte that may be missing.
BitIsSet(bytes, position, bit) ==
  position + 1 <= Len(bytes) /\ (bytes[position + 1] \div Power[Bits - bit]) % 2 = 1

\* The bytes of the head, or of the tail.
Part(types, bytes, tails, i) ==
  IF i \in DOMAIN tails THEN SubSeq(bytes, tails[i] + 1, TailEnd(tails, i, Len(bytes)))
  ELSE Slice(bytes, HeadPosition(types, i) + 1, HeadPosition(types, i) + ByteLen[types[i]])

DecodeElement(types, bytes, tails, i, decode) ==
  IF types[i] = Bool
  THEN Boolean(BitIsSet(bytes, HeadPosition(types, i), i - HeadOf(types, i) + 1))
  ELSE decode[types[i]][Part(types, bytes, tails, i)]

ValueOf(elements) == IF NoValue \in Range(elements) THEN NoValue ELSE ArrayValue(elements)

DecodeParts(types, bytes, tails, decode) ==
  IF TailsAreThere(types, bytes, tails)
  THEN ValueOf([i \in DOMAIN types |-> DecodeElement(types, bytes, tails, i, decode)])
  ELSE NoValue

DecodeTuple(types, bytes, decode) ==
  IF Len(types) < MaxLen /\ HeadsAreThere(types, bytes)
  THEN DecodeParts(types, bytes, TailPositions(types, bytes), decode) ELSE NoValue

DecodeList(type, bytes, decode) ==
  IF Len(bytes) < LengthSize THEN NoValue
  ELSE DecodeTuple(Repeated(type, BytesToBigInt(SubSeq(bytes, 1, LengthSize))),
                   SubSeq(bytes, LengthSize + 1, Len(bytes)), decode)

DecodeAs(type, bytes, decode) ==
  CASE type[1] = "uint" -> IF Len(bytes) = type[2] THEN BigInt(BytesToBigInt(bytes)) ELSE NoValue
    [] type[1] = "byte" -> IF Len(bytes) = 1 THEN Number(bytes[1]) ELSE NoValue
    [] type[1] = "bool" -> DecodeBool(bytes)
    [] type[1] = "address" -> IF Len(bytes) = AddressSize THEN AddressOf(bytes) ELSE NoValue
    [] type[1] = "string" -> DecodeString(bytes)
    [] type[1] = "array" -> DecodeTuple(Repeated(type[2], type[3]), bytes, decode)
    [] type[1] = "list" -> DecodeList(type[2], bytes, decode)
    [] type[1] = "tuple" -> DecodeTuple(type[2], bytes, decode)

AbiDecode[type \in Types] == [bytes \in ByteStrings |-> DecodeAs(type, bytes, AbiDecode)]

-----------------------------------------------------------------------------
(* What encode and decode are to do: the reference they are checked against. *)

\* The types of the elements of a value.
ElementTypes(type, elements) ==
  IF type[1] = "tuple" THEN type[2] ELSE Repeated(type[2], Len(elements))

ElementsMeant(types, elements, meant) ==
  ArrayValue([i \in DOMAIN types |-> meant[types[i]][elements[i]]])

\* The value that decode gives for one that was encoded.
MeantAs(type, value, meant) ==
  CASE type[1] = "uint" -> BigInt(value[2])
    [] type[1] = "byte" -> Number(value[2])
    [] type[1] = "bool" -> value
    [] type[1] = "address" -> AddressOf(value[2])
    [] type[1] = "string" -> String(value[2])
    [] type[1] \in {"array", "list", "tuple"} ->
         ElementsMeant(ElementTypes(type, ElementsOf(value)), ElementsOf(value), meant)

Meant[type \in Types] == [value \in AbiValues |-> MeantAs(type, value, Meant)]

TailsSize(types, elements, last, size) ==
  Total([i \in DOMAIN types |->
           IF IsDynamic[types[i]] THEN size[types[i]][ElementAt(elements, i)] ELSE 0], last)

ElementsSize(types, elements, size) ==
  TupleSize(types, ByteLen) + TailsSize(types, elements, Len(types), size)

\* The bytes of a value.
SizeAs(type, value, size) ==
  CASE ~IsDynamic[type] -> ByteLen[type]
    [] type[1] = "string" -> LengthSize + Len(value[2])
    [] type[1] = "list" ->
         LengthSize + ElementsSize(ElementTypes(type, ElementsOf(value)), ElementsOf(value),
                                   size)
    [] type[1] \in {"array", "tuple"} /\ IsDynamic[type] ->
         ElementsSize(ElementTypes(type, ElementsOf(value)), ElementsOf(value), size)

EncodedSize[type \in Types] == [value \in AbiValues |-> SizeAs(type, value, EncodedSize)]

\* The position of every tail can be written.
TailsFit(types, elements) ==
  \A i \in DynamicIn(types) :
    TupleSize(types, ByteLen) + TailsSize(types, elements, i - 1, EncodedSize) <= MaxLen

ElementsFit(types, elements, strictly, fits) ==
  /\ Len(types) < MaxLen
  /\ strictly => Len(elements) = Len(types)
  /\ Len(elements) <= MaxLen
  /\ \A i \in DOMAIN types :
       IF i \in DOMAIN elements THEN fits[types[i]][strictly][elements[i]] ELSE types[i] = Bool
  /\ TailsFit(types, elements)

\* The value is one of the type and has bytes.  Not strictly, so has a text that
\* is too long for its length or is none, and a tuple with too much or with
\* booleans missing.
FitsAs(type, value, strictly, fits) ==
  CASE type[1] = "uint" -> EncodeInteger(value, type[2]) # NoBytes
    [] type[1] = "byte" -> EncodeByte(value) # NoBytes
    [] type[1] = "bool" -> IsA(value, "boolean")
    [] type[1] = "address" -> EncodeAddress(value) # NoBytes
    [] type[1] = "string" ->
         /\ value[1] \in {"string", "bytes"}
         /\ strictly => Len(value[2]) <= MaxLen /\ IsText(value[2])
    [] type[1] \in {"array", "list", "tuple"} ->
         /\ IsList(value)
         /\ type[1] = "array" => Len(value[2]) = type[3]
         /\ ElementsFit(ElementTypes(type, value[2]), ElementsOf(value), strictly, fits)

Fits[type \in Types] ==
  [strictly \in BOOLEAN |-> [value \in AbiValues |-> FitsAs(type, value, strictly, Fits)]]

\* A part of the type has no bytes.
HasEmptyPart[type \in Types] ==
  \/ ByteLen[type] = 0
  \/ type[1] \in {"array", "list"} /\ HasEmptyPart[type[2]]
  \/ type[1] = "tuple" /\ \E i \in DOMAIN type[2] : HasEmptyPart[type[2][i]]

\* The last bytes are nothing but booleans, in a byte that is not missed.
EndsInBools[type \in Types] ==
  \/ type[1] \in {"array", "list"} /\ type[2] = Bool
  \/ type[1] \in {"array", "list"} /\ EndsInBools[type[2]]
  \/ type[1] = "tuple" /\ Range(type[2]) = {Bool}
  \/ /\ type[1] = "tuple"
     /\ \E i \in DOMAIN type[2] :
          EndsInBools[type[2][i]] /\ \A j \in DOMAIN type[2] : j > i => ~IsDynamic[type[2][j]]
=============================================================================
