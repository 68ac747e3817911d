-------------------------- MODULE MCApplicationCall -------------------------
(***************************************************************************)
(* Instance of MethodCall for TLC: the sender and another account,         *)
(* the called application or one that is made and others, IDs that are the *)
(* same for an asset and an application, as a number and as a bigint.      *)
(* Bytes have two bits: a length is below 16, and two booleans share one.  *)
(***************************************************************************)
EXTENDS MethodCall

\* Addresses of one byte.
MCZeroAddress == <<0>>
MCSender == <<1>>
MCAddress == {MCZeroAddress, MCSender}

NumberID(n) == [value |-> n, type |-> "number"]
BigIntID(n) == [value |-> n, type |-> "bigint"]

MCAsset == {NumberID(0), NumberID(1), BigIntID(2)}
MCApp == {NumberID(0), NumberID(1), NumberID(7), BigIntID(7)}
MCCalledApp == {NumberID(0), NumberID(7), BigIntID(7)}

\* Entries with positions up to n, of which some do not come before them or are
\* of the wrong kind, and every list of up to two.
EntriesUpTo(n) ==
  [d : Address] \cup [s : {1}] \cup [p : {1, 7}]
    \cup [h : [d : 0 .. n, s : 0 .. n]] \cup [l : [d : 0 .. n, p : 0 .. n]]
    \cup [b : [i : 0 .. n, n : Name]]

\* Lists of three with the one kind of entry that points at two others.
Threes ==
  [1 .. 3 -> [d : Address \ {ZeroAddress}] \cup [s : {1}] \cup [p : {7}]
               \cup [h : [d : 1 .. 3, s : {1, 3}]] \cup [l : [d : {2}, p : {1, 3}]]]

MCAccessLists == UNION {[1 .. n -> EntriesUpTo(n)] : n \in 0 .. 2} \cup Threes

Arg(type, value) == [type |-> type, value |-> value]
OfType(type, values) == {Arg(type, value) : value \in values}

OneByte == Uint(1)
TwoBytes == Uint(2)
True == Boolean(TRUE)
False == Boolean(FALSE)
Letters(n) == String([i \in 1 .. n |-> i % 3])
Bools(n) == ArrayValue([i \in 1 .. n |-> Boolean(i % 2 = 1)])

\* The byte 3 is no UTF-8, and two bytes replace it.
ByteOrderMark == <<2, 2>>
MCDecodeText(bytes) ==
  LET text == IF IsPrefix(ByteOrderMark, bytes)
              THEN SubSeq(bytes, Len(ByteOrderMark) + 1, Len(bytes)) ELSE bytes
  IN  FlattenSeq([i \in DOMAIN text |-> IF text[i] = 3 THEN <<2, 1>> ELSE <<text[i]>>])

MCPlain ==
  OfType(OneByte, {Number(3)})
    \cup OfType(Bool, {True})
    \cup OfType(Text, {Letters(1)})
    \cup OfType(<<"account">>, {AddressOf(<<0>>), Bytes(<<0>>), Bytes(<<1>>)})
    \cup OfType(<<"application">>, {Number(0), Number(1), BigInt(7)})
    \cup OfType(<<"asset">>, {Number(1), BigInt(2)})
    \cup OfType(<<"txn">>, {Transaction("pay", FALSE)})
    \cup OfType(<<"axfer">>, {Transaction("axfer", FALSE)})

\* What is no reference or no transaction of the method.
MCUnaccepted ==
  OfType(<<"account">>, {Number(1), Bytes(<<1, 2>>), Letters(1)})
    \cup OfType(<<"application">>, {BigInt(8), True})
    \cup OfType(<<"asset">>, {BigInt(16), Transaction("pay", FALSE)})
    \cup OfType(<<"txn">>, {Transaction("pay", TRUE), Number(1)})
    \cup OfType(<<"axfer">>, {Transaction("pay", FALSE)})

\* Numbers that are no safe integers, lengths and positions up to the limit and
\* behind it, runs of booleans, parts of no bytes, values too few or too many.
MCStructured ==
  MCUnaccepted
    \cup OfType(<<"account">>, {AddressOf(<<2>>)})
    \cup OfType(OneByte, {Number(4)})
    \cup OfType(TwoBytes, {Number(7), Number(8), BigInt(8), BigInt(15), BigInt(16), True, Transaction("pay", FALSE)})
    \cup OfType(Byte, {Number(3), BigInt(4)})
    \cup OfType(Bool, {False, Number(0)})
    \cup OfType(AddressType,
                {AddressOf(<<2>>), Bytes(<<1>>), Bytes(<<1, 2>>), Number(1)})
    \cup OfType(Text, {Letters(0), Letters(15), Letters(16), Bytes(<<1>>), Number(1),
                       Bytes(<<3>>), String(Append(ByteOrderMark, 1))})
    \cup OfType(Array(Bool, 3), {Bools(3), Bools(2), True})
    \cup OfType(Array(Bool, 0), {Bools(0)})
    \cup OfType(Array(OneByte, 2), {ArrayValue(<<Number(1), Number(2)>>), Bytes(<<3, 0>>)})
    \cup OfType(Array(Text, 2), {ArrayValue(<<Letters(0), Letters(2)>>)})
    \cup OfType(List(Bool), {Bools(n) : n \in {0, 1, 2, 3, 14, 15}})
    \cup OfType(Tuple(<<List(Bool)>>), {ArrayValue(<<Bools(2)>>)})
    \cup OfType(List(List(Text)),
                {ArrayValue(<<>>), ArrayValue(<<ArrayValue(<<>>)>>),
                 ArrayValue(<<ArrayValue(<<Letters(1)>>), ArrayValue(<<>>)>>)})
    \cup OfType(List(Tuple(<<OneByte, Text>>)),
                {ArrayValue(<<ArrayValue(<<Number(1), Letters(0)>>), ArrayValue(<<Number(2), Letters(1)>>)>>),
                 ArrayValue(<<Number(1)>>)})
    \cup OfType(Tuple(<<>>), {ArrayValue(<<>>), ArrayValue(<<True>>)})
    \cup OfType(Tuple(<<Text, Text>>),
                {ArrayValue(<<Letters(n), Letters(0)>>) : n \in {0, 9, 10}})
    \cup OfType(Tuple(<<Bool, Bool, Bool, OneByte, Text, Bool>>),
                {ArrayValue(<<True, False, True, Number(1), Letters(1), True>>),
                 ArrayValue(<<True, False, True, Number(1), Letters(1)>>),
                 ArrayValue(<<True, False, True>>)})
    \cup OfType(Tuple(<<Bool, Tuple(<<Bool, Bool>>), Bool>>),
                {ArrayValue(<<True, Bools(2), False>>)})
    \cup OfType(Tuple(<<Bool, Bool>>), {Bools(2), ArrayValue(<<True>>)})
    \cup OfType(Tuple(<<Array(Bool, 3), List(OneByte)>>),
                {ArrayValue(<<Bools(3), Bytes(<<1, 2>>)>>)})
    \cup OfType(Tuple(<<OneByte, Array(OneByte, 0)>>), {ArrayValue(<<Number(1), ArrayValue(<<>>)>>)})

\* What a contract may return, or nothing.
MCReturn ==
  {arg \in MCStructured : /\ arg.type \in ArgumentTypes /\ arg.value \in ArgumentValues
                          /\ Fits[arg.type][FALSE][arg.value]}
    \cup {Arg(Void, Undefined)}
=============================================================================
