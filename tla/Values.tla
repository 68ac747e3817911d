------------------------------- MODULE Values -------------------------------
(***************************************************************************)
(* The JavaScript values that the SDK writes, reads and asks with.         *)
(*                                                                         *)
(* A value is a tuple of its type and what it holds.  Text and bytes are   *)
(* opaque contents: what matters is whether they are empty, all zeros, of  *)
(* the length a schema wants, or not valid UTF-8.                          *)
(***************************************************************************)
Undefined == <<"undefined">>
Null == <<"null">>

\* Not a value: the call threw.
Throws == <<"throws">>

Number(n) == <<"number", n>>
BigInt(n) == <<"bigint", n>>
Boolean(b) == <<"boolean", b>>
Bytes(length, content) == <<"bytes", length, content>>
String(form, content) == <<"string", form, content>>
AddressOf(publicKey) == <<"address", publicKey>>
ArrayOf(elements) == <<"array", elements>>

\* A map, a plain object, or an instance of a class: a function.  The keys of
\* the maps with a fixed set of fields are strings, those of the others values.
MapOf(f) == <<"map", f>>
ObjectOf(f) == <<"object", f>>

IsA(value, type) == value[1] = type
IsMissing(value) == value \in {Undefined, Null}

EmptyBytes == Bytes(0, "empty")
Zeros(length) == Bytes(length, "zeros")
EmptyString == String("text", EmptyBytes)

\* A text that the code compares with.
Word(word) == String("text", Bytes(4, word))
ZeroAddress == AddressOf(Zeros(32))
EmptyMap == MapOf(<<>>)

\* Text and bytes that are of no account.
SomeText == Bytes(4, "text")

\* bytesToBase64.
Base64(bytes) == IF bytes = EmptyBytes THEN EmptyString ELSE String("base64", bytes)
=============================================================================
