---------------------------- MODULE QueriesProofs ---------------------------
(***************************************************************************)
(* A request builder asks for what it was given: proof that the property   *)
(* of Queries holds for every builder of the two clients, any number of    *)
(* setters and calls of do() in any order, and any amounts and contents.   *)
(***************************************************************************)
EXTENDS Queries, TLAPS

-----------------------------------------------------------------------------
(* Values and what is removed of them *)

\* What a setter makes of its argument.
Kinds ==
  {"number", "printed", "text", "flag", "address", "moment", "funnelled", "list", "joined"}

\* The type of a value is its first component.
LEMMA TypesOfValues ==
  /\ \A n : Number(n)[1] = "number" /\ Number(n)[2] = n
  /\ \A n : BigInt(n)[1] = "bigint" /\ BigInt(n)[2] = n
  /\ \A l, c : Bytes(l, c)[1] = "bytes" /\ Bytes(l, c)[2] = l /\ Bytes(l, c)[3] = c
  /\ \A f, c : String(f, c)[1] = "string" /\ String(f, c)[2] = f /\ String(f, c)[3] = c
  /\ \A k : AddressOf(k)[1] = "address" /\ AddressOf(k)[2] = k
  /\ \A a : ArrayOf(a)[1] = "array" /\ ArrayOf(a)[2] = a
BY DEF Number, BigInt, Bytes, String, AddressOf, ArrayOf

\* So is that of the values that the code compares with.
LEMMA TypesOfConstants ==
  /\ Number(0)[1] = "number" /\ BigInt(0)[1] = "bigint"
  /\ Boolean(TRUE)[1] = "boolean" /\ Boolean(FALSE)[1] = "boolean"
  /\ EmptyString[1] = "string" /\ EmptyBytes[1] = "bytes" /\ ArrayOf(<<>>)[1] = "array"
  /\ <<"date", 1>>[1] = "date"
BY DEF Number, BigInt, Boolean, EmptyString, String, EmptyBytes, Bytes, ArrayOf

\* What is falsy or empty, by its type.
LEMMA FalsyByType ==
  ASSUME NEW value
  PROVE  /\ value[1] = "number" => (IsFalsyOrEmpty(value) <=> value = Number(0))
         /\ value[1] = "bigint" => (IsFalsyOrEmpty(value) <=> value = BigInt(0))
         /\ value[1] = "boolean" => (IsFalsyOrEmpty(value) <=> value = Boolean(FALSE))
         /\ value[1] = "string" => (IsFalsyOrEmpty(value) <=> value = EmptyString)
         /\ value[1] = "array" => (IsFalsyOrEmpty(value) <=> value = ArrayOf(<<>>))
<1> DEFINE N == Number(0) B == BigInt(0) F == Boolean(FALSE) E == EmptyString A == ArrayOf(<<>>)
<1>2. IsFalsyOrEmpty(value) <=> value \in {N, B, F, E, A}
  BY DEF IsFalsyOrEmpty
<1>3. /\ N[1] = "number" /\ B[1] = "bigint" /\ F[1] = "boolean" /\ E[1] = "string"
      /\ A[1] = "array"
  BY TypesOfConstants
<1> SUFFICES /\ value[1] = "number" => (IsFalsyOrEmpty(value) <=> value = N)
             /\ value[1] = "bigint" => (IsFalsyOrEmpty(value) <=> value = B)
             /\ value[1] = "boolean" => (IsFalsyOrEmpty(value) <=> value = F)
             /\ value[1] = "string" => (IsFalsyOrEmpty(value) <=> value = E)
             /\ value[1] = "array" => (IsFalsyOrEmpty(value) <=> value = A)
  OBVIOUS
<1> HIDE DEF N, B, F, E, A
<1> QED BY <1>2, <1>3

\* What is zero or empty, by its type.
LEMMA ZeroOrEmptyByType ==
  ASSUME NEW value
  PROVE  /\ value[1] = "number" => (IsZeroOrEmpty(value) <=> value = Number(0))
         /\ value[1] = "bigint" => (IsZeroOrEmpty(value) <=> value = BigInt(0))
         /\ value[1] = "boolean" => (IsZeroOrEmpty(value) <=> value = Boolean(FALSE))
         /\ value[1] = "string" => (IsZeroOrEmpty(value) <=> value = EmptyString)
         /\ value[1] = "array" => (IsZeroOrEmpty(value) <=> value = ArrayOf(<<>>))
         /\ value[1] = "bytes" => (IsZeroOrEmpty(value) <=> value = EmptyBytes)
         /\ value[1] \in {"address", "date"} => ~IsZeroOrEmpty(value)
<1> DEFINE N == Number(0) B == BigInt(0) F == Boolean(FALSE) E == EmptyString A == ArrayOf(<<>>)
           Y == EmptyBytes
<1>2. IsZeroOrEmpty(value) <=> value \in {N, B, F, E, Y, A}
  BY DEF IsZeroOrEmpty
<1>3. /\ N[1] = "number" /\ B[1] = "bigint" /\ F[1] = "boolean" /\ E[1] = "string"
      /\ Y[1] = "bytes" /\ A[1] = "array"
  BY TypesOfConstants
<1> SUFFICES /\ value[1] = "number" => (IsZeroOrEmpty(value) <=> value = N)
             /\ value[1] = "bigint" => (IsZeroOrEmpty(value) <=> value = B)
             /\ value[1] = "boolean" => (IsZeroOrEmpty(value) <=> value = F)
             /\ value[1] = "string" => (IsZeroOrEmpty(value) <=> value = E)
             /\ value[1] = "array" => (IsZeroOrEmpty(value) <=> value = A)
             /\ value[1] = "bytes" => (IsZeroOrEmpty(value) <=> value = Y)
             /\ value[1] \in {"address", "date"} => ~IsZeroOrEmpty(value)
  OBVIOUS
<1> HIDE DEF N, B, F, E, Y, A
<1> QED BY <1>2, <1>3

\* A text is empty if what is in it is.
LEMMA TextIsEmpty ==
  ASSUME NEW form, NEW content
  PROVE  String(form, content) = EmptyString <=> form = "text" /\ content = EmptyBytes
BY TypesOfValues DEF EmptyString

\* A number is put into the query as it is.
LEMMA SetNumber ==
  ASSUME NEW argument \in ArgumentsFor("number")
  PROVE  IsFalsyOrEmpty(SetValue("number", argument)) <=> IsZeroOrEmpty(argument)
<1>1. SetValue("number", argument) = argument
  BY DEF SetValue
<1>2. argument \in {"number", "bigint"} \X Nat
  BY ArgumentsAssumption DEF ArgumentsFor
<1>3. argument[1] \in {"number", "bigint"}
  BY <1>2
<1> QED
  BY <1>1, <1>3, FalsyByType, ZeroOrEmptyByType

\* The text of a number is never empty.
LEMMA SetPrinted ==
  ASSUME NEW argument \in ArgumentsFor("printed")
  PROVE  ~IsFalsyOrEmpty(SetValue("printed", argument))
<1>1. SetValue("printed", argument) = Printed(argument)
  BY DEF SetValue
<1>2. argument \in {"number", "bigint"} \X Nat
  BY ArgumentsAssumption DEF ArgumentsFor
<1>3. Printed(argument) = String("digits", argument[2])
  BY <1>2 DEF Printed
<1>4. String("digits", argument[2])[1] = "string" /\ String("digits", argument[2]) # EmptyString
  BY TypesOfValues, TextIsEmpty
<1> QED
  BY <1>1, <1>3, <1>4, FalsyByType

\* A text is put into the query as it is.
LEMMA SetText ==
  ASSUME NEW argument \in ArgumentsFor("text")
  PROVE  IsFalsyOrEmpty(SetValue("text", argument)) <=> IsZeroOrEmpty(argument)
<1>1. SetValue("text", argument) = argument
  BY DEF SetValue
<1>2. argument = EmptyString \/ \E content \in Contents : argument = String("text", content)
  BY DEF ArgumentsFor, Texts
<1>3. argument[1] = "string"
  BY <1>2, TypesOfValues DEF EmptyString
<1> QED
  BY <1>1, <1>3, FalsyByType, ZeroOrEmptyByType

\* And so is a flag.
LEMMA SetFlag ==
  ASSUME NEW argument \in ArgumentsFor("flag")
  PROVE  IsFalsyOrEmpty(SetValue("flag", argument)) <=> IsZeroOrEmpty(argument)
<1>1. SetValue("flag", argument) = argument
  BY DEF SetValue
<1>2. argument = Boolean(TRUE) \/ argument = Boolean(FALSE)
  BY DEF ArgumentsFor
<1>3. argument[1] = "boolean"
  BY <1>2, TypesOfConstants
<1> QED
  BY <1>1, <1>3, FalsyByType, ZeroOrEmptyByType

\* Neither an address nor its text is empty.
LEMMA SetAddress ==
  ASSUME NEW argument \in ArgumentsFor("address")
  PROVE  ~IsFalsyOrEmpty(SetValue("address", argument)) /\ ~IsZeroOrEmpty(argument)
<1>1. SetValue("address", argument) = Printed(argument)
  BY DEF SetValue
<1>2. argument = AddressOf(Zeros(32)) \/ argument = String("address", Bytes(32, "key"))
  BY DEF ArgumentsFor
<1>3. argument[1] \in {"address", "string"}
  BY <1>2, TypesOfValues
<1>4. \E k : Printed(argument) = String("address", k)
  BY <1>2, TypesOfValues DEF Printed
<1>5. Printed(argument)[1] = "string" /\ Printed(argument) # EmptyString
  BY <1>4, TypesOfValues, TextIsEmpty
<1>6. ~IsZeroOrEmpty(argument)
  <2>1. CASE argument = AddressOf(Zeros(32))
    <3>1. argument[1] = "address"
      BY <2>1, TypesOfValues
    <3> QED BY <3>1, ZeroOrEmptyByType
  <2>2. CASE argument = String("address", Bytes(32, "key"))
    <3>1. argument[1] = "string" /\ argument # EmptyString
      BY <2>2, TypesOfValues, TextIsEmpty
    <3> QED BY <3>1, ZeroOrEmptyByType
  <2> QED BY <1>2, <2>1, <2>2
<1> QED
  BY <1>1, <1>5, <1>6, FalsyByType

\* A date becomes a text that is not empty, a text is kept.
LEMMA SetMoment ==
  ASSUME NEW argument \in ArgumentsFor("moment")
  PROVE  IsFalsyOrEmpty(SetValue("moment", argument)) <=> IsZeroOrEmpty(argument)
<1>1. \/ argument = EmptyString \/ argument = <<"date", 1>>
      \/ \E content \in Contents : argument = String("text", content)
  BY DEF ArgumentsFor, Texts
<1>2. CASE argument[1] = "date"
  <2>1. SetValue("moment", argument) = String("iso", argument[2])
    BY <1>2 DEF SetValue, IsA
  <2>2. String("iso", argument[2])[1] = "string" /\ String("iso", argument[2]) # EmptyString
    BY TypesOfValues, TextIsEmpty
  <2> QED
    BY <1>2, <2>1, <2>2, FalsyByType, ZeroOrEmptyByType
<1>3. CASE argument[1] = "string"
  <2>1. SetValue("moment", argument) = argument
    BY <1>3 DEF SetValue, IsA
  <2> QED
    BY <1>3, <2>1, FalsyByType, ZeroOrEmptyByType
<1> QED
  BY <1>1, <1>2, <1>3, TypesOfValues DEF EmptyString

\* Bytes become an empty text exactly if there are none, a text is kept.
LEMMA SetFunnelled ==
  ASSUME NEW argument \in ArgumentsFor("funnelled")
  PROVE  IsFalsyOrEmpty(SetValue("funnelled", argument)) <=> IsZeroOrEmpty(argument)
<1>1. \/ argument = EmptyBytes \/ argument \in Contents
      \/ \E content \in Contents : argument = String("base64", content)
  BY DEF ArgumentsFor
<1>2. \A content \in Contents : content[1] = "bytes" /\ content # EmptyBytes
  BY ArgumentsAssumption
<1>3. CASE argument[1] = "bytes"
  <2>1. SetValue("funnelled", argument) = Base64(argument)
    BY <1>3 DEF SetValue, IsA
  <2>2. CASE argument = EmptyBytes
    <3>1. SetValue("funnelled", argument) = EmptyString
      BY <2>1, <2>2 DEF Base64
    <3>2. EmptyString[1] = "string"
      BY TypesOfValues DEF EmptyString
    <3> QED
      BY <1>3, <2>2, <3>1, <3>2, FalsyByType, ZeroOrEmptyByType
  <2>3. CASE argument # EmptyBytes
    <3>1. SetValue("funnelled", argument) = String("base64", argument)
      BY <2>1, <2>3 DEF Base64
    <3>2. String("base64", argument)[1] = "string" /\ String("base64", argument) # EmptyString
      BY TypesOfValues, TextIsEmpty
    <3> QED
      BY <1>3, <2>3, <3>1, <3>2, FalsyByType, ZeroOrEmptyByType
  <2> QED BY <2>2, <2>3
<1>4. CASE argument[1] = "string"
  <2>1. SetValue("funnelled", argument) = argument
    BY <1>4 DEF SetValue, IsA
  <2> QED
    BY <1>4, <2>1, FalsyByType, ZeroOrEmptyByType
<1>5. argument[1] = "bytes" \/ argument[1] = "string"
  BY <1>1, <1>2, TypesOfValues DEF EmptyBytes
<1> QED
  BY <1>3, <1>4, <1>5

\* A list is empty exactly if it is removed, and if its text is.
LEMMA SetList ==
  ASSUME NEW argument \in ArgumentsFor("list")
  PROVE  /\ IsFalsyOrEmpty(SetValue("list", argument)) <=> IsZeroOrEmpty(argument)
         /\ IsFalsyOrEmpty(SetValue("joined", argument)) <=> IsZeroOrEmpty(argument)
<1>1. argument = ArrayOf(<<>>) \/ \E text \in Texts : argument = ArrayOf(<<text>>)
  BY DEF ArgumentsFor
<1>2. SetValue("list", argument) = argument /\ SetValue("joined", argument) = Joined(argument)
  BY DEF SetValue
<1>3. argument[1] = "array"
  <2>1. CASE argument = ArrayOf(<<>>)
    BY <2>1, TypesOfConstants
  <2>2. CASE \E text \in Texts : argument = ArrayOf(<<text>>)
    <3>1. PICK text \in Texts : argument = ArrayOf(<<text>>)
      BY <2>2
    <3> QED BY <3>1 DEF ArrayOf
  <2> QED BY <1>1, <2>1, <2>2
<1>4. IsFalsyOrEmpty(Joined(argument)) <=> argument = ArrayOf(<<>>)
  <2>1. CASE argument = ArrayOf(<<>>)
    <3>1. Joined(argument) = EmptyString
      BY <2>1 DEF Joined
    <3> QED BY <2>1, <3>1 DEF IsFalsyOrEmpty
  <2>2. CASE argument # ArrayOf(<<>>)
    <3>1. Joined(argument) = String("joined", argument[2])
      BY <2>2 DEF Joined
    <3>2. String("joined", argument[2])[1] = "string" /\ String("joined", argument[2]) # EmptyString
      BY TypesOfValues, TextIsEmpty
    <3> QED BY <2>2, <3>1, <3>2, FalsyByType
  <2> QED BY <2>1, <2>2
<1> QED
  BY <1>2, <1>3, <1>4, FalsyByType, ZeroOrEmptyByType

\* What a setter puts into the query is removed from it exactly if the argument
\* is zero or empty and the setter makes no text of a number.
LEMMA RemovedIfZeroOrEmpty ==
  ASSUME NEW kind \in Kinds, NEW argument \in ArgumentsFor(kind)
  PROVE  IsFalsyOrEmpty(SetValue(kind, argument)) <=> kind # "printed" /\ IsZeroOrEmpty(argument)
<1>1. kind = "joined" => argument \in ArgumentsFor("list")
  BY DEF ArgumentsFor
<1> QED
  BY <1>1, SetNumber, SetPrinted, SetText, SetFlag, SetAddress, SetMoment, SetFunnelled, SetList
     DEF Kinds

\* And the URL has the text of the argument, which no setter changes.
LEMMA SetIsText ==
  ASSUME NEW kind \in Kinds, NEW argument \in ArgumentsFor(kind)
  PROVE  Printed(SetValue(kind, argument)) = AsText(argument)
<1>1. CASE kind \in {"number", "printed"}
  <2>1. argument \in {"number", "bigint"} \X Nat
    BY <1>1, ArgumentsAssumption DEF ArgumentsFor
  <2>2. argument[1] \in {"number", "bigint"}
    BY <2>1
  <2>3. AsText(argument) = Printed(argument) /\ Printed(argument) = String("digits", argument[2])
    BY <2>2 DEF AsText, Printed, IsA
  <2>4. Printed(String("digits", argument[2])) = String("digits", argument[2])
    BY TypesOfValues DEF Printed
  <2> QED BY <1>1, <2>3, <2>4 DEF SetValue
<1>2. CASE kind = "text"
  <2>1. argument[1] = "string"
    BY <1>2, TypesOfValues DEF ArgumentsFor, Texts, EmptyString
  <2> QED BY <1>2, <2>1 DEF SetValue, AsText, IsA
<1>3. CASE kind = "flag"
  <2>1. argument[1] = "boolean"
    BY <1>3, TypesOfConstants DEF ArgumentsFor
  <2> QED BY <1>3, <2>1 DEF SetValue, AsText, IsA
<1>4. CASE kind = "address"
  <2>1. argument[1] \in {"address", "string"}
    BY <1>4, TypesOfValues DEF ArgumentsFor
  <2>2. AsText(argument) = Printed(argument)
    BY <2>1 DEF AsText, IsA
  <2>3. Printed(argument)[1] = "string"
    BY <2>1, TypesOfValues DEF Printed
  <2>4. Printed(Printed(argument)) = Printed(argument)
    BY <2>3 DEF Printed
  <2> QED BY <1>4, <2>2, <2>4 DEF SetValue
<1>5. CASE kind = "moment"
  <2>1. argument[1] \in {"date", "string"}
    BY <1>5, TypesOfValues DEF ArgumentsFor, Texts, EmptyString
  <2>2. CASE argument[1] = "date"
    <3>1. SetValue(kind, argument) = String("iso", argument[2])
      BY <1>5, <2>2 DEF SetValue, IsA
    <3>2. Printed(String("iso", argument[2])) = String("iso", argument[2])
      BY TypesOfValues DEF Printed
    <3> QED BY <2>2, <3>1, <3>2 DEF AsText, IsA
  <2>3. CASE argument[1] = "string"
    BY <1>5, <2>3 DEF SetValue, AsText, IsA
  <2> QED BY <2>1, <2>2, <2>3
<1>6. CASE kind = "funnelled"
  <2>1. argument[1] \in {"bytes", "string"}
    <3>1. \A content \in Contents : content[1] = "bytes"
      BY ArgumentsAssumption
    <3> QED BY <1>6, <3>1, TypesOfValues DEF ArgumentsFor, EmptyBytes
  <2>2. CASE argument[1] = "bytes"
    <3>1. SetValue(kind, argument) = Base64(argument)
      BY <1>6, <2>2 DEF SetValue, IsA
    <3>2. Base64(argument)[1] = "string"
      BY TypesOfValues DEF Base64, EmptyString
    <3>3. Printed(Base64(argument)) = Base64(argument)
      BY <3>2 DEF Printed
    <3> QED BY <2>2, <3>1, <3>3 DEF AsText, IsA
  <2>3. CASE argument[1] = "string"
    BY <1>6, <2>3 DEF SetValue, AsText, IsA
  <2> QED BY <2>1, <2>2, <2>3
<1>7. CASE kind \in {"list", "joined"}
  <2>1. argument[1] = "array"
    <3>1. argument = ArrayOf(<<>>) \/ \E text \in Texts : argument = ArrayOf(<<text>>)
      BY <1>7 DEF ArgumentsFor
    <3>2. \A elements : ArrayOf(elements)[1] = "array"
      BY TypesOfValues
    <3> QED BY <3>1, <3>2
  <2>2. AsText(argument) = Joined(argument) /\ Printed(argument) = Joined(argument)
    BY <2>1 DEF AsText, Printed, IsA
  <2>3. Joined(argument)[1] = "string"
    BY TypesOfValues DEF Joined, EmptyString
  <2>4. Printed(Joined(argument)) = Joined(argument)
    BY <2>3 DEF Printed
  <2> QED BY <1>7, <2>2, <2>4 DEF SetValue
<1> QED
  BY <1>1, <1>2, <1>3, <1>4, <1>5, <1>6, <1>7 DEF Kinds

-----------------------------------------------------------------------------
(* The tables of builders *)

\* What the parameters of a builder are, and what its query has from the start.
IsRequest(request) ==
  /\ \A key \in DOMAIN request.parameters : request.parameters[key] \in Kinds
  /\ \A key \in DOMAIN request.fixed :
       /\ request.fixed[key] \in {"msgpack", "zero", "boxName"}
       /\ request.fixed[key] # "zero" => key \notin DOMAIN request.parameters
       /\ request.fixed[key] = "zero" =>
            key \in DOMAIN request.parameters /\ request.method = "get"

\* The builders whose query has nothing from the start.
LEMMA NothingFixed ==
  ASSUME NEW request, DOMAIN request.fixed = {},
         \A key \in DOMAIN request.parameters : request.parameters[key] \in Kinds
  PROVE  IsRequest(request)
BY DEF IsRequest


\* The parameters that a builder of algod is given.
LEMMA AlgodWith ==
  ASSUME NEW request, NEW parameters, "parameters" \in DOMAIN request
  PROVE  LET with == AlgodRequest!With(request, parameters)
         IN  /\ DOMAIN with = DOMAIN request
             /\ \A field \in DOMAIN request : field # "parameters" => with[field] = request[field]
             /\ DOMAIN with.parameters = {p[1] : p \in parameters}
             /\ \A key \in DOMAIN with.parameters :
                  \E p \in parameters : p[1] = key /\ with.parameters[key] = p[2]
<1> DEFINE kinds ==
             [key \in {p[1] : p \in parameters} |-> (CHOOSE p \in parameters : p[1] = key)[2]]
           with == [request EXCEPT !.parameters = kinds]
<1>1. AlgodRequest!With(request, parameters) = with
  BY DEF AlgodRequest!With
<1>2. \A key \in DOMAIN kinds : \E p \in parameters : p[1] = key /\ kinds[key] = p[2]
  OBVIOUS
<1>3. DOMAIN kinds = {p[1] : p \in parameters}
  OBVIOUS
<1> HIDE DEF kinds
<1>4. /\ DOMAIN with = DOMAIN request
      /\ \A field \in DOMAIN request : field # "parameters" => with[field] = request[field]
      /\ with.parameters = kinds
  OBVIOUS
<1> QED BY <1>1, <1>2, <1>3, <1>4

\* A request of algod before it is given any.
LEMMA AlgodBare ==
  ASSUME NEW method, NEW decodes, NEW class
  PROVE  LET request == AlgodRequest!Request(method, decodes, class)
         IN  /\ {"parameters", "fixed", "method"} \subseteq DOMAIN request
             /\ DOMAIN request.parameters = {} /\ DOMAIN request.fixed = {}
             /\ request.method = method
BY DEF AlgodRequest!Request, AlgodRequest!NoParameters

\* A get of algod with parameters of any kinds.
LEMMA AlgodGetWith ==
  ASSUME NEW class, NEW parameters, \A p \in parameters : p[2] \in Kinds
  PROVE  IsRequest(AlgodRequest!With(AlgodRequest!Get(class), parameters))
BY AlgodBare, AlgodWith, NothingFixed DEF AlgodRequest!Get

\* A get of algod without parameters.
LEMMA AlgodGet ==
  ASSUME NEW class
  PROVE  IsRequest(AlgodRequest!Get(class))
BY AlgodBare, NothingFixed DEF AlgodRequest!Get

\* The parameters that a builder of the indexer is given.
LEMMA IndexerWith ==
  ASSUME NEW request, NEW parameters, "parameters" \in DOMAIN request
  PROVE  LET with == IndexerRequest!With(request, parameters)
         IN  /\ DOMAIN with = DOMAIN request
             /\ \A field \in DOMAIN request : field # "parameters" => with[field] = request[field]
             /\ DOMAIN with.parameters = {p[1] : p \in parameters}
             /\ \A key \in DOMAIN with.parameters :
                  \E p \in parameters : p[1] = key /\ with.parameters[key] = p[2]
<1> DEFINE kinds ==
             [key \in {p[1] : p \in parameters} |-> (CHOOSE p \in parameters : p[1] = key)[2]]
           with == [request EXCEPT !.parameters = kinds]
<1>1. IndexerRequest!With(request, parameters) = with
  BY DEF IndexerRequest!With
<1>2. \A key \in DOMAIN kinds : \E p \in parameters : p[1] = key /\ kinds[key] = p[2]
  OBVIOUS
<1>3. DOMAIN kinds = {p[1] : p \in parameters}
  OBVIOUS
<1> HIDE DEF kinds
<1>4. /\ DOMAIN with = DOMAIN request
      /\ \A field \in DOMAIN request : field # "parameters" => with[field] = request[field]
      /\ with.parameters = kinds
  OBVIOUS
<1> QED BY <1>1, <1>2, <1>3, <1>4

\* A request of the indexer before it is given any.
LEMMA IndexerBare ==
  ASSUME NEW method, NEW decodes, NEW class
  PROVE  LET request == IndexerRequest!Request(method, decodes, class)
         IN  /\ {"parameters", "fixed", "method"} \subseteq DOMAIN request
             /\ DOMAIN request.parameters = {} /\ DOMAIN request.fixed = {}
             /\ request.method = method
BY DEF IndexerRequest!Request, IndexerRequest!NoParameters

\* A get of the indexer with parameters of any kinds.
LEMMA IndexerGetWith ==
  ASSUME NEW class, NEW parameters, \A p \in parameters : p[2] \in Kinds
  PROVE  IsRequest(IndexerRequest!With(IndexerRequest!Get(class), parameters))
BY IndexerBare, IndexerWith, NothingFixed DEF IndexerRequest!Get

\* A get of the indexer without parameters.
LEMMA IndexerGet ==
  ASSUME NEW class
  PROVE  IsRequest(IndexerRequest!Get(class))
BY IndexerBare, NothingFixed DEF IndexerRequest!Get

\* A get that asks for msgpack, which is no parameter of any.
LEMMA MsgpackWith ==
  ASSUME NEW class, NEW parameters,
         \A p \in parameters : p[1] # "format" /\ p[2] \in Kinds
  PROVE  /\ IsRequest(AlgodRequest!GetMsgpack(class))
         /\ IsRequest(AlgodRequest!With(AlgodRequest!GetMsgpack(class), parameters))
<1> DEFINE request == AlgodRequest!GetMsgpack(class)
           with == AlgodRequest!With(request, parameters)
<1>1. /\ {"parameters", "fixed", "method"} \subseteq DOMAIN request
      /\ DOMAIN request.parameters = {} /\ request.fixed = [format |-> "msgpack"]
  BY AlgodBare DEF AlgodRequest!GetMsgpack
<1>2. /\ with.fixed = request.fixed
      /\ \A key \in DOMAIN with.parameters : key # "format" /\ with.parameters[key] \in Kinds
  BY <1>1, AlgodWith
<1>3. DOMAIN request.fixed = {"format"} /\ request.fixed["format"] = "msgpack"
  BY <1>1
<1> HIDE DEF request, with
<1>4. \A key \in DOMAIN request.fixed : key = "format" /\ request.fixed[key] = "msgpack"
  BY <1>3
<1>5. IsRequest(request)
  BY <1>1, <1>4 DEF IsRequest
<1>6. IsRequest(with)
  BY <1>2, <1>4 DEF IsRequest
<1> QED BY <1>5, <1>6 DEF request, with

\* What posts, with and without a query.
LEMMA PostedWith ==
  ASSUME NEW class, NEW type, NEW parameters, \A p \in parameters : p[2] \in Kinds
  PROVE  LET request == AlgodRequest!Post(class, type)
         IN  /\ IsRequest(request)
             /\ IsRequest(AlgodRequest!WithoutQuery(request))
             /\ IsRequest(AlgodRequest!With(request, parameters))
<1>1. /\ {"parameters", "fixed", "method"} \subseteq DOMAIN AlgodRequest!Post(class, type)
      /\ DOMAIN AlgodRequest!Post(class, type).parameters = {}
      /\ DOMAIN AlgodRequest!Post(class, type).fixed = {}
  BY AlgodBare DEF AlgodRequest!Post
<1> QED
  BY <1>1, AlgodWith, NothingFixed DEF AlgodRequest!WithoutQuery

\* The builders whose constructor is one of a kind.
LEMMA FixedRequests ==
  /\ IsRequest(AlgodRequest!GetApplicationBoxByName)
  /\ IsRequest(IndexerRequest!LookupApplicationBoxByIDandName)
  /\ IsRequest(AlgodRequest!GetApplicationBoxes)
  /\ IsRequest(AlgodRequest!SimulateRawTransactions)
  /\ IsRequest(AlgodRequest!SuggestedParamsRequest)
<1>1. IsRequest(AlgodRequest!GetApplicationBoxByName)
  <2> DEFINE request == AlgodRequest!GetApplicationBoxByName
  <2>1. /\ DOMAIN request.parameters = {}
        /\ request.fixed = [name |-> "boxName"]
    BY AlgodBare DEF AlgodRequest!GetApplicationBoxByName, AlgodRequest!Get
  <2> HIDE DEF request
  <2>2. \A key \in DOMAIN request.fixed : request.fixed[key] = "boxName"
    BY <2>1
  <2>3. IsRequest(request)
    BY <2>1, <2>2 DEF IsRequest
  <2> QED BY <2>3 DEF request
<1>2. IsRequest(IndexerRequest!LookupApplicationBoxByIDandName)
  <2> DEFINE request == IndexerRequest!LookupApplicationBoxByIDandName
  <2>1. /\ DOMAIN request.parameters = {}
        /\ request.fixed = [name |-> "boxName"]
    BY IndexerBare DEF IndexerRequest!LookupApplicationBoxByIDandName, IndexerRequest!Get
  <2> HIDE DEF request
  <2>2. \A key \in DOMAIN request.fixed : request.fixed[key] = "boxName"
    BY <2>1
  <2>3. IsRequest(request)
    BY <2>1, <2>2 DEF IsRequest
  <2> QED BY <2>3 DEF request
<1>3. IsRequest(AlgodRequest!GetApplicationBoxes)
  <2> DEFINE request == AlgodRequest!GetApplicationBoxes
             pairs == AlgodRequest!Numbers({"max"})
             got == AlgodRequest!Get(AlgodRequest!Algod("BoxesResponse"))
             with == AlgodRequest!With(got, pairs)
  <2>1. /\ {"parameters", "fixed", "method"} \subseteq DOMAIN got
        /\ got.method = "get"
    BY AlgodBare DEF AlgodRequest!Get
  <2>2. \A p \in pairs : p[2] = "number" /\ p[1] = "max"
    BY DEF AlgodRequest!Numbers, AlgodRequest!Parameters
  <2>3. <<"max", "number">> \in pairs
    BY DEF AlgodRequest!Numbers, AlgodRequest!Parameters
  <2>4. {p[1] : p \in pairs} = {"max"}
    BY <2>2, <2>3
  <2>5. request = [with EXCEPT !.fixed = [max |-> "zero"]]
    BY DEF AlgodRequest!GetApplicationBoxes
  <2> HIDE DEF pairs, got, request
  <2>6. /\ {"parameters", "fixed", "method"} \subseteq DOMAIN with
        /\ with.method = "get" /\ DOMAIN with.parameters = {"max"}
        /\ \A key \in DOMAIN with.parameters : with.parameters[key] = "number"
    BY <2>1, <2>2, <2>4, AlgodWith
  <2> HIDE DEF with
  <2>7. /\ request.fixed = [max |-> "zero"]
        /\ request.parameters = with.parameters /\ request.method = "get"
    BY <2>5, <2>6
  <2>8. \A key \in DOMAIN request.fixed : key = "max" /\ request.fixed[key] = "zero"
    BY <2>7
  <2>9. IsRequest(request)
    BY <2>6, <2>7, <2>8 DEF IsRequest, Kinds
  <2> QED BY <2>9 DEF request
<1>4. IsRequest(AlgodRequest!SimulateRawTransactions)
  <2> DEFINE request == AlgodRequest!SimulateRawTransactions
  <2>1. /\ DOMAIN request.parameters = {}
        /\ request.fixed = [format |-> "msgpack"]
    BY AlgodBare DEF AlgodRequest!SimulateRawTransactions, AlgodRequest!Post
  <2> HIDE DEF request
  <2>2. \A key \in DOMAIN request.fixed : request.fixed[key] = "msgpack"
    BY <2>1
  <2>3. IsRequest(request)
    BY <2>1, <2>2 DEF IsRequest
  <2> QED BY <2>3 DEF request
<1>5. IsRequest(AlgodRequest!SuggestedParamsRequest)
  BY AlgodBare, NothingFixed DEF AlgodRequest!SuggestedParamsRequest, AlgodRequest!Get
<1> QED BY <1>1, <1>2, <1>3, <1>4, <1>5

\* The parameters of algod are of the kinds that setters have.
LEMMA AlgodKinds ==
  ASSUME NEW keys
  PROVE  \A p \in
           AlgodRequest!Numbers(keys) \cup AlgodRequest!Texts(keys)
           \cup AlgodRequest!Flags(keys) \cup AlgodRequest!Lists(keys)
           \cup AlgodRequest!Printed(keys) \cup AlgodRequest!Addresses(keys)
           \cup AlgodRequest!Joined(keys) \cup AlgodRequest!Moments(keys)
           \cup AlgodRequest!Funnelled(keys) : p[1] \in keys /\ p[2] \in Kinds
BY DEF Kinds, AlgodRequest!Parameters,
   AlgodRequest!Numbers, AlgodRequest!Texts, AlgodRequest!Flags, AlgodRequest!Lists,
   AlgodRequest!Printed, AlgodRequest!Addresses, AlgodRequest!Joined,
   AlgodRequest!Moments, AlgodRequest!Funnelled

\* The parameters of the indexer are of the kinds that setters have.
LEMMA IndexerKinds ==
  ASSUME NEW keys
  PROVE  \A p \in
           IndexerRequest!Numbers(keys) \cup IndexerRequest!Texts(keys)
           \cup IndexerRequest!Flags(keys) \cup IndexerRequest!Lists(keys)
           \cup IndexerRequest!Printed(keys) \cup IndexerRequest!Addresses(keys)
           \cup IndexerRequest!Joined(keys) \cup IndexerRequest!Moments(keys)
           \cup IndexerRequest!Funnelled(keys) : p[1] \in keys /\ p[2] \in Kinds
BY DEF Kinds, IndexerRequest!Parameters,
   IndexerRequest!Numbers, IndexerRequest!Texts, IndexerRequest!Flags,
   IndexerRequest!Lists, IndexerRequest!Printed, IndexerRequest!Addresses,
   IndexerRequest!Joined, IndexerRequest!Moments, IndexerRequest!Funnelled

\* Every builder of algod, one by one.
LEMMA AlgodRequests ==
  \A name \in DOMAIN AlgodRequest!Builders : IsRequest(AlgodRequest!Builders[name])
<1>1. /\ IsRequest(AlgodRequest!AccountApplicationInformation)
      /\ IsRequest(AlgodRequest!AccountAssetInformation)
      /\ IsRequest(AlgodRequest!GetApplicationByID)
      /\ IsRequest(AlgodRequest!GetAssetByID)
      /\ IsRequest(AlgodRequest!GetBlockHash)
      /\ IsRequest(AlgodRequest!GetBlockOffsetTimestamp)
      /\ IsRequest(AlgodRequest!GetBlockTxids)
      /\ IsRequest(AlgodRequest!GetSyncRound)
      /\ IsRequest(AlgodRequest!LightBlockHeaderProof)
      /\ IsRequest(AlgodRequest!StateProof)
      /\ IsRequest(AlgodRequest!Status)
      /\ IsRequest(AlgodRequest!StatusAfterBlock)
      /\ IsRequest(AlgodRequest!Supply)
      /\ IsRequest(AlgodRequest!Versions)
  BY AlgodGet DEF
     AlgodRequest!AccountApplicationInformation, AlgodRequest!AccountAssetInformation,
     AlgodRequest!GetApplicationByID, AlgodRequest!GetAssetByID,
     AlgodRequest!GetBlockHash, AlgodRequest!GetBlockOffsetTimestamp,
     AlgodRequest!GetBlockTxids, AlgodRequest!GetSyncRound,
     AlgodRequest!LightBlockHeaderProof, AlgodRequest!StateProof, AlgodRequest!Status,
     AlgodRequest!StatusAfterBlock, AlgodRequest!Supply, AlgodRequest!Versions
<1>2. IsRequest(AlgodRequest!AccountApplicationsInformation)
  BY AlgodGetWith, AlgodKinds DEF AlgodRequest!AccountApplicationsInformation, AlgodRequest!Page
<1>3. IsRequest(AlgodRequest!AccountAssetsInformation)
  BY AlgodGetWith, AlgodKinds DEF AlgodRequest!AccountAssetsInformation, AlgodRequest!Page
<1>4. IsRequest(AlgodRequest!AccountInformation)
  BY AlgodGetWith, AlgodKinds DEF AlgodRequest!AccountInformation
<1>5. IsRequest(AlgodRequest!GetTransactionProof)
  BY AlgodGetWith, AlgodKinds DEF AlgodRequest!GetTransactionProof
<1>6. /\ IsRequest(AlgodRequest!Block)
      /\ IsRequest(AlgodRequest!GetLedgerStateDelta)
      /\ IsRequest(AlgodRequest!GetLedgerStateDeltaForTransactionGroup)
      /\ IsRequest(AlgodRequest!GetTransactionGroupLedgerStateDeltasForRound)
      /\ IsRequest(AlgodRequest!PendingTransactionInformation)
      /\ IsRequest(AlgodRequest!PendingTransactions)
      /\ IsRequest(AlgodRequest!PendingTransactionsByAddress)
  BY MsgpackWith, AlgodKinds DEF
     AlgodRequest!Block, AlgodRequest!GetLedgerStateDelta,
     AlgodRequest!GetLedgerStateDeltaForTransactionGroup,
     AlgodRequest!GetTransactionGroupLedgerStateDeltasForRound,
     AlgodRequest!PendingTransactionInformation, AlgodRequest!PendingTransactions,
     AlgodRequest!PendingTransactionsByAddress
<1>7. /\ IsRequest(AlgodRequest!Compile)
      /\ IsRequest(AlgodRequest!Disassemble)
      /\ IsRequest(AlgodRequest!Dryrun)
      /\ IsRequest(AlgodRequest!SendRawTransaction)
  BY PostedWith, AlgodKinds DEF
     AlgodRequest!Compile, AlgodRequest!Disassemble, AlgodRequest!Dryrun,
     AlgodRequest!SendRawTransaction
<1>8. /\ IsRequest(AlgodRequest!Genesis)
      /\ IsRequest(AlgodRequest!HealthCheck)
      /\ IsRequest(AlgodRequest!Ready)
      /\ IsRequest(AlgodRequest!SetBlockOffsetTimestamp)
      /\ IsRequest(AlgodRequest!SetSyncRound)
      /\ IsRequest(AlgodRequest!UnsetSyncRound)
  BY NothingFixed, AlgodBare DEF
     AlgodRequest!GetText, AlgodRequest!GetNothing, AlgodRequest!PostNothing,
     AlgodRequest!DeleteNothing, AlgodRequest!WithoutQuery, AlgodRequest!Genesis,
     AlgodRequest!HealthCheck, AlgodRequest!Ready, AlgodRequest!SetBlockOffsetTimestamp,
     AlgodRequest!SetSyncRound, AlgodRequest!UnsetSyncRound
<1>9. /\ IsRequest(AlgodRequest!GetApplicationBoxByName)
      /\ IsRequest(AlgodRequest!GetApplicationBoxes)
      /\ IsRequest(AlgodRequest!SimulateRawTransactions)
      /\ IsRequest(AlgodRequest!SuggestedParamsRequest)
  BY FixedRequests
<1> QED
  BY <1>1, <1>2, <1>3, <1>4, <1>5, <1>6, <1>7, <1>8, <1>9 DEF AlgodRequest!Builders

\* Every builder of the indexer, one by one.
LEMMA IndexerRequests ==
  \A name \in DOMAIN IndexerRequest!Builders : IsRequest(IndexerRequest!Builders[name])
<1>1. IsRequest(IndexerRequest!LookupAccountAppLocalStates)
  BY IndexerGetWith, IndexerKinds DEF IndexerRequest!LookupAccountAppLocalStates
<1>2. IsRequest(IndexerRequest!LookupAccountAssets)
  BY IndexerGetWith, IndexerKinds DEF IndexerRequest!LookupAccountAssets
<1>3. IsRequest(IndexerRequest!LookupAccountByID)
  BY IndexerGetWith, IndexerKinds DEF IndexerRequest!LookupAccountByID
<1>4. IsRequest(IndexerRequest!LookupAccountCreatedApplications)
  BY IndexerGetWith, IndexerKinds DEF IndexerRequest!LookupAccountCreatedApplications
<1>5. IsRequest(IndexerRequest!LookupAccountCreatedAssets)
  BY IndexerGetWith, IndexerKinds DEF IndexerRequest!LookupAccountCreatedAssets
<1>6. IsRequest(IndexerRequest!LookupAccountTransactions)
  BY IndexerGetWith, IndexerKinds DEF IndexerRequest!LookupAccountTransactions
<1>7. IsRequest(IndexerRequest!LookupApplicationLogs)
  BY IndexerGetWith, IndexerKinds DEF IndexerRequest!LookupApplicationLogs
<1>8. IsRequest(IndexerRequest!LookupApplications)
  BY IndexerGetWith, IndexerKinds DEF IndexerRequest!LookupApplications
<1>9. IsRequest(IndexerRequest!LookupAssetBalances)
  BY IndexerGetWith, IndexerKinds DEF IndexerRequest!LookupAssetBalances
<1>10. IsRequest(IndexerRequest!LookupAssetByID)
  BY IndexerGetWith, IndexerKinds DEF IndexerRequest!LookupAssetByID
<1>11. IsRequest(IndexerRequest!LookupAssetTransactions)
  BY IndexerGetWith, IndexerKinds DEF IndexerRequest!LookupAssetTransactions
<1>12. IsRequest(IndexerRequest!LookupBlock)
  BY IndexerGetWith, IndexerKinds DEF IndexerRequest!LookupBlock
<1>13. IsRequest(IndexerRequest!SearchAccounts)
  BY IndexerGetWith, IndexerKinds DEF IndexerRequest!SearchAccounts
<1>14. IsRequest(IndexerRequest!SearchForApplicationBoxes)
  BY IndexerGetWith, IndexerKinds DEF IndexerRequest!SearchForApplicationBoxes
<1>15. IsRequest(IndexerRequest!SearchForApplications)
  BY IndexerGetWith, IndexerKinds DEF IndexerRequest!SearchForApplications
<1>16. IsRequest(IndexerRequest!SearchForAssets)
  BY IndexerGetWith, IndexerKinds DEF IndexerRequest!SearchForAssets
<1>17. IsRequest(IndexerRequest!SearchForBlockHeaders)
  BY IndexerGetWith, IndexerKinds DEF IndexerRequest!SearchForBlockHeaders
<1>18. IsRequest(IndexerRequest!SearchForTransactions)
  BY IndexerGetWith, IndexerKinds DEF IndexerRequest!SearchForTransactions
<1>19. /\ IsRequest(IndexerRequest!LookupApplicationBoxByIDandName)
  BY FixedRequests
<1>20. /\ IsRequest(IndexerRequest!LookupTransactionByID)
      /\ IsRequest(IndexerRequest!MakeHealthCheck)
  BY IndexerGet DEF
     IndexerRequest!LookupTransactionByID, IndexerRequest!MakeHealthCheck
<1> QED
  BY <1>1, <1>2, <1>3, <1>4, <1>5, <1>6, <1>7, <1>8, <1>9, <1>10, <1>11,
     <1>12, <1>13, <1>14, <1>15, <1>16, <1>17, <1>18, <1>19, <1>20
     DEF IndexerRequest!Builders

\* Every builder.
LEMMA BuilderIsRequest ==
  ASSUME NEW name \in AllBuilders
  PROVE  IsRequest(RequestOf(name))
<1>1. CASE \E n \in DOMAIN AlgodRequest!Builders : name = <<"algod", n>>
  BY <1>1, AlgodRequests DEF RequestOf
<1>2. CASE \E n \in DOMAIN IndexerRequest!Builders : name = <<"indexer", n>>
  BY <1>2, IndexerRequests DEF RequestOf
<1> QED BY <1>1, <1>2 DEF AllBuilders

\* Of what constructors put into the query only a zero is removed.
LEMMA FixedIsKept ==
  ASSUME NEW what \in {"msgpack", "zero", "boxName"}
  PROVE  IsFalsyOrEmpty(FixedValue(what)) <=> what = "zero"
<1>1. CASE what = "msgpack"
  <2>1. FixedValue(what) = String("text", Bytes(4, "msgpack"))
    BY <1>1 DEF FixedValue, Word
  <2>2. Bytes(4, "msgpack") # EmptyBytes
    <3>1. Bytes(4, "msgpack")[2] = 4 /\ EmptyBytes[2] = 0
      BY DEF EmptyBytes, Bytes
    <3> QED BY <3>1
  <2>3. FixedValue(what)[1] = "string" /\ FixedValue(what) # EmptyString
    BY <2>1, <2>2, TypesOfValues, TextIsEmpty
  <2> QED BY <1>1, <2>3, FalsyByType
<1>2. CASE what = "boxName"
  <2>1. FixedValue(what) = String("b64", SomeText)
    BY <1>2 DEF FixedValue
  <2>2. FixedValue(what)[1] = "string" /\ FixedValue(what) # EmptyString
    BY <2>1, TypesOfValues, TextIsEmpty
  <2> QED BY <1>2, <2>2, FalsyByType
<1>3. CASE what = "zero"
  <2>1. FixedValue(what) = Number(0)
    BY <1>3 DEF FixedValue
  <2> QED BY <1>3, <2>1 DEF IsFalsyOrEmpty
<1> QED BY <1>1, <1>2, <1>3

-----------------------------------------------------------------------------
(* The inductive invariant *)

\* The query has the last value of every parameter that was given, but for those
\* that a get has removed, and beside these what the constructor put into it.
QueryOfGiven(request, q, g) ==
  /\ DOMAIN g \subseteq DOMAIN request.parameters
  /\ \A key \in DOMAIN g : g[key] \in ArgumentsFor(request.parameters[key])
  /\ \A key \in DOMAIN g :
       \/ key \in DOMAIN q /\ q[key] = SetValue(request.parameters[key], g[key])
       \/ /\ key \notin DOMAIN q /\ request.method = "get"
          /\ IsFalsyOrEmpty(SetValue(request.parameters[key], g[key]))
  /\ \A key \in DOMAIN q \ DOMAIN g :
       key \in DOMAIN request.fixed /\ q[key] = FixedValue(request.fixed[key])
  /\ \A key \in DOMAIN request.fixed : request.fixed[key] # "zero" => key \in DOMAIN q

\* A query that is made of what was given asks for it.
LEMMA AskedIsGiven ==
  ASSUME NEW request, IsRequest(request), request.sendsQuery,
         NEW q, NEW g, QueryOfGiven(request, q, g)
  PROVE  AsksForGiven(request, [given |-> g, asked |-> Asked(request, q)])
<1> DEFINE parameters == DOMAIN request.parameters
           asked == GetURL(QueryToSend(request, q))
           kept == {key \in DOMAIN request.fixed : request.fixed[key] # "zero"}
           value(key) == SetValue(request.parameters[key], g[key])
           sends(key) == key \in DOMAIN q /\ (request.method = "get" => ~IsFalsyOrEmpty(q[key]))
<1>1. /\ DOMAIN asked = {key \in DOMAIN q : sends(key)}
      /\ \A key \in DOMAIN asked : asked[key] = Printed(q[key])
  <2>1. CASE request.method = "get"
    BY <2>1 DEF GetURL, QueryToSend, RemoveFalsyOrEmpty
  <2>2. CASE request.method # "get"
    BY <2>2 DEF GetURL, QueryToSend
  <2> QED BY <2>1, <2>2
<1>2. \A key \in DOMAIN g :
        /\ key \in parameters
        /\ Printed(value(key)) = AsText(g[key])
        /\ IsFalsyOrEmpty(value(key)) <=>
             request.parameters[key] # "printed" /\ IsZeroOrEmpty(g[key])
  BY RemovedIfZeroOrEmpty, SetIsText DEF QueryOfGiven, IsRequest
<1>3. \A key \in DOMAIN g : sends(key) \/ MayBeLeftOut(request, key, g[key])
  BY <1>2 DEF QueryOfGiven, MayBeLeftOut
<1>4. \A key \in DOMAIN asked \cap DOMAIN g : asked[key] = AsText(g[key])
  BY <1>1, <1>2 DEF QueryOfGiven
<1>5. \A key \in DOMAIN q \ DOMAIN g : sends(key) <=> key \in kept
  BY FixedIsKept DEF QueryOfGiven, IsRequest
<1>6. \A key \in kept : key \notin parameters /\ key \in DOMAIN q /\ key \notin DOMAIN g
  BY DEF QueryOfGiven, IsRequest
<1>7. \A key \in DOMAIN asked \cap parameters : key \in DOMAIN g
  BY <1>1, <1>5, <1>6
<1>8. DOMAIN asked \ parameters = kept \ parameters
  BY <1>1, <1>2, <1>5, <1>6
<1>9. \A key \in DOMAIN g : key \in DOMAIN asked \/ MayBeLeftOut(request, key, g[key])
  BY <1>1, <1>3
<1> HIDE DEF asked, kept, value, sends
<1> QED
  BY <1>4, <1>7, <1>8, <1>9 DEF AsksForGiven, Asked, asked, kept, value

\* A setter makes the query of what is given then.
LEMMA SettingKeeps ==
  ASSUME NEW request, IsRequest(request), NEW q, NEW g, QueryOfGiven(request, q, g),
         NEW key \in DOMAIN request.parameters,
         NEW argument \in ArgumentsFor(request.parameters[key])
  PROVE  QueryOfGiven(request,
           Updated(q, key, SetValue(request.parameters[key], argument)),
           Updated(g, key, argument))
BY DEF QueryOfGiven, Updated

\* What a get removes from the query leaves it made of what was given.
LEMMA AskingKeeps ==
  ASSUME NEW request, IsRequest(request), request.method = "get",
         NEW q, NEW g, QueryOfGiven(request, q, g)
  PROVE  QueryOfGiven(request, RemoveFalsyOrEmpty(q), g)
<1> DEFINE r == RemoveFalsyOrEmpty(q)
<1>1. /\ DOMAIN r = {key \in DOMAIN q : ~IsFalsyOrEmpty(q[key])}
      /\ \A key \in DOMAIN r : r[key] = q[key]
  BY DEF RemoveFalsyOrEmpty
<1> HIDE DEF r
<1>2. \A key \in DOMAIN request.fixed : request.fixed[key] # "zero" => key \in DOMAIN r
  BY <1>1, FixedIsKept DEF QueryOfGiven, IsRequest
<1>3. QueryOfGiven(request, r, g)
  BY <1>1, <1>2 DEF QueryOfGiven
<1> QED BY <1>3 DEF r

Inv ==
  /\ builder \in AllBuilders
  /\ QueryOfGiven(RequestOf(builder), query, given)
  /\ \E S : calls \in Seq(S)
  /\ AsksForWhatWasGiven

\* The query is made of what was given at all times, whatever was asked before
\* (removeFalsyOrEmpty of client.ts, the setters of the builders).
THEOREM InvHolds == QueriesSpec => []Inv
<1>1. QueriesInit => Inv
  <2> SUFFICES ASSUME QueriesInit PROVE Inv
    OBVIOUS
  <2> DEFINE request == RequestOf(builder)
  <2>1. builder \in AllBuilders /\ given = EmptyQuery /\ calls = <<>>
    BY DEF QueriesInit
  <2>2. query = [key \in DOMAIN request.fixed |-> FixedValue(request.fixed[key])]
    BY DEF QueriesInit
  <2>3. DOMAIN given = {}
    BY <2>1 DEF EmptyQuery
  <2>4. calls \in Seq({}) /\ DOMAIN calls = {}
    BY <2>1
  <2> HIDE DEF request
  <2>5. QueryOfGiven(request, query, given)
    BY <2>2, <2>3 DEF QueryOfGiven
  <2> QED BY <2>1, <2>4, <2>5 DEF Inv, AsksForWhatWasGiven, request
<1>2. Inv /\ [QueriesNext]_queriesVars => Inv'
  <2> SUFFICES ASSUME Inv, [QueriesNext]_queriesVars PROVE Inv'
    OBVIOUS
  <2> DEFINE request == RequestOf(builder)
  <2>1. IsRequest(request) /\ QueryOfGiven(request, query, given)
    BY BuilderIsRequest DEF Inv
  <2>2. CASE SomeSetter
    <3>1. PICK key \in DOMAIN request.parameters :
            \E argument \in ArgumentsFor(request.parameters[key]) : SetParameter(key, argument)
      BY <2>2 DEF SomeSetter
    <3>2. PICK argument \in ArgumentsFor(request.parameters[key]) : SetParameter(key, argument)
      BY <3>1
    <3>3. QueryOfGiven(request, query', given')
      BY <2>1, <3>2, SettingKeeps DEF SetParameter
    <3>4. builder' = builder /\ calls' = calls
      BY <3>2 DEF SetParameter
    <3> QED BY <3>3, <3>4 DEF Inv, AsksForWhatWasGiven
  <2>3. CASE Ask
    <3> DEFINE call == [given |-> given, asked |-> Asked(request, query)]
    <3>1. builder' = builder /\ given' = given /\ calls' = Append(calls, call)
      BY <2>3 DEF Ask
    <3>2. query' = IF request.method = "get" THEN RemoveFalsyOrEmpty(query) ELSE query
      BY <2>3 DEF Ask
    <3>3. QueryOfGiven(request, query', given')
      BY <2>1, <3>1, <3>2, AskingKeeps
    <3>4. PICK S : calls \in Seq(S)
      BY DEF Inv
    <3>5. request.sendsQuery => AsksForGiven(request, call)
      BY <2>1, AskedIsGiven
    <3> HIDE DEF call, request
    <3>6. calls' \in Seq(S \cup {call})
      BY <3>1, <3>4
    <3>7. \A i \in DOMAIN calls' : (i \in DOMAIN calls /\ calls'[i] = calls[i]) \/ calls'[i] = call
      BY <3>1, <3>4
    <3>8. AsksForWhatWasGiven'
      BY <3>1, <3>5, <3>7 DEF Inv, AsksForWhatWasGiven, request
    <3> QED BY <3>1, <3>3, <3>6, <3>8 DEF Inv, request
  <2>4. CASE UNCHANGED queriesVars
    BY <2>4 DEF queriesVars, Inv, AsksForWhatWasGiven
  <2> QED BY <2>2, <2>3, <2>4 DEF QueriesNext
<1> QED BY <1>1, <1>2, PTL DEF QueriesSpec

\* Every call asks for what its builder was given by then and for nothing else,
\* and only a zero or what is empty may be missing, but not where the setter made
\* a text of it (get of client.ts, do of jsonrequest.ts).
THEOREM AlwaysAsksForWhatWasGiven == QueriesSpec => []AsksForWhatWasGiven
<1>1. Inv => AsksForWhatWasGiven
  BY DEF Inv
<1> QED BY <1>1, InvHolds, PTL
=============================================================================
