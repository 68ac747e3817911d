------------------------------- MODULE Queries ------------------------------
(***************************************************************************)
(* What a request builder of the clients for algod and the indexer asks:   *)
(* its setters change the query, do() asks with it, and a builder may be   *)
(* changed and asked again (src/src/client/client.ts,                      *)
(* src/src/client/urlTokenBaseHTTPClient.ts,                               *)
(* src/src/client/v2/jsonrequest.ts and the builders).                     *)
(*                                                                         *)
(* The path and the headers but Accept and Content-Type are left out.      *)
(***************************************************************************)
EXTENDS Values, Naturals, Sequences

CONSTANTS
  MaxSteps,  \* bound on how often an application calls the builder
  Amounts,   \* the numbers and bigints that it gives the setters
  Contents   \* what is in the texts and bytes that it gives them

ASSUME MaxStepsAssumption == MaxSteps \in Nat

ASSUME ArgumentsAssumption ==
  /\ Amounts \subseteq {"number", "bigint"} \X Nat
  /\ Contents \subseteq ({"bytes"} \X Nat \X STRING) \ {EmptyBytes}

VARIABLES
  builder,  \* the name of the builder
  query,    \* the field of the same name
  given,    \* what the application gave the setters, by the parameter
  steps,    \* how often it called one, or do()
  calls     \* the calls of do(): what was given and asked

queriesVars == <<builder, query, given, steps, calls>>

AlgodRequest == INSTANCE AlgodRequests
IndexerRequest == INSTANCE IndexerRequests

EmptyQuery == <<>>

AllBuilders ==
  {<<"algod", name>> : name \in DOMAIN AlgodRequest!Builders}
  \cup {<<"indexer", name>> : name \in DOMAIN IndexerRequest!Builders}

RequestOf(name) ==
  IF name[1] = "algod" THEN AlgodRequest!Builders[name[2]] ELSE IndexerRequest!Builders[name[2]]

-----------------------------------------------------------------------------
(* Setters *)

Texts == {String("text", content) : content \in Contents}

\* What an application may give a parameter.
ArgumentsFor(kind) ==
  CASE kind \in {"number", "printed"} -> Amounts
    [] kind = "text" -> {EmptyString} \cup Texts
    [] kind = "flag" -> {Boolean(FALSE), Boolean(TRUE)}
    [] kind = "address" -> {AddressOf(Zeros(32)), String("address", Bytes(32, "key"))}
    [] kind = "moment" -> {EmptyString, <<"date", 1>>} \cup Texts
    [] kind = "funnelled" ->
         {EmptyBytes} \cup Contents \cup {String("base64", content) : content \in Contents}
    [] kind \in {"list", "joined"} -> {ArrayOf(<<>>)} \cup {ArrayOf(<<text>>) : text \in Texts}

Joined(list) == IF list = ArrayOf(<<>>) THEN EmptyString ELSE String("joined", list[2])

\* value.toString() of what a query has.
Printed(value) ==
  CASE value[1] \in {"number", "bigint"} -> String("digits", value[2])
    [] value[1] = "boolean" -> String("flag", value[2])
    [] value[1] = "address" -> String("address", value[2])
    [] value[1] = "array" -> Joined(value)
    [] value[1] = "string" -> value

\* Faulty variant of SetValue: no number is made a text, and a zero is removed.
SetUnprinted(kind, argument) ==
  CASE kind \in {"number", "printed", "text", "flag", "list"} -> argument
    [] kind = "address" -> Printed(argument)
    [] kind = "joined" -> Joined(argument)
    [] kind = "moment" -> IF IsA(argument, "date") THEN String("iso", argument[2]) ELSE argument
    [] kind = "funnelled" -> IF IsA(argument, "bytes") THEN Base64(argument) ELSE argument

SetValue(kind, argument) ==
  CASE kind \in {"number", "text", "flag", "list"} -> argument
    [] kind \in {"printed", "address"} -> Printed(argument)
    [] kind = "joined" -> Joined(argument)
    [] kind = "moment" -> IF IsA(argument, "date") THEN String("iso", argument[2]) ELSE argument
    [] kind = "funnelled" -> IF IsA(argument, "bytes") THEN Base64(argument) ELSE argument

\* What the constructors of some builders put into the query.
FixedValue(what) ==
  CASE what = "msgpack" -> Word("msgpack")
    [] what = "zero" -> Number(0)
    [] what = "boxName" -> String("b64", SomeText)

-----------------------------------------------------------------------------
(* The HTTP client *)

IsFalsyOrEmpty(value) ==
  value \in {Number(0), BigInt(0), Boolean(FALSE), EmptyString, ArrayOf(<<>>)}

RemoveFalsyOrEmpty(q) == [key \in {k \in DOMAIN q : ~IsFalsyOrEmpty(q[k])} |-> q[key]]

\* Faulty variant of GetAcceptFormat: msgpack unless the query says json.
AcceptMsgpack(q) == "msgpack"

GetAcceptFormat(q) ==
  IF "format" \in DOMAIN q /\ q["format"] = Word("msgpack") THEN "msgpack" ELSE "json"

\* The query of the URL.
GetURL(q) == [key \in DOMAIN q |-> Printed(q[key])]

\* A post sends what it is given, even what is falsy, and its answer is
\* prepared as if it were JSON, text and bytes both.
QueryToSend(request, q) ==
  CASE request.method = "get" -> RemoveFalsyOrEmpty(q)
    [] request.method # "get" /\ request.sendsQuery -> q
    [] OTHER -> EmptyQuery

Asked(request, q) ==
  [query |-> GetURL(QueryToSend(request, q)),
   accept |-> IF request.method = "get" THEN GetAcceptFormat(q) ELSE "json",
   contentType |-> IF request.method = "get" THEN "none" ELSE request.contentType]

-----------------------------------------------------------------------------
(* Actions *)

QueriesInit ==
  /\ builder \in AllBuilders
  /\ query = [key \in DOMAIN RequestOf(builder).fixed |-> FixedValue(RequestOf(builder).fixed[key])]
  /\ given = EmptyQuery /\ steps = 0 /\ calls = <<>>

\* An assignment to a property of an object.
Updated(object, key, value) ==
  [k \in DOMAIN object \cup {key} |-> IF k = key THEN value ELSE object[k]]

\* A setter of the builder.
SetParameter(key, argument) ==
  /\ steps < MaxSteps /\ steps' = steps + 1
  /\ query' = Updated(query, key, SetValue(RequestOf(builder).parameters[key], argument))
  /\ given' = Updated(given, key, argument)
  /\ UNCHANGED <<builder, calls>>

SomeSetter ==
  \E key \in DOMAIN RequestOf(builder).parameters :
    \E argument \in ArgumentsFor(RequestOf(builder).parameters[key]) :
      SetParameter(key, argument)

\* do(), to its await: a get removes from the query of the builder what it does
\* not send.
Ask ==
  /\ steps < MaxSteps /\ steps' = steps + 1
  /\ LET request == RequestOf(builder)
     IN  /\ calls' = Append(calls, [given |-> given, asked |-> Asked(request, query)])
         /\ query' = IF request.method = "get" THEN RemoveFalsyOrEmpty(query) ELSE query
  /\ UNCHANGED <<builder, given>>

QueriesNext == SomeSetter \/ Ask

QueriesSpec == QueriesInit /\ [][QueriesNext]_queriesVars

-----------------------------------------------------------------------------
(* Properties *)

\* The text that a URL has of an argument, whatever parameter it is for.
AsText(argument) ==
  CASE IsA(argument, "date") -> String("iso", argument[2])
    [] IsA(argument, "bytes") -> Base64(argument)
    [] OTHER -> Printed(argument)

IsZeroOrEmpty(argument) ==
  argument \in {Number(0), BigInt(0), Boolean(FALSE), EmptyString, EmptyBytes, ArrayOf(<<>>)}

\* What a get may be silent about, also where a zero has a meaning of its own:
\* not the parameters whose setter makes a text of a number, "to correctly
\* include zero values" (searchForTransactions.ts:425).
MayBeLeftOut(request, key, argument) ==
  request.method = "get" /\ request.parameters[key] # "printed" /\ IsZeroOrEmpty(argument)

\* Every call asks for what its builder was given by then, the last value of
\* every parameter, under the name of the parameter, and for nothing that it was
\* given later or before, or not at all; only a zero or what is empty may be
\* missing (removeFalsyOrEmpty, which changes the query of the builder itself,
\* and removes the zeros of round, maxRound and currencyLessThan too).
AsksForGiven(request, call) ==
  LET parameters == DOMAIN request.parameters
      asked == call.asked.query
  IN  /\ \A key \in DOMAIN call.given :
           key \in DOMAIN asked \/ MayBeLeftOut(request, key, call.given[key])
      /\ \A key \in DOMAIN asked \cap parameters :
           key \in DOMAIN call.given /\ asked[key] = AsText(call.given[key])
      /\ DOMAIN asked \ parameters =
           {key \in DOMAIN request.fixed : request.fixed[key] # "zero"} \ parameters

AsksForWhatWasGiven ==
  \A i \in DOMAIN calls :
    RequestOf(builder).sendsQuery => AsksForGiven(RequestOf(builder), calls[i])
=============================================================================
