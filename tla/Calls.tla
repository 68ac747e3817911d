-------------------------------- MODULE Calls --------------------------------
(***************************************************************************)
(* A request builder that is changed and asked again while answers are     *)
(* awaited: what it asks (Queries), and what its calls return              *)
(* (src/src/client/client.ts, src/src/client/v2/jsonrequest.ts).           *)
(***************************************************************************)
EXTENDS Answers, Queries

VARIABLE returned  \* what each call of do() returned

callsVars == <<queriesVars, returned>>

NoBuilder == <<"none", "none">>

-----------------------------------------------------------------------------
(* What a call makes of its answer. *)

\* What the request of suggested parameters makes of its answer.
ValidRounds == 1000

SuggestedParams(answer) ==
  ObjectOf([flatFee |-> Boolean(FALSE), fee |-> answer[2]["fee"],
            firstValid |-> answer[2]["last-round"],
            lastValid |-> BigInt(answer[2]["last-round"][2] + ValidRounds),
            genesisID |-> answer[2]["genesis-id"], genesisHash |-> answer[2]["genesis-hash"],
            minFee |-> answer[2]["min-fee"],
            consensusVersion |-> answer[2]["consensus-version"]])

FormatOf(request) == IF request.decodes = "msgpack" THEN "msgpack" ELSE "json"

\* An answer is text unless msgpack was asked for; that in the other format
\* cannot be decoded.
ReadObject(request, answer) ==
  IF answer.format # FormatOf(request) THEN Throws
  ELSE Decode(request.class, answer.body, answer.format)

Prepared(request, object) ==
  IF request.decodes = "suggested parameters" THEN SuggestedParams(object) ELSE object

ReadAnswer(request, asked, answer) ==
  CASE request.decodes = "nothing" -> Undefined
    [] request.decodes # "nothing" /\ asked.accept = "msgpack" /\ FormatOf(request) = "json" ->
         Throws
    [] request.decodes = "text" /\ asked.accept = "json" -> answer.body
    [] OTHER -> Prepared(request, ReadObject(request, answer))

-----------------------------------------------------------------------------
(* Actions *)

Awaited == <<"awaited">>

CallsInit == QueriesInit /\ returned = <<>>

NoCalls ==
  /\ builder = NoBuilder /\ query = EmptyQuery /\ given = EmptyQuery /\ steps = 0 /\ calls = <<>>
  /\ returned = <<>>

Do == Ask /\ returned' = Append(returned, Awaited)

\* What a server answers the builder; it writes msgpack if the query wants it.
BodyFor(class, format) ==
  IF class = "none" THEN String("text", SomeText)
  ELSE Written(NamedMapSchema(class), SampleMap(class, "only", 1), format)

AnswerOf(asked) ==
  LET format == IF "format" \in DOMAIN asked.query THEN "msgpack" ELSE "json"
  IN  [format |-> format, body |-> BodyFor(RequestOf(builder).class, format)]

\* The answers come in any order, and one may be an error, which do() throws.
Answer(i) ==
  /\ returned[i] = Awaited
  /\ LET request == RequestOf(builder)
     IN  \E value \in {ReadAnswer(request, calls[i].asked, AnswerOf(calls[i].asked)),
                       <<"server error">>} :
           returned' = [returned EXCEPT ![i] = value]
  /\ UNCHANGED queriesVars

CallsNext ==
  /\ builder # NoBuilder
  /\ \/ SomeSetter /\ UNCHANGED returned
     \/ Do
     \/ \E i \in DOMAIN calls : Answer(i)

-----------------------------------------------------------------------------
(* Properties *)

\* Every call returns what the server answered to it, read in the format that
\* it asked for, in whatever order the answers come, and also after the builder
\* was changed (getAcceptFormat, prepareResponse, prepare).
ReturnsWhatWasAnswered ==
  \A i \in DOMAIN calls :
    LET request == RequestOf(builder)
    IN  returned[i] \notin {Awaited, <<"server error">>} =>
          /\ returned[i] # Throws
          /\ request.decodes \in Formats =>
               Encode(request.class, returned[i], request.decodes) =
                 AnswerOf(calls[i].asked).body
=============================================================================
