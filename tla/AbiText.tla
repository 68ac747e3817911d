------------------------------ MODULE AbiText -------------------------------
(***************************************************************************)
(* The text of the types of the ABI (src/src/abi/abi_type.ts), and the     *)
(* signature of a method (src/src/abi/method.ts).                          *)
(*                                                                         *)
(* A text is a sequence of words, brackets and commas.  Each is a tuple;   *)
(* the name of a type without parts is one word.                           *)
(***************************************************************************)
EXTENDS AbiTypes

Open == <<"(">>
Close == <<")">>
Comma == <<",">>
OpenArray == <<"[">>
CloseArray == <<"]">>
Digits(n) == <<"digits", n>>

Void == <<"void">>

ReferenceTypes == {<<"account">>, <<"application">>, <<"asset">>}

TransactionTypes == {<<name>> : name \in {"txn", "pay", "keyreg", "acfg", "axfer", "afrz", "appl"}}

Words ==
  SimpleTypes \cup ({"digits"} \X Nat) \cup {Open, Close, Comma, OpenArray, CloseArray, Void}
    \cup ReferenceTypes \cup TransactionTypes

-----------------------------------------------------------------------------
(* toString *)

JoinTexts(texts) ==
  FlattenSeq([i \in DOMAIN texts |-> IF i = 1 THEN texts[i] ELSE <<Comma>> \o texts[i]])

InParentheses(texts) == <<Open>> \o JoinTexts(texts) \o <<Close>>

TextAs(type, textOf) ==
  CASE type[1] = "array" -> textOf[type[2]] \o <<OpenArray, Digits(type[3]), CloseArray>>
    [] type[1] = "list" -> textOf[type[2]] \o <<OpenArray, CloseArray>>
    [] type[1] = "tuple" -> InParentheses([i \in DOMAIN type[2] |-> textOf[type[2][i]]])
    [] OTHER -> <<type>>

TextOf[type \in Types] == TextAs(type, TextOf)

-----------------------------------------------------------------------------
(* parseTupleContent *)

Opens(word) == CASE word = Open -> 1 [] word = Close -> -1 [] OTHER -> 0

\* How many parentheses are open behind the first n words.
DepthAfter(text, n) == Total([i \in DOMAIN text |-> Opens(text[i])], n)

\* Faulty variant of IsSeparator: the commas of the tuples inside separate too.
IsComma(text, i) == text[i] = Comma

IsSeparator(text, i) == text[i] = Comma /\ DepthAfter(text, i) = 0

\* The strings that the first words make, and what there is of the next one.
ParseWord(parsed, text, i) ==
  IF IsSeparator(text, i)
  THEN [strings |-> Append(parsed.strings, parsed.word), word |-> <<>>]
  ELSE [parsed EXCEPT !.word = Append(@, text[i])]

Parsed(text, n) ==
  LET parsed[i \in 0 .. n] == IF i = 0 THEN [strings |-> <<>>, word |-> <<>>]
                             ELSE ParseWord(parsed[i - 1], text, i)
  IN  parsed[n]

\* Where it throws.
IsMalformed(text) ==
  /\ text # <<>>
  /\ \/ Comma \in {text[1], text[Len(text)]}
     \/ \E i \in 1 .. Len(text) - 1 : text[i] = Comma /\ text[i + 1] = Comma
     \/ DepthAfter(text, Len(text)) # 0

WithLast(parsed) ==
  IF parsed.word = <<>> THEN parsed.strings ELSE Append(parsed.strings, parsed.word)

ParseTupleContent(text) == WithLast(Parsed(text, Len(text)))

-----------------------------------------------------------------------------
(* ABIType.from *)

TupleOfTypes(types) ==
  IF NoType \in Range(types) \/ Len(types) >= MaxLen THEN NoType ELSE Tuple(types)

ListOf(child) == IF child = NoType THEN NoType ELSE List(child)

ArrayOfLength(child, length) ==
  IF child = NoType \/ length > MaxLen THEN NoType ELSE Array(child, length)

TupleFrom(text, from) ==
  LET texts == ParseTupleContent(text)
  IN  IF IsMalformed(text) THEN NoType ELSE TupleOfTypes([i \in DOMAIN texts |-> from[texts[i]]])

EndsAsList(text) ==
  Len(text) > 2 /\ text[Len(text) - 1] = OpenArray /\ text[Len(text)] = CloseArray

EndsAsArray(text) ==
  /\ Len(text) > 3
  /\ text[Len(text) - 2] = OpenArray /\ text[Len(text) - 1][1] = "digits"
  /\ text[Len(text)] = CloseArray

IsInParentheses(text) == Len(text) > 1 /\ text[1] = Open /\ text[Len(text)] = Close

TypeFrom(text, from) ==
  LET n == Len(text)
  IN  CASE EndsAsList(text) -> ListOf(from[SubSeq(text, 1, n - 2)])
        [] EndsAsArray(text) -> ArrayOfLength(from[SubSeq(text, 1, n - 3)], text[n - 1][2])
        [] n = 1 /\ text[1] \in SimpleTypes -> text[1]
        [] IsInParentheses(text) -> TupleFrom(SubSeq(text, 2, n - 1), from)
        [] OTHER -> NoType

From[text \in Seq(Words)] == TypeFrom(text, From)

-----------------------------------------------------------------------------
(* Methods (src/src/abi/method.ts, transaction.ts, reference.ts) *)

ArgText(type) ==
  IF type \in ReferenceTypes \cup TransactionTypes THEN <<type>> ELSE TextOf[type]

ReturnText(type) == IF type = Void THEN <<Void>> ELSE TextOf[type]

\* getSignature; the name is as good as any.
SignatureOf(method) ==
  InParentheses([i \in DOMAIN method.args |-> ArgText(method.args[i])])
    \o ReturnText(method.returns)

\* The parenthesis that closes the first.
ArgsEnd(text) ==
  CHOOSE i \in DOMAIN text :
    DepthAfter(text, i) = 0 /\ \A j \in 1 .. i - 1 : DepthAfter(text, j) # 0

\* A transaction or a reference is no ABIType.
ArgTypeFrom(text) ==
  IF Len(text) = 1 /\ text[1] \in ReferenceTypes \cup TransactionTypes THEN text[1]
  ELSE From[text]

ReturnTypeFrom(text) == IF text = <<Void>> THEN Void ELSE From[text]

\* fromSignature
MethodFrom(text) ==
  LET content == SubSeq(text, 2, ArgsEnd(text) - 1)
      args == ParseTupleContent(content)
  IN  IF IsMalformed(content) THEN NoType
      ELSE [args |-> [i \in DOMAIN args |-> ArgTypeFrom(args[i])],
            returns |-> ReturnTypeFrom(SubSeq(text, ArgsEnd(text) + 1, Len(text)))]
=============================================================================
