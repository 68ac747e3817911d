------------------------------ MODULE Exchange ------------------------------
(***************************************************************************)
(* An application that reads an object of a class, or makes a transaction, *)
(* writes it, and reads again what it wrote: the functions decodeMsgpack,  *)
(* decodeJSON, encodeMsgpack and encodeJSON of src/src/encoding, the       *)
(* classes, and the constructor of Transaction.                            *)
(***************************************************************************)
EXTENDS Answers

VARIABLES
  subject,  \* the class, its variant, and where the object is from
  object,   \* the object that the application has
  written,  \* what it wrote last, and in which format
  again     \* the object that it reads of what it wrote

exchangeVars == <<subject, object, written, again>>

Nothing == <<"nothing">>
NoSubject == [from |-> "nowhere"]
NotWritten == [format |-> "none"]

AllClasses ==
  {<<"algod", name>> : name \in DOMAIN Algod!Classes}
  \cup {<<"indexer", name>> : name \in DOMAIN Indexer!Classes}
  \cup {<<"ledger", name>> : name \in DOMAIN Ledger!Classes}

NoExchange == subject = NoSubject /\ object = Nothing /\ written = NotWritten /\ again = Nothing

-----------------------------------------------------------------------------
(* Parameters for the constructor of Transaction *)

Key == Bytes(32, "key")
SomeAddresses == {AddressOf(Key), String("address", Key), ZeroAddress}
MaybeAddress == {Undefined, AddressOf(Key), ZeroAddress}
SomeIntegers == {Number(1), Number(0), BigInt(MaxUint64)}
MaybeInteger == {Undefined, Number(1), Number(0)}
MaybeFlag == {Undefined, Boolean(TRUE), Boolean(FALSE)}
MaybeText == {Undefined, String("text", SomeText), EmptyString}
MaybeBytes(length) == {Undefined, Bytes(length, "key"), Zeros(length)}
Lists(elements) == {Undefined} \cup {ArrayOf(s) : s \in elements}

Box(id) == MapOf([i |-> id, n |-> SomeText])

DataOf(class) ==
  LET said == SampleMap(class, "only", Depth)
  IN  Restore(NamedMapSchema(class), Written(NamedMapSchema(class), said, "msgpack"), "msgpack")

\* What an application may give for the parameters of a type.
Arguments(type) ==
  CASE type = "pay" -> [rcv |-> SomeAddresses, amt |-> SomeIntegers, close |-> MaybeAddress]
    [] type = "keyreg" ->
         [key \in {"votekey", "selkey"} |-> MaybeBytes(32)] @@ [sprfkey |-> MaybeBytes(64)]
         @@ [key \in {"votefst", "votelst", "votekd"} |-> MaybeInteger] @@ [nonpart |-> MaybeFlag]
    [] type = "acfg" ->
         [key \in {"caid", "t", "dc"} |-> MaybeInteger] @@ [df |-> MaybeFlag]
         @@ [key \in {"m", "r", "f", "c"} |-> MaybeAddress]
         @@ [key \in {"un", "an", "au"} |-> MaybeText] @@ [am |-> MaybeBytes(32)]
    [] type = "axfer" ->
         [xaid |-> SomeIntegers, aamt |-> SomeIntegers, arcv |-> SomeAddresses,
          aclose |-> MaybeAddress, asnd |-> MaybeAddress]
    [] type = "afrz" ->
         [faid |-> SomeIntegers, fadd |-> SomeAddresses, afrz |-> {Boolean(TRUE), Boolean(FALSE)}]
    [] type = "appl" ->
         [apid |-> {Number(1), Number(0)}, apan |-> {Number(0), Number(5), Number(6)},
          apap |-> MaybeBytes(4), apsu |-> MaybeBytes(4),
          apaa |-> Lists({<<>>, <<EmptyBytes, SomeText>>}),
          apat |-> Lists({<<AddressOf(Key)>>, <<ZeroAddress>>}),
          apas |-> Lists({<<Number(0)>>}),
          apfa |-> Lists({<<Number(2), BigInt(1)>>, <<Number(2), Number(2), Number(0)>>}),
          apbx |-> Lists({<<Box(Number(1))>>, <<Box(Number(0)), Box(Number(2))>>})]
         @@ [key \in {"localInts", "localBytes", "globalInts", "globalBytes", "apep", "aprv"} |->
               MaybeInteger]
    [] type = "stpf" -> [sptype |-> MaybeInteger,
                         sp |-> {Undefined, DataOf(<<"ledger", "StateProof">>)},
                         spmsg |-> {Undefined, DataOf(<<"ledger", "StateProofMessage">>)}]
    [] type = "hb" -> [hb |-> {Undefined, DataOf(<<"ledger", "Heartbeat">>)}]

CommonArguments ==
  [snd |-> SomeAddresses, note |-> MaybeBytes(4), lx |-> MaybeBytes(32), rekey |-> MaybeAddress,
   fv |-> SomeIntegers, lv |-> SomeIntegers, gen |-> MaybeText \ {Undefined},
   gh |-> {Undefined, Key},
   fee |-> {Number(1), Number(0)}, minFee |-> {Number(0), Number(1)}, flatFee |-> MaybeFlag]

\* A choice for every key with at most two of them unlike the usual one.
Usual(arguments) == [key \in DOMAIN arguments |-> CHOOSE v \in arguments[key] : ~IsMissing(v)]

Varied(usual, arguments, most) ==
  LET once(f) == UNION {{[f EXCEPT ![key] = v] : v \in arguments[key]} : key \in DOMAIN arguments}
  IN  IF most = 1 THEN once(usual) ELSE UNION {once(f) : f \in once(usual)}

ParamsOf(common, type, own) == common @@ [type |-> type, of |-> (type :> own)]

ParamsAmong(type, common, own) ==
  {ParamsOf(c, type, Usual(own)) : c \in Varied(Usual(common), common, 1)}
  \cup {ParamsOf(Usual(common), type, o) : o \in Varied(Usual(own), own, 2)}

SomeParams(type) == ParamsAmong(type, CommonArguments, Arguments(type))

-----------------------------------------------------------------------------
(* Actions *)

\* An answer is read, in either format.
Read(class, variant, format, deviation) ==
  /\ LET sample == SampleMap(class, variant, Depth)
         said == Said(class, sample, deviation)
     IN  /\ object' = Decode(class, Written(NamedMapSchema(class), said, format), format)
         /\ subject' = [class |-> class, variant |-> variant, from |-> format,
                        deviation |-> deviation]
  /\ UNCHANGED <<written, again>>

\* A transaction is made, and may be put into a group.
Build(params, group) ==
  /\ object' = WithGroup(NewTransaction(params), group)
  /\ subject' = [class |-> TransactionClass, variant |-> params.type, from |-> "constructor",
                 deviation |-> Whole]
  /\ UNCHANGED <<written, again>>

Write(format) ==
  /\ object \notin {Nothing, Throws} /\ written = NotWritten
  /\ written' = [format |-> format, value |-> Encode(subject.class, object, format)]
  /\ UNCHANGED <<subject, object, again>>

ReadAgain ==
  /\ written # NotWritten /\ again = Nothing
  /\ written.value # Throws
  /\ again' = Decode(subject.class, written.value, written.format)
  /\ UNCHANGED <<subject, object, written>>

ExchangeNext ==
  \/ /\ subject = NoSubject
     /\ \/ \E class \in AllClasses, format \in Formats : \E variant \in Variants(class) :
             \E deviation \in Deviations(class, SampleMap(class, variant, Depth), format) :
               Read(class, variant, format, deviation)
        \/ \E type \in TransactionTypes, group \in {Undefined, Key} :
             \E params \in SomeParams(type) : Build(params, group)
  \/ \E format \in Formats : Write(format)
  \/ ReadAgain

-----------------------------------------------------------------------------
(* Properties *)

Sample == SampleMap(subject.class, subject.variant, Depth)

IsAnswer == subject.from \in Formats

IsBuilt == subject.from = "constructor"

\* A value that the class has a reason to refuse: nothing where it needs
\* something, or an integer too large for a number.
IsRefused(class, field, key, what) ==
  \/ key \in Needs(class) /\ what \in {"left out", "default", "null"}
  \/ what = "default" /\ field.holds = <<"address text">>
  \/ what = "empty element" /\ field.holds = <<"list", <<"address text">>>>
  \/ what = "default" /\ field.holds[1] = "model" /\ Needs(field.holds[2]) # {}
  \/ what = "large" /\ field.holds = <<"safe integer">>

\* The same of a transaction: a registration that lacks some of its keys, a
\* position among foreign applications that are not there.
IsRefusedInTransaction(key, what) ==
  \/ what = "large" /\ key \in {"apan", "apep", "aprv", "sptype"}
  \/ what = "left out" /\ key \in OnlineKeys \cup {"hb", "apfa"}

Readable ==
  LET class == subject.class
      key == subject.deviation.key
      what == subject.deviation.what
  IN  \/ subject.deviation = Whole
      \/ /\ ~IsRefused(class, FieldsOf(class)[key], key, what)
         /\ class = TransactionClass => ~IsRefusedInTransaction(key, what)

\* Every answer of a node or an indexer is read, in both formats, whatever it
\* leaves out, says explicitly or sends null for, and only one that a class has
\* a reason to refuse throws (decodeJSON and decodeMsgpack).
AnswersAreRead == IsAnswer => (object # Throws <=> Readable)

\* What has no text or bytes: a string that is no UTF-8 in JSON, and an integer
\* that Number() rounded when it was read.
IsNotWritten(format) ==
  LET what == subject.deviation.what
  IN  \/ what = "not utf8" /\ format = "json"
      \/ what = "large" /\ FieldsOf(subject.class)[subject.deviation.key].holds = <<"number">>

\* An object is written as the node that sent it would write it in that format,
\* with every key that is not a default, and no digit of an integer lost; where
\* that cannot be, writing throws (encodeMsgpack and encodeJSON).
WritesWhatItRead ==
  IsAnswer /\ written # NotWritten =>
    written.value =
      IF IsNotWritten(written.format) THEN Throws
      ELSE Written(NamedMapSchema(subject.class),
                   Canonical(subject.class, Sample, subject.deviation), written.format)

\* An object that is read of what was written of another, in the same or the
\* other format, is equal to it, but for an optional value that was given
\* explicitly as its default, which nothing is written for.
ReadsTheSameAgain ==
  IsAnswer /\ again # Nothing =>
    \/ again = object
    \/ /\ subject.deviation.what = "default"
       /\ LET key == subject.deviation.key
          IN  /\ FieldsOf(subject.class)[key].presence = "optional"
              /\ again = ObjectOf([object[2] EXCEPT ![key] = Undefined])

\* Zeros that an online registration may hold, and that are not written.
HasZeroForOnline(txn) ==
  /\ TypeOf(txn) = "keyreg"
  /\ \E key \in OnlineKeys : txn[2][key] \in {BigInt(0), Zeros(32)}

\* A box of an application that the transaction does not name.
HasUnknownBox(txn) ==
  /\ TypeOf(txn) = "appl"
  /\ \E i \in DOMAIN txn[2].apbx[2] :
       txn[2].apbx[2][i][2].i \notin
         {BigInt(0), txn[2].apid} \cup {txn[2].apfa[2][j] : j \in DOMAIN txn[2].apfa[2]}

\* Position 0 is read as the application 0, which may be a foreign one too.
HasBoxAndForeignZero(txn) ==
  /\ TypeOf(txn) = "appl" /\ txn[2].apbx # ArrayOf(<<>>)
  /\ \E j \in DOMAIN txn[2].apfa[2] : txn[2].apfa[2][j] = BigInt(0)

\* A transaction that was made can be written, and is read as one that is
\* written the same, so that it has the same identifier and its signatures hold;
\* but for an online registration with a zero (see BuiltIsReadAgain) and a call
\* with a box and the ID 0 among its foreign applications.
BuiltIsWrittenAgain ==
  IsBuilt /\ written # NotWritten =>
    \/ written.value = Throws /\ HasUnknownBox(object)
    \/ written.value # Throws /\ (HasZeroForOnline(object) \/ HasBoxAndForeignZero(object))
    \/ /\ written.value # Throws
       /\ again # Nothing =>
            again # Throws /\ Encode(TransactionClass, again, written.format) = written.value

\* What decodeUnsignedTransaction says of itself: it takes what
\* encodeUnsignedTransaction gives and makes a transaction of it.
BuiltIsReadAgain == IsBuilt /\ again # Nothing => again # Throws
=============================================================================
