----------------------------- MODULE MethodCall -----------------------------
(***************************************************************************)
(* Calls of methods: addMethodCall makes an application call of the        *)
(* arguments of a method, a contract reads them, and parseMethodResponse   *)
(* reads what the contract returns (src/src/composer.ts).  The call then   *)
(* goes the way of every application call.  Whether the group takes a call *)
(* is in Composer; what creates an application is given just when one is.  *)
(***************************************************************************)
EXTENDS ApplicationCall, AbiText

CONSTANTS
  IDSize,       \* bytes of an ID, 8 in the code
  MaxAppArgs,   \* MAX_APP_ARGS, 16 in the code
  Sender,       \* who calls
  Plain,        \* arguments that are given together
  Structured,   \* arguments that are given alone
  Return,       \* types and values of them that a contract returns
  MaxArguments  \* bound on the arguments, less than there may be types in a
                \* tuple; a reference before them counts twice

\* Arguments that are given are of types that leave room for one around them.
ArgumentTypes == TypesTo[MaxDepth - 1]
ArgumentValues == ValuesTo[MaxDepth - 1]

\* A transaction and its signer: its type, and whether it is in a group.
Transaction(type, grouped) == <<"transaction", type, grouped>>

Transactions == {Transaction(type[1], grouped) : type \in TransactionTypes, grouped \in BOOLEAN}

\* Anything may be given for an argument of the type, what a transaction is too.
Arguments ==
  [type : ArgumentTypes \cup ReferenceTypes \cup TransactionTypes,
   value : ArgumentValues \cup Transactions]

ASSUME MethodAssumption ==
  /\ MaxDepth > 0
  /\ MaxArguments \in Nat /\ MaxArguments < MaxLen
  /\ IDSize \in Nat \ {0} /\ MaxAppArgs \in Nat \ {0, 1}
  /\ Address \subseteq [1 .. AddressSize -> 0 .. Base - 1] /\ Sender \in Address
  /\ Plain \cup Structured \subseteq Arguments
  /\ \A ret \in Return :
       \/ ret.type = Void
       \/ /\ ret.type \in ArgumentTypes /\ ret.value \in ArgumentValues
          /\ Fits[ret.type][FALSE][ret.value]

VARIABLES
  arguments,  \* types and values
  call,       \* what addMethodCall made of them
  response    \* what the contract returned, its logs and what is read of them

methodVars == <<arguments, call, response>>

NoCall == [status |-> "none"]
NoResponse == [status |-> "none"]

-----------------------------------------------------------------------------
(* Arguments *)

IsTransaction(arg) == arg.type \in TransactionTypes
IsReference(arg) == arg.type \in ReferenceTypes

TransactionAccepted(arg) ==
  IF IsTransaction(arg)
  THEN /\ IsA(arg.value, "transaction")
       /\ arg.type[1] \in {"txn", arg.value[2]}
       /\ ~arg.value[3]
  ELSE ~IsA(arg.value, "transaction")

\* The bytes of an account, or the number of an ID, are decoded again.
ReferenceAccepted(arg) ==
  IF arg.type = <<"account">> THEN AbiEncode[AddressType][arg.value] # NoBytes
  ELSE /\ AbiEncode[Uint(IDSize)][arg.value] # NoBytes
       /\ arg.value[2] <= MaxSafeInteger

Basic ==
  FoldLeft(LAMBDA list, arg : IF IsTransaction(arg) THEN list ELSE Append(list, arg),
           <<>>, arguments)

TransactionArguments == SelectSeq(arguments, IsTransaction)

Accepted ==
  \A i \in DOMAIN arguments :
    /\ TransactionAccepted(arguments[i])
    /\ IsReference(arguments[i]) => ReferenceAccepted(arguments[i])

-----------------------------------------------------------------------------
(* Foreign arrays *)

NoZeroValue == <<>>

\* Faulty variant: positions are counted from 0 in every array.
PopulateFromZero(value, array, zeroValue) ==
  LET place == IF value \in Range(array) THEN PositionOf(array, value) ELSE Len(array) + 1
  IN  IF zeroValue = <<value>> THEN [index |-> 0, array |-> array]
      ELSE [index |-> place - 1,
            array |-> IF value \in Range(array) THEN array ELSE Append(array, value)]

\* populateForeignArray
Populate(value, array, zeroValue) ==
  LET offset == IF zeroValue = NoZeroValue THEN 0 ELSE 1
      place == IF value \in Range(array) THEN PositionOf(array, value) ELSE Len(array) + 1
  IN  IF zeroValue = <<value>> THEN [index |-> 0, array |-> array]
      ELSE [index |-> place - 1 + offset,
            array |-> IF value \in Range(array) THEN array ELSE Append(array, value)]

ZeroValues ==
  [account |-> <<Sender>>, application |-> <<appIndex.value>>, asset |-> NoZeroValue]

\* A reference is encoded as the number that its position is.
Resolve(resolved, arg) ==
  LET kind == arg.type[1]
      added == Populate(arg.value[2], resolved.arrays[kind], ZeroValues[kind])
  IN  IF IsReference(arg)
      THEN [arrays |-> [resolved.arrays EXCEPT ![kind] = added.array],
            values |-> Append(resolved.values, Number(added.index))]
      ELSE [resolved EXCEPT !.values = Append(@, arg.value)]

Field(field) == LET list == Elements(field) IN [i \in DOMAIN list |-> list[i][field]]

ArraysGiven(withAccess) ==
  IF withAccess THEN [account |-> <<>>, application |-> <<>>, asset |-> <<>>]
  ELSE [account |-> Field("address"), application |-> Field("appIndex"),
        asset |-> Field("assetIndex")]

\* The foreign arrays, and the values that are encoded.
Resolved(withAccess) ==
  FoldLeft(Resolve, [arrays |-> ArraysGiven(withAccess), values |-> <<>>], Basic)

-----------------------------------------------------------------------------
(* Application arguments *)

TypeToEncode(arg) == IF IsReference(arg) THEN Uint(1) ELSE arg.type

TypesToEncode == [i \in DOMAIN Basic |-> TypeToEncode(Basic[i])]

\* What there is no room for goes into a tuple.
Rest(list) == SubSeq(list, MaxAppArgs - 1, Len(list))

Packed(list, rest) ==
  IF Len(list) <= MaxAppArgs - 1 THEN list ELSE Append(SubSeq(list, 1, MaxAppArgs - 2), rest)

PackedTypes == Packed(TypesToEncode, Tuple(Rest(TypesToEncode)))

PackedValues(values) == Packed(values, ArrayValue(Rest(values)))

EncodedArguments(types, values) == [i \in DOMAIN types |-> AbiEncode[types[i]][values[i]]]

-----------------------------------------------------------------------------
(* addMethodCall *)

\* A bound, of this model only.
Size == 2 * Len(given) + Len(arguments)

\* Anything may be given for an argument.
GiveArgument(arg) ==
  /\ last = "given" /\ call = NoCall
  /\ Size < MaxArguments
  /\ arg \in Structured => given = <<>> /\ arguments = <<>>
  /\ \A i \in DOMAIN arguments : arguments[i] \notin Structured
  /\ arguments' = Append(arguments, arg)
  /\ UNCHANGED <<vars, call, response>>

\* An error leaves the group as it is.
Refuse(withAccess) ==
  /\ call' = [status |-> "refused", withAccess |-> withAccess]
  /\ UNCHANGED <<vars, arguments, response>>

SentArrays(withAccess, arrays) == IF withAccess THEN ArraysGiven(TRUE) ELSE arrays

\* Foreign arrays are sent only without an access list.
CallMade(withAccess, arrays) ==
  Make(IF withAccess THEN "access" ELSE "arrays",
       [access |-> IF withAccess THEN ConstructedAll(given) ELSE <<>>,
        foreignApps |-> SentArrays(withAccess, arrays).application,
        boxes |-> IF withAccess THEN <<>> ELSE Field("box")])

CallWith(withAccess, arrays, appArgs) ==
  IF NoBytes \in Range(appArgs) THEN Refuse(withAccess)
  ELSE /\ CallMade(withAccess, arrays)
       /\ call' = [status |-> "made", withAccess |-> withAccess, appArgs |-> appArgs,
                   arrays |-> SentArrays(withAccess, arrays),
                   transactions |-> [i \in DOMAIN TransactionArguments |->
                                       TransactionArguments[i].value]]
       /\ UNCHANGED <<arguments, response>>

CallResolved(withAccess, resolved) ==
  CallWith(withAccess, resolved.arrays,
           EncodedArguments(PackedTypes, PackedValues(resolved.values)))

InForeignArrays ==
  InArrays /\ \A i \in DOMAIN given : ~Has(given[i], "holding") /\ ~Has(given[i], "locals")

AddMethodCall(withAccess) ==
  /\ last = "given" /\ call = NoCall /\ Size <= MaxArguments
  /\ withAccess \/ InForeignArrays
  /\ IF Accepted THEN CallResolved(withAccess, Resolved(withAccess)) ELSE Refuse(withAccess)

-----------------------------------------------------------------------------
(* parseMethodResponse *)

\* RETURN_PREFIX, and the bytes of another log.
ReturnPrefix == <<1, 1, 3, 1>>
OtherLog == <<1, 1, 3, 0, 1>>

\* Faulty variant of ReturnLog: the first log is looked at.
FirstLog(logs) == Head(logs)

ReturnLog(logs) == Last(logs)

HasReturn(logs) == logs # <<>> /\ IsPrefix(ReturnPrefix, ReturnLog(logs))

NotRead == [value |-> NoValue, error |-> TRUE]

ReadAs(value) == [value |-> value, error |-> value = NoValue]

ParseMethodResponse(returns, logs) ==
  CASE returns = Void -> [value |-> NoValue, error |-> FALSE]
    [] returns # Void /\ HasReturn(logs) ->
         ReadAs(AbiDecode[returns][SubSeq(ReturnLog(logs), Len(ReturnPrefix) + 1,
                                       Len(ReturnLog(logs)))])
    [] OTHER -> NotRead

ReturnBytes(ret) == IF ret.type = Void THEN <<>> ELSE AbiEncode[ret.type][ret.value]

Logged(ret) == ReturnPrefix \o ReturnBytes(ret)

\* The logs of a transaction that did what the method promises, or another thing.
LogsOf(ret) ==
  [returned |-> <<OtherLog, Logged(ret)>>,
   last |-> <<Logged(ret), OtherLog>>,
   none |-> <<>>,
   short |-> <<SubSeq(ReturnPrefix, 1, 3)>>,
   cut |-> <<Front(Logged(ret))>>,
   long |-> <<Append(Logged(ret), 0)>>]

Respond(ret, outcome) ==
  /\ call.status = "made" /\ last = "made"
  /\ arguments = <<>> /\ given = <<>> /\ response = NoResponse
  /\ response' = [status |-> outcome, ret |-> ret,
                  result |-> ParseMethodResponse(ret.type, LogsOf(ret)[outcome])]
  /\ UNCHANGED <<vars, arguments, call>>

-----------------------------------------------------------------------------
MethodInit ==
  /\ Init
  /\ arguments = <<>> /\ call = NoCall /\ response = NoResponse

GiveReference ==
  /\ arguments = <<>> /\ call = NoCall
  /\ \E rr \in References(Address, Asset, App, Name) : Give(rr)
  /\ UNCHANGED methodVars

WithoutMethod ==
  /\ arguments = <<>> /\ call = NoCall
  /\ MakeWithAccess \/ MakeConverting \/ MakeWithArrays \/ ReceiveAccess
  /\ UNCHANGED methodVars

OnTheWay == (Write \/ ReceiveBoxes \/ Read) /\ UNCHANGED methodVars

MethodNext ==
  \/ GiveReference
  \/ WithoutMethod
  \/ \E arg \in Plain \cup Structured : GiveArgument(arg)
  \/ \E withAccess \in BOOLEAN : AddMethodCall(withAccess)
  \/ \E ret \in Return :
       \E outcome \in {"returned", "last", "none", "short", "cut", "long"} :
         Respond(ret, outcome)
  \/ OnTheWay

MethodSpec == MethodInit /\ [][MethodNext]_<<vars, methodVars>>

-----------------------------------------------------------------------------
(* What a contract reads *)

Unpacked(list) ==
  IF Len(Basic) <= MaxAppArgs - 1 THEN list ELSE Front(list) \o Last(list)[2]

DecodedArguments ==
  [i \in DOMAIN PackedTypes |-> AbiDecode[PackedTypes[i]][call.appArgs[i]]]

\* What is at a position of a foreign array; the sender and the called
\* application are at position 0.
At(kind, index) ==
  LET array == IF kind = "asset" THEN call.arrays[kind]
               ELSE ZeroValues[kind] \o call.arrays[kind]
  IN  IF index + 1 <= Len(array) THEN <<array[index + 1]>> ELSE <<>>

\* What an argument of the type has to be, where it is no part of the call.
IsOfItsKind(arg) ==
  /\ IsA(arg.value, "transaction") <=> IsTransaction(arg)
  /\ IsTransaction(arg) =>
       /\ arg.value \in {Transaction(type[1], FALSE) : type \in TransactionTypes}
       /\ arg.type = <<"txn">> \/ arg.type = <<arg.value[2]>>
  /\ arg.type = <<"account">> =>
       \/ IsA(arg.value, "address")
       \/ IsA(arg.value, "bytes") /\ Len(arg.value[2]) = AddressSize
  /\ arg.type \in {<<"application">>, <<"asset">>} =>
       /\ IsA(arg.value, "number") \/ IsA(arg.value, "bigint")
       /\ arg.value[2] \in 0 .. MaxSafeInteger /\ arg.value[2] < Power[Bits * IDSize]

IsMeant(arg, read) ==
  IF IsReference(arg) THEN At(arg.type[1], read[2]) = <<arg.value[2]>>
  ELSE read = Meant[arg.type][arg.value]

-----------------------------------------------------------------------------
(* Properties *)

\* A contract that decodes the application arguments finds the values that were
\* given, and by the positions of references what they refer to; with an access
\* list only the sender and the called application are found.  Types with parts
\* of no bytes, too long texts and tuples of too few or too many values are
\* encoded and not read, and bytes that are no UTF-8, or begin with a mark, are
\* read as another text (composer.ts addMethodCall, abi_type.ts).
ArgumentsAreRead ==
  /\ call.status = "made"
  /\ \A i \in DOMAIN Basic :
       \/ IsReference(Basic[i])
       \/ ~HasEmptyPart[Basic[i].type] /\ Fits[Basic[i].type][TRUE][Basic[i].value]
  => /\ NoValue \notin Range(DecodedArguments)
     /\ \A i \in DOMAIN Basic :
          \/ IsMeant(Basic[i], Unpacked(DecodedArguments)[i])
          \/ /\ IsReference(Basic[i]) /\ call.withAccess
             /\ ZeroValues[Basic[i].type[1]] # <<Basic[i].value[2]>>

\* A call is refused just when a transaction or a reference is none of its kind,
\* or another argument is not of its type or has no place in the call; texts that
\* are too long and tuples of too few or too many values are not refused
\* (composer.ts addMethodCall, abi_type.ts encode).
EncodesWhatFits ==
  call # NoCall =>
    LET values == PackedValues(Resolved(call.withAccess).values)
    IN  call.status = "refused" <=>
          \/ \E i \in DOMAIN arguments : ~IsOfItsKind(arguments[i])
          \/ \E i \in DOMAIN PackedTypes : ~Fits[PackedTypes[i]][FALSE][values[i]]

\* A value of its type that a contract returned is read as it is, and if it
\* returned none, or other bytes, there is an error and no value; only missing
\* booleans go unnoticed.  Of its type are only texts in UTF-8 without a mark at
\* their beginning: others are read as another text, without an error
\* (composer.ts parseMethodResponse, abi_type.ts decode).
ReturnIsRead ==
  /\ response # NoResponse /\ response.ret.type # Void
  /\ Fits[response.ret.type][TRUE][response.ret.value]
  =>
    IF response.status = "returned"
    THEN \/ response.result = ReadAs(Meant[response.ret.type][response.ret.value])
         \/ response.result = NotRead /\ HasEmptyPart[response.ret.type]
    ELSE response.result = NotRead \/ EndsInBools[response.ret.type]

\* The signature of a method, which its selector is the hash of, is read as the
\* method that it is of (method.ts fromSignature).
SignatureIsRead ==
  call = NoCall =>
    \A returns \in {Void} \cup {arg.type : arg \in Range(Basic)} :
      LET method == [args |-> [i \in DOMAIN arguments |-> arguments[i].type],
                     returns |-> returns]
      IN  returns \in ReferenceTypes \/ MethodFrom(SignatureOf(method)) = method
=============================================================================
