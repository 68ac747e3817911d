# Verification of js-algorand-sdk

TLA+ modules for the parts of the Algorand JavaScript SDK (`src/`) that keep
state, overlap in time or decide something that is hard to test; TLC
configurations that model-check them on small instances; and TLAPS proofs of
the results that hold for every instance.

Paths below are relative to the repository (`src/composer.ts` is
`src/src/composer.ts` in `PROJECT.json`, where the repository is under `src/`).

## 1. Inventory of the system

The SDK is a library: it has no threads and keeps nothing on disk.  What is
hard in it comes from `async` methods that suspend at an `await` while other
calls of the same object run, from objects that are shared and mutated in
place, from a network that answers late, from elsewhere or not at all, and from
codecs with many boundary cases.

| Component | State it keeps | Operations | What is hard | What makes it correct |
|---|---|---|---|---|
| `composer.ts` AtomicTransactionComposer | status, transactions, methodCalls, signedTxns, txIDs | addTransaction, addMethodCall, buildGroup, clone, gatherSignatures, submit, simulate, execute, parseMethodResponse | overlapping calls resume after an await on state that others changed; lost answers; partial failure of signers; arguments that share a place | the group is frozen once built; cached signatures are those of the whole group; the status never claims more than happened; results match method calls; a contract reads the arguments that were given |
| `wait.ts` waitForConfirmation | the rounds of the loop | one async loop of requests | several algods behind one address, at different rounds; failing requests; round arithmetic | resolves only if confirmed; neither gives up early nor wrongly; ends |
| `group.ts` | the `group` field of shared Transaction objects | computeGroupID, assignGroupID | mutation in place of objects that other composers hold | a signed blob carries the group it was signed with |
| `multisig.ts`, `multisigSigning.ts` | blobs passed between parties | create, sign, append, merge, verify | signatures collected in any order, duplicated, merged twice | a blob verifies only with a threshold of consents; merging loses nothing |
| `signer.ts` | none | three makers of TransactionSigner | order of results against indexes | one signature per index, in order |
| `logicsig.ts` | sig / msig / lmsig of one object | sign, signWithMultisig, appendToMultisig, verify | a throw half way, several signature kinds | at most one kind of signature verifies |
| `appAccess.ts`, `boxStorage.ts` | access list under construction | resourceReferencesToEncodingData, box references | compaction, index 0 with a special meaning | decoding gives back what was referred to |
| `transaction.ts`, `signedTransaction.ts`, `makeTxn.ts` | the fields of one transaction | the constructor, toEncodingData, fromEncodingData | what is missing, zero or explicit in the parameters and in the encoding | what was made is read again as one with the same encoding, and so the same identifier |
| `encoding/` schemas, msgpack and JSON | none | prepare and restore of each schema, four functions for objects | defaults left out, null for nothing, text that is not UTF-8, integers above 2^53 | what a node says is read, whatever it leaves out, and written as it would write it |
| models of algod and the indexer, `types/block.ts`, `types/statedelta.ts`, `stateproof.ts`, `heartbeat.ts` | the fields of one object | schema, constructor, toEncodingData, fromEncodingData, of 200 classes | each class says every field four times | the four agree in every field |
| `abi/` | none | type parser, tuple and array codec, method signatures | dynamic and static parts, runs of booleans that share bytes, lengths | decode after encode is the identity; what does not fit is refused |
| `client/` HTTP client and the builders of algod and the indexer | the query of a builder | setters, do(), the reading of an answer | one builder asked several times, calls that overlap, parameters that are 0 or empty | a call asks for what its builder was told by then, and returns what was answered to it |
| `mnemonic/` | none | mnemonicFromSeed, seedFromMnemonic | 11-bit regrouping, checksum | round trip; a wrong word is detected |
| `dryrun.ts` | response traces | createDryrun, trace printing | requests that do not depend on each other | all accounts and apps asked for are present |
| `encoding/uint64.ts`, `encoding/bigint.ts`, `utils/` | none | integer conversions | 2^53 and 2^64 boundaries | no silent loss |
| `logic/` | none | source maps | delta decoding | positions are those of the source |
| `client/kmd.ts` | none | one method per endpoint | none of its own | posts what it is given |

Interactions: a composer calls `assignGroupID` (writes into Transaction
objects), its signers (any asynchronous function), the Algodv2 client
(`sendRawTransaction`, `simulateTransactions`, `pendingTransactionInformation`)
and `waitForConfirmation`, which calls the client in a loop.  Signers call
`multisigSigning` or `logicsig` (through `signing.ts`) or `Transaction.signTxn`.
`addMethodCall` makes a transaction with `makeApplicationCallTxnFromObject` of
arguments that the types of `abi/` encode.  A request builder asks the HTTP client
and makes an object of the answer with a model class, which reads it with the
schemas of `encoding/`; transactions and signed transactions are written with them.

The hazards found in this code, each at its line, are listed in `PROJECT.json`
under `hazards` with the properties that cover them.

## 2. Modules

| Module | Models | Role |
|---|---|---|
| `AtomicGroup` | what a composer promises | abstract specification |
| `Composer` | `composer.ts`, `group.ts`, and the network behind the client | detailed specification; implements `AtomicGroup` |
| `ComposerProofs` | | theorems about `Composer` |
| `ConfirmationPromise` | the one step `execute` takes for `waitForConfirmation` | abstract specification |
| `WaitForConfirmation` | `wait.ts` and several algods | detailed specification; implements `ConfirmationPromise` |
| `WaitProofs` | | theorems about `WaitForConfirmation` |
| `SharedTransactions` | several composers over a heap of Transaction objects: `clone` and the in-place `assignGroupID` | detailed specification |
| `SharedProofs` | | theorems about `SharedTransactions` |
| `MultisigAccount` | `multisig.ts`: which accounts there are and what verifies for one | operators of the next two |
| `Multisig` | `multisigSigning.ts`, and the holders of the keys | detailed specification |
| `MultisigProofs` | | theorems about `Multisig` |
| `LogicSig` | `logicsig.ts`, `signing.ts`, and the holders of the keys | detailed specification |
| `LogicSigProofs` | | theorems about `LogicSig` |
| `ResourceReferences` | `appAccess.ts`: the references, the entries of an access list, and back | operators of the next one |
| `ApplicationCall` | `makeApplicationCallTxnFromObject`, `boxStorage.ts`, and the references in `transaction.ts` | detailed specification |
| `ApplicationCallProofs` | | lemmas about the loops of `ResourceReferences`, theorems about `ApplicationCall` and `MethodCall` |
| `AbiTypes` | `encode` and `decode` of `abi/abi_type.ts`, `encoding/bigint.ts` | operators |
| `AbiText` | `toString` and `from` of `abi/abi_type.ts`, the signatures of `abi/method.ts` | operators of `MethodCall` |
| `AbiProofs` | | theorems about `AbiTypes` and `AbiText` |
| `MethodCall` | `addMethodCall` from its arguments to the application call, and `parseMethodResponse`; composes `AbiText` with `ApplicationCall` | detailed specification |
| `ModelFields` | how a class is described by its fields | vocabulary of the next three |
| `AlgodModels`, `IndexerModels`, `LedgerModels` | the classes of algod, of the indexer, and of blocks, state deltas, state proofs, heartbeats and signed transactions | one definition for each class |
| `Values` | JavaScript values, symbolically | vocabulary of the codec and the queries |
| `Encoding` | `encoding/schema/`, the safe-integer checks of `utils/utils.ts` | operators |
| `Transactions` | the class of `transaction.ts` | operators |
| `Models` | what every class does with its fields, and `encoding/encoding.ts` | operators |
| `RequestFields` | how a request builder is described | vocabulary of the next two |
| `AlgodRequests`, `IndexerRequests` | the request builders | one definition for each builder |
| `Answers` | what a node or an indexer says and how it writes it | external |
| `Exchange` | an object that is read or made, written, and read again | detailed specification |
| `Queries` | `client/client.ts`, `jsonrequest.ts`: a builder that is changed and asked again | detailed specification |
| `QueriesProofs` | | theorems about `Queries` |
| `Calls` | what the calls of a builder return, while it is changed and asked again | adds the answers to `Queries` |
| `Client` | an application that does either | composes `Calls` and `Exchange` |
| `MCComposer`, `MCWait`, `MCSharedTransactions`, `MCMultisig`, `MCLogicSig`, `MCApplicationCall`, `MCClient` | | instances for TLC |

### Composer

JavaScript runs one continuation at a time, so an action is the code between two
awaits.  The composer's fields are variables of the same names.  A *call slot*
is one promise that `gatherSignatures`, `submit`, `simulate` or `execute`
returned; `pc[c]` names the await at which it is suspended:

| `pc[c]` | suspended at | resumed by |
|---|---|---|
| `signing` | `Promise.all` over the signers (`composer.ts:573`) | `SignersSign`, `SignersFail` |
| `gathered` | `await this.gatherSignatures()` in the caller (`637`, `675`), or the application's own await | `ResumeGathered` |
| `sending` | `client.sendRawTransaction(..).do()` (`639`) | `SendAccepted`, `SendAnswerLost`, `SendRejected` |
| `accepted` | the same await, its answer under way | `ResumeSubmit` |
| `submitted` | `await this.submit(client)` in execute (`749`) | `ResumeExecute` |
| `waiting` | `waitForConfirmation` (`757`) | `ResumeConfirmed`, `ThrowUnconfirmed` |
| `fetching` | `pendingTransactionInformation` in the loop (`781`) | `FetchResult` |
| `simulating` | `simulateTransactions` (`688`) | `ResumeSimulated`, `SimulateFails` |

The promise of an async callee resolves in a later microtask than the last
statement of the callee, and another call may run in between; this is why
`gathered` and `submitted` are awaits of their own.

Data that the properties do not tell apart is abstracted.  A transaction is an
object; its identifier is the record of the object and of the group field it has
when hashed; a group ID is the list of identifiers that were hashed, so that two
hashes are equal exactly when what was hashed is.  A signed transaction is
identified by the identifier it was signed under.  The arguments of a method
call are reduced to the transactions among them; the checks of the other
arguments all come before the two assignments and throw, which changes nothing.
What becomes of those is in `MethodCall`.

The network is external: several algods behind one address.  An algod accepts a
group that is well formed and not yet in a block, and one that has not heard of
it accepts it again; the answer may be lost; a pending group may be confirmed or
dropped.

Not in the module: `clone` and other composers that hold the same objects, which
`SharedTransactions` has, and what an application does to the fields of a
Transaction object behind the composer's back.

### WaitForConfirmation

`pc` names the request whose answer is awaited.  Each answer comes from some
algod, which has its own last round and its own pool; requests may fail and long
polls may time out.

### SharedTransactions

A composer keeps references to Transaction objects, and an object is its place
in `heap`.  `AddTransaction` looks at the group field of the object at that
moment, `Build` writes it in the objects of the composer (through `assignGroupID`,
which hashes a group field that is there already), signers read the objects when
they run (`Sign`, one index at a time), and `Clone` makes new objects with the
group erased.  The calls that overlap on one composer are the subject of
`Composer`; here a composer gathers once at a time.

Nothing in the code stops an application from adding one object to two composers
before either is built; the second to be built then hashes identifiers that carry
the group of the first, and the first holds transactions of another group.  The
history variable `mixed` has the composers this was done to, and the properties
speak of all others: whatever is cloned from them, before or after they are built
or signed, does not disturb them.

### Multisig

`file` holds the blobs that the holders of the keys pass around, decoded: the
transaction, the preimage of the account, `sgnr` and one subsig for each key of
the preimage.  The holders work on any file and write to any file, so blobs are
copied, old, doubled, and merged in any order.  A signature is the record of its
key and of the transaction it signs, so that it verifies exactly for these; the
address of an account is its preimage.  `AppendSignRaw` takes any signature of
anyone as one of the given key, as the code does.  `signed` is the history the
properties are stated with: the keys whose holders signed what a file holds.

The order of the keys of one transaction signer does not matter to the result,
so `SignWithKeys` writes the merge of all its blobs at once.  A preimage is valid (`ValidPreimage`) when its
version is 1, its threshold is at least 1, at most 255 and at most the number of its keys.  A merge of more than
two blobs compares and merges them one after the other, which is what `Merge` does
in several steps.

### LogicSig

`account` has a `LogicSigAccount` in every place, its `LogicSig` flattened into it.
As in `Multisig` a signature is the record of its key and of its message; the
message is the program alone when a holder signs for its own account, and the
program with the multisig account when it signs for that one.  The methods that
throw change nothing, except `sign` with multisig metadata: `lmsig` has been
replaced by an empty one by then, and `SignMultisig` leaves that behind.
`singleSignMultisig` signs the first subsig of the key (`FirstOf`), where the
signing of a transaction signs all of them; the property counts shares the way the
code does here.  `SignLsig` is `sign` of the LogicSig inside the account, which the
application can reach and which does not set `sigkey`.  `LogicSigAddress` and `Sgnr`
are what `signLogicSigTransactionObject` does with either kind of object.

### ResourceReferences and ApplicationCall

A reference names a resource by its addresses and IDs; an entry of the access
list names parts of it by the positions of other entries.  `Convert` is one turn of
the loops that make references of the six arrays, `Encode` one of the loop that
makes entries of references, `Decode` one of the loop that reads them, and `Sent`
what the encoding schema of the transaction does in between: an entry whose
fields all have their default values is sent as an empty map and comes back
without a key, which reads as an empty box.  An ID is a record of its value and its
JavaScript type, since `===` tells `7` from `7n`, up to the constructor of the
transaction (`Constructed`), which makes all of them bigints.  Addresses are
`Address` objects; the string forms are converted to these before they are compared.

`ApplicationCall` follows one transaction.  The application gives references one
after the other (`Give`), and makes a transaction of them in one of the three ways
that `makeApplicationCallTxnFromObject` has: as the access field, as arrays that
are converted to it, or as arrays.  A sequence of elements stands for the arrays
when those of each array are behind those of the arrays before it (`InArrays`).
`Write` and `Read` are `toEncodingData` and `fromEncodingData`; they throw (are not
enabled) for a box of an application that is not a foreign app and for positions
that have no entry.  Another implementation may have written the transaction: its positions
of foreign apps need not be the first ones (`ReceiveBoxes`), and its access list is any of
`AccessLists` (`ReceiveAccess`), with positions of later entries, a resource that is there
twice, or an entry of the called application that others point at.  `Decodable` says which of
these lists are read at all.  This library resolves positions to references when it reads and
numbers the references anew when it writes, so such a list comes out as another list, and the
identifier of the transaction, and with it its signatures, are others.  `WrittenAgain` says both: the
meaning survives whoever wrote the list, and the list itself just if it is as this library would
write it (`IsAsWritten`).  An entry has one key, as the protocol has it, and is sent in canonical form;
what this library would read of an entry with several keys or none but defaults spelled out is
not modelled.

`AccessSent` excludes holdings of asset 0, which does not exist: `ensure` adds
nothing for the ID 0 but returns the length of the list all the same, so that such a
holding is read as one of whatever asset is last.  `BoxesAgree` and `WrittenAgain`
exclude the ID 0 among the foreign apps, which `boxStorage.ts:13` finds when it
looks for a box of the called application.  The access field together with
`convertToAccess` is not modelled: the conversion of no arrays then replaces it.

### AbiTypes, AbiText and MethodCall

`GiveArgument` gives `addMethodCall` the next argument, of a type of the method and with
a value that need not be one of the type; `AddMethodCall` is the whole method: the checks
of the arguments, the positions of references in the foreign arrays (`Resolve` is one turn
of that loop), the tuple of what is behind the last but one place, the encoding of each
argument, and the call, which then is made, written and read as in `ApplicationCall`.  It
throws for arguments that it refuses, and then adds nothing.  `Respond` is a transaction of
the call that logged something, and what `parseMethodResponse` reads of that.

`AbiTypes` is the codec.  A type is a tuple of its kind and its parts; `Types` are those
that are nested up to `MaxDepth`, and what the code defines by a method of every class is a
recursive function on `Types`.  `AbiEncode` and `AbiDecode` go through a type as the code
does: in `encode` the heads of static parts, the positions of dynamic ones and the bytes
that runs of booleans share; in `decode` the segments between positions.  Every element of a
tuple has a head and a tail, which are empty where the code has none: that of a boolean
which shares the byte of an earlier one, and the tail of a static element.  A byte has
`Bits` bits, so that lengths, positions and full bytes of booleans meet their limits with
few elements.  A text is its bytes in UTF-8, and `DecodeText`, a constant, is what `TextDecoder` makes of any
bytes: those that are no UTF-8 become replacement characters, and a byte order mark at the
beginning is dropped.  `encode` takes any bytes for a text and `decode` has no error for them, so a
text that is not `IsText` is encoded, sent, and read as another text; `Fits` strictly, which is what
comes back, leaves these out.  In `AbiText` the text of a type is a sequence
of words, brackets and commas, which `From` parses with the code's own counting of
parentheses; texts for which that throws are `IsMalformed`.  What a method of one class calls on
the types inside it is an operator with that method as its last argument: `EncodeAs`, `DecodeAs`,
`TextAs` and `TypeFrom` are the bodies of the recursive functions, which the proofs are about.

What encoding is to do is said apart from it: `Meant` is the value that is to come back,
and `Fits` what a value of a type is.  The properties name where the code departs from
these: texts that are longer than their length field says and tuples of too few or too
many values are encoded; bytes that are no text are read as another text; arrays with parts of no bytes are encoded and not read; of bytes
that end in booleans the last may be missing, and is not missed (`EndsInBools`).

An argument that is an account may be an address or its bytes; both have to be of the size of an
address, and both become a position.  `IsOfItsKind` says, apart from the checks of the code, what
transactions and references have to be: `EncodesWhatFits` has a call refused just when one of them is
none of its kind or another argument does not fit.

Not in the modules: the text of an address as an argument; `ufixed`, which is encoded as `uint`; the hash that makes a selector of a
signature; the JSON of methods, contracts and interfaces and the search for a method by its
name; the approval program and schemas of a call that creates an application, which
are given just when one is created.

### The classes: ModelFields, AlgodModels, IndexerModels, LedgerModels, Models

A class of the API says every field four times: in its schema, its constructor, its
`toEncodingData` and its `fromEncodingData`.  Its definition says it once, as what the
four agree on: the schema of the key, what the object holds for it (a number, a bigint, an
address, an object of a class, a list of these), and whether it is required, optional, or
empty when it is left out.  `Models` makes the four of it (`FromData`, `ToData`), and the functions
of `encoding/encoding.ts` that read and write an object.  All 74 classes of algod, all 68 of
the indexer and those of blocks, state deltas, state proofs, heartbeats and signed
transactions are there.  A class that embeds another joins its fields (`@@`), as the schema does
with `embed`.  Said once, a class cannot disagree with itself: a key that one class has in its
schema and forgets in its constructor cannot show, and what is checked is that the schemas, the
codec and the conversions of values fit each other for every key there is.

### Encoding

`Prepare` is `prepareMsgpack` and `prepareJSON` of each schema, `Restore` its
`fromPreparedMsgpack` and `fromPreparedJSON`, with the errors that these throw.  A value is
its JavaScript type and its content.  Text and bytes are opaque: what matters of
them is whether they are empty, all zeros, of the length that a schema wants, or not valid
UTF-8.  `MaxSafeInteger` stands for 2^53 - 1 and `MaxUint64` for 2^64 - 1; above the
first a number is even, as it is in the code up to twice that integer, so that a digit that gets
lost is one that differs.  A key that a class makes a number with `Number()`, and not as a safe
integer, is rounded without an error; an object with such a number, above the safe integers, cannot
be written in either format (`IsNotWritten`), and what is read of it is the rounded one.

### Transactions

`NewTransaction` is the constructor: a check and a default for every parameter, the fields
that the type has, and the fee.  `TransactionToData` and `TransactionFromData` are the encoding data and back.
The access list is in `ResourceReferences`, a state proof and a heartbeat are their encoding data,
and every transaction has the size `Size`, by which a fee per byte is multiplied.

### Answers and Exchange

`Answers` is the other end and external: what a node says is a value of the schema with only
the keys that it says, and `Written` how a node written in Go writes that.  A sample of a class has
all of its keys, and those of the classes inside down to `Depth`; a deviation leaves one key
out, or says its default, null, an integer above the safe ones, a string that is not UTF-8, or an
empty element.  Every class is sampled by itself, so every key of every class deviates.

`Exchange` follows one object.  `Read` makes it of an answer, in either format; `Build` makes a
transaction of parameters, with at most two that are not the usual ones, and may put it into a
group; `Write` writes it in either format and `ReadAgain` reads that.

### Queries, Calls and Client

`builder` is one of the 60 request builders of algod and the indexer; their definitions say the
method, what each setter makes of its argument, what the constructor puts into the query, and
how the answer is read.  `query` is the field of that name.  In `Queries`, `SetParameter` is a
setter and `Ask` is `do()` up to its request, which for a GET deletes from the builder's own query
what is falsy (`RemoveFalsyOrEmpty`); `given` and `calls` record what the application said and
what was asked.  `AsksForWhatWasGiven` lets a GET leave out a zero, `false` or what is empty
(`MayBeLeftOut`), because the code always does, but not where the setter makes a text of it, which
is there to include zeros; everything else that was given has to be asked, in the form that its
setter makes, and nothing that was not.  `Calls` adds what comes back: `Do` is `Ask` and a call that is awaited, and `Answer`
is what comes after the await, in any order among the calls, and may be an error.  The application
goes on setting and asking between the two.  Every step of `Calls` is a step of `Queries` or changes
only `returned`, so what is proved of `Queries` holds of `Calls`; the two are apart because the
codec, which only answers need, is made of RECURSIVE operators.

The paths, tokens and other headers, the text of errors, `doRaw`, and the bodies that some
builders post are left out.  `Client` composes `Calls` and `Exchange`: they share the classes and the
codec and no state.

## 3. Runs

| Run | Configuration | Checks |
|---|---|---|
| `composer` | two overlapping calls, 1 plain transaction, 2 app calls, one signer, methods with 0 and 1 transaction arguments, groups of at most 3 | all safety properties, the inductive invariant, which includes the types, `GroupFrozen`, refinement of `AtomicGroup`, and `CallsSettle` under `FairSpec` |
| `composer_once` | two overlapping calls | `ExecutionAllowedOnce` is violated (finding) |
| `composer_simulate` | two overlapping calls | `SimulateKeepsStatus` is violated (finding) |
| `wait` | two algods, failures, 2 rounds | types and bounds of the loop, `NotGivenUpEarly`, `TimeoutMeansUnconfirmed`, refinement of `ConfirmationPromise`, and `Settles` under `FairSpec` |
| `wait_one_round` | one algod, no failures, 1 round | `TimeoutMeansUnconfirmed` is violated (finding) |
| `shared_transactions` | two composers, four objects, two contents, groups of at most 2 | `TypeOK`, `BuiltAccepted`, `SignedCurrent`, `OnlyBuildRegroups` |
| `multisig` | two keys, two transactions (one sent by an account that is rekeyed), two files, an account of two keys, one in which a key has two shares, one that is not valid | `TypeOK`, `ValidAreSigned`, `AcceptedIffEnough`, `HonestBlobsMerge` |
| `logicsig` | two keys, two programs, two accounts, a multisig account of both keys, one with a key twice, one that is not valid | `TypeOK`, `VerifiesIffDelegating`, `SignedByDelegating` |
| `application_call` | two addresses, assets 0 to 2, applications 0, 1 and 7, some IDs as numbers and some as bigints, 7 or a new application being called, two box names, up to 3 references; access lists of other implementations with up to 2 entries of all kinds and 3 of some; methods with up to 3 arguments and 3 places for them, bytes of two bits, IDs of two bytes | `TypeOK`, `GivenIsRead`, `NothingElseIsRead`, `BoxesAgree`, `WrittenAgain`; `ArgumentsAreRead`, `EncodesWhatFits`, `ReturnIsRead`, `SignatureIsRead` |
| `application_call_own` | the same | `OwnAppTakesNoEntry` is violated (finding) |
| `client` | all builders, up to 3 setters and calls of `do()`; all classes, samples of two levels, one key that deviates, both formats; all types of transactions, up to two unusual parameters | `AsksForWhatWasGiven`, `ReturnsWhatWasAnswered`, `AnswersAreRead`, `WritesWhatItRead`, `ReadsTheSameAgain`, `BuiltIsWrittenAgain` |
| `client_keyreg` | the same | `BuiltIsReadAgain` is violated (finding) |

Bounds.  `MaxGroupSize` is 2 or 3 instead of 16: a method call with an argument
takes two places, so 3 lets a call meet the limit exactly, by one too many, and
after another transaction.  Two call slots are enough for every pair of
overlapping calls, and a slot is used again after its call ends, so sequences of
calls have no bound.  Transactions start with no group or with a foreign one.
One signer is enough, since the composer waits for all of them together
and whether one of several failed or the only one is the same to it; the theorems hold
for any number.  With one, the results that are put together by index are those of one list, so TLC
exercises the failure of one signer among several only as that of all of them.
The symmetry sets of the other runs permute files, composers, contents, accounts and
programs, which no definition tells apart; the two runs with liveness use none.  In
`WaitForConfirmation`
`MaxRound` bounds the chain and `MaxStatusRound` the round at which the call
starts, so that the chain is always long enough for the loop to end.  `MaxHeap`
bounds the objects ever made: four are enough for a group of two and its clone,
and for an object in three groups.  Two files are enough for every pair of blobs
to be merged into either, and two logic signature accounts for one to be a copy of
what the other was.  Three references are enough for an entry that an
earlier one needed to be found again with another between the two, and for a box with
two foreign apps, the called one and another, or one of them twice.  A list of two that was
received has every position at or past the end, a duplicate and an entry of the called application; in
one of three a holding or a local state points at two others in any order, or at two of the
same.

In `MethodCall` a reference that is given before the arguments counts as two of three, so
that an argument meets arrays that have something in them.  With three places, the last two of
three arguments share one, and with `Bits` 2 a byte holds two booleans and a length is below
16: the arguments that are given alone are 66 values of 26 types at and past these limits.  The
instance of `DecodeText` has a mark of two bytes and one byte that is no UTF-8, which two others
replace.  A contract returns each of those that fits, only from a call without arguments, on which
nothing of its response depends.  `MaxDepth` bounds the nesting of types, and `MaxArguments` the
arguments of a method; arguments are nested one level less, and are fewer than a tuple has
places (`MaxLen`), so that the tuple of the last ones is a type too.

In `Client` three steps are enough to set a parameter, ask, and set it again or ask again
while the first answer is awaited.  `Depth` 2 puts a class into another; what is inside
that is sampled at the class that it is of.  With `MaxSafeInteger` 3 and `MaxUint64` 7 there are
integers that a number holds, even ones that it holds though it is not safe, and odd ones that
it rounds.  An amount is 0, which a GET leaves out, or the largest uint64, and a text
or the bytes given have one content: which one it is, no builder looks at, and the theorem of
`QueriesProofs` is about any.  Two unusual parameters meet each pair of checks of the
constructor.

Fairness.  `FairSpec` of `Composer` assumes weak fairness of what an outstanding
call does next: signers answer, requests are answered or time out.  It says
nothing about which outcome they have, nor about the network or the
application.  `FairSpec` of `WaitForConfirmation` assumes in addition that the
chain produces blocks and that the algods catch up; without that the long poll
of a reliable algod never answers.

Deadlock is checked for the composer (an application may always call something)
and for `Multisig` and `LogicSig` (holders may always sign again), and not for
`WaitForConfirmation`, which stops when the call has settled, for
`SharedTransactions`, which stops when every composer has signed and the heap is
full, nor for `MethodCall`, which stops when a call is refused, has returned or when a box
cannot be written or read, nor for `Client`, which stops when an object was read again
or the bound on the steps is reached.

### What the violated runs show

* `composer_once`: `gatherSignatures` assigns `SIGNED` after its await without
  looking at the status.  If an `execute` that overlaps it has reached
  `COMMITTED`, the status falls back to `SIGNED` and `execute` may be called
  again.  The group itself is the same, so the network refuses it; the promise
  of the documentation is what breaks.
* `composer_simulate`: `simulate` on an open composer closes and signs it.
* `wait_one_round`: the loop looks before it waits, so the last round it waits
  for is never looked at; for `waitRounds = 1` that is the only one.
* `application_call_own`: a bigint is compared with `appIndex`, which may be a number
  and then never is identical to it.  The called application gets an entry for its
  own boxes and local states, which a test expects it not to have.  The list is longer
  than needed and means the same: `GivenIsRead` and `NothingElseIsRead` hold.
* `client_keyreg`: the constructor takes a key registration with a `voteFirst` of 0, or with a
  key of zeros, as an online one.  The encoding leaves zeros out, and the constructor, which
  `decodeUnsignedTransaction` calls, then misses a field and throws.

Observations that no run is about, because no doc or test says otherwise: the access field
together with `convertToAccess` is replaced by the conversion of arrays that are not there
(`makeTxn.ts:431`); with an access list, a reference argument other than the sender or the called
application gets a position in an array that is not sent (`composer.ts:492`, excluded by name in
`ArgumentsAreRead`); the box of the called application is read as one of the application 0 if
that is among the foreign apps; `round(0)`, `maxRound(0)` and `currencyLessThan(0)` of the indexer are
removed from the query of a GET (`client.ts:80`), so that the answer is that of no such
parameter, while `currencyGreaterThan(0)` is sent, "to correctly include zero values"
(`searchForTransactions.ts:425`); a fee per byte times the size is not checked against the safe
integers; and the names and values of the headers of a response are swapped
(`urlTokenBaseHTTPClient.ts:108`), which nothing reads.

## 4. Proofs

`ComposerProofs` proves, for any sets of transactions, signers, methods and call
slots and any positive bound on the group, from `ConstantsAssumption` alone:

* `InvHolds`: the inductive invariant `Inv`.  It joins the type invariant, the
  properties to be proved and three parts they need: `GroupInv` (an open group is
  ungrouped, a built one is well formed), `CallInv` (a call past the signers
  holds exactly the cached array, one past the network holds a group that was
  accepted) and `NetworkInv` (the network never saw another group than the cached
  one).  `CallInv` is the heart: an overlapping call may store its signatures
  again, and what it stores is what was there, because the group has been frozen
  since it was built.
* each property of the `composer` run as a corollary, `GroupStaysFrozen` for
  steps, and `ComposerImplementsAtomicGroup` for the refinement.

`WaitProofs` proves, for any number of algods and rounds: the bounds of the loop,
the refinement of `ConfirmationPromise`, that the call does not give up early
when every request is answered, and, with one algod and at least two rounds, that
its error message is true.  The last two rest on `RoundReached` (past the first
turn of the loop the chain has the round the loop is at) and on `Looked` (the
transaction is in no round that the loop has looked at).  The two-round
assumption is needed: `wait_one_round` is the counterexample without it.

`SharedProofs` proves the four properties of the `shared_transactions` run for any
number of composers, objects and sizes of groups.  Its invariant `IInv` says of
each composer that is not mixed that it has each of its objects once and alone
(`Separate`), which is what makes a step of another composer leave it alone
(`OthersKept`), and that its identifiers, its cached signatures and the answers
of its signers agree (`Undisturbed`).  Copying in `clone` is what keeps `Separate`.

`MultisigProofs` proves the four properties of the `multisig` run for any keys,
accounts, transactions and files, from the fact that a merge has the union of the
valid signatures (`MergedBlob`) and that one that is absent is never valid
(`ValidArePresent`).  That honest blobs merge needs one invariant more: the authorizing
address of a blob depends on its transaction and its account alone (`SgnrInv`), and
two valid signatures of one subsig are the same (`HonestSubsigsAgree`).

`LogicSigProofs` proves the three properties of the `logicsig` run for any keys,
programs and accounts.  Its invariant `Collected` says of each account that every
subsig has the valid signature of its key exactly if it is the first of a key whose
holder signed, and none otherwise; so what is counted and what is verified are the
same set (`PresentAreShares`).

`ApplicationCallProofs` proves the five properties of `ApplicationCall` for any number of
references and any addresses, assets, applications and box names.  The references are
encoded, decoded and converted by loops, folds in the model, and a loop depends on its
data, so the work is in lemmas about these:

* `FoldExists` and `FoldSteps` unfold a fold into the sequence of its intermediate lists,
  and `InductionUpTo` is induction over positions, stated for a set of positions (the
  least one that is not in the set, `Least`, contradicts the step) because the provers
  cannot instantiate a theorem that takes a predicate.  What a step of a loop does to the
  list is then one lemma for each kind of reference.
* `WellFormed` is the invariant of the encoding loop: every entry points backwards, to
  entries of the kinds it needs, and an entry that others may point to is there once.  It
  is what makes a position that was taken while the list grew still that of its entry at
  the end (`MeaningIsKept`), and `EncodedMeans` concludes that the list means what was
  asked for, and nothing else but what that needs.
* `EncodedAgain` is the converse: of a list that is well formed, encoding what was decoded
  gives the same entries at the same positions.  Each reference that is read finds, turn
  by turn, exactly the entries before its own (`FoundAgain`), so that it adds its own
  entry and no other.  Only entries that are sent as an empty map need care: one that is
  all defaults comes back as a box without a name.

The inductive invariant `Inv` of `ApplicationCallProofs` says that whatever was written
and read in between, `sent` is what the application's references were first written as
(`SentOfOriginal`), and that `txn` is those references or what is read of `sent`
(`AccessOfTxn`); `BoxesOfTxn` says the same of the boxes and foreign apps.  The properties
are not inductive themselves: that a second reading gives the same needs the list it was
written from.  An access list that was received is not made of references that an application gave;
of it `AccessOfTxn` says that the references are what is read of it, and of the references that it decodes
to (`EntryIsRead`, `ReadAt`) that they all name something, whatever the list was.  Then every reference
that was read has an entry when it is written, which means the same, and what else is there are
its parts, which were read too (`MeaningIsWritten`).  `GivenIsRead` and `NothingElseIsRead` follow with `EncodedMeans` and
`ConvertedHolds`; `WrittenAgain` with `MeaningIsWritten` for any list, and with `EncodedAgain` for one
that is as this library writes it (`SentIsSame`).

`AbiProofs` proves of the codec of the ABI, for every type and value, every even number of
bits, size of an address and depth of nesting, with `AbiAssumption` alone:

* `TypesEncode`: `encode` gives bytes for just the values that fit the type, and as many as the
  sizes of the parts add up to.
* `TypesAreRead`: of these `decode` gives back what was meant, but for arrays with parts of no
  bytes, and of texts those that `DecodeText` leaves as they are.  Nothing is assumed of `DecodeText`.
* `TypesOfOneLength` and `TypesAreNotMissed`: of a type that does not end in booleans, nothing is
  read of the bytes of a value if the last is missing or one is added, and of a static type
  nothing but from bytes of its length.
* `TypesAreReadFromText` and `SignaturesAreRead`: the text of a type is parsed as that type, and the
  signature of a method as that method.

A recursive function on `Types` is CHOSEn, so the first lemmas show for each that there is one that
does what its definition says, by induction on the depth.  `TypeInduction` then is induction
over types, stated for a set of types, again because a theorem that takes a predicate
cannot be instantiated: simple types are in it, and a composite one if its parts are.  An
array, a list and a tuple are one thing in the proofs, a sequence of types: `LaidOut` says where
the head and the tail of every element are in the bytes, that the tails follow each other, and
which bit of which byte a boolean is.  `encode` lays out, and what is laid out is what `decode` looks
for at each place.  Texts rest on `Closed`: a text whose parentheses match and whose commas are
all inside them is one word to the parser, wherever it is (`TextsAreParsed`), so closed texts that are
joined by commas are taken apart where they were joined, and the text of every type is closed.

The theorems of `ApplicationCallProofs` about `MethodCall` build on these:
`ReturnIsAlwaysRead`, `EncodesJustWhatFits`, `ArgumentsAreAlwaysRead` and `SignatureIsAlwaysRead`, for
any arguments of any types, any number of them, and any number of places.
`AcceptedAreOfTheirKind` shows that the checks of references, which encode and decode a value, take
just what `IsOfItsKind` says.  The invariant
`CallIs` says what the call in `call` was made of: the loop that resolves references gave every
reference argument a position at which the foreign array has it, or the one of the
sender or the called application, and the arguments behind the last but one place are one tuple
(`CallIsOf`).  `ResponseIs` says the same of what a contract answered and what was read of it.  A
call of a method is sent in the way of any application call, so `Inv` is proved of `MethodSpec` too
(`InvHoldsOfCalls`): the arguments add to the foreign arrays, but only behind what the boxes point to.
With it the five properties of `ApplicationCall` are theorems of method calls
(`GivenIsReadOfCalls`, `NothingElseIsReadOfCalls`, `TypesHoldOfCalls`, `BoxesAgreeOfCalls`,
`CallsAreWrittenAgain`).

`QueriesProofs` proves `AsksForWhatWasGiven` for every builder of the two tables, any
number of steps, and any amounts and contents of texts and bytes.  `QueryOfGiven` is the
invariant that an earlier `do()` must not break: a parameter that was given is in the
query as its setter made it, or was removed by a GET and is falsy, and what else is there
the constructor put there. `RemovedIfZeroOrEmpty` goes through the kinds of setters and says
when one's value is removed: if the argument is a zero or empty, unless the setter
makes a text of it. `BuilderIsRequest` goes through the 60 builders; what it needs of them
is that no parameter has the name of what a constructor puts into the query, but for the
zero of `GetApplicationBoxes`, which a GET removes.

Only model-checked:

* `CallsSettle` and `Settles`, which are liveness under fairness;
* `ReturnsWhatWasAnswered` and the properties of `Exchange`.  They are about the 200 classes and
  60 builders there are, and about samples of what a node says; schemas and classes are nested
  in each other, and the codec of `Encoding` and `Models` is made of RECURSIVE operators, about
  which the prover cannot reason.  As recursive functions, as in `AbiTypes`, they would need a set of
  all schemas and of all classes to recurse over, of which there is no depth to go by.

## 5. Not modelled

* Mnemonics, address text, source maps, `encodeUint64`: pure functions over bits, words and hashes,
  which a unit test reaches as well as a model does.
* Hashes, signatures and keys are symbolic where they occur; the libraries that make them are not
  modelled.  The same is true of the bytes of msgpack and of JSON text: what is between a
  prepared value and its bytes is a library.
* `kmd.ts`: one asynchronous method per endpoint that posts its arguments and returns the answer.
* `dryrun.ts`: deprecated by simulate; requests that do not depend on each other, and printing.
* `makeTxn.ts` but for application calls: the functions rename parameters.
* `StringMapSchema` and the untyped conversion between formats, which no class uses.
* The paths, tokens, headers, error texts and posted bodies of requests.

## 6. Plan

Order of work, most important behaviour first:

1. *Done.* `Composer`, `WaitForConfirmation`, their abstract specifications and
   proofs.
2. *Done.* `SharedTransactions` and its proofs.
3. *Done.* `Multisig` and its proofs.
4. *Done.* `LogicSig` and its proofs.
5. *Done.* `ResourceReferences` and `ApplicationCall`.
6. *Done.* `AbiTypes` and `MethodCall`.
7. *Done.* `Encoding`, the classes, `Transactions`, and `Exchange`.
8. *Done.* The builders, `Calls` and `Client`.
9. *Done.* `Queries`, apart from the codec, and its proofs.
10. *Done.* Proofs about `ApplicationCall`.
11. *Done.* Proofs about the ABI: that what is encoded is decoded, for every type, and that
    types and signatures are read from their texts.
12. *Done.* Proofs about `MethodCall`.
13. Proofs about `Encoding`, as recursive functions over a well-founded set of schemas.
14. `Mnemonic` and the source maps, against a reference definition over bounded inputs.
