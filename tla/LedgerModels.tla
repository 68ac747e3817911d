---------------------------- MODULE LedgerModels ----------------------------
(* The classes of what a node keeps and answers in its own encoding: blocks
   (src/src/types/block.ts), state deltas (src/src/types/statedelta.ts), state
   proofs (src/src/stateproof.ts), heartbeats (src/src/heartbeat.ts) and signed
   transactions.  A class that another one embeds is joined to it with @@. *)
EXTENDS ModelFields

Model(class) == ModelOf(<<"ledger", class>>)

\* A map of the encoding data that no class is made of.
MapData(class) == Kind(NamedMapSchema(<<"ledger", class>>), Same)

\* The program of a logic signature: its constructor refuses one that is empty.
Program == Kind(ByteArraySchema, <<"program">>)

-----------------------------------------------------------------------------
(* src/src/types/statedelta.ts *)

TealValue ==
  Required(NumberOf, {"tt"}) @@ Optional(BinaryText, {"tb"}) @@ Optional(Uint64, {"ui"})

StateSchema == Required(NumberOf, {"nui", "nbs"})

AppParams ==
  Required(Blob, {"approv", "clearp"})
  @@ Required(MapByBinaryText(Model("TealValue")), {"gs"})
  @@ Required(Model("StateSchema"), {"lsch", "gsch"})
  @@ Required(NumberOf, {"epp"})

AppLocalState ==
  Required(Model("StateSchema"), {"hsch"})
  @@ Required(MapByBinaryText(Model("TealValue")), {"tkv"})

AppLocalStateDelta ==
  Optional(Model("AppLocalState"), {"LocalState"}) @@ Required(Flag, {"Deleted"})

AppParamsDelta ==
  Optional(Model("AppParams"), {"Params"}) @@ Required(Flag, {"Deleted"})

AppResourceRecord ==
  Required(Uint64, {"Aidx"})
  @@ Required(AddressKey, {"Addr"})
  @@ Required(Model("AppParamsDelta"), {"Params"})
  @@ Required(Model("AppLocalStateDelta"), {"State"})

AssetHolding == Required(Uint64, {"a"}) @@ Required(Flag, {"f"})

AssetHoldingDelta ==
  Optional(Model("AssetHolding"), {"Holding"}) @@ Required(Flag, {"Deleted"})

\* decimals is declared a number, and fromEncodingData passes the bigint.
AssetParams ==
  Required(Uint64, {"t", "dc"})
  @@ Required(Flag, {"df"})
  @@ Optional(BinaryText, {"un", "an", "au"})
  @@ Required(FixedBlob(32), {"am"})
  @@ Optional(AddressKey, {"m", "r", "f", "c"})

AssetParamsDelta ==
  Optional(Model("AssetParams"), {"Params"}) @@ Required(Flag, {"Deleted"})

AssetResourceRecord ==
  Required(Uint64, {"Aidx"})
  @@ Required(AddressKey, {"Addr"})
  @@ Required(Model("AssetParamsDelta"), {"Params"})
  @@ Required(Model("AssetHoldingDelta"), {"Holding"})

VotingData ==
  Required(FixedBlob(32), {"VoteID", "SelectionID"})
  @@ Required(FixedBlob(64), {"StateProofID"})
  @@ Required(Uint64, {"VoteFirstValid", "VoteLastValid", "VoteKeyDilution"})

AccountBaseData ==
  Required(NumberOf, {"Status", "TotalExtraAppPages"})
  @@ Required(Uint64, {"MicroAlgos", "RewardsBase", "RewardedMicroAlgos", "TotalAppParams",
      "TotalAppLocalStates", "TotalAssetParams", "TotalAssets", "TotalBoxes",
      "TotalBoxBytes", "LastProposed", "LastHeartbeat"})
  @@ Required(AddressKey, {"AuthAddr"})
  @@ Required(Flag, {"IncentiveEligible"})
  @@ Required(Model("StateSchema"), {"TotalAppSchema"})

AccountData == AccountBaseData @@ VotingData

BalanceRecord == Required(AddressKey, {"Addr"}) @@ AccountData

AccountDeltas ==
  Required(ListOf(Model("BalanceRecord")), {"Accts"})
  @@ OrEmpty(ListOf(Model("AppResourceRecord")), {"AppResources"})
  @@ OrEmpty(ListOf(Model("AssetResourceRecord")), {"AssetResources"})

KvValueDelta == Optional(Blob, {"Data", "OldData"})

IncludedTransactions == Required(Uint64, {"LastValid"}) @@ Required(NumberOf, {"Intra"})

ModifiedCreatable ==
  Required(NumberOf, {"Ctype", "Ndeltas"})
  @@ Required(Flag, {"Created"})
  @@ Required(AddressKey, {"Creator"})

AlgoCount == Required(Uint64, {"mon", "rwd"})

AccountTotals ==
  Required(Model("AlgoCount"), {"online", "offline", "notpart"})
  @@ Required(Uint64, {"rwdlvl"})

LedgerStateDelta ==
  Required(Model("AccountDeltas"), {"Accts"})
  @@ OrEmpty(MapByBinaryText(Model("KvValueDelta")), {"KvMods"})
  @@ Required(MapByBytes(Model("IncludedTransactions")), {"Txids"})
  @@ Optional(Untyped, {"Txleases"})
  @@ OrEmpty(MapByUint64(Model("ModifiedCreatable")), {"Creatables"})
  @@ Required(Model("BlockHeader"), {"Hdr"})
  @@ Required(Uint64, {"StateProofNext", "PrevTimestamp"})
  @@ Required(Model("AccountTotals"), {"Totals"})

-----------------------------------------------------------------------------
(* Transactions (src/src/transaction.ts) and what signs them *)

\* The parts of a transaction that are maps of their own.
AssetConfigParams ==
  Required(Uint64, {"t", "dc"})
  @@ Required(Flag, {"df"})
  @@ Optional(AddressKey, {"m", "r", "f", "c"})
  @@ Optional(Text, {"un", "an", "au"})
  @@ Optional(FixedBlob(32), {"am"})

BoxReference == Required(Uint64, {"i"}) @@ Required(Blob, {"n"})

\* The keys of the transactions of all types; what the constructor and
\* fromEncodingData make of them is in the module Transactions.
Transaction ==
  Required(Text, {"type"})
  @@ Required(AddressKey, {"snd"})
  @@ Required(Uint64, {"fee", "fv", "lv"})
  @@ Required(Blob, {"note"})
  @@ Optional(Text, {"gen"})
  @@ Optional(FixedBlob(32), {"gh", "lx", "grp", "votekey", "selkey"})
  @@ Optional(FixedBlob(64), {"sprfkey"})
  @@ Optional(AddressKey, {"rekey", "rcv", "close", "arcv", "aclose", "asnd", "fadd"})
  @@ Optional(Uint64, {"amt", "votefst", "votelst", "votekd", "caid", "xaid", "aamt",
      "faid", "apid", "apan", "apep", "aprv", "sptype"})
  @@ Optional(Flag, {"nonpart", "afrz"})
  @@ Optional(MapData("AssetConfigParams"), {"apar"})
  @@ Optional(ListOf(Blob), {"apaa"})
  @@ Optional(ListOf(AddressKey), {"apat"})
  @@ Optional(ListOf(Uint64), {"apas", "apfa"})
  @@ Optional(ListOf(MapData("BoxReference")), {"apbx"})
  @@ Optional(ListOf(MapData("ResourceReference")), {"al"})
  @@ Optional(Blob, {"apap", "apsu"})
  @@ Optional(MapData("SchemaSize"), {"apls", "apgs"})
  @@ Optional(Model("StateProof"), {"sp"})
  @@ Optional(Model("StateProofMessage"), {"spmsg"})
  @@ Optional(Model("Heartbeat"), {"hb"})

SchemaSize == Required(Uint64, {"nui", "nbs"})

ResourceReference ==
  Optional(AddressKey, {"d"})
  @@ Optional(Uint64, {"s", "p"})
  @@ Optional(MapData("HoldingReference"), {"h"})
  @@ Optional(MapData("LocalsReference"), {"l"})
  @@ Optional(MapData("BoxReference"), {"b"})

HoldingReference == Required(Uint64, {"d", "s"})

LocalsReference == Required(Uint64, {"d", "p"})

EncodedSubsig == Required(FixedBlob(32), {"pk"}) @@ Optional(FixedBlob(64), {"s"})

EncodedMultisig ==
  Required(SafeInteger, {"v", "thr"}) @@ Required(ListOf(Model("EncodedSubsig")), {"subsig"})

LogicSig ==
  Required(Program, {"l"})
  @@ Required(ListOf(Blob), {"arg"})
  @@ Optional(FixedBlob(64), {"sig"})
  @@ Optional(Model("EncodedMultisig"), {"msig", "lmsig"})

LogicSigAccount ==
  Required(Model("LogicSig"), {"lsig"}) @@ Optional(FixedBlob(32), {"sigkey"})

SignedTransaction ==
  Required(Model("Transaction"), {"txn"})
  @@ Optional(FixedBlob(64), {"sig"})
  @@ Optional(Model("EncodedMultisig"), {"msig"})
  @@ Optional(Model("LogicSig"), {"lsig"})
  @@ Optional(AddressKey, {"sgnr"})

-----------------------------------------------------------------------------
(* src/src/types/block.ts *)

StateProofTrackingData == Required(Blob, {"v"}) @@ Required(Uint64, {"t", "n"})

TxnCommitments == Required(FixedBlob(32), {"txn", "txn256"})

RewardState ==
  Required(AddressKey, {"fees", "rwd"})
  @@ Required(Uint64, {"earn", "rate", "frac", "rwcalr"})

UpgradeState ==
  Required(Text, {"proto", "nextproto"})
  @@ Required(Uint64, {"nextyes", "nextbefore", "nextswitch"})

UpgradeVote ==
  Required(Text, {"upgradeprop"})
  @@ Required(Uint64, {"upgradedelay"})
  @@ Required(Flag, {"upgradeyes"})

ParticipationUpdates == Required(ListOf(AddressKey), {"partupdrmv", "partupdabs"})

BlockHeader ==
  Required(Uint64, {"rnd", "ts", "fc", "bi", "pp", "tc"})
  @@ Required(BlockHash, {"prev"})
  @@ Required(Blob, {"seed"})
  @@ Required(Text, {"gen"})
  @@ Required(FixedBlob(32), {"gh"})
  @@ Required(AddressKey, {"prp"})
  @@ Required(MapByNumber(Model("StateProofTrackingData")), {"spt"})
  @@ TxnCommitments @@ RewardState @@ UpgradeState @@ UpgradeVote @@ ParticipationUpdates

ValueDelta ==
  Required(NumberOf, {"at"}) @@ Required(BinaryText, {"bs"}) @@ Required(Uint64, {"ui"})

EvalDelta ==
  OrEmpty(MapByBinaryText(Model("ValueDelta")), {"gd"})
  @@ OrEmpty(MapByNumber(MapByBinaryText(Model("ValueDelta"))), {"ld"})
  @@ OrEmpty(ListOf(AddressKey), {"sa"})
  @@ OrEmpty(ListOf(BinaryText), {"lg"})
  @@ OrEmpty(ListOf(Model("SignedTxnWithAD")), {"itx"})

ApplyData ==
  Optional(Uint64, {"ca", "aca", "rs", "rr", "rc", "caid", "apid"})
  @@ Optional(Model("EvalDelta"), {"dt"})

SignedTxnWithAD == SignedTransaction @@ ApplyData

SignedTxnInBlock == SignedTxnWithAD @@ Required(Flag, {"hgi", "hgh"})

Block == BlockHeader @@ Required(ListOf(Model("SignedTxnInBlock")), {"txns"})

-----------------------------------------------------------------------------
(* src/src/stateproof.ts and src/src/heartbeat.ts *)

HashFactory == Required(NumberOf, {"t"})

MerkleArrayProof ==
  Required(ListOf(Blob), {"pth"})
  @@ Required(Model("HashFactory"), {"hsh"})
  @@ Required(NumberOf, {"td"})

MerkleSignatureVerifier == Required(FixedBlob(64), {"cmt"}) @@ Required(Uint64, {"lf"})

Participant == Required(Model("MerkleSignatureVerifier"), {"p"}) @@ Required(Uint64, {"w"})

FalconVerifier == Required(FixedBlob(1793), {"k"})

FalconSignatureStruct ==
  Required(Blob, {"sig"})
  @@ Required(Uint64, {"idx"})
  @@ Required(Model("MerkleArrayProof"), {"prf"})
  @@ Required(Model("FalconVerifier"), {"vkey"})

SigslotCommit == Required(Model("FalconSignatureStruct"), {"s"}) @@ Required(Uint64, {"l"})

Reveal ==
  Required(Model("SigslotCommit"), {"s"}) @@ Required(Model("Participant"), {"p"})

StateProof ==
  Required(Blob, {"c"})
  @@ Required(Uint64, {"w"})
  @@ Required(Model("MerkleArrayProof"), {"S", "P"})
  @@ Required(NumberOf, {"v"})
  @@ Required(MapByUint64(Model("Reveal")), {"r"})
  @@ Required(ListOf(Uint64), {"pr"})

StateProofMessage == Required(Blob, {"b", "v"}) @@ Required(Uint64, {"P", "f", "l"})

HeartbeatProof ==
  Required(FixedBlob(64), {"s", "p1s", "p2s"}) @@ Required(FixedBlob(32), {"p", "p2"})

Heartbeat ==
  Required(AddressKey, {"a"})
  @@ Required(Model("HeartbeatProof"), {"prf"})
  @@ Required(Blob, {"sd"})
  @@ Required(FixedBlob(32), {"vid"})
  @@ Required(Uint64, {"kd"})

-----------------------------------------------------------------------------

Classes ==
  [TealValue |-> TealValue, StateSchema |-> StateSchema,
   AppParams |-> AppParams, AppLocalState |-> AppLocalState,
   AppLocalStateDelta |-> AppLocalStateDelta,
   AppParamsDelta |-> AppParamsDelta, AppResourceRecord |-> AppResourceRecord,
   AssetHolding |-> AssetHolding, AssetHoldingDelta |-> AssetHoldingDelta,
   AssetParams |-> AssetParams, AssetParamsDelta |-> AssetParamsDelta,
   AssetResourceRecord |-> AssetResourceRecord, VotingData |-> VotingData,
   AccountBaseData |-> AccountBaseData, AccountData |-> AccountData,
   BalanceRecord |-> BalanceRecord, AccountDeltas |-> AccountDeltas,
   KvValueDelta |-> KvValueDelta,
   IncludedTransactions |-> IncludedTransactions,
   ModifiedCreatable |-> ModifiedCreatable, AlgoCount |-> AlgoCount,
   AccountTotals |-> AccountTotals, LedgerStateDelta |-> LedgerStateDelta,
   AssetConfigParams |-> AssetConfigParams, BoxReference |-> BoxReference,
   Transaction |-> Transaction, SchemaSize |-> SchemaSize,
   ResourceReference |-> ResourceReference,
   HoldingReference |-> HoldingReference, LocalsReference |-> LocalsReference,
   EncodedSubsig |-> EncodedSubsig, EncodedMultisig |-> EncodedMultisig,
   LogicSig |-> LogicSig, LogicSigAccount |-> LogicSigAccount,
   SignedTransaction |-> SignedTransaction,
   StateProofTrackingData |-> StateProofTrackingData,
   TxnCommitments |-> TxnCommitments, RewardState |-> RewardState,
   UpgradeState |-> UpgradeState, UpgradeVote |-> UpgradeVote,
   ParticipationUpdates |-> ParticipationUpdates, BlockHeader |-> BlockHeader,
   ValueDelta |-> ValueDelta, EvalDelta |-> EvalDelta,
   ApplyData |-> ApplyData, SignedTxnWithAD |-> SignedTxnWithAD,
   SignedTxnInBlock |-> SignedTxnInBlock, Block |-> Block,
   HashFactory |-> HashFactory, MerkleArrayProof |-> MerkleArrayProof,
   MerkleSignatureVerifier |-> MerkleSignatureVerifier,
   Participant |-> Participant, FalconVerifier |-> FalconVerifier,
   FalconSignatureStruct |-> FalconSignatureStruct,
   SigslotCommit |-> SigslotCommit, Reveal |-> Reveal,
   StateProof |-> StateProof, StateProofMessage |-> StateProofMessage,
   HeartbeatProof |-> HeartbeatProof, Heartbeat |-> Heartbeat]
=============================================================================
