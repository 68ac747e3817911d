---------------------------- MODULE AlgodModels ----------------------------
(* The classes of src/src/client/v2/algod/models/types.ts: what the answers of
   algod hold.  A definition stands for a class, in all of its parts. *)
EXTENDS ModelFields

Model(class) == ModelOf(<<"algod", class>>)
Ledger(class) == ModelOf(<<"ledger", class>>)

Account ==
  Required(Text, {"address", "status"})
  @@ Required(BigInteger, {"amount", "amount-without-pending-rewards", "min-balance",
      "pending-rewards", "rewards", "round"})
  @@ Required(SafeInteger, {"total-apps-opted-in", "total-assets-opted-in",
      "total-created-apps", "total-created-assets"})
  @@ Optional(ListOf(Model("ApplicationLocalState")), {"apps-local-state"})
  @@ Optional(SafeInteger, {"apps-total-extra-pages", "last-heartbeat", "last-proposed",
      "total-box-bytes", "total-boxes"})
  @@ Optional(Model("ApplicationStateSchema"), {"apps-total-schema"})
  @@ Optional(ListOf(Model("AssetHolding")), {"assets"})
  @@ Optional(AddressText, {"auth-addr"})
  @@ Optional(ListOf(Model("Application")), {"created-apps"})
  @@ Optional(ListOf(Model("Asset")), {"created-assets"})
  @@ Optional(Flag, {"incentive-eligible"})
  @@ Optional(Model("AccountParticipation"), {"participation"})
  @@ Optional(BigInteger, {"reward-base"})
  @@ Optional(Text, {"sig-type"})

AccountApplicationResource ==
  Required(SafeInteger, {"id"})
  @@ Optional(Model("ApplicationLocalState"), {"app-local-state"})
  @@ Optional(SafeInteger, {"created-at-round"})
  @@ Optional(Flag, {"deleted"})
  @@ Optional(Model("ApplicationParams"), {"params"})

AccountApplicationResponse ==
  Required(BigInteger, {"round"})
  @@ Optional(Model("ApplicationLocalState"), {"app-local-state"})
  @@ Optional(Model("ApplicationParams"), {"created-app"})

AccountApplicationsInformationResponse ==
  Required(SafeInteger, {"round"})
  @@ Optional(ListOf(Model("AccountApplicationResource")), {"application-resources"})
  @@ Optional(Text, {"next-token"})

AccountAssetHolding ==
  Required(Model("AssetHolding"), {"asset-holding"})
  @@ Optional(Model("AssetParams"), {"asset-params"})

AccountAssetResponse ==
  Required(BigInteger, {"round"})
  @@ Optional(Model("AssetHolding"), {"asset-holding"})
  @@ Optional(Model("AssetParams"), {"created-asset"})

AccountAssetsInformationResponse ==
  Required(SafeInteger, {"round"})
  @@ Optional(ListOf(Model("AccountAssetHolding")), {"asset-holdings"})
  @@ Optional(Text, {"next-token"})

AccountParticipation ==
  Required(Blob, {"selection-participation-key", "vote-participation-key"})
  @@ Required(BigInteger, {"vote-first-valid", "vote-key-dilution", "vote-last-valid"})
  @@ Optional(Blob, {"state-proof-key"})

AccountStateDelta ==
  Required(Text, {"address"})
  @@ Required(ListOf(Model("EvalDeltaKeyValue")), {"delta"})

AppCallLogs ==
  Required(SafeInteger, {"application-index"})
  @@ Required(ListOf(Blob), {"logs"})
  @@ Required(Text, {"txId"})

Application ==
  Required(BigInteger, {"id"})
  @@ Optional(Model("ApplicationParams"), {"params"})

ApplicationInitialStates ==
  Required(BigInteger, {"id"})
  @@ Optional(Model("ApplicationKVStorage"), {"app-boxes", "app-globals"})
  @@ Optional(ListOf(Model("ApplicationKVStorage")), {"app-locals"})

ApplicationKVStorage ==
  Required(ListOf(Model("AvmKeyValue")), {"kvs"})
  @@ Optional(AddressText, {"account"})

ApplicationLocalReference ==
  Required(AddressText, {"account"})
  @@ Required(BigInteger, {"app"})

ApplicationLocalState ==
  Required(BigInteger, {"id"})
  @@ Required(Model("ApplicationStateSchema"), {"schema"})
  @@ Optional(ListOf(Model("TealKeyValue")), {"key-value"})

ApplicationParams ==
  Required(Blob, {"approval-program", "clear-state-program"})
  @@ Required(AddressText, {"creator"})
  @@ Optional(SafeInteger, {"extra-program-pages", "version"})
  @@ Optional(ListOf(Model("TealKeyValue")), {"global-state"})
  @@ Optional(Model("ApplicationStateSchema"), {"global-state-schema",
      "local-state-schema"})
  @@ Optional(AddressText, {"size-sponsor"})

ApplicationStateOperation ==
  Required(Text, {"app-state-type", "operation"})
  @@ Required(Blob, {"key"})
  @@ Optional(AddressText, {"account"})
  @@ Optional(Model("AvmValue"), {"new-value"})

ApplicationStateSchema ==
  Required(SafeInteger, {"num-byte-slice", "num-uint"})

Asset ==
  Required(BigInteger, {"index"})
  @@ Optional(Model("AssetParams"), {"params"})

AssetHolding ==
  Required(BigInteger, {"amount", "asset-id"})
  @@ Required(Flag, {"is-frozen"})

AssetHoldingReference ==
  Required(AddressText, {"account"})
  @@ Required(BigInteger, {"asset"})

AssetParams ==
  Required(Text, {"creator"})
  @@ Required(SafeInteger, {"decimals"})
  @@ Required(BigInteger, {"total"})
  @@ Optional(Text, {"clawback", "freeze", "manager", "name", "reserve", "unit-name",
      "url"})
  @@ Optional(Flag, {"default-frozen"})
  @@ Optional(Blob, {"metadata-hash", "name-b64", "unit-name-b64", "url-b64"})

AvmKeyValue ==
  Required(Blob, {"key"})
  @@ Required(Model("AvmValue"), {"value"})

AvmValue ==
  Required(SafeInteger, {"type"})
  @@ Optional(Blob, {"bytes"})
  @@ Optional(BigInteger, {"uint"})

BlockHashResponse ==
  Required(Text, {"blockHash"})

BlockLogsResponse ==
  Required(ListOf(Model("AppCallLogs")), {"logs"})

BlockResponse ==
  Required(Ledger("Block"), {"block"})
  @@ Optional(Untyped, {"cert"})

BlockTxidsResponse ==
  Required(ListOf(Text), {"blockTxids"})

Box ==
  Required(Blob, {"name", "value"})
  @@ Required(BigInteger, {"round"})

BoxDescriptor ==
  Required(Blob, {"name"})

BoxReference ==
  Required(BigInteger, {"app"})
  @@ Required(Blob, {"name"})

BoxesResponse ==
  Required(ListOf(Model("BoxDescriptor")), {"boxes"})

BuildVersion ==
  Required(Text, {"branch", "channel", "commit_hash"})
  @@ Required(SafeInteger, {"build_number", "major", "minor"})

CompileResponse ==
  Required(Text, {"hash", "result"})
  @@ Optional(Untyped, {"sourcemap"})

DisassembleResponse ==
  Required(Text, {"result"})

DryrunRequest ==
  Required(ListOf(Model("Account")), {"accounts"})
  @@ Required(ListOf(Model("Application")), {"apps"})
  @@ Required(SafeInteger, {"latest-timestamp"})
  @@ Required(Text, {"protocol-version"})
  @@ Required(BigInteger, {"round"})
  @@ Required(ListOf(Model("DryrunSource")), {"sources"})
  @@ Required(ListOf(Ledger("SignedTransaction")), {"txns"})

DryrunResponse ==
  Required(Text, {"error", "protocol-version"})
  @@ Required(ListOf(Model("DryrunTxnResult")), {"txns"})

DryrunSource ==
  Required(BigInteger, {"app-index"})
  @@ Required(Text, {"field-name", "source"})
  @@ Required(SafeInteger, {"txn-index"})

DryrunState ==
  Required(SafeInteger, {"line", "pc"})
  @@ Required(ListOf(Model("TealValue")), {"stack"})
  @@ Optional(Text, {"error"})
  @@ Optional(ListOf(Model("TealValue")), {"scratch"})

DryrunTxnResult ==
  Required(ListOf(Text), {"disassembly"})
  @@ Optional(ListOf(Text), {"app-call-messages", "logic-sig-disassembly",
      "logic-sig-messages"})
  @@ Optional(ListOf(Model("DryrunState")), {"app-call-trace", "logic-sig-trace"})
  @@ Optional(SafeInteger, {"budget-added", "budget-consumed"})
  @@ Optional(ListOf(Model("EvalDeltaKeyValue")), {"global-delta"})
  @@ Optional(ListOf(Model("AccountStateDelta")), {"local-deltas"})
  @@ Optional(ListOf(Blob), {"logs"})

ErrorResponse ==
  Required(Text, {"message"})
  @@ Optional(Untyped, {"data"})

EvalDelta ==
  Required(SafeInteger, {"action"})
  @@ Optional(Text, {"bytes"})
  @@ Optional(BigInteger, {"uint"})

EvalDeltaKeyValue ==
  Required(Text, {"key"})
  @@ Required(Model("EvalDelta"), {"value"})

Genesis ==
  Required(ListOf(Model("GenesisAllocation")), {"alloc"})
  @@ Required(Text, {"fees", "id", "network", "proto", "rwd"})
  @@ Required(SafeInteger, {"timestamp"})
  @@ Optional(Text, {"comment"})
  @@ Optional(Flag, {"devmode"})

GenesisAllocation ==
  Required(Text, {"addr", "comment"})
  @@ Required(Untyped, {"state"})

GetBlockTimeStampOffsetResponse ==
  Required(SafeInteger, {"offset"})

GetSyncRoundResponse ==
  Required(BigInteger, {"round"})

LedgerStateDeltaForTransactionGroup ==
  Required(Ledger("LedgerStateDelta"), {"Delta"})
  @@ Required(ListOf(Text), {"Ids"})

LightBlockHeaderProof ==
  Required(SafeInteger, {"index", "treedepth"})
  @@ Required(Blob, {"proof"})

NodeStatusResponse ==
  Required(BigInteger, {"catchup-time", "last-round", "next-version-round",
      "time-since-last-round"})
  @@ Required(Text, {"last-version", "next-version"})
  @@ Required(Flag, {"next-version-supported", "stopped-at-unsupported-round"})
  @@ Optional(Text, {"catchpoint", "last-catchpoint"})
  @@ Optional(SafeInteger, {"catchpoint-acquired-blocks", "catchpoint-processed-accounts",
      "catchpoint-processed-kvs", "catchpoint-total-accounts", "catchpoint-total-blocks",
      "catchpoint-total-kvs", "catchpoint-verified-accounts", "catchpoint-verified-kvs",
      "upgrade-no-votes", "upgrade-vote-rounds", "upgrade-votes", "upgrade-votes-required",
      "upgrade-yes-votes"})
  @@ Optional(BigInteger, {"upgrade-delay", "upgrade-next-protocol-vote-before"})
  @@ Optional(Flag, {"upgrade-node-vote"})

PendingTransactionResponse ==
  Required(Text, {"pool-error"})
  @@ Required(Ledger("SignedTransaction"), {"txn"})
  @@ Optional(BigInteger, {"application-index", "asset-closing-amount", "asset-index",
      "close-rewards", "closing-amount", "confirmed-round", "receiver-rewards",
      "sender-rewards"})
  @@ Optional(ListOf(Model("EvalDeltaKeyValue")), {"global-state-delta"})
  @@ Optional(ListOf(Model("PendingTransactionResponse")), {"inner-txns"})
  @@ Optional(ListOf(Model("AccountStateDelta")), {"local-state-delta"})
  @@ Optional(ListOf(Blob), {"logs"})

PendingTransactionsResponse ==
  Required(ListOf(Ledger("SignedTransaction")), {"top-transactions"})
  @@ Required(SafeInteger, {"total-transactions"})

PostTransactionsResponse ==
  Required(Text, {"txId"})

ScratchChange ==
  Required(Model("AvmValue"), {"new-value"})
  @@ Required(SafeInteger, {"slot"})

SimulateInitialStates ==
  Optional(ListOf(Model("ApplicationInitialStates")), {"app-initial-states"})

SimulateRequest ==
  Required(ListOf(Model("SimulateRequestTransactionGroup")), {"txn-groups"})
  @@ Optional(Flag, {"allow-empty-signatures", "allow-more-logging",
      "allow-unnamed-resources", "fix-signers"})
  @@ Optional(Model("SimulateTraceConfig"), {"exec-trace-config"})
  @@ Optional(SafeInteger, {"extra-opcode-budget"})
  @@ Optional(BigInteger, {"round"})

SimulateRequestTransactionGroup ==
  Required(ListOf(Ledger("SignedTransaction")), {"txns"})

SimulateResponse ==
  Required(BigInteger, {"last-round"})
  @@ Required(ListOf(Model("SimulateTransactionGroupResult")), {"txn-groups"})
  @@ Required(SafeInteger, {"version"})
  @@ Optional(Model("SimulationEvalOverrides"), {"eval-overrides"})
  @@ Optional(Model("SimulateTraceConfig"), {"exec-trace-config"})
  @@ Optional(Model("SimulateInitialStates"), {"initial-states"})

SimulateTraceConfig ==
  Optional(Flag, {"enable", "scratch-change", "stack-change", "state-change"})

SimulateTransactionGroupResult ==
  Required(ListOf(Model("SimulateTransactionResult")), {"txn-results"})
  @@ Optional(SafeInteger, {"app-budget-added", "app-budget-consumed"})
  @@ Optional(ListOf(SafeInteger), {"failed-at"})
  @@ Optional(Text, {"failure-message"})
  @@ Optional(Model("SimulateUnnamedResourcesAccessed"), {"unnamed-resources-accessed"})

SimulateTransactionResult ==
  Required(Model("PendingTransactionResponse"), {"txn-result"})
  @@ Optional(SafeInteger, {"app-budget-consumed", "logic-sig-budget-consumed"})
  @@ Optional(Model("SimulationTransactionExecTrace"), {"exec-trace"})
  @@ Optional(AddressText, {"fixed-signer"})
  @@ Optional(Model("SimulateUnnamedResourcesAccessed"), {"unnamed-resources-accessed"})

SimulateUnnamedResourcesAccessed ==
  Optional(ListOf(AddressText), {"accounts"})
  @@ Optional(ListOf(Model("ApplicationLocalReference")), {"app-locals"})
  @@ Optional(ListOf(BigInteger), {"apps", "assets"})
  @@ Optional(ListOf(Model("AssetHoldingReference")), {"asset-holdings"})
  @@ Optional(ListOf(Model("BoxReference")), {"boxes"})
  @@ Optional(SafeInteger, {"extra-box-refs"})

SimulationEvalOverrides ==
  Optional(Flag, {"allow-empty-signatures", "allow-unnamed-resources", "fix-signers"})
  @@ Optional(SafeInteger, {"extra-opcode-budget", "max-log-calls", "max-log-size"})

SimulationOpcodeTraceUnit ==
  Required(SafeInteger, {"pc"})
  @@ Optional(ListOf(Model("ScratchChange")), {"scratch-changes"})
  @@ Optional(ListOf(SafeInteger), {"spawned-inners"})
  @@ Optional(ListOf(Model("AvmValue")), {"stack-additions"})
  @@ Optional(SafeInteger, {"stack-pop-count"})
  @@ Optional(ListOf(Model("ApplicationStateOperation")), {"state-changes"})

SimulationTransactionExecTrace ==
  Optional(Blob, {"approval-program-hash", "clear-state-program-hash", "logic-sig-hash"})
  @@ Optional(ListOf(Model("SimulationOpcodeTraceUnit")), {"approval-program-trace",
      "clear-state-program-trace", "logic-sig-trace"})
  @@ Optional(Flag, {"clear-state-rollback"})
  @@ Optional(Text, {"clear-state-rollback-error"})
  @@ Optional(ListOf(Model("SimulationTransactionExecTrace")), {"inner-trace"})

StateProof ==
  Required(Model("StateProofMessage"), {"Message"})
  @@ Required(Blob, {"StateProof"})

StateProofMessage ==
  Required(Blob, {"BlockHeadersCommitment", "VotersCommitment"})
  @@ Required(BigInteger, {"FirstAttestedRound", "LastAttestedRound", "LnProvenWeight"})

SupplyResponse ==
  Required(BigInteger, {"current_round", "online-money", "online-stake", "total-money"})

TealKeyValue ==
  Required(Blob, {"key"})
  @@ Required(Model("TealValue"), {"value"})

TealValue ==
  Required(Blob, {"bytes"})
  @@ Required(SafeInteger, {"type"})
  @@ Required(BigInteger, {"uint"})

TransactionGroupLedgerStateDeltasForRoundResponse ==
  Required(ListOf(Model("LedgerStateDeltaForTransactionGroup")), {"Deltas"})

TransactionParametersResponse ==
  Required(Text, {"consensus-version", "genesis-id"})
  @@ Required(BigInteger, {"fee", "last-round", "min-fee"})
  @@ Required(Blob, {"genesis-hash"})

TransactionProof ==
  Required(SafeInteger, {"idx", "treedepth"})
  @@ Required(Blob, {"proof", "stibhash"})
  @@ Optional(Text, {"hashtype"})

Version ==
  Required(Model("BuildVersion"), {"build"})
  @@ Required(Blob, {"genesis_hash_b64"})
  @@ Required(Text, {"genesis_id"})
  @@ Required(ListOf(Text), {"versions"})

-----------------------------------------------------------------------------
\* The classes by their names.
Classes == [Account |-> Account, AccountApplicationResource |-> AccountApplicationResource,
  AccountApplicationResponse |-> AccountApplicationResponse,
  AccountApplicationsInformationResponse |-> AccountApplicationsInformationResponse,
  AccountAssetHolding |-> AccountAssetHolding,
  AccountAssetResponse |-> AccountAssetResponse,
  AccountAssetsInformationResponse |-> AccountAssetsInformationResponse,
  AccountParticipation |-> AccountParticipation, AccountStateDelta |-> AccountStateDelta,
  AppCallLogs |-> AppCallLogs, Application |-> Application,
  ApplicationInitialStates |-> ApplicationInitialStates,
  ApplicationKVStorage |-> ApplicationKVStorage,
  ApplicationLocalReference |-> ApplicationLocalReference,
  ApplicationLocalState |-> ApplicationLocalState, ApplicationParams |-> ApplicationParams,
  ApplicationStateOperation |-> ApplicationStateOperation,
  ApplicationStateSchema |-> ApplicationStateSchema, Asset |-> Asset,
  AssetHolding |-> AssetHolding, AssetHoldingReference |-> AssetHoldingReference,
  AssetParams |-> AssetParams, AvmKeyValue |-> AvmKeyValue, AvmValue |-> AvmValue,
  BlockHashResponse |-> BlockHashResponse, BlockLogsResponse |-> BlockLogsResponse,
  BlockResponse |-> BlockResponse, BlockTxidsResponse |-> BlockTxidsResponse, Box |-> Box,
  BoxDescriptor |-> BoxDescriptor, BoxReference |-> BoxReference,
  BoxesResponse |-> BoxesResponse, BuildVersion |-> BuildVersion,
  CompileResponse |-> CompileResponse, DisassembleResponse |-> DisassembleResponse,
  DryrunRequest |-> DryrunRequest, DryrunResponse |-> DryrunResponse,
  DryrunSource |-> DryrunSource, DryrunState |-> DryrunState,
  DryrunTxnResult |-> DryrunTxnResult, ErrorResponse |-> ErrorResponse,
  EvalDelta |-> EvalDelta, EvalDeltaKeyValue |-> EvalDeltaKeyValue, Genesis |-> Genesis,
  GenesisAllocation |-> GenesisAllocation,
  GetBlockTimeStampOffsetResponse |-> GetBlockTimeStampOffsetResponse,
  GetSyncRoundResponse |-> GetSyncRoundResponse,
  LedgerStateDeltaForTransactionGroup |-> LedgerStateDeltaForTransactionGroup,
  LightBlockHeaderProof |-> LightBlockHeaderProof,
  NodeStatusResponse |-> NodeStatusResponse,
  PendingTransactionResponse |-> PendingTransactionResponse,
  PendingTransactionsResponse |-> PendingTransactionsResponse,
  PostTransactionsResponse |-> PostTransactionsResponse, ScratchChange |-> ScratchChange,
  SimulateInitialStates |-> SimulateInitialStates, SimulateRequest |-> SimulateRequest,
  SimulateRequestTransactionGroup |-> SimulateRequestTransactionGroup,
  SimulateResponse |-> SimulateResponse, SimulateTraceConfig |-> SimulateTraceConfig,
  SimulateTransactionGroupResult |-> SimulateTransactionGroupResult,
  SimulateTransactionResult |-> SimulateTransactionResult,
  SimulateUnnamedResourcesAccessed |-> SimulateUnnamedResourcesAccessed,
  SimulationEvalOverrides |-> SimulationEvalOverrides,
  SimulationOpcodeTraceUnit |-> SimulationOpcodeTraceUnit,
  SimulationTransactionExecTrace |-> SimulationTransactionExecTrace,
  StateProof |-> StateProof, StateProofMessage |-> StateProofMessage,
  SupplyResponse |-> SupplyResponse, TealKeyValue |-> TealKeyValue, TealValue |-> TealValue,
  TransactionGroupLedgerStateDeltasForRoundResponse |-> TransactionGroupLedgerStateDeltasForRoundResponse,
  TransactionParametersResponse |-> TransactionParametersResponse,
  TransactionProof |-> TransactionProof, Version |-> Version]
=============================================================================
