--------------------------- MODULE IndexerModels ---------------------------
(* The classes of src/src/client/v2/indexer/models/types.ts: what the answers of
   the indexer hold.  A definition stands for a class, in all of its parts. *)
EXTENDS ModelFields

Model(class) == ModelOf(<<"indexer", class>>)

Account ==
  Required(Text, {"address", "status"})
  @@ Required(BigInteger, {"amount", "amount-without-pending-rewards", "pending-rewards",
      "rewards", "round"})
  @@ Required(SafeInteger, {"min-balance", "total-apps-opted-in", "total-assets-opted-in",
      "total-box-bytes", "total-boxes", "total-created-apps", "total-created-assets"})
  @@ Optional(ListOf(Model("ApplicationLocalState")), {"apps-local-state"})
  @@ Optional(SafeInteger, {"apps-total-extra-pages", "last-heartbeat", "last-proposed"})
  @@ Optional(Model("ApplicationStateSchema"), {"apps-total-schema"})
  @@ Optional(ListOf(Model("AssetHolding")), {"assets"})
  @@ Optional(AddressText, {"auth-addr"})
  @@ Optional(BigInteger, {"closed-at-round", "created-at-round", "reward-base"})
  @@ Optional(ListOf(Model("Application")), {"created-apps"})
  @@ Optional(ListOf(Model("Asset")), {"created-assets"})
  @@ Optional(Flag, {"deleted", "incentive-eligible"})
  @@ Optional(Model("AccountParticipation"), {"participation"})
  @@ Optional(Text, {"sig-type"})

AccountParticipation ==
  Required(Blob, {"selection-participation-key", "vote-participation-key"})
  @@ Required(BigInteger, {"vote-first-valid", "vote-key-dilution", "vote-last-valid"})
  @@ Optional(Blob, {"state-proof-key"})

AccountResponse ==
  Required(Model("Account"), {"account"})
  @@ Required(BigInteger, {"current-round"})

AccountStateDelta ==
  Required(Text, {"address"})
  @@ Required(ListOf(Model("EvalDeltaKeyValue")), {"delta"})

AccountsResponse ==
  Required(ListOf(Model("Account")), {"accounts"})
  @@ Required(BigInteger, {"current-round"})
  @@ Optional(Text, {"next-token"})

Application ==
  Required(BigInteger, {"id"})
  @@ Required(Model("ApplicationParams"), {"params"})
  @@ Optional(BigInteger, {"created-at-round", "deleted-at-round"})
  @@ Optional(Flag, {"deleted"})

ApplicationLocalState ==
  Required(BigInteger, {"id"})
  @@ Required(Model("ApplicationStateSchema"), {"schema"})
  @@ Optional(BigInteger, {"closed-out-at-round", "opted-in-at-round"})
  @@ Optional(Flag, {"deleted"})
  @@ Optional(ListOf(Model("TealKeyValue")), {"key-value"})

ApplicationLocalStatesResponse ==
  Required(ListOf(Model("ApplicationLocalState")), {"apps-local-states"})
  @@ Required(BigInteger, {"current-round"})
  @@ Optional(Text, {"next-token"})

ApplicationLogData ==
  Required(ListOf(Blob), {"logs"})
  @@ Required(Text, {"txid"})

ApplicationLogsResponse ==
  Required(BigInteger, {"application-id", "current-round"})
  @@ Optional(ListOf(Model("ApplicationLogData")), {"log-data"})
  @@ Optional(Text, {"next-token"})

ApplicationParams ==
  Required(Blob, {"approval-program", "clear-state-program"})
  @@ Optional(AddressText, {"creator"})
  @@ Optional(SafeInteger, {"extra-program-pages", "version"})
  @@ Optional(ListOf(Model("TealKeyValue")), {"global-state"})
  @@ Optional(Model("ApplicationStateSchema"), {"global-state-schema",
      "local-state-schema"})

ApplicationResponse ==
  Required(BigInteger, {"current-round"})
  @@ Optional(Model("Application"), {"application"})

ApplicationStateSchema ==
  Required(SafeInteger, {"num-byte-slice", "num-uint"})

ApplicationsResponse ==
  Required(ListOf(Model("Application")), {"applications"})
  @@ Required(BigInteger, {"current-round"})
  @@ Optional(Text, {"next-token"})

Asset ==
  Required(BigInteger, {"index"})
  @@ Required(Model("AssetParams"), {"params"})
  @@ Optional(BigInteger, {"created-at-round", "destroyed-at-round"})
  @@ Optional(Flag, {"deleted"})

AssetBalancesResponse ==
  Required(ListOf(Model("MiniAssetHolding")), {"balances"})
  @@ Required(BigInteger, {"current-round"})
  @@ Optional(Text, {"next-token"})

AssetHolding ==
  Required(BigInteger, {"amount", "asset-id"})
  @@ Required(Flag, {"is-frozen"})
  @@ Optional(Flag, {"deleted"})
  @@ Optional(BigInteger, {"opted-in-at-round", "opted-out-at-round"})

AssetHoldingsResponse ==
  Required(ListOf(Model("AssetHolding")), {"assets"})
  @@ Required(BigInteger, {"current-round"})
  @@ Optional(Text, {"next-token"})

AssetParams ==
  Required(Text, {"creator"})
  @@ Required(SafeInteger, {"decimals"})
  @@ Required(BigInteger, {"total"})
  @@ Optional(Text, {"clawback", "freeze", "manager", "name", "reserve", "unit-name",
      "url"})
  @@ Optional(Flag, {"default-frozen"})
  @@ Optional(Blob, {"metadata-hash", "name-b64", "unit-name-b64", "url-b64"})

AssetResponse ==
  Required(Model("Asset"), {"asset"})
  @@ Required(BigInteger, {"current-round"})

AssetsResponse ==
  Required(ListOf(Model("Asset")), {"assets"})
  @@ Required(BigInteger, {"current-round"})
  @@ Optional(Text, {"next-token"})

Block ==
  Required(Blob, {"genesis-hash", "previous-block-hash", "seed", "transactions-root",
      "transactions-root-sha256"})
  @@ Required(Text, {"genesis-id"})
  @@ Required(BigInteger, {"round"})
  @@ Required(SafeInteger, {"timestamp"})
  @@ Optional(SafeInteger, {"bonus", "fees-collected", "proposer-payout", "txn-counter"})
  @@ Optional(Model("ParticipationUpdates"), {"participation-updates"})
  @@ Optional(Blob, {"previous-block-hash-512", "transactions-root-sha512"})
  @@ Optional(AddressText, {"proposer"})
  @@ Optional(Model("BlockRewards"), {"rewards"})
  @@ Optional(ListOf(Model("StateProofTracking")), {"state-proof-tracking"})
  @@ Optional(ListOf(Model("Transaction")), {"transactions"})
  @@ Optional(Model("BlockUpgradeState"), {"upgrade-state"})
  @@ Optional(Model("BlockUpgradeVote"), {"upgrade-vote"})

BlockHeadersResponse ==
  Required(ListOf(Model("Block")), {"blocks"})
  @@ Required(BigInteger, {"current-round"})
  @@ Optional(Text, {"next-token"})

BlockRewards ==
  Required(Text, {"fee-sink", "rewards-pool"})
  @@ Required(BigInteger, {"rewards-calculation-round", "rewards-level", "rewards-rate",
      "rewards-residue"})

BlockUpgradeState ==
  Required(Text, {"current-protocol"})
  @@ Optional(Text, {"next-protocol"})
  @@ Optional(SafeInteger, {"next-protocol-approvals"})
  @@ Optional(BigInteger, {"next-protocol-switch-on", "next-protocol-vote-before"})

BlockUpgradeVote ==
  Optional(Flag, {"upgrade-approve"})
  @@ Optional(BigInteger, {"upgrade-delay"})
  @@ Optional(Text, {"upgrade-propose"})

Box ==
  Required(Blob, {"name", "value"})
  @@ Required(BigInteger, {"round"})

BoxDescriptor ==
  Required(Blob, {"name"})

BoxReference ==
  Required(SafeInteger, {"app"})
  @@ Required(Blob, {"name"})

BoxesResponse ==
  Required(BigInteger, {"application-id"})
  @@ Required(ListOf(Model("BoxDescriptor")), {"boxes"})
  @@ Optional(Text, {"next-token"})

ErrorResponse ==
  Required(Text, {"message"})
  @@ Optional(Untyped, {"data"})

EvalDelta ==
  Required(SafeInteger, {"action"})
  @@ Optional(Text, {"bytes"})
  @@ Optional(BigInteger, {"uint"})

EvalDeltaKeyValue ==
  Required(Text, {"key"})
  @@ Required(Model("EvalDelta"), {"value"})

HashFactory ==
  Optional(SafeInteger, {"hash-type"})

HbProofFields ==
  Optional(Blob, {"hb-pk", "hb-pk1sig", "hb-pk2", "hb-pk2sig", "hb-sig"})

HealthCheck ==
  Required(Flag, {"db-available", "is-migrating"})
  @@ Required(Text, {"message", "version"})
  @@ Required(BigInteger, {"round"})
  @@ Optional(Untyped, {"data"})
  @@ Optional(ListOf(Text), {"errors"})

HoldingRef ==
  Required(AddressText, {"address"})
  @@ Required(SafeInteger, {"asset"})

IndexerStateProofMessage ==
  Optional(Blob, {"block-headers-commitment", "voters-commitment"})
  @@ Optional(BigInteger, {"first-attested-round", "latest-attested-round",
      "ln-proven-weight"})

LocalsRef ==
  Required(AddressText, {"address"})
  @@ Required(SafeInteger, {"app"})

MerkleArrayProof ==
  Optional(Model("HashFactory"), {"hash-factory"})
  @@ Optional(ListOf(Blob), {"path"})
  @@ Optional(SafeInteger, {"tree-depth"})

MiniAssetHolding ==
  Required(Text, {"address"})
  @@ Required(BigInteger, {"amount"})
  @@ Required(Flag, {"is-frozen"})
  @@ Optional(Flag, {"deleted"})
  @@ Optional(BigInteger, {"opted-in-at-round", "opted-out-at-round"})

ParticipationUpdates ==
  Optional(ListOf(Text), {"absent-participation-accounts",
      "expired-participation-accounts"})

ResourceRef ==
  Optional(AddressText, {"address"})
  @@ Optional(SafeInteger, {"application-id", "asset-id"})
  @@ Optional(Model("BoxReference"), {"box"})
  @@ Optional(Model("HoldingRef"), {"holding"})
  @@ Optional(Model("LocalsRef"), {"local"})

StateProofFields ==
  Optional(Model("MerkleArrayProof"), {"part-proofs", "sig-proofs"})
  @@ Optional(ListOf(BigInteger), {"positions-to-reveal"})
  @@ Optional(ListOf(Model("StateProofReveal")), {"reveals"})
  @@ Optional(SafeInteger, {"salt-version"})
  @@ Optional(Blob, {"sig-commit"})
  @@ Optional(BigInteger, {"signed-weight"})

StateProofParticipant ==
  Optional(Model("StateProofVerifier"), {"verifier"})
  @@ Optional(BigInteger, {"weight"})

StateProofReveal ==
  Optional(Model("StateProofParticipant"), {"participant"})
  @@ Optional(BigInteger, {"position"})
  @@ Optional(Model("StateProofSigSlot"), {"sig-slot"})

StateProofSigSlot ==
  Optional(BigInteger, {"lower-sig-weight"})
  @@ Optional(Model("StateProofSignature"), {"signature"})

StateProofSignature ==
  Optional(Blob, {"falcon-signature", "verifying-key"})
  @@ Optional(SafeInteger, {"merkle-array-index"})
  @@ Optional(Model("MerkleArrayProof"), {"proof"})

StateProofTracking ==
  Optional(BigInteger, {"next-round", "online-total-weight"})
  @@ Optional(SafeInteger, {"type"})
  @@ Optional(Blob, {"voters-commitment"})

StateProofVerifier ==
  Optional(Blob, {"commitment"})
  @@ Optional(BigInteger, {"key-lifetime"})

StateSchema ==
  Required(SafeInteger, {"num-byte-slice", "num-uint"})

TealKeyValue ==
  Required(Blob, {"key"})
  @@ Required(Model("TealValue"), {"value"})

TealValue ==
  Required(Blob, {"bytes"})
  @@ Required(SafeInteger, {"type"})
  @@ Required(BigInteger, {"uint"})

Transaction ==
  Required(BigInteger, {"fee", "first-valid", "last-valid"})
  @@ Required(Text, {"sender"})
  @@ Optional(Model("TransactionApplication"), {"application-transaction"})
  @@ Optional(Model("TransactionAssetConfig"), {"asset-config-transaction"})
  @@ Optional(Model("TransactionAssetFreeze"), {"asset-freeze-transaction"})
  @@ Optional(Model("TransactionAssetTransfer"), {"asset-transfer-transaction"})
  @@ Optional(AddressText, {"auth-addr", "rekey-to"})
  @@ Optional(BigInteger, {"close-rewards", "closing-amount", "confirmed-round",
      "created-application-index", "created-asset-index", "receiver-rewards",
      "sender-rewards"})
  @@ Optional(Blob, {"genesis-hash", "group", "lease", "note"})
  @@ Optional(Text, {"genesis-id", "id", "tx-type"})
  @@ Optional(ListOf(Model("EvalDeltaKeyValue")), {"global-state-delta"})
  @@ Optional(Model("TransactionHeartbeat"), {"heartbeat-transaction"})
  @@ Optional(ListOf(Model("Transaction")), {"inner-txns"})
  @@ Optional(SafeInteger, {"intra-round-offset", "round-time"})
  @@ Optional(Model("TransactionKeyreg"), {"keyreg-transaction"})
  @@ Optional(ListOf(Model("AccountStateDelta")), {"local-state-delta"})
  @@ Optional(ListOf(Blob), {"logs"})
  @@ Optional(Model("TransactionPayment"), {"payment-transaction"})
  @@ Optional(Model("TransactionSignature"), {"signature"})
  @@ Optional(Model("TransactionStateProof"), {"state-proof-transaction"})

TransactionApplication ==
  Required(BigInteger, {"application-id"})
  @@ Optional(ListOf(Model("ResourceRef")), {"access"})
  @@ Optional(ListOf(AddressText), {"accounts"})
  @@ Optional(ListOf(Blob), {"application-args"})
  @@ Optional(Blob, {"approval-program", "clear-state-program"})
  @@ Optional(ListOf(Model("BoxReference")), {"box-references"})
  @@ Optional(SafeInteger, {"extra-program-pages", "reject-version"})
  @@ Optional(ListOf(BigInteger), {"foreign-apps", "foreign-assets"})
  @@ Optional(Model("StateSchema"), {"global-state-schema", "local-state-schema"})
  @@ Optional(Text, {"on-completion"})

TransactionAssetConfig ==
  Optional(BigInteger, {"asset-id"})
  @@ Optional(Model("AssetParams"), {"params"})

TransactionAssetFreeze ==
  Required(Text, {"address"})
  @@ Required(BigInteger, {"asset-id"})
  @@ Required(Flag, {"new-freeze-status"})

TransactionAssetTransfer ==
  Required(BigInteger, {"amount", "asset-id"})
  @@ Required(Text, {"receiver"})
  @@ Optional(BigInteger, {"close-amount"})
  @@ Optional(Text, {"close-to", "sender"})

TransactionHeartbeat ==
  Required(Text, {"hb-address"})
  @@ Required(BigInteger, {"hb-key-dilution"})
  @@ Required(Model("HbProofFields"), {"hb-proof"})
  @@ Required(Blob, {"hb-seed", "hb-vote-id"})

TransactionKeyreg ==
  Optional(Flag, {"non-participation"})
  @@ Optional(Blob, {"selection-participation-key", "state-proof-key",
      "vote-participation-key"})
  @@ Optional(BigInteger, {"vote-first-valid", "vote-key-dilution", "vote-last-valid"})

TransactionPayment ==
  Required(BigInteger, {"amount"})
  @@ Required(Text, {"receiver"})
  @@ Optional(BigInteger, {"close-amount"})
  @@ Optional(Text, {"close-remainder-to"})

TransactionResponse ==
  Required(BigInteger, {"current-round"})
  @@ Required(Model("Transaction"), {"transaction"})

TransactionSignature ==
  Optional(Model("TransactionSignatureLogicsig"), {"logicsig"})
  @@ Optional(Model("TransactionSignatureMultisig"), {"multisig"})
  @@ Optional(Blob, {"sig"})

TransactionSignatureLogicsig ==
  Required(Blob, {"logic"})
  @@ Optional(ListOf(Blob), {"args"})
  @@ Optional(Model("TransactionSignatureMultisig"), {"logic-multisig-signature",
      "multisig-signature"})
  @@ Optional(Blob, {"signature"})

TransactionSignatureMultisig ==
  Optional(ListOf(Model("TransactionSignatureMultisigSubsignature")), {"subsignature"})
  @@ Optional(SafeInteger, {"threshold", "version"})

TransactionSignatureMultisigSubsignature ==
  Optional(Blob, {"public-key", "signature"})

TransactionStateProof ==
  Optional(Model("IndexerStateProofMessage"), {"message"})
  @@ Optional(Model("StateProofFields"), {"state-proof"})
  @@ Optional(SafeInteger, {"state-proof-type"})

TransactionsResponse ==
  Required(BigInteger, {"current-round"})
  @@ Required(ListOf(Model("Transaction")), {"transactions"})
  @@ Optional(Text, {"next-token"})

-----------------------------------------------------------------------------
\* The classes by their names.
Classes == [Account |-> Account, AccountParticipation |-> AccountParticipation,
  AccountResponse |-> AccountResponse, AccountStateDelta |-> AccountStateDelta,
  AccountsResponse |-> AccountsResponse, Application |-> Application,
  ApplicationLocalState |-> ApplicationLocalState,
  ApplicationLocalStatesResponse |-> ApplicationLocalStatesResponse,
  ApplicationLogData |-> ApplicationLogData,
  ApplicationLogsResponse |-> ApplicationLogsResponse,
  ApplicationParams |-> ApplicationParams, ApplicationResponse |-> ApplicationResponse,
  ApplicationStateSchema |-> ApplicationStateSchema,
  ApplicationsResponse |-> ApplicationsResponse, Asset |-> Asset,
  AssetBalancesResponse |-> AssetBalancesResponse, AssetHolding |-> AssetHolding,
  AssetHoldingsResponse |-> AssetHoldingsResponse, AssetParams |-> AssetParams,
  AssetResponse |-> AssetResponse, AssetsResponse |-> AssetsResponse, Block |-> Block,
  BlockHeadersResponse |-> BlockHeadersResponse, BlockRewards |-> BlockRewards,
  BlockUpgradeState |-> BlockUpgradeState, BlockUpgradeVote |-> BlockUpgradeVote,
  Box |-> Box, BoxDescriptor |-> BoxDescriptor, BoxReference |-> BoxReference,
  BoxesResponse |-> BoxesResponse, ErrorResponse |-> ErrorResponse, EvalDelta |-> EvalDelta,
  EvalDeltaKeyValue |-> EvalDeltaKeyValue, HashFactory |-> HashFactory,
  HbProofFields |-> HbProofFields, HealthCheck |-> HealthCheck, HoldingRef |-> HoldingRef,
  IndexerStateProofMessage |-> IndexerStateProofMessage, LocalsRef |-> LocalsRef,
  MerkleArrayProof |-> MerkleArrayProof, MiniAssetHolding |-> MiniAssetHolding,
  ParticipationUpdates |-> ParticipationUpdates, ResourceRef |-> ResourceRef,
  StateProofFields |-> StateProofFields, StateProofParticipant |-> StateProofParticipant,
  StateProofReveal |-> StateProofReveal, StateProofSigSlot |-> StateProofSigSlot,
  StateProofSignature |-> StateProofSignature, StateProofTracking |-> StateProofTracking,
  StateProofVerifier |-> StateProofVerifier, StateSchema |-> StateSchema,
  TealKeyValue |-> TealKeyValue, TealValue |-> TealValue, Transaction |-> Transaction,
  TransactionApplication |-> TransactionApplication,
  TransactionAssetConfig |-> TransactionAssetConfig,
  TransactionAssetFreeze |-> TransactionAssetFreeze,
  TransactionAssetTransfer |-> TransactionAssetTransfer,
  TransactionHeartbeat |-> TransactionHeartbeat, TransactionKeyreg |-> TransactionKeyreg,
  TransactionPayment |-> TransactionPayment, TransactionResponse |-> TransactionResponse,
  TransactionSignature |-> TransactionSignature,
  TransactionSignatureLogicsig |-> TransactionSignatureLogicsig,
  TransactionSignatureMultisig |-> TransactionSignatureMultisig,
  TransactionSignatureMultisigSubsignature |-> TransactionSignatureMultisigSubsignature,
  TransactionStateProof |-> TransactionStateProof,
  TransactionsResponse |-> TransactionsResponse]
=============================================================================
