---------------------------- MODULE AlgodRequests ----------------------------
(* The request builders of src/src/client/v2/algod, one definition each. *)
EXTENDS RequestFields

Algod(class) == <<"algod", class>>

Page == Numbers({"limit"}) \cup Texts({"next"})

AccountApplicationInformation == Get(Algod("AccountApplicationResponse"))

AccountApplicationsInformation ==
  With(Get(Algod("AccountApplicationsInformationResponse")), Page \cup Joined({"include"}))

AccountAssetInformation == Get(Algod("AccountAssetResponse"))

AccountAssetsInformation == With(Get(Algod("AccountAssetsInformationResponse")), Page)

AccountInformation == With(Get(Algod("Account")), Texts({"exclude"}))

Block == With(GetMsgpack(Algod("BlockResponse")), Flags({"header-only"}))

Compile == With(Post(Algod("CompileResponse"), "text/plain"), Flags({"sourcemap"}))

Disassemble == Post(Algod("DisassembleResponse"), "text/plain")

Dryrun == WithoutQuery(Post(Algod("DryrunResponse"), "text/plain"))

Genesis == GetText

GetApplicationBoxByName == [Get(Algod("Box")) EXCEPT !.fixed = [name |-> "boxName"]]

GetApplicationBoxes ==
  [With(Get(Algod("BoxesResponse")), Numbers({"max"})) EXCEPT !.fixed = [max |-> "zero"]]

GetApplicationByID == Get(Algod("Application"))

GetAssetByID == Get(Algod("Asset"))

GetBlockHash == Get(Algod("BlockHashResponse"))

GetBlockOffsetTimestamp == Get(Algod("GetBlockTimeStampOffsetResponse"))

GetBlockTxids == Get(Algod("BlockTxidsResponse"))

GetLedgerStateDelta == GetMsgpack(<<"ledger", "LedgerStateDelta">>)

GetLedgerStateDeltaForTransactionGroup == GetMsgpack(<<"ledger", "LedgerStateDelta">>)

GetSyncRound == Get(Algod("GetSyncRoundResponse"))

GetTransactionGroupLedgerStateDeltasForRound ==
  GetMsgpack(Algod("TransactionGroupLedgerStateDeltasForRoundResponse"))

GetTransactionProof == With(Get(Algod("TransactionProof")), Texts({"hashtype"}))

HealthCheck == GetNothing

LightBlockHeaderProof == Get(Algod("LightBlockHeaderProof"))

PendingTransactionInformation ==
  With(GetMsgpack(Algod("PendingTransactionResponse")), Numbers({"max"}))

PendingTransactions ==
  With(GetMsgpack(Algod("PendingTransactionsResponse")), Numbers({"max"}))

PendingTransactionsByAddress ==
  With(GetMsgpack(Algod("PendingTransactionsResponse")), Numbers({"max"}))

Ready == GetNothing

SendRawTransaction ==
  WithoutQuery(Post(Algod("PostTransactionsResponse"), "application/x-binary"))

SetBlockOffsetTimestamp == PostNothing

SetSyncRound == PostNothing

SimulateRawTransactions ==
  [Post(Algod("SimulateResponse"), "application/msgpack") EXCEPT
     !.decodes = "msgpack", !.fixed = [format |-> "msgpack"]]

StateProof == Get(Algod("StateProof"))

Status == Get(Algod("NodeStatusResponse"))

StatusAfterBlock == Get(Algod("NodeStatusResponse"))

\* What it returns has no genesis but the ID and the hash, and no class.
SuggestedParamsRequest ==
  [Get(Algod("TransactionParametersResponse")) EXCEPT !.decodes = "suggested parameters"]

Supply == Get(Algod("SupplyResponse"))

UnsetSyncRound == DeleteNothing

Versions == Get(Algod("Version"))

-----------------------------------------------------------------------------
(* The methods of AlgodClient that make a builder. *)

Builders ==
  [AccountApplicationInformation |-> AccountApplicationInformation,
   AccountApplicationsInformation |-> AccountApplicationsInformation,
   AccountAssetInformation |-> AccountAssetInformation,
   AccountAssetsInformation |-> AccountAssetsInformation,
   AccountInformation |-> AccountInformation, Block |-> Block, Compile |-> Compile,
   Disassemble |-> Disassemble, Dryrun |-> Dryrun, Genesis |-> Genesis,
   GetApplicationBoxByName |-> GetApplicationBoxByName,
   GetApplicationBoxes |-> GetApplicationBoxes, GetApplicationByID |-> GetApplicationByID,
   GetAssetByID |-> GetAssetByID, GetBlockHash |-> GetBlockHash,
   GetBlockOffsetTimestamp |-> GetBlockOffsetTimestamp, GetBlockTxids |-> GetBlockTxids,
   GetLedgerStateDelta |-> GetLedgerStateDelta,
   GetLedgerStateDeltaForTransactionGroup |-> GetLedgerStateDeltaForTransactionGroup,
   GetSyncRound |-> GetSyncRound,
   GetTransactionGroupLedgerStateDeltasForRound |-> GetTransactionGroupLedgerStateDeltasForRound,
   GetTransactionProof |-> GetTransactionProof, HealthCheck |-> HealthCheck,
   LightBlockHeaderProof |-> LightBlockHeaderProof,
   PendingTransactionInformation |-> PendingTransactionInformation,
   PendingTransactions |-> PendingTransactions,
   PendingTransactionsByAddress |-> PendingTransactionsByAddress, Ready |-> Ready,
   SendRawTransaction |-> SendRawTransaction,
   SetBlockOffsetTimestamp |-> SetBlockOffsetTimestamp, SetSyncRound |-> SetSyncRound,
   SimulateRawTransactions |-> SimulateRawTransactions, StateProof |-> StateProof,
   Status |-> Status, StatusAfterBlock |-> StatusAfterBlock,
   SuggestedParamsRequest |-> SuggestedParamsRequest, Supply |-> Supply,
   UnsetSyncRound |-> UnsetSyncRound, Versions |-> Versions]
=============================================================================
