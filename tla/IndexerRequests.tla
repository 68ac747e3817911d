--------------------------- MODULE IndexerRequests ---------------------------
(* The request builders of src/src/client/v2/indexer, one definition each. *)
EXTENDS RequestFields

Indexer(class) == <<"indexer", class>>

LookupAccountAppLocalStates ==
  With(Get(Indexer("ApplicationLocalStatesResponse")),
       Numbers({"limit", "round", "application-id"}) \cup Texts({"next"})
       \cup Flags({"include-all"}))

LookupAccountAssets ==
  With(Get(Indexer("AssetHoldingsResponse")),
       Numbers({"limit", "round", "asset-id"}) \cup Texts({"next"})
       \cup Flags({"include-all"}))

LookupAccountByID ==
  With(Get(Indexer("AccountResponse")),
       Numbers({"round"}) \cup Texts({"exclude"}) \cup Flags({"include-all"}))

LookupAccountCreatedApplications ==
  With(Get(Indexer("ApplicationsResponse")),
       Numbers({"limit", "round", "application-id"}) \cup Texts({"next"})
       \cup Flags({"include-all"}))

LookupAccountCreatedAssets ==
  With(Get(Indexer("AssetsResponse")),
       Numbers({"limit", "round", "asset-id"}) \cup Texts({"next"})
       \cup Flags({"include-all"}))

LookupAccountTransactions ==
  With(Get(Indexer("TransactionsResponse")),
       Funnelled({"note-prefix"}) \cup Texts({"tx-type", "sig-type", "txid", "next"})
       \cup Numbers({"round", "min-round", "max-round", "asset-id", "limit", "currency-less-than"})
       \cup Moments({"before-time", "after-time"}) \cup Printed({"currency-greater-than"})
       \cup Flags({"rekey-to"}))

LookupApplicationBoxByIDandName ==
  [Get(Indexer("Box")) EXCEPT !.fixed = [name |-> "boxName"]]

LookupApplicationLogs ==
  With(Get(Indexer("ApplicationLogsResponse")),
       Numbers({"limit", "min-round", "max-round"}) \cup Texts({"next", "sender-address", "txid"}))

LookupApplications == With(Get(Indexer("ApplicationResponse")), Flags({"include-all"}))

LookupAssetBalances ==
  With(Get(Indexer("AssetBalancesResponse")),
       Numbers({"limit", "currency-less-than"}) \cup Printed({"currency-greater-than"})
       \cup Texts({"next"}) \cup Flags({"include-all"}))

LookupAssetByID == With(Get(Indexer("AssetResponse")), Flags({"include-all"}))

LookupAssetTransactions ==
  With(Get(Indexer("TransactionsResponse")),
       Funnelled({"note-prefix"})
       \cup Texts({"tx-type", "sig-type", "txid", "next", "address-role"})
       \cup Numbers({"round", "min-round", "max-round", "limit", "currency-less-than"})
       \cup Moments({"before-time", "after-time"}) \cup Printed({"currency-greater-than"})
       \cup Addresses({"address"}) \cup Flags({"exclude-close-to", "rekey-to"}))

LookupBlock == With(Get(Indexer("Block")), Flags({"header-only"}))

LookupTransactionByID == Get(Indexer("TransactionResponse"))

MakeHealthCheck == Get(Indexer("HealthCheck"))

SearchAccounts ==
  With(Get(Indexer("AccountsResponse")),
       Printed({"currency-greater-than"}) \cup Addresses({"auth-addr"})
       \cup Numbers({"currency-less-than", "limit", "asset-id", "round", "application-id"})
       \cup Texts({"next", "exclude"}) \cup Flags({"include-all", "online-only"}))

SearchForApplicationBoxes ==
  With(Get(Indexer("BoxesResponse")), Numbers({"limit"}) \cup Texts({"next"}))

SearchForApplications ==
  With(Get(Indexer("ApplicationsResponse")),
       Numbers({"application-id", "limit"}) \cup Addresses({"creator"}) \cup Texts({"next"})
       \cup Flags({"include-all"}))

SearchForAssets ==
  With(Get(Indexer("AssetsResponse")),
       Numbers({"limit", "asset-id"}) \cup Addresses({"creator"})
       \cup Texts({"name", "unit", "next"})
       \cup Flags({"include-all"}))

SearchForBlockHeaders ==
  With(Get(Indexer("BlockHeadersResponse")),
       Lists({"absent", "expired", "proposers"}) \cup Moments({"after-time", "before-time"})
       \cup Numbers({"limit", "max-round", "min-round"}) \cup Texts({"next"}))

SearchForTransactions ==
  With(Get(Indexer("TransactionsResponse")),
       Funnelled({"note-prefix", "group-id"})
       \cup Texts({"tx-type", "sig-type", "txid", "next", "address-role"})
       \cup Numbers({"round", "min-round", "max-round", "asset-id", "limit", "application-id",
             "currency-less-than"})
       \cup Moments({"before-time", "after-time"}) \cup Printed({"currency-greater-than"})
       \cup Addresses({"address"}) \cup Flags({"exclude-close-to", "rekey-to"}))

-----------------------------------------------------------------------------
(* The methods of IndexerClient that make a builder. *)

Builders ==
  [LookupAccountAppLocalStates |-> LookupAccountAppLocalStates,
   LookupAccountAssets |-> LookupAccountAssets, LookupAccountByID |-> LookupAccountByID,
   LookupAccountCreatedApplications |-> LookupAccountCreatedApplications,
   LookupAccountCreatedAssets |-> LookupAccountCreatedAssets,
   LookupAccountTransactions |-> LookupAccountTransactions,
   LookupApplicationBoxByIDandName |-> LookupApplicationBoxByIDandName,
   LookupApplicationLogs |-> LookupApplicationLogs, LookupApplications |-> LookupApplications,
   LookupAssetBalances |-> LookupAssetBalances, LookupAssetByID |-> LookupAssetByID,
   LookupAssetTransactions |-> LookupAssetTransactions, LookupBlock |-> LookupBlock,
   LookupTransactionByID |-> LookupTransactionByID, MakeHealthCheck |-> MakeHealthCheck,
   SearchAccounts |-> SearchAccounts, SearchForApplicationBoxes |-> SearchForApplicationBoxes,
   SearchForApplications |-> SearchForApplications, SearchForAssets |-> SearchForAssets,
   SearchForBlockHeaders |-> SearchForBlockHeaders,
   SearchForTransactions |-> SearchForTransactions]
=============================================================================
