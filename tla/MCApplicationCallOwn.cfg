CONSTANTS
  ZeroAddress <- MCZeroAddress
  EmptyName = EmptyName
  Address <- MCAddress
  Asset <- MCAsset
  App <- MCApp
  Name = {EmptyName, n1}
  CalledApp <- MCCalledApp
  AccessLists <- MCAccessLists
  MaxGiven = 3
  Bits = 2
  AddressSize = 1
  MaxSafeInteger = 7
  MaxDepth = 4
  IDSize = 2
  MaxAppArgs = 3
  Sender <- MCSender
  DecodeText <- MCDecodeText
  Plain <- MCPlain
  Structured <- MCStructured
  Return <- MCReturn
  MaxArguments = 3
SPECIFICATION MethodSpec
INVARIANT OwnAppTakesNoEntry
CHECK_DEADLOCK FALSE
