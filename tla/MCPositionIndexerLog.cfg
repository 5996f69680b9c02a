SPECIFICATION IndexerSpec
CONSTANTS
  Borrowers = {"b1"}
  AssetList <- MCAssetList
  Interval = 2
  MaxChanges = 2
PROPERTIES LogRefreshesUser
CHECK_DEADLOCK FALSE
