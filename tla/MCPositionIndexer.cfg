SPECIFICATION FairIndexerSpec
CONSTANTS
  Borrowers = {"b1"}
  AssetList <- MCAssetList
  Interval = 2
  MaxChanges = 3
INVARIANTS DebtsFollow
PROPERTIES AtRiskConverges
CHECK_DEADLOCK FALSE
