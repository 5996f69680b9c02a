------------------------- MODULE MCPositionIndexer --------------------------
EXTENDS PositionIndexer

MCAssetList == <<"usdc", "hype">>
=============================================================================
