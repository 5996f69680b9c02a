\* Two pools with one and two swaps, a re-read every other block; one change of a
\* fee, a refresh every other block, two units of Balancer's fee to a basis point.
CONSTANTS
  PoolAddrs <- TwoPools
  Interval = 2
  MaxSync <- Swaps
  FeeInterval = 2
  WadPerBp = 2
  MaxSettings = 1
SPECIFICATION FairFeedsSpec
INVARIANTS FeedsTypeOK Drained TornRetried
PROPERTIES Converges FeesConverge
CHECK_DEADLOCK FALSE
