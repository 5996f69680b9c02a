\* A channel of one event, four blocks, a strategy that may have no work.
CONSTANTS
  Capacity = 1
  Strategies = {"s2"}
  DefaultOn = {"s2"}
  WhenDue = {"s2"}
  MaxBlock = 4
SPECIFICATION FairDispatchSpec
INVARIANTS BurstBound StateOfEvent OneRoundAfterKill
PROPERTIES NewerEvents EventsTaken
CHECK_DEADLOCK FALSE
