\* Three overlapping ticks, two wallets, a timeout of two steps.
CONSTANTS
  Ticks <- ThreeTicks
  NumWallets = 2
  Timeout = 2
SPECIFICATION FairEvmArbSpec
INVARIANTS EvmArbTypeOK AsWrittenIdle EscrowTracked OrdersBound
PROPERTIES MachineReturns
CHECK_DEADLOCK FALSE
