\* One caller alone: what a single acquire takes.
CONSTANTS
  Tasks = {t1}
  NumWallets = 2
  Millis = {0}
  MaxNonce = 2
  NoWallet = NoWallet
SPECIFICATION PoolSpec
INVARIANT InUseOnlyIfHeld
CHECK_DEADLOCK FALSE
