\* Any interleaving of three tasks' scans and releases over three slots, where
\* any task may return without releasing.
CONSTANTS
  Tasks = {t1, t2, t3}
  NumWallets = 3
  Millis = {0, 1}
  MaxNonce = 2
  NoWallet = NoWallet
SPECIFICATION FairPoolSpec
INVARIANTS PoolTypeOK Exclusive NeverEmpty
PROPERTIES KeysStable AtomicHandover PoolRecovers
CHECK_DEADLOCK FALSE
