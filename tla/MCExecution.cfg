\* An S1 task and two others over two wallets, three attempts or more.
CONSTANTS
  Tasks = {t1, t2, t3}
  S1Tasks = {t1}
  NumWallets = 2
  Millis = {0}
  MaxNonce = 2
  NoWallet = NoWallet
  Operators = {o1}
  MaxReverts = 2
  GasKill = 1
  GasCosts = {0}
SPECIFICATION ExecSpec
SYMMETRY ExecSymmetry
INVARIANTS OverrunBound FreshNonce NonceInStep
