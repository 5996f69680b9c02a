\* S2, S3 and S4 callers only.
CONSTANTS
  Tasks = {t1, t2}
  S1Tasks = {}
  NumWallets = 2
  Millis = {0}
  MaxNonce = 2
  NoWallet = NoWallet
  Operators = {o1}
  MaxReverts = 2
  GasKill = 1
  GasCosts = {0}
SPECIFICATION ExecSpec
SYMMETRY ExecSymmetry
INVARIANT NonceCorrect
