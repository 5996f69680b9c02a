\* Three submissions, a resume request and /kill, in any order.
CONSTANTS
  Tasks = {t1, t2, t3}
  Operators = {o1}
  MaxReverts = 2
  GasKill = 2
  GasCosts = {0, 1}
SPECIFICATION FairSubmitSpec
INVARIANTS BreakerArmed
PROPERTIES StaysHalted
