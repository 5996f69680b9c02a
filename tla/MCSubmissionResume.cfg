\* A resume racing a submission that has read the revert count.
CONSTANTS
  Tasks = {t1, t2}
  Operators = {o1}
  MaxReverts = 1
  GasKill = 2
  GasCosts = {0}
SPECIFICATION SubmitSpec
INVARIANT ResumeHolds
