\* An amendment after an acknowledged one.
SPECIFICATION Spec
CONSTANTS
  Worker = {w1}
  Laws = 1
  Check = {c1}
  MaxAmendments = 2
  MaxRestarts = 0
  MaxSaveFaults = 0
  AbruptRestart = FALSE
  None = None
  Torn = Torn
  NoFile = NoFile
  Idle = Idle
INVARIANTS
  BannerWhenOutdated
