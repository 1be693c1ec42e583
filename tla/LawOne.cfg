\* One worker, one check at a time, orderly restarts.
SPECIFICATION Spec
CONSTANTS
  Worker = {w1}
  Laws = 2
  Check = {c1}
  MaxAmendments = 2
  MaxRestarts = 2
  MaxSaveFaults = 0
  AbruptRestart = FALSE
  None = None
  Torn = Torn
  NoFile = NoFile
  Idle = Idle
INVARIANTS
  TypeOK
  StatusIsStored
PROPERTIES
  AcknowledgementStands
