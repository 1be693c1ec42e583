\* Two workers on one file, overlapping checks, a crash and a failing write anywhere.
SPECIFICATION Spec
CONSTANTS
  Worker = {w1, w2}
  Laws = 1
  Check = {c1, c2}
  MaxAmendments = 2
  MaxRestarts = 1
  MaxSaveFaults = 1
  AbruptRestart = TRUE
  None = None
  Torn = Torn
  NoFile = NoFile
  Idle = Idle
SYMMETRY Symmetry
INVARIANTS
  NeverAhead
