\* Two workers on the same files and a database that comes and goes, a crash and a failing write anywhere.
SPECIFICATION Spec
CONSTANTS
  Worker = {w1, w2}
  Screening = {a}
  Request = {r1, r2}
  Located = {a}
  RiskFree = {0, 1}
  RegulationFree = {0}
  DbAnswers = {FALSE, TRUE}
  Forces = {FALSE, TRUE}
  MaxEvaluations = 2
  MaxRestarts = 1
  MaxSaveFaults = 1
  AbruptRestart = TRUE
  Absent = Absent
  Torn = Torn
  NoText = NoText
  ErrorText = ErrorText
  NoSave = NoSave
  Idle = Idle
SYMMETRY Symmetry
INVARIANTS
  Paired
  OneHome
PROPERTIES
  NeverUnevaluated
