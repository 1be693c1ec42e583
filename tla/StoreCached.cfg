\* An interpretation before the first evaluation makes an empty cached evaluation.
SPECIFICATION Spec
CONSTANTS
  Worker = {w1}
  Screening = {a}
  Request = {r1, r2}
  Located = {a}
  RiskFree = {0, 1}
  RegulationFree = {0}
  DbAnswers = {FALSE}
  Forces = {FALSE, TRUE}
  MaxEvaluations = 2
  MaxRestarts = 0
  MaxSaveFaults = 0
  AbruptRestart = FALSE
  Absent = Absent
  Torn = Torn
  NoText = NoText
  ErrorText = ErrorText
  NoSave = NoSave
  Idle = Idle
INVARIANTS
  CachedOnlyIfEvaluated
