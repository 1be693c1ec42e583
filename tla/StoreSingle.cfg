\* One worker, no database, orderly restarts, no failing write: what the store promises.
SPECIFICATION Spec
CONSTANTS
  Worker = {w1}
  Screening = {a}
  Request = {r1, r2, r3}
  Located = {a}
  RiskFree = {0, 1}
  RegulationFree = {0}
  DbAnswers = {FALSE}
  Forces = {FALSE, TRUE}
  MaxEvaluations = 3
  MaxRestarts = 2
  MaxSaveFaults = 0
  AbruptRestart = FALSE
  Absent = Absent
  Torn = Torn
  NoText = NoText
  ErrorText = ErrorText
  NoSave = NoSave
  Idle = Idle
SYMMETRY Symmetry
INVARIANTS
  TypeOK
  WriteThrough
  Restorable
  AnsweredEvaluationSurvives
PROPERTIES
  RegisterSpec
  EvaluatedOnce
