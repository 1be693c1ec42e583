\* Every request ends, with a crash and a failing write anywhere.
SPECIFICATION FairSpec
CONSTANTS
  Worker = {w1}
  Screening = {a}
  Request = {r1, r2}
  Located = {a}
  RiskFree = {0, 1}
  RegulationFree = {0}
  DbAnswers = {FALSE}
  Forces = {FALSE, TRUE}
  MaxEvaluations = 1
  MaxRestarts = 1
  MaxSaveFaults = 1
  AbruptRestart = TRUE
  Absent = Absent
  Torn = Torn
  NoText = NoText
  ErrorText = ErrorText
  NoSave = NoSave
  Idle = Idle
PROPERTIES
  EveryRequestEnds
