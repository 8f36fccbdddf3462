SPECIFICATION Spec
CONSTANTS
  a = a
  b = b
  c = c
  Requests = {c}
  Others = {a, b}
  Admissions = {}
  Sends <- MCSends
  Ring = 2
INVARIANTS
  TypeOK
  AnsweredSurvives
  RefusedHasNoEffect
  HandlesAreCurrent
PROPERTIES
  ImplementsRequestService
CHECK_DEADLOCK FALSE
