SPECIFICATION Spec
CONSTANTS
  Tabs = {t1, t2}
  Admins = {a1}
  LastStep = 1
  MaxCalls = 5
CHECK_DEADLOCK FALSE
PROPERTY SubmissionIsIdempotent
