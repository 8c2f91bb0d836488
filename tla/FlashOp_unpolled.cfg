SPECIFICATION Spec
CONSTANTS
  http = http
  Callers = {http}
  MaxJobs = 2
  MayThrow = FALSE
PROPERTIES
  CompleteAllowsSubmit
CHECK_DEADLOCK FALSE
