SPECIFICATION Spec
CONSTANTS
  http = http
  Callers = {http}
  MaxJobs = 2
  MayThrow = FALSE
INVARIANTS
  OneScript
CHECK_DEADLOCK FALSE
