SPECIFICATION Spec
CONSTANTS
  http = http
  Callers = {http}
  MaxJobs = 3
  MayThrow = TRUE
INVARIANTS
  TypeOK
  OneScriptUnlessDoomed
  ResultIsHonest
  NoPendingIsHonest
  TimeoutIsHonest
PROPERTIES
  ReportedOnce
  ExitIsOrderly
CHECK_DEADLOCK FALSE
