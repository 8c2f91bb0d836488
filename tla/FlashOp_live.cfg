SPECIFICATION EndingSpec
CONSTANTS
  http = http
  serial = serial
  Callers = {http, serial}
  MaxJobs = 1
  MayThrow = TRUE
PROPERTIES
  BecomesReportable
CHECK_DEADLOCK FALSE
