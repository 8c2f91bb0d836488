SPECIFICATION Spec
CONSTANTS
  Requests = {r1, r2}
  Names = {a}
  Seconds = {1, 2}
  MaxPieces = 2
  DiskFaults = {}
  NoFile = NoFile
PROPERTIES OkIsSaved
CHECK_DEADLOCK FALSE
