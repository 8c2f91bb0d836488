SPECIFICATION LineSpec
CONSTANTS
  LineLens <- MCLineLens
  MaxLineLen = 2
INVARIANTS
  LineTypeOK
  LineIsWhole
  LinesInOrder
  ShutdownLeavesNothing
PROPERTIES
  ShutdownCompletes
  ClosedPortIsReopened
