SPECIFICATION Spec
CONSTANTS
  a = a
  b = b
  app = app
  boot = boot
  appTmp = appTmp
  bootTmp = bootTmp
  NoFile = NoFile
  HTTP = HTTP
  SERIAL = SERIAL
  Sides = {HTTP, SERIAL}
  Symbols = {a, b}
  Names = {app}
  TmpOf <- MCTmpOf
  Announced <- MCAnnounced
  FrameData <- MCFrames
  MaxBytes = 2
  DiskFaults = {"open", "write", "flush", "rename", "unlink"}
INVARIANTS
  TypeOK
  OneSidePerUpload
  ActiveMeansOpen
  TmpOnlyDuringUpload
PROPERTIES
  ImplementsProtocol
  FilesChangeOnlyByDone
SYMMETRY MCSymmetry
CHECK_DEADLOCK FALSE
