SPECIFICATION Spec
CONSTANTS
  a = a
  b = b
  app = app
  boot = boot
  NoFile = NoFile
  Symbols <- MCSymbols
  Names = {app, boot}
  LongNames = {}
  TmpOf <- MCTmpOf
  Frames <- MCFrames
  Digests <- MCDigests
  UpperCase = {FALSE}
  MaxBytes = 2
  LenModulus = 8
  DiskFaults = {"open", "write", "rename", "unlink"}
  Crashes = TRUE
INVARIANTS
  TypeOK
  HashMatchesFile
PROPERTIES
  ImplementsStore
SYMMETRY MCSymmetry
