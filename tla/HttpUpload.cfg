SPECIFICATION Spec
CONSTANTS
  Requests = {r1, r2}
  Names = {a, b}
  Seconds = {1, 2}
  MaxPieces = 2
  DiskFaults = {"open", "write", "flush", "rename"}
  NoFile = NoFile
INVARIANTS TypeOK FileIsWholeUpload TmpAccounted
PROPERTIES FilesChangeOnlyByOk CompleteIsAnswered
CHECK_DEADLOCK FALSE
