SPECIFICATION FairSpec
CONSTANTS
  Commands <- MCCommands
  DebugBuild = TRUE
INVARIANTS
  TypeOK
  ExclusiveUnlessForced
  BusyIsHonest
  ResetOkEndsSession
  StatusNamesHolder
PROPERTIES
  SessionEndsByOwnerOrForce
  ImplementsAbs
  LockNeverBlocks
