SPECIFICATION Spec
CONSTANTS
  DataBytes <- MCDataBytes
  ErrorBytes <- MCErrorBytes
  MaxFrame = 3
  PieceLens = {0, 1, 7, 55, 56, 63, 64, 65, 130}
  MaxMessage = 200
INVARIANTS
  CrcIsRemainder
  NoiseIsSeen
  NothingLost
  DigestIsOfMessage
CHECK_DEADLOCK FALSE
