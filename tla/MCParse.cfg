CONSTANTS
  SessionId = {1, 129}
  Frame <- Frames
  Readers <- TwoReaders
  Expected <- Requests
  RxLen = 40
  ConnectLen = 30
  MaxFrames = 2
SPECIFICATION Spec
INVARIANTS ParserTypeOK ReadAsMeant CutSaysNoMore
CHECK_DEADLOCK FALSE
