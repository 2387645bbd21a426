CONSTANTS
  Base = 3
  Payload <- Payloads
  BufLen = 2
  Interruptible = {"writer", "reader"}
  MaxBytes = 7
SPECIFICATION FairSpec
INVARIANTS FramingTypeOK FramingInv ReaderInStep
PROPERTIES ChannelSpec FramesArrive FlushedArrive
CHECK_DEADLOCK FALSE
