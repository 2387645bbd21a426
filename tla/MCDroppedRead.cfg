CONSTANTS
  Base = 3
  Payload <- ShortPayloads
  BufLen = 2
  Interruptible = {"reader"}
  MaxBytes = 7
SPECIFICATION Spec
PROPERTIES ReadsWhatWasWritten
CHECK_DEADLOCK FALSE
