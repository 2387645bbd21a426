CONSTANTS
  Build <- Builds
  ClientKey <- Key
SPECIFICATION Spec
INVARIANTS WriterTypeOK HeardAsMeant RefusedIfTooLong SlicesInRange
CHECK_DEADLOCK FALSE
