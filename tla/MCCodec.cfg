CONSTANTS
  Message <- Messages
  Slots <- AllSlots
  Missing = {0, 1, 3, 5}
  StringMax = 64
SPECIFICATION Spec
INVARIANTS CodecTypeOK BodyIsPrefix FieldsAgree RoundTrip RefusedForCause ReadToTheEnd WithinMaxSize PanicsOnlyBeyond
CHECK_DEADLOCK FALSE
