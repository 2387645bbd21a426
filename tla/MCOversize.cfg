CONSTANTS
  Message <- LongMessages
  Slots <- CrateSlots
  Missing = {0}
  StringMax = 64
SPECIFICATION Spec
INVARIANTS OkMeansWhole
CHECK_DEADLOCK FALSE
