CONSTANTS
  Topic = {t1, t2}
  NoTopic = NoTopic
  Slot = {s1}
  NoSlot = NoSlot
  Absent = Absent
  IdxSpan = 4
  ReqSpan = 16
  Depth = 1
  MaxSent = 2
  MaxFlight = 2
  Goodness = {TRUE}
  Noise = {}
  Calls = {"node", "subscription", "spin"}
  MaxSubscriptions = 1
  KeepsHandles = FALSE
  MaxSessions = 2
  MaxNodes = 1
  MaxEndpoints = 2
SYMMETRY Symmetry
SPECIFICATION Spec
INVARIANTS SessionInv HandlesBacked RoomForPush
PROPERTIES FeedSpec
CHECK_DEADLOCK FALSE
