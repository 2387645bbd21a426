CONSTANTS
  Topic = {t1}
  NoTopic = NoTopic
  Slot = {s1}
  NoSlot = NoSlot
  Absent = Absent
  IdxSpan = 4
  ReqSpan = 16
  Depth = 2
  MaxSent = 1
  MaxFlight = 2
  Goodness = {TRUE}
  Noise = {}
  Calls = {"node", "subscription", "spin_once"}
  MaxSubscriptions = 2
  KeepsHandles = FALSE
  MaxSessions = 1
  MaxNodes = 2
  MaxEndpoints = 2
SPECIFICATION Spec
PROPERTIES WaitsForItsStatus
CHECK_DEADLOCK FALSE
