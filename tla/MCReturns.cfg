CONSTANTS
  Topic = {t1}
  NoTopic = NoTopic
  Slot = {s1}
  NoSlot = NoSlot
  Absent = Absent
  IdxSpan = 4
  ReqSpan = 16
  Depth = 1
  MaxSent = 1
  MaxFlight = 2
  Goodness = {TRUE}
  Noise = {"OTHER"}
  Calls = {"node", "subscription", "spin"}
  MaxSubscriptions = 2
  KeepsHandles = FALSE
  MaxSessions = 1
  MaxNodes = 2
  MaxEndpoints = 2
SPECIFICATION FairSpec
PROPERTIES CallReturns SpinDrains
CHECK_DEADLOCK FALSE
