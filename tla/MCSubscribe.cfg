CONSTANTS
  Topic = {t1, t2}
  NoTopic = NoTopic
  Slot = {s1, s2}
  NoSlot = NoSlot
  Absent = Absent
  IdxSpan = 4
  ReqSpan = 8
  Depth = 2
  MaxSent = 3
  MaxFlight = 2
  Goodness = {TRUE, FALSE}
  Noise = {"SHORT"}
  Calls = {"node", "publisher", "publish", "subscription", "spin_once"}
  MaxSubscriptions = 2
  KeepsHandles = FALSE
  MaxSessions = 1
  MaxNodes = 1
  MaxEndpoints = 2
SPECIFICATION Spec
INVARIANTS TypeOK HandlesBacked RoutesDistinct WritesOnTopic
PROPERTIES FeedSpec SamplesRouted OkLeavesInStep
CHECK_DEADLOCK FALSE
