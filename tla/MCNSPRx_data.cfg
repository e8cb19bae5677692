\* Data sub-channel from CC: two peer segments across the 4095 -> 0 wrap, acks of one local segment.
CONSTANTS
  SeqBase = 4094
  MaxData = 2
  MaxOth = 0
  MaxLocal = 1
  MaxLocalOth = 0
  StartStates = {"CC"}
  FlowInit = 1
  ACKDELAY = 3
  AckDelayInit = 3
  PeerPort = 7
  Malformed = {}
  NetMax = 3
SPECIFICATION Spec
CONSTRAINT NetBound
VIEW View
INVARIANTS TypeOK DataCursorCountsQueue
PROPERTIES DataDeliveredInOrder AckCursorsMonotone
CHECK_DEADLOCK FALSE
