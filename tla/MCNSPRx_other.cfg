\* Other-data and link-service sub-channel: two peer items of every kind, acks of one local other-data segment.
CONSTANTS
  SeqBase = 4094
  MaxData = 0
  MaxOth = 2
  MaxLocal = 0
  MaxLocalOth = 1
  StartStates = {"RUN"}
  FlowInit = 1
  ACKDELAY = 3
  AckDelayInit = 3
  PeerPort = 7
  Malformed = {}
  NetMax = 3
SPECIFICATION Spec
CONSTRAINT NetBound
VIEW View
INVARIANTS OtherStateAgrees
PROPERTIES AckCursorsMonotone
CHECK_DEADLOCK FALSE
