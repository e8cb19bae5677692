\* Segment-count flow control: a negative request equal to the whole credit.
CONSTANTS
  SeqBase = 4094
  MaxData = 0
  MaxOth = 1
  MaxLocal = 0
  MaxLocalOth = 0
  StartStates = {"RUN"}
  FlowInit = 1
  ACKDELAY = 3
  AckDelayInit = 3
  PeerPort = 7
  Malformed = {}
  NetMax = 2
SPECIFICATION Spec
CONSTRAINT NetBound
VIEW View
INVARIANTS CreditFollowsSpec
CHECK_DEADLOCK FALSE
