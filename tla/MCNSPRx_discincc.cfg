\* A passively opened connection in CC whose peer disconnects.
CONSTANTS
  SeqBase = 4094
  MaxData = 1
  MaxOth = 0
  MaxLocal = 0
  MaxLocalOth = 0
  StartStates = {"CC"}
  FlowInit = 1
  ACKDELAY = 3
  AckDelayInit = 3
  PeerPort = 7
  Malformed = {}
  NetMax = 3
SPECIFICATION Spec
CONSTRAINT NetBound
VIEW View
INVARIANTS NoRunAfterPeerDisconnect
CHECK_DEADLOCK FALSE
