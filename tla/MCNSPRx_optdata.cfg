\* A running connection receiving a disconnect-init whose length byte overstates its data by one.
CONSTANTS
  SeqBase = 4094
  MaxData = 0
  MaxOth = 0
  MaxLocal = 0
  MaxLocalOth = 0
  StartStates = {"RUN"}
  FlowInit = 1
  ACKDELAY = 3
  AckDelayInit = 3
  PeerPort = 7
  Malformed <- MCMalformed
  NetMax = 2
SPECIFICATION Spec
CONSTRAINT NetBound
VIEW View
INVARIANTS OptionalDataWithinFrame
CHECK_DEADLOCK FALSE
