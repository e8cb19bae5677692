\* Connection set-up and tear-down from every start state, with malformed frames injected.
CONSTANTS
  SeqBase = 4094
  MaxData = 1
  MaxOth = 0
  MaxLocal = 0
  MaxLocalOth = 0
  StartStates = {"CI", "CC", "DI", "DR", "RUN"}
  FlowInit = 1
  ACKDELAY = 3
  AckDelayInit = 3
  PeerPort = 7
  Malformed <- MCMalformed
  NetMax = 3
SPECIFICATION Spec
CONSTRAINT NetBound
VIEW View
INVARIANTS OtherStateAgrees
PROPERTIES DataDeliveredInOrder TerminalStable
CHECK_DEADLOCK FALSE
