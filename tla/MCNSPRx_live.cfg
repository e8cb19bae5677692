\* Liveness of connection set-up from CI, and from RUN with scp->ackdelay at 0 of both sub-channels under loss and retransmission.
CONSTANTS
  SeqBase = 4094
  MaxData = 2
  MaxOth = 1
  MaxLocal = 0
  MaxLocalOth = 0
  StartStates = {"CI", "RUN"}
  FlowInit = 1
  ACKDELAY = 3
  AckDelayInit = 0
  PeerPort = 7
  Malformed = {}
SPECIFICATION LiveSpec
PROPERTIES EverySegmentAcked DataEventuallyDelivered EveryOtherItemAcked ConnectEventuallyRuns
CHECK_DEADLOCK FALSE
