\* Every connect-init of up to five bytes after its usernames, one of each failure kind, and every flags byte, with a listener whose accept queue holds four (sk_max_ack_backlog 3, one admitted beyond it).
CONSTANTS
  MaxBacklog = 3
  Listeners = {4, 5}
  Sample <- MCAllMsgs
  FlagSet <- MCAllFlags
SPECIFICATION Spec
VIEW View
INVARIANTS TypeOK
PROPERTIES ReplyFollowsSpec QueuedOnlyValid ParseMatchesSpec
