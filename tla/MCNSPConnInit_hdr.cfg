\* Connect-inits shorter than their 9-byte header.
CONSTANTS
  MaxBacklog = 2
  Listeners = {5}
  Sample <- MCShortMsgs
  FlagSet <- MCFewFlags
SPECIFICATION Spec
VIEW View
PROPERTIES ReadsWithinFrame
