\* Connect-inits with a whole header: the access and user-data fields.
CONSTANTS
  MaxBacklog = 2
  Listeners = {5}
  Sample <- MCMsgs
  FlagSet <- MCFewFlags
SPECIFICATION Spec
VIEW View
PROPERTIES ReadsWithinFrame
