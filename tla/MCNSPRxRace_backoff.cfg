\* Two CPUs receive up to three frames for one running socket.
CONSTANTS
  c1 = c1
  c2 = c2
  r1 = r1
  r2 = r2
  Cpus <- MCCpus
  Routes <- MCRoutes
  StartStates = {"RUN", "CC"}
  NSP_MAXRXTSHIFT = 2
  MaxRx = 3
SPECIFICATION Spec
INVARIANTS BackoffResetNotLost
\* Every CPU stops once MaxRx frames have been received.
CHECK_DEADLOCK FALSE
