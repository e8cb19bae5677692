\* Two CPUs receive up to three frames for a socket in RUN or CC: is the route written only in RUN?
CONSTANTS
  c1 = c1
  c2 = c2
  r1 = r1
  r2 = r2
  Cpus <- MCCpus
  Routes <- MCRoutes
  StartStates = {"RUN", "CC"}
  NSP_MAXRXTSHIFT = 2
  MaxRx = 3
SPECIFICATION Spec
PROPERTIES RouteWrittenOnlyInRun
\* Every CPU stops once MaxRx frames have been received.
CHECK_DEADLOCK FALSE
