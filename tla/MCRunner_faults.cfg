\* Two signals, children that end by themselves and a slow server.
SPECIFICATION Spec
CONSTANTS
  MaxSignals = 2
  MaxTries = 2
  MaxAttempts = 2
  Given = {"environment", "command line"}
  Faults = {"exit", "slow", "early", "soon"}
INVARIANTS
  NoOrphansAfterOneSignal
  PipesAreRead
PROPERTIES
  ServerStopsFirst
  FirstHandlerExitsCleanly
  SignalEndsRunner
  StartEnds
\* The runner ends.
CHECK_DEADLOCK FALSE
