SPECIFICATION SessionSpec
CONSTANTS
  Goroutines <- MCGoroutines
  Nobody = Nobody
  PipeCap = 2
  Commands <- MCCommands
  MaxSignals = 2
INVARIANT KillSwitchStopsTarget
\* A session stops when the program, the target and Tor have ended.
CHECK_DEADLOCK FALSE
