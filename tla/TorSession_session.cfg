\* open, daemon, test or shell: up to two signals, at any moment.
SPECIFICATION FairSessionSpec
CONSTANTS
  Goroutines <- MCGoroutines
  Nobody = Nobody
  PipeCap = 2
  Commands <- MCCommands
  MaxSignals = 2
INVARIANTS SessionTypeOK CleanExit
PROPERTIES ImplementsManager InterruptEndsSession TorDeathEndsSession StoppedSessionEnds
\* A session stops when the program, the target and Tor have ended.
CHECK_DEADLOCK FALSE
