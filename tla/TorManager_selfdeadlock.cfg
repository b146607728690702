\* Start's error paths call Stop with the mutex held.
SPECIFICATION Spec
CONSTANTS
  Goroutines = {g1, g2}
  Nobody = Nobody
  PipeCap = 1
INVARIANT NoSelfDeadlock
CHECK_DEADLOCK FALSE
