\* Three goroutines calling Start, Stop, SignalNewnym and the watchdog in every order.
SPECIFICATION ControlSpec
CONSTANTS
  Goroutines = {g1, g2, g3}
  Nobody = Nobody
  PipeCap = 2
SYMMETRY Symmetry
INVARIANTS
  IInv DirsOutliveTor StoppedIsClean
  AuditSeesSocks NewnymIsDone ReadIsOwed
PROPERTIES StartSucceedsOnLiveManager ControlImplementsManager ImplementsContract
\* The system stops when every call has returned and Tor is dead.
CHECK_DEADLOCK FALSE
