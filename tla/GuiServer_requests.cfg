\* Two browser tabs that send any requests, two Managers made.
SPECIFICATION FairSpec
CONSTANTS
  Handlers = {h1, h2}
  Nobody = Nobody
  MaxManagers = 2
INVARIANTS GuiTypeOK CurrentIsNotStopped BootingHasCaller
PROPERTIES ManagersKeepContract BootingEnds HangsOnlyBehindTor
\* A Start that hangs may leave every handler waiting for s.mu.
CHECK_DEADLOCK FALSE
