\* Two processes and their successors under reused pids, used in any way.
SPECIFICATION Spec
CONSTANTS
  Pids = {p1, p2}
  MaxStarts = 2
  Usages = {"any", "subcommands", "sequential"}
  None = None
  Torn = Torn
SYMMETRY Symmetry
INVARIANTS
  NetNSTypeOK UpIsFiltered JudgedDead
  UpIsIntact LeftoverIsRecorded
PROPERTIES
  TeardownLeavesNothing GCPrunesRecorded
\* Every pid has been used MaxStarts times and every process has ended.
CHECK_DEADLOCK FALSE
