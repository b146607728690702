\* A crash in the middle of Setup.
SPECIFICATION Spec
CONSTANTS
  Pids = {p1, p2}
  MaxStarts = 2
  Usages = {"sequential"}
  None = None
  Torn = Torn
SYMMETRY Symmetry
INVARIANT GCPrunesOrphans
\* Every pid has been used MaxStarts times and every process has ended.
CHECK_DEADLOCK FALSE
