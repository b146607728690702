\* Two processes on two files, each may crash or fail at any step.
SPECIFICATION FairSpec
CONSTANTS
  UserPieces = {"u1", "u2"}
  Procs = {p1, p2}
  Files = {bashrc, zshrc}
  Default = bashrc
  Ops = {"install", "remove", "restore"}
  maxBackups = 1
  InitTexts <- AnyTexts
  MaxCalls = 3
  Nobody = Nobody
  Absent = Absent
INVARIANTS ShellHookTypeOK SuccessIsComplete
PROPERTIES UserTextKept ReplacedIsBackedUp BackupsRetained CallsReturn
\* All calls have been made and have returned.
CHECK_DEADLOCK FALSE
