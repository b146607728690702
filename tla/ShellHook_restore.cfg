\* A backup is restored after a crash.
SPECIFICATION Spec
CONSTANTS
  UserPieces = {"u1", "u2"}
  Procs = {p1, p2}
  Files = {bashrc}
  Default = bashrc
  Ops = {"install", "restore"}
  maxBackups = 2
  InitTexts <- PlainTexts
  MaxCalls = 2
  Nobody = Nobody
  Absent = Absent
INVARIANT RestoresABackup
\* All calls have been made and have returned.
CHECK_DEADLOCK FALSE
