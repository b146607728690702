\* Two processes, three commands and three requests.
SPECIFICATION MCSpec
CONSTANTS
  UserPieces = {"u1", "u2"}
  Procs = {p1, p2}
  Countries = {"us", "de"}
  defaultCountry = "us"
  InitTexts <- Files
  MaxRuns = 3
  MaxRequests = 3
  MaxLen = 5
  Absent = Absent
  Torn = Torn
SYMMETRY Symmetry
INVARIANTS
  SettingsTypeOK TornOnlyByAccident CopyIsOnDisk
  UserTextUntouched LastEditWins
PROPERTY HookCommandHeals
CHECK_DEADLOCK FALSE
