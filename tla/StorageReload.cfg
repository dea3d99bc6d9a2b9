CONSTANTS
  Profiles = {p1}
  Texts = {lit}
  Backups = {}
  NoProfile = NoProfile
  Nothing = Nothing
  TooNew = TooNew
  MaxStarts = 2
  MaxEdits = 1
SPECIFICATION StorageSpec
CHECK_DEADLOCK FALSE
INVARIANTS
  OnlyCrashesLose
