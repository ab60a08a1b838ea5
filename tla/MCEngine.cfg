SPECIFICATION Spec
CONSTANTS
  N = 2
  First <- MCMixedFirst
  Length <- MCMixedLength
  Kind <- MCMixedKind
  Address <- MCMixedAddress
  Freeze = {1, 3}
  Preselected = {0}
  Top = 6
  Bases = {0, 1, 2}
  Low = 2
  CheatHz = TRUE
  EditWords = {}
  Uses = {"write", "early"}
INVARIANTS TypeOK SwitchedOff BackupIsGames FreezeNeverInvents FreshHandled
