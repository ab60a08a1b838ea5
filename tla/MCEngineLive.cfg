SPECIFICATION FairSpec
CONSTANTS
  N = 2
  First <- MCPlainFirst
  Length <- MCPlainLength
  Kind <- MCJokerKind
  Address <- MCPlainAddress
  Freeze = {}
  Preselected = {0}
  Top = 5
  Bases = {1}
  Low = 1
  CheatHz = TRUE
  EditWords = {2, 3, 4}
  Uses = {"write", "hold", "race", "edit"}
INVARIANTS BackupIsGames HacksAtOwnWords
PROPERTIES ConstantHeld JokerReleased MenuOpens
