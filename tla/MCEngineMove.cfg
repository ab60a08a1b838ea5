SPECIFICATION Spec
CONSTANTS
  N = 2
  First <- MCPointerFirst
  Length <- MCPointerLength
  Kind <- MCPointerKind
  Address <- MCPointerAddress
  Freeze = {}
  Preselected = {0}
  Top = 5
  Bases = {0, 1, 2}
  Low = 1
  CheatHz = TRUE
  EditWords = {}
  Uses = {"move", "write", "early"}
INVARIANTS HacksAtOwnWords
