SPECIFICATION Spec
CONSTANTS
  N = 2
  First <- MCPlainFirst
  Length <- MCPlainLength
  Kind <- MCPlainKind
  Address <- MCPlainAddress
  Freeze = {}
  Preselected = {0}
  Top = 4
  Bases = {1}
  Low = 1
  CheatHz = TRUE
  EditWords = {}
  Uses = {"race"}
INVARIANTS SwitchedOff
