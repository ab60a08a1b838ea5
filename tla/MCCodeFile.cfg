SPECIFICATION Spec
CONSTANTS
  Space = 256
  Mask = 64
  Base = 36
  Top = 48
  JokerLow = 240
  JokerHigh = 250
  JokerPad = 247
  ValueLimit = 11
  JokerAddress = 9
  Digits = 4
  Weight <- MCWeight
  Holds <- MCHolds
  Letter = {"a", "b"}
  NameMax = 2
  KbMax = 4
  MaxLines = 1
  Typed <- MCTyped
  Values <- MCValues
  NamesInFile <- MCNamesInFile
INVARIANTS TypeOK TableReloads HeaderReloads
PROPERTY AlignedKept
