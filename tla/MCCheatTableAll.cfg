SPECIFICATION Spec
CONSTANTS
  NAME_MAX = 3
  BLOCK_MAX = 3
  MaxLength = 1
  Page = 2
  Addr = {a}
  None = None
  Before <- MCBefore
  Uses = {"swap", "refresh", "empty"}
INVARIANTS RangesInTable CursorInCheat
