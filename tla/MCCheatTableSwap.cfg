SPECIFICATION Spec
CONSTANTS
  NAME_MAX = 3
  BLOCK_MAX = 4
  MaxLength = 2
  Page = 2
  Addr = {a}
  None = None
  Before <- MCBefore
  Uses = {"swap"}
PROPERTY LinesKept
