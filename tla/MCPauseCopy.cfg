SPECIFICATION Spec
CONSTANTS
  Thread = {t1, t2, t3}
  Other = {o}
  thid = mkijiro
  None = None
  MAX_THREAD = 4
  Uses = {"copy"}
INVARIANTS StoppedInMenu
