SPECIFICATION Spec
CONSTANTS
  Threads = {t1, t2}
  W = 4
  Perms = {"READ", "WRITE"}
  Plain = {"IO"}
  Areas <- MCAreas
  MaxUsers = 3
CHECK_DEADLOCK FALSE
INVARIANTS HandlesInv AreaInv
PROPERTIES OthersUntouched MappingsGo
