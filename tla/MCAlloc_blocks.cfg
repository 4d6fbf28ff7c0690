SPECIFICATION Spec
CONSTANTS
  Procs = {p, q}
  ND = 1
  NIND = 2
  ZONE0 = 130
  MAX_ZONE = 136
  MAX_INODE = 2
  USHORT = 4
  Old = 2
  Pos = {0, 1, 3, 4}
INVARIANTS NoSharedBlock BmapFinds  InodesDistinct
SYMMETRY Perms
CHECK_DEADLOCK FALSE
