SPECIFICATION Spec
CONSTANTS
  Procs = {p1, p2}
  Pages = {g1, g2, g3}
  NoProc = NoProc
  NoPage = NoPage
  NV = 5
  Low = 4
  Area <- Full
  Value <- Bits
  Targets <- DataCalls
INVARIANTS PageCount  TlbSound
SYMMETRY Perms
CHECK_DEADLOCK FALSE
