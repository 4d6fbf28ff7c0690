SPECIFICATION FairSpec
CONSTANTS
  Proc = {p1, p2}
  Buf = {b1}
  NBUF = 1
  Blk = {1, 2}
  Val = {0}
  Zero = 0
  MaxHeld = 1
  NoProc = NoProc
  NoBuf = NoBuf
  NoBlk = NoBlk
  FreeList = FreeList
  NoChan = NoChan
  IntrInIowait = TRUE
PROPERTIES
  IoCompletes
CHECK_DEADLOCK FALSE
