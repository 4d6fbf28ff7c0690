SPECIFICATION Spec
CONSTANTS
  Proc = {p1, p2, p3}
  Buf = {b1, b2}
  NBUF = 2
  Blk = {1, 2, 3}
  Val = {0}
  Zero = 0
  MaxHeld = 1
  NoProc = NoProc
  NoBuf = NoBuf
  NoBlk = NoBlk
  FreeList = FreeList
  NoChan = NoChan
  IntrInIowait = TRUE
SYMMETRY Symmetry
CHECK_DEADLOCK FALSE
INVARIANTS
  Inv OneBufferPerBlock
  GetblkSleeperIsWanted
