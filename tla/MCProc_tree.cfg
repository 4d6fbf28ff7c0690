SPECIFICATION FairSpec
CONSTANTS
  NPROC = 4
  MaxProc = 4
  Killable <- Second
  Waits <- Some
  Garbage <- OnInit
  NoChan = NoChan
  Pause = Pause
  Io = Io
INVARIANTS Inv ParentExists NoMissedZombie
PROPERTIES ZombieIsFinal InitReaps
CHECK_DEADLOCK FALSE
