SPECIFICATION LiveSpec
CONSTANTS
  Procs = {p1, p2}
  Inodes = {i1}
  NoProc = NoProc
  NFILE = 2
  NOFILE = 2
  CHAR_MAX = 8
  UINT_MAX = 3
  MAX_FILESIZ = 1
  Oflags <- Mixed
  Cnts = {1}
  Seeks = {0, 3}
  Calls = {"open", "close", "dup", "dup2", "fork", "exit", "exec", "fcntl", "read", "write", "lseek"}
  MaxCalls = 3
CHECK_DEADLOCK FALSE
INVARIANTS FileCount InodeCount LockReleased
PROPERTIES ExecCloses ExitCloses
