SPECIFICATION Spec
CONSTANTS
  Procs = {p, q}
  Dirs <- OneDir
  Files <- FileA
  MaxIno = 5
  Names = {"a", "b", "c", "d"}
  Long = {}
  Calls <- MixCalls
  SPB = 4
  Junk <- Zeros
INVARIANTS LinksCounted NoCycle NameFound 
SYMMETRY Perms
CHECK_DEADLOCK FALSE
