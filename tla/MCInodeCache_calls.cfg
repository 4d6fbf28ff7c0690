SPECIFICATION Spec
CONSTANTS
  Procs = {p1, p2, p3}
  NINODE = 2
  MaxIno = 3
  Files <- Both
  Ttys <- First
  Calls <- AllCalls
  MaxCalls = 2
INVARIANTS RefCount 
SYMMETRY Perms
CHECK_DEADLOCK FALSE
