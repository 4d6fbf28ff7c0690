------------------------------ MODULE FileTable ------------------------------
(***************************************************************************)
(* Descriptors, the system file table and the offsets (src/fs/open.c,      *)
(* rdwr.c, rdwri.c, fcntl.c) with what fork, exec and exit do to them.     *)
(*                                                                         *)
(* A file's contents are the processes that wrote its bytes, so i_size is  *)
(* the length of data.  A step goes from one sleep() to the next: in       *)
(* lock_ino(), in iput() of the last reference, in itrunc(), and in        *)
(* readi() and writei(), which have the inode locked; dup2() is two steps  *)
(* even when it does not sleep.  A process that waits in lock_ino() goes   *)
(* on once the lock is free.  The model stops where falloc() panics, and   *)
(* does not write behind MAX_FILESIZ, where writei() panics.               *)
(***************************************************************************)
EXTENDS Integers, FiniteSets, Sequences

CONSTANTS
  Procs, Inodes, NoProc,
  NFILE, NOFILE,
  CHAR_MAX,      \* f_count is a char
  UINT_MAX,      \* offsets are unsigned int
  MAX_FILESIZ,
  Oflags,        \* the flags that programs open files with
  Cnts, Seeks,   \* the counts of read() and write(), the arguments of lseek()
  Calls,         \* the calls that programs make
  MaxCalls       \* bound: calls a process makes

Fd == 0 .. NOFILE - 1
File == 1 .. NFILE
NULL == 0
Oflag == SUBSET {"WRONLY", "RDWR", "APPEND", "TRUNC"}

ASSUME FileAssumption ==
  /\ {NFILE, NOFILE, CHAR_MAX, UINT_MAX, MAX_FILESIZ} \subseteq Nat \ {0}
  /\ MAX_FILESIZ < UINT_MAX /\ Cnts \cup Seeks \subseteq 0 .. UINT_MAX
  /\ Oflags \subseteq Oflag /\ NoProc \notin Procs /\ MaxCalls \in Nat
  /\ IsFiniteSet(Procs) /\ Inodes # {}

VARIABLES
  p_ofile, p_fdflag, alive,
  f_count, f_oflag, f_offset, f_ino,
  i_count, locked,     \* by whom
  data,
  pc, arg,
  ncall                \* how many calls a process has made

fvars == <<f_count, f_oflag, f_offset, f_ino>>
vars == <<p_ofile, p_fdflag, alive, fvars, i_count, locked, data, pc, arg,
          ncall>>

None == [f |-> NULL, fd |-> 0, off |-> 0, cnt |-> 0, next |-> "user"]

Init ==
  /\ p_ofile = [p \in Procs |-> [fd \in Fd |-> NULL]]
  /\ p_fdflag = [p \in Procs |-> [fd \in Fd |-> FALSE]]
  /\ \E p \in Procs : alive = {p}
  /\ f_count = [f \in File |-> 0]
  /\ f_oflag = [f \in File |-> {}]
  /\ f_offset = [f \in File |-> 0]
  /\ f_ino \in [File -> {CHOOSE i \in Inodes : TRUE}]
  /\ i_count = [i \in Inodes |-> 0]
  /\ locked = [i \in Inodes |-> NoProc]
  /\ data = [i \in Inodes |-> <<>>]
  /\ pc = [p \in Procs |-> "user"]
  /\ arg = [p \in Procs |-> None]
  /\ ncall = [p \in Procs |-> 0]

at(p, l) == p \in alive /\ pc[p] = l
call(p, c) ==
  /\ at(p, "user") /\ c \in Calls /\ ncall[p] < MaxCalls
  /\ ncall' = [ncall EXCEPT ![p] = @ + 1]
goto(p, l, a) == pc' = [pc EXCEPT ![p] = l] /\ arg' = [arg EXCEPT ![p] = a]
done(p) == goto(p, "user", None)
wrap(n) == IF n > CHAR_MAX THEN n - 2 * (CHAR_MAX + 1) ELSE n
uint(n) == n % (UINT_MAX + 1)
-----------------------------------------------------------------------------
(* The lowest descriptor, the first file that is free.                     *)
ufalloc(p, fd) ==
  p_ofile[p][fd] = NULL /\ \A e \in 0 .. fd - 1 : p_ofile[p][e] # NULL

falloc(f) == f_count[f] = 0 /\ \A g \in 1 .. f - 1 : f_count[g] # 0

(* open(), with an inode that namei() has locked; f_ino, which nobody      *)
(* looks at before open() is through, is set with the rest.                *)
do_open(p, i, flag) ==
  /\ call(p, "open") /\ locked[i] = NoProc
  /\ \E fd \in Fd, f \in File :
       /\ ufalloc(p, fd) /\ falloc(f)
       /\ p_ofile' = [p_ofile EXCEPT ![p][fd] = f]
       /\ p_fdflag' = [p_fdflag EXCEPT ![p][fd] = TRUE]
       /\ f_count' = [f_count EXCEPT ![f] = 1]
       /\ f_oflag' = [f_oflag EXCEPT ![f] = flag]
       /\ f_offset' = [f_offset EXCEPT ![f] = 0]
       /\ f_ino' = [f_ino EXCEPT ![f] = i]
       /\ i_count' = [i_count EXCEPT ![i] = @ + 1]
       /\ IF "TRUNC" \in flag
          THEN /\ locked' = [locked EXCEPT ![i] = p]
               /\ goto(p, "trunc", [None EXCEPT !.f = f])
          ELSE UNCHANGED <<locked, pc, arg>>
  /\ UNCHANGED <<alive, data>>

(* itrunc(), and open() returns.                                           *)
itrunc(p) ==
  /\ at(p, "trunc")
  /\ data' = [data EXCEPT ![f_ino[arg[p].f]] = <<>>]
  /\ locked' = [locked EXCEPT ![f_ino[arg[p].f]] = NoProc]
  /\ done(p)
  /\ UNCHANGED <<p_ofile, p_fdflag, alive, fvars, i_count, ncall>>

(* MUTANT: < 2 for <= 0, the file is free with one descriptor left.        *)
put_once(f) ==
  LET n == f_count[f] - 1 IN
  /\ f_count' = [f_count EXCEPT ![f] = IF n < 2 THEN 0 ELSE n]
  /\ f_oflag' = [f_oflag EXCEPT ![f] = IF n <= 0 THEN {} ELSE @]
  /\ f_offset' = [f_offset EXCEPT ![f] = IF n <= 0 THEN 0 ELSE @]
  /\ UNCHANGED f_ino

(* The second half of do_close(), behind iput().                           *)
put(f) ==
  LET n == f_count[f] - 1 IN
  /\ f_count' = [f_count EXCEPT ![f] = IF n <= 0 THEN 0 ELSE n]
  /\ f_oflag' = [f_oflag EXCEPT ![f] = IF n <= 0 THEN {} ELSE @]
  /\ f_offset' = [f_offset EXCEPT ![f] = IF n <= 0 THEN 0 ELSE @]
  /\ UNCHANGED f_ino

(* do_close() of an open descriptor: iput() unlocks the inode, whoever has *)
(* locked it, and sleeps when it writes back the last reference.           *)
do_close(p, fd, next, a) ==
  LET f == p_ofile[p][fd]
      i == f_ino[f]
  IN /\ f # NULL
     /\ p_ofile' = [p_ofile EXCEPT ![p][fd] = NULL]
     /\ i_count' = [i_count EXCEPT ![i] = IF @ > 0 THEN @ - 1 ELSE 0]
     /\ locked' = [locked EXCEPT ![i] = NoProc]
     /\ IF i_count[i] > 1
        THEN put(f) /\ goto(p, next, a)
        ELSE /\ goto(p, "put", [a EXCEPT !.f = f, !.next = next])
             /\ UNCHANGED fvars

(* iput() is through.                                                      *)
put_end(p) ==
  /\ at(p, "put")
  /\ put(arg[p].f)
  /\ goto(p, arg[p].next, [arg[p] EXCEPT !.f = NULL, !.next = "user"])
  /\ UNCHANGED <<p_ofile, p_fdflag, alive, i_count, locked, data, ncall>>

(* MUTANT: the inode of the copy is not counted.                           *)
dup_file(p, f, newfd) ==
  /\ p_ofile' = [p_ofile EXCEPT ![p][newfd] = f]
  /\ f_count' = [f_count EXCEPT ![f] = wrap(@ + 1)]
  /\ UNCHANGED <<f_oflag, f_offset, f_ino, i_count>>

(* A reference more to a file, from a new descriptor.                      *)
dup(p, f, newfd) ==
  /\ p_ofile' = [p_ofile EXCEPT ![p][newfd] = f]
  /\ f_count' = [f_count EXCEPT ![f] = wrap(@ + 1)]
  /\ i_count' = [i_count EXCEPT ![f_ino[f]] = @ + 1]
  /\ UNCHANGED <<f_oflag, f_offset, f_ino>>

sys_close(p, fd) ==
  /\ call(p, "close")
  /\ do_close(p, fd, "user", None)
  /\ UNCHANGED <<p_fdflag, alive, data>>

(* dup() and fcntl(F_DUPFD): FD_CLOEXEC of the new descriptor stays what   *)
(* it was.                                                                 *)
do_dup(p, fd) ==
  /\ call(p, "dup") /\ p_ofile[p][fd] # NULL
  /\ \E newfd \in Fd : ufalloc(p, newfd) /\ dup(p, p_ofile[p][fd], newfd)
  /\ UNCHANGED <<p_fdflag, alive, locked, data, pc, arg>>

(* dup2(): first it closes newfd, be it fd itself.                         *)
do_dup2(p, fd, newfd) ==
  /\ call(p, "dup2") /\ p_ofile[p][fd] # NULL
  /\ LET a == [None EXCEPT !.off = p_ofile[p][fd], !.fd = newfd]
     IN \/ /\ p_ofile[p][newfd] = NULL
           /\ goto(p, "dup2", a)
           /\ UNCHANGED <<p_ofile, fvars, i_count, locked>>
        \/ do_close(p, newfd, "dup2", a)
  /\ UNCHANGED <<p_fdflag, alive, data>>

dup2_end(p) ==
  /\ at(p, "dup2")
  /\ dup(p, arg[p].off, arg[p].fd)
  /\ done(p)
  /\ UNCHANGED <<p_fdflag, alive, locked, data, ncall>>

(* fcntl(F_SETFL) and fcntl(F_SETFD).                                      *)
fcntl_setfl(p, fd, flag) ==
  /\ call(p, "fcntl") /\ p_ofile[p][fd] # NULL
  /\ f_oflag' = [f_oflag EXCEPT ![p_ofile[p][fd]] = flag]
  /\ UNCHANGED <<p_ofile, p_fdflag, alive, f_count, f_offset, f_ino, i_count,
                 locked, data, pc, arg>>

fcntl_setfd(p, fd, b) ==
  /\ call(p, "fcntl") /\ p_ofile[p][fd] # NULL
  /\ p_fdflag' = [p_fdflag EXCEPT ![p][fd] = b]
  /\ UNCHANGED <<p_ofile, alive, fvars, i_count, locked, data, pc, arg>>
-----------------------------------------------------------------------------
users(P, f) == Cardinality({m \in P \X Fd : p_ofile[m[1]][m[2]] = f})

(* kspawn(): every descriptor of the parent is a reference more.           *)
fork(p, q) ==
  /\ call(p, "fork") /\ q \in Procs \ alive
  /\ alive' = alive \cup {q}
  /\ p_ofile' = [p_ofile EXCEPT ![q] = p_ofile[p]]
  /\ p_fdflag' = [p_fdflag EXCEPT ![q] = p_fdflag[p]]
  /\ f_count' = [f \in File |-> wrap(f_count[f] + users({p}, f))]
  /\ i_count' = [i \in Inodes |-> i_count[i] +
       Cardinality({fd \in Fd : /\ p_ofile[p][fd] # NULL
                                /\ f_ino[p_ofile[p][fd]] = i})]
  /\ UNCHANGED <<f_oflag, f_offset, f_ino, locked, data, pc, arg>>

(* exit() closes every file, exec() those with FD_CLOEXEC.                 *)
start(p, c) ==
  /\ call(p, c) /\ c \in {"exit", "exec"}
  /\ goto(p, c, None)
  /\ UNCHANGED <<p_ofile, p_fdflag, alive, fvars, i_count, locked, data>>

(* MUTANT: the last descriptor is not looked at.                           *)
closes_short(p, c) ==
  {fd \in 0 .. NOFILE - 2 : /\ p_ofile[p][fd] # NULL
                            /\ c = "exec" => p_fdflag[p][fd]}

closes(p, c) ==
  {fd \in Fd : /\ p_ofile[p][fd] # NULL
               /\ c = "exec" => p_fdflag[p][fd]}

close_next(p, c) ==
  /\ at(p, c) /\ c \in {"exit", "exec"}
  /\ \E fd \in closes(p, c) :
       /\ \A e \in closes(p, c) : fd <= e
       /\ do_close(p, fd, c, None)
  /\ UNCHANGED <<p_fdflag, alive, data, ncall>>

(* exit() is through, or the new program runs.                             *)
end(p, c) ==
  /\ at(p, c) /\ c \in {"exit", "exec"} /\ closes(p, c) = {}
  /\ alive' = IF c = "exit" THEN alive \ {p} ELSE alive
  /\ p_fdflag' = IF c = "exit"
                 THEN [p_fdflag EXCEPT ![p] = [fd \in Fd |-> FALSE]]
                 ELSE p_fdflag
  /\ done(p)
  /\ UNCHANGED <<p_ofile, fvars, i_count, locked, data, ncall>>
-----------------------------------------------------------------------------
(* What readi() returns: -1 behind the end, else what there is.            *)
readi(i, off, cnt) ==
  IF off > Len(data[i]) \/ uint(off + cnt) < off THEN -1
  ELSE IF off + cnt > Len(data[i]) THEN Len(data[i]) - off ELSE cnt

do_read(p, fd, cnt) ==
  /\ call(p, "read") /\ p_ofile[p][fd] # NULL
  /\ "WRONLY" \notin f_oflag[p_ofile[p][fd]]
  /\ goto(p, "read", [None EXCEPT !.f = p_ofile[p][fd], !.cnt = cnt])
  /\ UNCHANGED <<p_ofile, p_fdflag, alive, fvars, i_count, locked, data>>

(* lock_ino(), and readi() or writei() begins.                             *)
lock_ino(p, c, d) ==
  /\ at(p, c)
  /\ locked[f_ino[arg[p].f]] = NoProc
  /\ locked' = [locked EXCEPT ![f_ino[arg[p].f]] = p]
  /\ goto(p, d, arg[p])
  /\ UNCHANGED <<p_ofile, p_fdflag, alive, fvars, i_count, data, ncall>>

(* MUTANT: a read that fails leaves the inode locked.                      *)
read_end_locked(p) ==
  /\ at(p, "readi")
  /\ LET f == arg[p].f
         r == readi(f_ino[f], f_offset[f], arg[p].cnt)
     IN /\ f_offset' = [f_offset EXCEPT ![f] =
                          IF r < 0 THEN @ ELSE uint(@ + arg[p].cnt)]
        /\ locked' = [locked EXCEPT ![f_ino[f]] = IF r < 0 THEN @ ELSE NoProc]
  /\ done(p)
  /\ UNCHANGED <<p_ofile, p_fdflag, alive, f_count, f_oflag, f_ino, i_count,
                 data, ncall>>

(* readi() and the end of do_read(): the offset advances by what was asked *)
(* for.                                                                    *)
read_end(p) ==
  /\ at(p, "readi")
  /\ LET f == arg[p].f
         r == readi(f_ino[f], f_offset[f], arg[p].cnt)
     IN /\ f_offset' = [f_offset EXCEPT ![f] =
                          IF r < 0 THEN @ ELSE uint(@ + arg[p].cnt)]
        /\ locked' = [locked EXCEPT ![f_ino[f]] = NoProc]
  /\ done(p)
  /\ UNCHANGED <<p_ofile, p_fdflag, alive, f_count, f_oflag, f_ino, i_count,
                 data, ncall>>

(* do_write() looks at the size, or at the offset, before it locks.  The   *)
(* test for O_RDONLY, which is 0, never holds.                             *)
do_write(p, fd, cnt) ==
  /\ call(p, "write") /\ p_ofile[p][fd] # NULL
  /\ LET f == p_ofile[p][fd]
         off == IF "APPEND" \in f_oflag[f] THEN Len(data[f_ino[f]])
                                           ELSE f_offset[f]
     IN /\ off <= MAX_FILESIZ
        /\ goto(p, "write", [None EXCEPT !.f = f, !.off = off, !.cnt = cnt])
  /\ UNCHANGED <<p_ofile, p_fdflag, alive, fvars, i_count, locked, data>>

(* The contents after writei(); bytes that nobody wrote are NoProc's.      *)
writei(d, p, off, cnt) ==
  LET n == IF off + cnt > MAX_FILESIZ THEN MAX_FILESIZ - off ELSE cnt
      size == IF n > 0 /\ off + n > Len(d) THEN off + n ELSE Len(d)
  IN [k \in 1 .. size |-> IF k \in off + 1 .. off + n THEN p
                          ELSE IF k <= Len(d) THEN d[k] ELSE NoProc]

(* The end of writei() and do_write().                                     *)
write_end(p) ==
  /\ at(p, "writei")
  /\ LET f == arg[p].f
         i == f_ino[f]
     IN /\ data' = [data EXCEPT ![i] = writei(@, p, arg[p].off, arg[p].cnt)]
        /\ f_offset' = [f_offset EXCEPT ![f] = uint(arg[p].off + arg[p].cnt)]
        /\ locked' = [locked EXCEPT ![i] = NoProc]
  /\ done(p)
  /\ UNCHANGED <<p_ofile, p_fdflag, alive, f_count, f_oflag, f_ino, i_count,
                 ncall>>

(* do_lseek(): off is an int, the sums are unsigned.                       *)
seek_to(f, off, whence) ==
  LET base == IF whence = "CUR" THEN f_offset[f] ELSE Len(data[f_ino[f]])
  IN CASE whence = "SET" -> IF off > UINT_MAX \div 2 THEN -1 ELSE off
       [] OTHER -> IF uint(base + off) < base THEN -1 ELSE uint(base + off)

do_lseek(p, fd, off, whence) ==
  /\ call(p, "lseek") /\ p_ofile[p][fd] # NULL
  /\ LET f == p_ofile[p][fd] IN
     f_offset' = [f_offset EXCEPT ![f] = IF seek_to(f, off, whence) < 0 THEN @
                                         ELSE seek_to(f, off, whence)]
  /\ UNCHANGED <<p_ofile, p_fdflag, alive, f_count, f_oflag, f_ino, i_count,
                 locked, data, pc, arg>>
-----------------------------------------------------------------------------
Close(p) ==
  \/ put_end(p) \/ dup2_end(p)
  \/ \E c \in {"exit", "exec"} : close_next(p, c) \/ end(p, c)

Next ==
  \E p \in Procs :
    \/ \E i \in Inodes, flag \in Oflags : do_open(p, i, flag)
    \/ \E fd \in Fd : sys_close(p, fd) \/ do_dup(p, fd)
    \/ \E fd \in Fd, newfd \in Fd : do_dup2(p, fd, newfd)
    \/ \E fd \in Fd, flag \in Oflags : fcntl_setfl(p, fd, flag)
    \/ \E fd \in Fd, b \in BOOLEAN : fcntl_setfd(p, fd, b)
    \/ \E q \in Procs : fork(p, q)
    \/ \E c \in {"exit", "exec"} : start(p, c)
    \/ \E fd \in Fd, cnt \in Cnts : do_read(p, fd, cnt) \/ do_write(p, fd, cnt)
    \/ \E fd \in Fd, off \in Seeks, whence \in {"SET", "CUR", "END"} :
         do_lseek(p, fd, off, whence)
    \/ lock_ino(p, "read", "readi") \/ lock_ino(p, "write", "writei")
    \/ itrunc(p) \/ read_end(p) \/ write_end(p) \/ Close(p)

Spec == Init /\ [][Next]_vars

(* The disk answers, so iput() returns.                                    *)
LiveSpec == Spec /\ \A p \in Procs : WF_vars(Close(p))
-----------------------------------------------------------------------------
Pc == {"user", "trunc", "dup2", "exit", "exec", "read", "write", "readi",
       "writei", "put"}

TypeOK ==
  /\ p_ofile \in [Procs -> [Fd -> File \cup {NULL}]]
  /\ p_fdflag \in [Procs -> [Fd -> BOOLEAN]]
  /\ f_count \in [File -> 0 .. CHAR_MAX]
  /\ f_oflag \in [File -> Oflag] /\ f_offset \in [File -> 0 .. UINT_MAX]
  /\ f_ino \in [File -> Inodes]
  /\ i_count \in [Inodes -> Nat] /\ locked \in [Inodes -> Procs \cup {NoProc}]
  /\ \A i \in Inodes : Len(data[i]) <= MAX_FILESIZ
  /\ pc \in [Procs -> Pc]

(* A file's count is the number of descriptors that refer to it, in all    *)
(* processes, and of the closes that are not through: the file table entry *)
(* is not given to another open() before, and not lost after.              *)
FileCount ==
  \A f \in File : f_count[f] = users(Procs, f) +
    Cardinality({p \in Procs : arg[p].f = f /\ pc[p] = "put"})

(* An inode has one reference for each descriptor of each of its files.    *)
InodeCount ==
  \A i \in Inodes : i_count[i] =
    Cardinality({m \in Procs \X Fd : /\ p_ofile[m[1]][m[2]] # NULL
                                     /\ f_ino[p_ofile[m[1]][m[2]]] = i})

(* No call leaves an inode locked behind it: who has the lock is in        *)
(* itrunc(), readi() or writei() of a file with that inode.                *)
LockReleased ==
  \A i \in Inodes : locked[i] # NoProc =>
    /\ pc[locked[i]] \in {"trunc", "readi", "writei"}
    /\ f_ino[arg[locked[i]].f] = i

(* While exec() closes files no descriptor without FD_CLOEXEC goes, and    *)
(* when it is through none with it is left.                                *)
ExecCloses ==
  [][\A p \in Procs : pc[p] = "exec" =>
       /\ \A fd \in Fd : p_ofile'[p][fd] # p_ofile[p][fd] => p_fdflag[p][fd]
       /\ pc'[p] = "user" =>
            \A fd \in Fd : p_fdflag[p][fd] => p_ofile[p][fd] = NULL]_vars

(* A process that exits gives up all its descriptors, however often iput() *)
(* sleeps.                                                                 *)
ExitCloses ==
  \A p \in Procs : pc[p] = "exit" ~>
    (p \notin alive /\ \A fd \in Fd : p_ofile[p][fd] = NULL)

=============================================================================
