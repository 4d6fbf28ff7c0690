----------------------------- MODULE InodeCache -----------------------------
(***************************************************************************)
(* The in-core inodes (src/fs/inode.c): iget, iput, iload, iupdate,        *)
(* lock_ino and unlk_ino, and the system calls that use them as far as     *)
(* they do (open, creat, unlink, close, dup, read).                        *)
(*                                                                         *)
(* A process runs until it sleeps, so an action is what a process does     *)
(* from one place where it may sleep to the next; the places are the       *)
(* values of pc.  No interrupt handler touches an inode.  There is one     *)
(* device, and all inodes are in one block of its inode table, so that     *)
(* whoever reads or writes one waits for that block's buffer.  No code     *)
(* sets I_MOUNT, and the super block of a mounted device is not locked.    *)
(***************************************************************************)
EXTENDS Integers, FiniteSets, FiniteSetsExt

CONSTANTS
  Procs,
  NINODE,        \* the size of inode[]
  MaxIno,        \* the inode numbers of the device are 1 .. MaxIno
  Files,         \* the inode numbers that have a name at first
  Ttys,          \* those that are terminals
  Calls,         \* the system calls programs make
  MaxCalls       \* bound: system calls a process makes

Slot == 1 .. NINODE
Ino == 1 .. MaxIno
None == 0

ASSUME InodeAssumption ==
  /\ NINODE \in Nat /\ MaxIno \in Nat /\ MaxCalls \in Nat
  /\ Files \subseteq Ino /\ Ttys \subseteq Ino

VARIABLES
  i_num, i_count, i_flag,
  i_nlink,       \* i_nlink in core and
  d_nlink,       \* on the disk; 0 is the inode that number 0 addresses
  imap,          \* the inodes marked in use in the bitmap
  entry,         \* the inodes with an entry in the directory
  dlock,         \* who has the directory locked
  busy,          \* who has the buffer of the inode table
  pc, op, num, slot, chan,
  ofile,         \* how many descriptors a process has for a slot
  ncall          \* how many system calls it has made

vars == <<i_num, i_count, i_flag, i_nlink, d_nlink, imap, entry, dlock, busy,
          pc, op, num, slot, chan, ofile, ncall>>

(* "iget": at _loop.  "iload": in its bread().  "free": in ifree().  "upd" *)
(* and "wr": in the bread() and the bwrite() of iupdate().  "lock": in     *)
(* lock_ino().  "readi", "tty": reading a file, a terminal.  "panic": the  *)
(* kernel has stopped.                                                     *)
PC == {"user", "iget", "iload", "free", "upd", "wr", "lock", "readi", "tty",
       "panic"}
Op == {"none", "open", "creat", "unlink", "close", "read"}

Init ==
  /\ i_num = [s \in Slot |-> 0]
  /\ i_count = [s \in Slot |-> 0]
  /\ i_flag = [s \in Slot |-> {}]
  /\ i_nlink = [s \in Slot |-> 1]
  /\ d_nlink = [n \in 0 .. MaxIno |-> IF n \in Files \cup {0} THEN 1 ELSE 0]
  /\ imap = Files
  /\ entry = Files
  /\ dlock = None /\ busy = None
  /\ pc = [p \in Procs |-> "user"]
  /\ op = [p \in Procs |-> "none"]
  /\ num = [p \in Procs |-> 0]
  /\ slot = [p \in Procs |-> None]
  /\ chan = [p \in Procs |-> None]
  /\ ofile = [p \in Procs |-> [s \in Slot |-> 0]]
  /\ ncall = [p \in Procs |-> 0]

(* In iget() or lock_ino() and not asleep: the process is the one that     *)
(* runs, or was woken at PINOD, which swtch() takes before one that waits  *)
(* for a block, at PRIBIO, or is in a program.                             *)
first(p) == pc[p] \in {"iget", "lock"} /\ chan[p] = None

(* p can go on at l.                                                       *)
at(p, l) ==
  /\ pc[p] = l /\ chan[p] = None
  /\ \A q \in Procs : pc[q] # "panic" /\ (first(q) => first(p))
goto(p, l) == pc' = [pc EXCEPT ![p] = l]
(* The system call returns, its locals are gone; unlink gives the          *)
(* directory back.                                                         *)
done(p) ==
  /\ goto(p, "user")
  /\ op' = [op EXCEPT ![p] = "none"]
  /\ num' = [num EXCEPT ![p] = 0]
  /\ slot' = [slot EXCEPT ![p] = None]
  /\ dlock' = IF dlock = p THEN None ELSE dlock

(* The call c sleeps at l, at work on the inode in s.                      *)
call(p, c, s, l) ==
  /\ op' = [op EXCEPT ![p] = c]
  /\ slot' = [slot EXCEPT ![p] = s]
  /\ goto(p, l)
-----------------------------------------------------------------------------
(* unlk_ino(): only who set I_WANTED is woken.                             *)
unlk_ino(s) ==
  /\ i_flag' = [i_flag EXCEPT ![s] = {}]
  /\ chan' = IF "I_WANTED" \in i_flag[s]
             THEN [q \in Procs |-> IF chan[q] = s THEN None ELSE chan[q]]
             ELSE chan

(* MUTANT: the reference is given up only when it is the last.             *)
iput_keep(p, c, s, count, nlink) ==
  IF count > 1
  THEN /\ i_count' = [i_count EXCEPT ![s] = count]
       /\ unlk_ino(s)
       /\ done(p)
  ELSE /\ i_count' = [i_count EXCEPT ![s] = 0]
       /\ i_flag' = [i_flag EXCEPT ![s] = @ \cup {"I_LOCK"}]
       /\ call(p, c, s, IF nlink = 0 THEN "free" ELSE "upd")
       /\ UNCHANGED <<chan, dlock, num>>

(* iput() up to its first sleep, of an inode that has count references.    *)
(* It sets I_LOCK whoever has the lock.                                    *)
iput(p, c, s, count, nlink) ==
  IF count > 1
  THEN /\ i_count' = [i_count EXCEPT ![s] = count - 1]
       /\ unlk_ino(s)
       /\ done(p)
  ELSE /\ i_count' = [i_count EXCEPT ![s] = 0]
       /\ i_flag' = [i_flag EXCEPT ![s] = @ \cup {"I_LOCK"}]
       /\ call(p, c, s, IF nlink = 0 THEN "free" ELSE "upd")
       /\ UNCHANGED <<chan, dlock, num>>

(* i_nlink--, of an uchar.                                                 *)
decr(nlink) == (nlink - 1) % 256

(* do_open() and do_unlink() with the inode that iget() returns.  open     *)
(* unlocks it at last; creat initialises a new one and writes it first;    *)
(* unlink counts a name less and calls iput().                             *)
got(p, c, s, count, nlink) ==
  \/ /\ c = "unlink"
     /\ i_nlink' = [i_nlink EXCEPT ![s] = decr(nlink)]
     /\ iput(p, c, s, count, decr(nlink))
     /\ UNCHANGED ofile
  \/ /\ c = "creat" /\ nlink = 0
     /\ i_nlink' = [i_nlink EXCEPT ![s] = 1]
     /\ i_count' = [i_count EXCEPT ![s] = count]
     /\ i_flag' = [i_flag EXCEPT ![s] = @ \cup {"I_LOCK"}]
     /\ call(p, c, s, "upd")
     /\ UNCHANGED <<num, chan, dlock, ofile>>
  \/ /\ c = "open" \/ (c = "creat" /\ nlink # 0)
     /\ i_nlink' = [i_nlink EXCEPT ![s] = nlink]
     /\ i_count' = [i_count EXCEPT ![s] = count]
     /\ unlk_ino(s)
     /\ ofile' = [ofile EXCEPT ![p][s] = @ + 1]
     /\ done(p)
-----------------------------------------------------------------------------
(* A process in a program makes the system call c.                         *)
enter(p, c) ==
  /\ at(p, "user") /\ c \in Calls /\ ncall[p] < MaxCalls
  /\ ncall' = [ncall EXCEPT ![p] = @ + 1]

(* The path is looked up in the directory, which is locked meanwhile; the  *)
(* system call goes on with iget().                                        *)
start(p, c, n) ==
  /\ enter(p, c) /\ dlock = None
  /\ op' = [op EXCEPT ![p] = c]
  /\ num' = [num EXCEPT ![p] = n]
  /\ goto(p, "iget")
  /\ UNCHANGED <<i_num, i_count, i_flag, i_nlink, d_nlink, busy, slot, chan,
                 ofile>>

(* do_open() of a name that is there, without and with O_CREAT.            *)
do_open(p, n) ==
  /\ n \in entry
  /\ start(p, "open", n) \/ start(p, "creat", n)
  /\ UNCHANGED <<imap, entry, dlock>>

(* do_open() with O_CREAT of a name that is not: ialloc() and link_entry().*)
do_creat(p, n) ==
  /\ Ino # imap /\ n = Min(Ino \ imap)
  /\ start(p, "creat", n)
  /\ imap' = imap \cup {n}
  /\ entry' = entry \cup {n}
  /\ UNCHANGED dlock

(* do_unlink(): the entry is cleared, the directory stays locked.          *)
do_unlink(p, n) ==
  /\ n \in entry
  /\ start(p, "unlink", n)
  /\ entry' = entry \ {n}
  /\ dlock' = p
  /\ UNCHANGED imap

(* MUTANT: a slot that is locked is passed over.                           *)
cached_free(n) == {s \in Slot : i_num[s] = n /\ "I_LOCK" \notin i_flag[s]}

(* The slot iget() finds for a number, and the one it takes if none.       *)
cached(n) == {s \in Slot : i_num[s] = n}
unused == {s \in Slot : i_count[s] = 0}

iget_wait(p) ==
  /\ at(p, "iget") /\ cached(num[p]) # {}
  /\ LET s == Min(cached(num[p]))
     IN /\ "I_LOCK" \in i_flag[s]
        /\ i_flag' = [i_flag EXCEPT ![s] = @ \cup {"I_WANTED"}]
        /\ chan' = [chan EXCEPT ![p] = s]
  /\ UNCHANGED <<i_num, i_count, i_nlink, d_nlink, imap, entry, dlock, busy,
                 pc,
                 op, num, slot, ofile, ncall>>

iget_hit(p) ==
  /\ at(p, "iget") /\ cached(num[p]) # {}
  /\ LET s == Min(cached(num[p]))
     IN /\ "I_LOCK" \notin i_flag[s]
        /\ got(p, op[p], s, i_count[s] + 1, i_nlink[s])
  /\ UNCHANGED <<i_num, d_nlink, imap, entry, busy, ncall>>

iget_miss(p) ==
  /\ at(p, "iget") /\ cached(num[p]) = {} /\ unused # {}
  /\ LET s == Min(unused)
     IN /\ i_num' = [i_num EXCEPT ![s] = num[p]]
        /\ i_flag' = [i_flag EXCEPT ![s] = {"I_LOCK"}]
        /\ i_count' = [i_count EXCEPT ![s] = @ + 1]
        /\ slot' = [slot EXCEPT ![p] = s]
  /\ goto(p, "iload")
  /\ UNCHANGED <<i_nlink, d_nlink, imap, entry, dlock, busy, op, num, chan,
                 ofile, ncall>>

(* "inode table overflow": iget() returns NULL.  open fails, the others    *)
(* take NULL for an inode and get no further.                              *)
iget_full(p) ==
  /\ at(p, "iget") /\ cached(num[p]) = {} /\ unused = {}
  /\ IF op[p] = "open"
     THEN done(p)
     ELSE goto(p, "panic") /\ UNCHANGED <<op, num, slot, dlock>>
  /\ UNCHANGED <<i_num, i_count, i_flag, i_nlink, d_nlink, imap, entry, busy,
                 chan,
                 ofile, ncall>>

(* iload() after its bread(); the number is read again.                    *)
iload(p) ==
  /\ at(p, "iload") /\ busy = None
  /\ LET s == slot[p]
     IN got(p, op[p], s, i_count[s], d_nlink[i_num[s]])
  /\ UNCHANGED <<i_num, d_nlink, imap, entry, busy, ncall>>

(* do_close(), or do_exit() and vm_clear(): iput() of an inode that the    *)
(* process has not locked.                                                 *)
do_close(p, s) ==
  /\ enter(p, "close") /\ ofile[p][s] > 0
  /\ ofile' = [ofile EXCEPT ![p][s] = @ - 1]
  /\ iput(p, "close", s, i_count[s], i_nlink[s])
  /\ UNCHANGED <<i_num, i_nlink, d_nlink, imap, entry, busy>>

(* do_dup(), kspawn(): one more reference.                                 *)
do_dup(p, s) ==
  /\ enter(p, "dup") /\ ofile[p][s] > 0
  /\ i_count' = [i_count EXCEPT ![s] = @ + 1]
  /\ ofile' = [ofile EXCEPT ![p][s] = @ + 1]
  /\ UNCHANGED <<i_num, i_flag, i_nlink, d_nlink, imap, entry, dlock, busy,
                 pc, op,
                 num, slot, chan>>

(* ifree() after its bread(), with the number read again: an inode that is *)
(* free, and number 0, panic.                                              *)
iput_free(p) ==
  /\ at(p, "free")
  /\ IF i_num[slot[p]] \in imap
     THEN imap' = imap \ {i_num[slot[p]]} /\ goto(p, "upd")
     ELSE goto(p, "panic") /\ UNCHANGED imap
  /\ UNCHANGED <<i_num, i_count, i_flag, i_nlink, d_nlink, entry, dlock, busy,
                 op,
                 num, slot, chan, ofile, ncall>>

(* iupdate() after its bread(): the number is read again.                  *)
iupdate(p) ==
  /\ at(p, "upd") /\ busy = None
  /\ busy' = p
  /\ d_nlink' = [d_nlink EXCEPT ![i_num[slot[p]]] = i_nlink[slot[p]]]
  /\ goto(p, "wr")
  /\ UNCHANGED <<i_num, i_count, i_flag, i_nlink, imap, entry, dlock, op, num,
                 slot, chan, ofile, ncall>>

(* After bwrite(): back in do_open(), or the end of iput(), which clears   *)
(* I_WANTED before unlk_ino() can see it.  What is left in a slot that     *)
(* nobody refers to is not read again, so it is dropped.                   *)
iupdate_end(p) ==
  /\ at(p, "wr")
  /\ busy' = None
  /\ IF op[p] = "creat"
     THEN /\ unlk_ino(slot[p])
          /\ ofile' = [ofile EXCEPT ![p][slot[p]] = @ + 1]
          /\ done(p)
          /\ UNCHANGED <<i_num, i_count, i_nlink>>
     ELSE /\ i_flag' = [i_flag EXCEPT ![slot[p]] = {}]
          /\ i_num' = [i_num EXCEPT ![slot[p]] = 0]
          /\ i_nlink' = IF i_count[slot[p]] = 0
                        THEN [i_nlink EXCEPT ![slot[p]] = 1] ELSE i_nlink
          /\ done(p)
          /\ UNCHANGED <<i_count, chan, ofile>>
  /\ UNCHANGED <<d_nlink, imap, entry, ncall>>
-----------------------------------------------------------------------------
(* do_read(), do_write() and do_no_page(): lock_ino() and on.  do_read()   *)
(* of a terminal does not lock.                                            *)
do_read(p, s) ==
  /\ enter(p, "read") /\ ofile[p][s] > 0
  /\ call(p, "read", s, IF i_num[s] \in Ttys THEN "tty" ELSE "lock")
  /\ UNCHANGED <<i_num, i_count, i_flag, i_nlink, d_nlink, imap, entry, dlock,
                 busy,
                 num, chan, ofile>>

(* lock_ino(): the sleep leaves no I_WANTED behind.                        *)
lock_ino(p) ==
  /\ at(p, "lock")
  /\ IF "I_LOCK" \in i_flag[slot[p]]
     THEN chan' = [chan EXCEPT ![p] = slot[p]] /\ UNCHANGED <<i_flag, pc>>
     ELSE /\ i_flag' = [i_flag EXCEPT ![slot[p]] = @ \cup {"I_LOCK"}]
          /\ goto(p, "readi")
          /\ UNCHANGED chan
  /\ UNCHANGED <<i_num, i_count, i_nlink, d_nlink, imap, entry, dlock, busy,
                 op,
                 num, slot, ofile, ncall>>

(* After readi() or tty_read(): unlk_ino().                                *)
read_end(p) ==
  /\ at(p, "readi") \/ at(p, "tty")
  /\ unlk_ino(slot[p])
  /\ done(p)
  /\ UNCHANGED <<i_num, i_count, i_nlink, d_nlink, imap, entry, busy, ofile,
                 ncall>>

Step(p) ==
  \/ iget_wait(p) \/ iget_hit(p) \/ iget_miss(p) \/ iget_full(p) \/ iload(p)
  \/ iput_free(p) \/ iupdate(p) \/ iupdate_end(p) \/ lock_ino(p) \/ read_end(p)

Next ==
  \E p \in Procs :
    \/ Step(p)
    \/ \E n \in Ino : do_open(p, n) \/ do_creat(p, n) \/ do_unlink(p, n)
    \/ \E s \in Slot : do_close(p, s) \/ do_dup(p, s) \/ do_read(p, s)

Spec == Init /\ [][Next]_vars

-----------------------------------------------------------------------------
TypeOK ==
  /\ i_num \in [Slot -> 0 .. MaxIno]
  /\ i_count \in [Slot -> Nat]
  /\ i_flag \in [Slot -> SUBSET {"I_LOCK", "I_WANTED"}]
  /\ i_nlink \in [Slot -> 0 .. 255]
  /\ d_nlink \in [0 .. MaxIno -> 0 .. 255]
  /\ imap \subseteq Ino /\ entry \subseteq Ino
  /\ dlock \in Procs \cup {None} /\ busy \in Procs \cup {None}
  /\ pc \in [Procs -> PC] /\ op \in [Procs -> Op]
  /\ chan \in [Procs -> 0 .. NINODE]
  /\ slot \in [Procs -> 0 .. NINODE] /\ num \in [Procs -> 0 .. MaxIno]
  /\ ofile \in [Procs -> [Slot -> Nat]] /\ ncall \in [Procs -> 0 .. MaxCalls]

(* The processes that work on the inode in a slot: they have it from       *)
(* iget(), have locked it, or are in iput() beyond its first sleep.        *)
users(s) ==
  {p \in Procs : slot[p] = s
      /\ pc[p] \in {"iload", "readi", "free", "upd", "wr"}}

(* Those of them that have a reference that is no descriptor.              *)
callers(s) == {p \in users(s) : op[p] \in {"open", "creat"}
                 \/ (op[p] = "unlink" /\ pc[p] = "iload")}

(* The references to the inode in a slot: the descriptors of a process,    *)
(* numbered from 1, and what a system call in progress has.                *)
descs(s) == UNION {{<<p, k>> : k \in 1 .. ofile[p][s]} : p \in Procs}
refs(s) == descs(s) \cup {<<p, 0>> : p \in callers(s)}

(* i_count is the number of references, at every moment: iget, dup, iput   *)
(* and the failing paths neither lose nor invent one.                      *)
RefCount == \A s \in Slot : i_count[s] = Cardinality(refs(s))

(* An inode has one slot, so that all its users see the same i_nlink.      *)
OneSlot ==
  \A s, t \in Slot : i_num[s] = i_num[t] /\ i_num[s] # 0 => s = t

=============================================================================
