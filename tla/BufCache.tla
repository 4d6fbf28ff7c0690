------------------------------ MODULE BufCache ------------------------------
(***************************************************************************)
(* The block buffer cache (src/blk/buf.c), its disk driver (src/blk/hd.c)  *)
(* and the sleep/wakeup pair they stand on (src/kern/sched.c).             *)
(*                                                                         *)
(* The kernel runs on one processor and is not preemptive: a process keeps *)
(* the processor until it sleeps or returns to user mode.  Everything a    *)
(* process does between two such points is therefore one action, EXCEPT    *)
(* that the disk interrupt may be taken between two statements: an action  *)
(* ends wherever an interrupt taken at that point could matter.            *)
(*                                                                         *)
(* A block of the (single) device is a number, a buffer a model value, the *)
(* contents of a block one value.  The two lists threaded through          *)
(* av_next/av_prev are sequences here (module HdQueue keeps the pointers). *)
(* B_DIRTY, B_ASYNC and B_ERROR are never set by the code, so the branches *)
(* they guard in getblk, bwrite and brelse are left out.                   *)
(***************************************************************************)
EXTENDS Naturals, FiniteSets, Sequences, Functions

CONSTANTS
  Proc,          \* processes
  Buf,           \* buff
  NBUF,          \* how many
  Blk,           \* block numbers of the device
  Val,           \* contents of a block
  Zero,          \* the contents of a zeroed block
  MaxHeld,       \* how many buffers one system call holds at a time
  NoProc,        \* cu while swtch() looks for a process
  NoBuf, NoBlk,  \* no buffer; b_dev = NODEV
  FreeList,      \* the channel &bfreelist
  NoChan,        \* p_chan = 0
  IntrInIowait   \* is the interrupt taken between iowait's test and sleep?

ASSUME ConstAssumption ==
  /\ NoProc \notin Proc
  /\ NBUF \in Nat /\ Cardinality(Buf) = NBUF /\ NoBuf \notin Buf
  /\ Blk \subseteq Nat /\ NoBlk \notin Blk
  /\ FreeList \notin Buf /\ NoChan \notin Buf /\ NoChan # FreeList
  /\ Zero \in Val
  /\ MaxHeld \in Nat \ {0}
  /\ IntrInIowait \in BOOLEAN

VARIABLES
  b_flag,        \* the flags of each buffer, as a set
  b_blkno,       \* the block each buffer stands for
  b_data,        \* its contents
  freelist,      \* bfreelist's av list, head first
  freeWanted,    \* B_WANTED in bfreelist.b_flag
  ioq,           \* hdtab's av list, the next request to serve first
  d_active,      \* hdtab.d_active
  hd,            \* the command the controller was given last
  disk,          \* what the disk holds
  cu,            \* the current process
  p_stat, p_chan,
  pc,            \* where each process is in the kernel
  want,          \* getblk's argument blkno
  mode,          \* who called getblk: bread or bzero
  bp,            \* the buffer the I/O of the process is about
  held           \* the buffers a process got and has not released

bufVars  == <<b_flag, b_blkno, b_data, freelist, freeWanted>>
hdVars   == <<ioq, d_active, hd, disk>>
procVars == <<cu, p_stat, p_chan, pc, want, mode, bp, held>>
vars     == <<bufVars, hdVars, procVars>>

Flag == {"READ", "DONE", "BUSY", "WANTED"}
Chan == Buf \cup {FreeList}

(* "user": user mode.  "kern": in a system call, about to ask for a block, *)
(* write or release one, or return.  "getblk": at getblk's label _loop.    *)
(* "bread": getblk returned to bread.  "bzero": getblk returned to bzero.  *)
(* "iowait": at the test of iowait's loop.  "sleep": the test failed and   *)
(* sleep() has not yet masked interrupts.                                  *)
PC == {"user", "kern", "getblk", "bread", "bzero", "iowait", "sleep"}

(* buf_init: every buffer is free and stands for no block.                 *)
Init ==
  /\ b_flag  = [b \in Buf |-> {}]
  /\ b_blkno = [b \in Buf |-> NoBlk]
  /\ b_data  = [b \in Buf |-> Zero]
  /\ freelist \in [1..NBUF -> Buf]
  /\ Range(freelist) = Buf /\ IsInjective(freelist)
  /\ freeWanted = FALSE
  /\ ioq = <<>>
  /\ d_active = FALSE
  /\ hd \in [cmd : {"read"}, blk : {NoBlk}, data : {Zero}]
  /\ disk \in [Blk -> Val]
  /\ cu = NoProc
  /\ p_stat = [p \in Proc |-> "SRUN"]
  /\ p_chan = [p \in Proc |-> NoChan]
  /\ pc   = [p \in Proc |-> "user"]
  /\ want = [p \in Proc |-> NoBlk]
  /\ mode = [p \in Proc |-> "bread"]
  /\ bp   = [p \in Proc |-> NoBuf]
  /\ held = [p \in Proc |-> {}]
-----------------------------------------------------------------------------
(* Scheduling.                                                             *)

(* swtch() chose p.  The choice by p_pri is left open.                     *)
swtch(p) ==
  /\ cu = NoProc
  /\ p_stat[p] = "SRUN"
  /\ cu' = p
  /\ UNCHANGED <<bufVars, hdVars, p_stat, p_chan, pc, want, mode, bp, held>>

(* sleep(chan, PRIBIO): uninterruptible, gives the processor away.         *)
sleep(p, chan) ==
  /\ p_stat' = [p_stat EXCEPT ![p] = "SSLEEP"]
  /\ p_chan' = [p_chan EXCEPT ![p] = chan]
  /\ cu' = NoProc

(* wakeup() on every channel of the set C.                                 *)
wakeup(C) ==
  /\ p_stat' = [p \in Proc |-> IF p_chan[p] \in C THEN "SRUN" ELSE p_stat[p]]
  /\ p_chan' = [p \in Proc |-> IF p_chan[p] \in C THEN NoChan ELSE p_chan[p]]

(* The timer interrupts user mode: hwint_common ends with swtch().         *)
do_timer(p) ==
  /\ cu = p /\ pc[p] = "user"
  /\ cu' = NoProc
  /\ UNCHANGED <<bufVars, hdVars, p_stat, p_chan, pc, want, mode, bp, held>>

(* A system call enters the kernel.                                        *)
enter(p) ==
  /\ cu = p /\ pc[p] = "user"
  /\ pc' = [pc EXCEPT ![p] = "kern"]
  /\ UNCHANGED <<bufVars, hdVars, cu, p_stat, p_chan, want, mode, bp, held>>

(* It returns to user mode, holding no buffer: hwint_common calls swtch(). *)
leave(p) ==
  /\ cu = p /\ pc[p] = "kern" /\ held[p] = {}
  /\ pc' = [pc EXCEPT ![p] = "user"]
  /\ cu' = NoProc
  /\ UNCHANGED <<bufVars, hdVars, p_stat, p_chan, want, mode, bp, held>>
-----------------------------------------------------------------------------
(* The disk driver.                                                        *)

(* What hd_cmd (and outsl, for a write) gives the controller for b.        *)
hd_cmd(b, flags, data) ==
  [cmd  |-> IF "READ" \in flags THEN "read" ELSE "write",
   blk  |-> b_blkno[b],
   data |-> data]

(* hd_request(b): queue b; start it at once if the disk is idle.           *)
hd_request(b, flags, data) ==
  /\ ioq' = Append(ioq, b)
  /\ d_active' = TRUE
  /\ hd' = IF d_active THEN hd ELSE hd_cmd(b, flags, data)
  /\ UNCHANGED disk

(* MUTANT: iodone without its wakeup.                                      *)
iodone_nowakeup(b) ==
  /\ b_flag' = [b_flag EXCEPT ![b] = (@ \cup {"DONE"}) \ {"WANTED"}]
  /\ UNCHANGED <<p_stat, p_chan>>

(* iodone(b): B_DONE on, B_WANTED off, wake who sleeps on b.               *)
iodone(b) ==
  /\ b_flag' = [b_flag EXCEPT ![b] = (@ \cup {"DONE"}) \ {"WANTED"}]
  /\ wakeup({b})

(* MUTANT: d_active is not reset when the queue runs empty.                *)
hd_start_active(q) ==
  /\ d_active' = TRUE
  /\ hd' = IF q = <<>> THEN hd ELSE hd_cmd(Head(q), b_flag[Head(q)], b_data[Head(q)])

(* d_active = 0, then hd_start(): give the controller the oldest request.  *)
hd_start(q) ==
  /\ d_active' = (q # <<>>)
  /\ hd' = IF q = <<>> THEN hd ELSE hd_cmd(Head(q), b_flag[Head(q)], b_data[Head(q)])

(* do_hd_intr: the controller finished hd.  Take the request off, fetch    *)
(* the data of a read, iodone() it, and start the next one.                *)
do_hd_intr ==
  /\ d_active
  /\ cu \in Proc => (IntrInIowait \/ pc[cu] # "sleep")
  /\ LET b == Head(ioq)
     IN /\ disk' = IF hd.cmd = "write"
                   THEN [disk EXCEPT ![hd.blk] = hd.data] ELSE disk
        /\ b_data' = IF "READ" \in b_flag[b]
                     THEN [b_data EXCEPT ![b] = disk[hd.blk]] ELSE b_data
        /\ iodone(b)
        /\ ioq' = Tail(ioq)
        /\ hd_start(Tail(ioq))
  /\ UNCHANGED <<b_blkno, freelist, freeWanted, cu, pc, want, mode, bp, held>>
-----------------------------------------------------------------------------
(* The buffer cache.                                                       *)

(* incore: the buffers that stand for block k (the code returns the first).*)
incore(k) == {b \in Buf : b_blkno[b] = k}

(* The file system asks for block k, with bread or, to clear it, bzero.    *)
(* Calls nest: bmap holds a map block while balloc reads the bitmap.  The  *)
(* numbers in Blk stand for the order in which callers nest, so a call     *)
(* that holds a buffer asks only for a block further on.                   *)
ask(p, k, m) ==
  /\ cu = p /\ pc[p] = "kern"
  /\ Cardinality(held[p]) < MaxHeld
  /\ \A b \in held[p] : b_blkno[b] < k
  /\ pc'   = [pc   EXCEPT ![p] = "getblk"]
  /\ want' = [want EXCEPT ![p] = k]
  /\ mode' = [mode EXCEPT ![p] = m]
  /\ UNCHANGED <<bufVars, hdVars, cu, p_stat, p_chan, bp, held>>

(* getblk gives b to p and returns to its caller.                          *)
getblk_return(p, b) ==
  /\ bp'   = [bp   EXCEPT ![p] = b]
  /\ held' = [held EXCEPT ![p] = @ \cup {b}]
  /\ pc'   = [pc   EXCEPT ![p] = mode[p]]
  /\ UNCHANGED <<hdVars, cu, p_stat, p_chan, want, mode, freeWanted, b_data>>

(* notavail(b): b, wherever it is on the free list, leaves it.             *)
notavail(b) ==
  \E i \in 1..Len(freelist) :
    /\ freelist[i] = b
    /\ freelist' = SubSeq(freelist, 1, i - 1) \o SubSeq(freelist, i + 1, Len(freelist))

(* MUTANT: the sleeper does not leave B_WANTED behind.                     *)
getblk_busy_unmarked(p) ==
  /\ cu = p /\ pc[p] = "getblk"
  /\ \E b \in incore(want[p]) : "BUSY" \in b_flag[b] /\ sleep(p, b)
  /\ UNCHANGED <<bufVars, hdVars, pc, want, mode, bp, held>>

(* 2. found but busy: want it, sleep on it, search again.                  *)
getblk_busy(p) ==
  /\ cu = p /\ pc[p] = "getblk"
  /\ \E b \in incore(want[p]) :
       /\ "BUSY" \in b_flag[b]
       /\ b_flag' = [b_flag EXCEPT ![b] = @ \cup {"WANTED"}]
       /\ sleep(p, b)
  /\ UNCHANGED <<b_blkno, b_data, freelist, freeWanted, hdVars,
                 pc, want, mode, bp, held>>

(* MUTANT: a hit without notavail(): not B_BUSY, and on the free list.     *)
getblk_hit_available(p) ==
  /\ cu = p /\ pc[p] = "getblk"
  /\ \E b \in incore(want[p]) : "BUSY" \notin b_flag[b] /\ getblk_return(p, b)
  /\ UNCHANGED <<b_flag, b_blkno, freelist>>

(* 1. found and free: take it off the free list.                           *)
getblk_hit(p) ==
  /\ cu = p /\ pc[p] = "getblk"
  /\ \E b \in incore(want[p]) :
       /\ "BUSY" \notin b_flag[b]
       /\ notavail(b)
       /\ b_flag' = [b_flag EXCEPT ![b] = @ \cup {"BUSY"}]
       /\ getblk_return(p, b)
  /\ UNCHANGED b_blkno

(* 3. not found and nothing free: want a free buffer, sleep, search again. *)
getblk_nofree(p) ==
  /\ cu = p /\ pc[p] = "getblk"
  /\ incore(want[p]) = {}
  /\ freelist = <<>>
  /\ freeWanted' = TRUE
  /\ sleep(p, FreeList)
  /\ UNCHANGED <<b_flag, b_blkno, b_data, freelist, hdVars,
                 pc, want, mode, bp, held>>

(* MUTANT: no second search after the sleep for a free buffer.             *)
getblk_take_nosearch(p) ==
  /\ cu = p /\ pc[p] = "getblk"
  /\ freelist # <<>>
  /\ LET b == Head(freelist)
     IN /\ freelist' = Tail(freelist)
        /\ b_flag'  = [b_flag  EXCEPT ![b] = {"BUSY"}]
        /\ b_blkno' = [b_blkno EXCEPT ![b] = want[p]]
        /\ getblk_return(p, b)

(* 4. not found: reuse the head of the free list, its old contents void.   *)
getblk_take(p) ==
  /\ cu = p /\ pc[p] = "getblk"
  /\ incore(want[p]) = {}
  /\ freelist # <<>>
  /\ LET b == Head(freelist)
     IN /\ freelist' = Tail(freelist)
        /\ b_flag'  = [b_flag  EXCEPT ![b] = {"BUSY"}]
        /\ b_blkno' = [b_blkno EXCEPT ![b] = want[p]]
        /\ getblk_return(p, b)

(* bread after getblk: done if the contents are valid, else ask the disk.  *)
bread(p) ==
  /\ cu = p /\ pc[p] = "bread"
  /\ LET b == bp[p] IN
     \/ /\ "DONE" \in b_flag[b]
        /\ pc' = [pc EXCEPT ![p] = "kern"]
        /\ UNCHANGED <<b_flag, hdVars>>
     \/ /\ "DONE" \notin b_flag[b]
        /\ b_flag' = [b_flag EXCEPT ![b] = @ \cup {"READ"}]
        /\ hd_request(b, b_flag'[b], b_data[b])
        /\ pc' = [pc EXCEPT ![p] = "iowait"]
  /\ UNCHANGED <<b_blkno, b_data, freelist, freeWanted,
                 cu, p_stat, p_chan, want, mode, bp, held>>

(* MUTANT: B_DONE survives, so iowait does not wait.                       *)
bwrite_keepdone(p, b, v) ==
  /\ b_data' = [b_data EXCEPT ![b] = v]
  /\ b_flag' = [b_flag EXCEPT ![b] = @ \ {"READ"}]
  /\ hd_request(b, b_flag'[b], v)
  /\ bp' = [bp EXCEPT ![p] = b]
  /\ pc' = [pc EXCEPT ![p] = "iowait"]
  /\ UNCHANGED <<b_blkno, freelist, freeWanted,
                 cu, p_stat, p_chan, want, mode, held>>

(* The caller fills a buffer it holds and bwrite()s it.                    *)
bwrite(p, b, v) ==
  /\ b_data' = [b_data EXCEPT ![b] = v]
  /\ b_flag' = [b_flag EXCEPT ![b] = @ \ {"READ", "DONE"}]
  /\ hd_request(b, b_flag'[b], v)
  /\ bp' = [bp EXCEPT ![p] = b]
  /\ pc' = [pc EXCEPT ![p] = "iowait"]
  /\ UNCHANGED <<b_blkno, freelist, freeWanted,
                 cu, p_stat, p_chan, want, mode, held>>

(* Read, modify, write: iupdate, the bitmaps, writei.                      *)
update(p, b, v) ==
  /\ cu = p /\ pc[p] = "kern" /\ b \in held[p]
  /\ bwrite(p, b, v)

(* bzero after getblk: clear the block without reading it.                 *)
bzero(p) ==
  /\ cu = p /\ pc[p] = "bzero"
  /\ bwrite(p, bp[p], Zero)

(* MUTANT: iowait sleeps without a test.                                   *)
iowait_notest(p) ==
  /\ cu = p /\ pc[p] = "iowait"
  /\ pc' = [pc EXCEPT ![p] = "sleep"]
  /\ UNCHANGED <<bufVars, hdVars, cu, p_stat, p_chan, want, mode, bp, held>>

(* iowait's loop: its test...                                              *)
iowait(p) ==
  /\ cu = p /\ pc[p] = "iowait"
  /\ pc' = [pc EXCEPT ![p] = IF "DONE" \in b_flag[bp[p]] THEN "kern" ELSE "sleep"]
  /\ UNCHANGED <<bufVars, hdVars, cu, p_stat, p_chan, want, mode, bp, held>>

(* ... and its body.                                                       *)
iowait_sleep(p) ==
  /\ cu = p /\ pc[p] = "sleep"
  /\ sleep(p, bp[p])
  /\ pc' = [pc EXCEPT ![p] = "iowait"]
  /\ UNCHANGED <<bufVars, hdVars, want, mode, bp, held>>

(* MUTANT: who waits for any free buffer is not woken.                     *)
brelse_nofreewakeup(p, b) ==
  /\ cu = p /\ pc[p] = "kern" /\ b \in held[p]
  /\ wakeup(IF "WANTED" \in b_flag[b] THEN {b} ELSE {})
  /\ freeWanted' = FALSE
  /\ b_flag' = [b_flag EXCEPT ![b] = @ \ {"WANTED", "BUSY"}]
  /\ freelist' = Append(freelist, b)
  /\ held' = [held EXCEPT ![p] = @ \ {b}]
  /\ UNCHANGED <<b_blkno, b_data, hdVars, cu, pc, want, mode, bp>>

(* brelse: wake who wants b or any buffer, append b to the free list.      *)
brelse(p, b) ==
  /\ cu = p /\ pc[p] = "kern" /\ b \in held[p]
  /\ wakeup((IF "WANTED" \in b_flag[b] THEN {b} ELSE {})
            \cup (IF freeWanted THEN {FreeList} ELSE {}))
  /\ freeWanted' = FALSE
  /\ b_flag' = [b_flag EXCEPT ![b] = @ \ {"WANTED", "BUSY"}]
  /\ freelist' = Append(freelist, b)
  /\ held' = [held EXCEPT ![p] = @ \ {b}]
  /\ UNCHANGED <<b_blkno, b_data, hdVars, cu, pc, want, mode, bp>>
-----------------------------------------------------------------------------
ProcStep(p) ==
  \/ do_timer(p) \/ enter(p) \/ leave(p)
  \/ \E k \in Blk, m \in {"bread", "bzero"} : ask(p, k, m)
  \/ getblk_busy(p) \/ getblk_hit(p) \/ getblk_nofree(p) \/ getblk_take(p)
  \/ bread(p) \/ bzero(p)
  \/ \E b \in Buf, v \in Val : update(p, b, v)
  \/ iowait(p) \/ iowait_sleep(p)
  \/ \E b \in Buf : brelse(p, b)

Next == do_hd_intr \/ \E p \in Proc : swtch(p) \/ ProcStep(p)

Spec == Init /\ [][Next]_vars

(* The disk answers; a runnable process gets the processor some day        *)
(* (a sleeper wakes with a kernel priority, and sched_cpu ages the rest);  *)
(* the running one does not stop; every system call gives its buffers back *)
(* and returns; the timer ticks.  Nobody is bound to make a system call.   *)
Fairness ==
  /\ WF_vars(do_hd_intr)
  /\ \A p \in Proc :
       /\ SF_vars(swtch(p))
       /\ WF_vars(do_timer(p))
       /\ SF_vars(leave(p))
       /\ \A b \in Buf : SF_vars(brelse(p, b))
       /\ WF_vars(getblk_busy(p) \/ getblk_hit(p) \/ getblk_nofree(p)
                  \/ getblk_take(p) \/ bread(p) \/ bzero(p)
                  \/ iowait(p) \/ iowait_sleep(p))

FairSpec == Spec /\ Fairness
-----------------------------------------------------------------------------
TypeOK ==
  /\ b_flag \in [Buf -> SUBSET Flag]
  /\ b_blkno \in [Buf -> Blk \cup {NoBlk}]
  /\ b_data \in [Buf -> Val]
  /\ freelist \in Seq(Buf)
  /\ freeWanted \in BOOLEAN
  /\ ioq \in Seq(Buf)
  /\ d_active \in BOOLEAN
  /\ hd \in [cmd : {"read", "write"}, blk : Blk \cup {NoBlk}, data : Val]
  /\ disk \in [Blk -> Val]
  /\ cu \in Proc \cup {NoProc}
  /\ p_stat \in [Proc -> {"SRUN", "SSLEEP"}]
  /\ p_chan \in [Proc -> Chan \cup {NoChan}]
  /\ pc \in [Proc -> PC]
  /\ want \in [Proc -> Blk \cup {NoBlk}]
  /\ mode \in [Proc -> {"bread", "bzero"}]
  /\ bp \in [Proc -> Buf \cup {NoBuf}]
  /\ held \in [Proc -> SUBSET Buf]

(* Where a process that is not running can be: it gave the processor away  *)
(* in user mode, in getblk or in iowait, and it is asleep only on a channel*)
(* it named.                                                               *)
OffProcessor ==
  /\ \A p \in Proc : p # cu => pc[p] \in {"user", "getblk", "iowait"}
  /\ \A p \in Proc : p_stat[p] = "SSLEEP" <=> p_chan[p] # NoChan
  /\ \A p \in Proc : p_stat[p] = "SSLEEP" =>
        p # cu /\ pc[p] \in {"getblk", "iowait"}
  /\ \A p \in Proc : p_stat[p] = "SSLEEP" /\ pc[p] = "iowait" => p_chan[p] = bp[p]

(* The free list and the I/O queue hold no buffer twice.                   *)
ListsAreSimple ==
  /\ IsInjective(freelist)
  /\ IsInjective(ioq)

(* A process waits for the buffer it named; a buffer in the driver's queue *)
(* is not valid and its holder waits for it; conversely an invalid buffer  *)
(* somebody waits for is in the queue, so the wait ends.                   *)
QueueIsWaitedFor ==
  /\ \A p \in Proc : pc[p] \in {"bread", "bzero", "iowait", "sleep"} => bp[p] \in held[p]
  /\ \A b \in Range(ioq) :
        /\ "DONE" \notin b_flag[b]
        /\ \E p \in Proc : bp[p] = b /\ b \in held[p] /\ pc[p] \in {"iowait", "sleep"}
  /\ \A p \in Proc : pc[p] \in {"iowait", "sleep"} =>
        "DONE" \in b_flag[bp[p]] \/ bp[p] \in Range(ioq)

(* Getblk looks for a block, and a busy buffer stands for one.             *)
BlocksAreNamed ==
  /\ \A p \in Proc : pc[p] = "getblk" => want[p] \in Blk
  /\ \A b \in Buf : "BUSY" \in b_flag[b] => b_blkno[b] \in Blk

(* No block is cached twice: although getblk sleeps between its search and *)
(* its choice of a buffer, two processes that miss on the same block never *)
(* end with two buffers for it.                                            *)
OneBufferPerBlock ==
  \A b, c \in Buf : b_blkno[b] = b_blkno[c] /\ b_blkno[b] # NoBlk => b = c

(* "getblk ALWAYS returns a B_BUSY block, so the other processes can not   *)
(* access this": a buffer has one holder, is B_BUSY while held, and is on  *)
(* the free list otherwise.                                                *)
ExclusiveBuffer ==
  /\ \A p, q \in Proc : p # q => held[p] \cap held[q] = {}
  /\ \A b \in Buf : "BUSY" \in b_flag[b] <=> \E p \in Proc : b \in held[p]
  /\ \A b \in Buf : "BUSY" \in b_flag[b] <=> b \notin Range(freelist)

(* A buffer marked B_DONE holds what the disk holds for its block, so a    *)
(* hit in the cache is as good as a read, and bwrite has reached the disk  *)
(* when it returns.                                                        *)
CacheCoherent ==
  \A b \in Buf : "DONE" \in b_flag[b] => b_blkno[b] \in Blk /\ b_data[b] = disk[b_blkno[b]]

(* Only a buffer its holder is about to fill, or waits for, is invalid: in *)
(* particular what bread and bwrite return to the file system is valid.    *)
InvalidIsPending ==
  \A p \in Proc : \A b \in held[p] :
    "DONE" \notin b_flag[b] => bp[p] = b /\ pc[p] \in {"bread", "bzero", "iowait", "sleep"}

(* Who sleeps in getblk will be woken: the buffer it sleeps on is busy and *)
(* marked B_WANTED, or the free list is empty and marked B_WANTED.  It is  *)
(* iodone that makes this delicate: it clears B_WANTED before the buffer   *)
(* is released.                                                            *)
GetblkSleeperIsWanted ==
  \A p \in Proc : p_stat[p] = "SSLEEP" /\ pc[p] = "getblk" =>
    \/ /\ p_chan[p] \in Buf
       /\ b_blkno[p_chan[p]] = want[p]
       /\ {"BUSY", "WANTED"} \subseteq b_flag[p_chan[p]]
    \/ p_chan[p] = FreeList /\ freelist = <<>> /\ freeWanted

(* The disk works exactly when requests are queued, and on the oldest.     *)
DriverBusy ==
  /\ d_active <=> ioq # <<>>
  /\ d_active => hd = hd_cmd(Head(ioq), b_flag[Head(ioq)], b_data[Head(ioq)])

(* The inductive invariant behind the safety properties, all of which hold *)
(* whenever the interrupt comes.                                           *)
Inv ==
  /\ TypeOK
  /\ OffProcessor
  /\ ListsAreSimple
  /\ BlocksAreNamed
  /\ QueueIsWaitedFor
  /\ OneBufferPerBlock
  /\ ExclusiveBuffer
  /\ CacheCoherent
  /\ InvalidIsPending
  /\ GetblkSleeperIsWanted
  /\ DriverBusy

(* Who sleeps in iowait has a request with the driver, whose completion    *)
(* will wake it.                                                           *)
IowaitSleeperIsQueued ==
  \A p \in Proc : p_stat[p] = "SSLEEP" /\ pc[p] = "iowait" => bp[p] \in Range(ioq)

(* A buffer never changes its block, nor a valid one its contents, under   *)
(* the process that holds it unless that process writes it.                *)
HolderSeesStableBuffer ==
  [][\A p \in Proc : \A b \in held[p] :
       /\ b_blkno'[b] = b_blkno[b]
       /\ "DONE" \in b_flag[b] /\ cu # p => b_data'[b] = b_data[b]]_vars

(* bread and bwrite return: "Read in (if necessary) the block and return a *)
(* buffer pointer", "Write the buffer, waiting for completion".            *)
IoCompletes == \A p \in Proc : pc[p] = "iowait" ~> pc[p] = "kern"

(* Every sleeper is woken: nobody waits for ever for a buffer another      *)
(* process holds, for a free buffer, or for the disk.                      *)
SleeperIsWoken == \A p \in Proc : p_stat[p] = "SSLEEP" ~> p_stat[p] = "SRUN"
=============================================================================
