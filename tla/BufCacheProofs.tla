--------------------------- MODULE BufCacheProofs ---------------------------
(***************************************************************************)
(* Inv is an inductive invariant of BufCache, for every number of          *)
(* processes, buffers and blocks and whenever the disk interrupts; the     *)
(* safety properties of the buffer cache follow.                           *)
(***************************************************************************)
EXTENDS BufCache, ListLemmas

USE ConstAssumption DEF Flag, PC, Chan

-----------------------------------------------------------------------------
(* Scheduling, getblk and iowait: one lemma per action.                    *)

(* swtch, do_timer, enter, leave: only the scheduling state changes. *)
LEMMA Step_swtch == ASSUME NEW p \in Proc, Inv, swtch(p) PROVE Inv'
<1> USE DEF swtch, bufVars, hdVars
<1>1. TypeOK' /\ OffProcessor'
  BY DEF Inv, TypeOK, OffProcessor
<1>2. ListsAreSimple' /\ DriverBusy'
  BY DEF Inv, TypeOK, ListsAreSimple, DriverBusy, hd_cmd
<1>3. BlocksAreNamed' /\ OneBufferPerBlock' /\ ExclusiveBuffer' /\ CacheCoherent'
  BY DEF Inv, TypeOK, BlocksAreNamed, OneBufferPerBlock, ExclusiveBuffer, CacheCoherent
<1>4. QueueIsWaitedFor' /\ InvalidIsPending'
  BY DEF Inv, TypeOK, QueueIsWaitedFor, InvalidIsPending
<1>5. GetblkSleeperIsWanted'
  BY DEF Inv, TypeOK, OffProcessor, GetblkSleeperIsWanted
<1> QED
  BY <1>1, <1>2, <1>3, <1>4, <1>5 DEF Inv

(* The timer interrupts a process in user mode.                            *)
LEMMA Step_do_timer == ASSUME NEW p \in Proc, Inv, do_timer(p) PROVE Inv'
<1> USE DEF do_timer, bufVars, hdVars
<1>1. TypeOK' /\ OffProcessor'
  BY DEF Inv, TypeOK, OffProcessor
<1>2. ListsAreSimple' /\ DriverBusy'
  BY DEF Inv, TypeOK, ListsAreSimple, DriverBusy, hd_cmd
<1>3. BlocksAreNamed' /\ OneBufferPerBlock' /\ ExclusiveBuffer' /\ CacheCoherent'
  BY DEF Inv, TypeOK, BlocksAreNamed, OneBufferPerBlock, ExclusiveBuffer, CacheCoherent
<1>4. QueueIsWaitedFor' /\ InvalidIsPending'
  BY DEF Inv, TypeOK, QueueIsWaitedFor, InvalidIsPending
<1>5. GetblkSleeperIsWanted'
  BY DEF Inv, TypeOK, OffProcessor, GetblkSleeperIsWanted
<1> QED
  BY <1>1, <1>2, <1>3, <1>4, <1>5 DEF Inv

(* A process enters the kernel.                                            *)
LEMMA Step_enter == ASSUME NEW p \in Proc, Inv, enter(p) PROVE Inv'
<1> USE DEF enter, bufVars, hdVars
<1>1. TypeOK' /\ OffProcessor'
  BY DEF Inv, TypeOK, OffProcessor
<1>2. ListsAreSimple' /\ DriverBusy'
  BY DEF Inv, TypeOK, ListsAreSimple, DriverBusy, hd_cmd
<1>3. BlocksAreNamed' /\ OneBufferPerBlock' /\ ExclusiveBuffer' /\ CacheCoherent'
  BY DEF Inv, TypeOK, BlocksAreNamed, OneBufferPerBlock, ExclusiveBuffer, CacheCoherent
<1>4. QueueIsWaitedFor' /\ InvalidIsPending'
  BY DEF Inv, TypeOK, QueueIsWaitedFor, InvalidIsPending
<1>5. GetblkSleeperIsWanted'
  BY DEF Inv, TypeOK, OffProcessor, GetblkSleeperIsWanted
<1> QED
  BY <1>1, <1>2, <1>3, <1>4, <1>5 DEF Inv

(* A process goes back to user mode.                                       *)
LEMMA Step_leave == ASSUME NEW p \in Proc, Inv, leave(p) PROVE Inv'
<1> USE DEF leave, bufVars, hdVars
<1>1. TypeOK' /\ OffProcessor'
  BY DEF Inv, TypeOK, OffProcessor
<1>2. ListsAreSimple' /\ DriverBusy'
  BY DEF Inv, TypeOK, ListsAreSimple, DriverBusy, hd_cmd
<1>3. BlocksAreNamed' /\ OneBufferPerBlock' /\ ExclusiveBuffer' /\ CacheCoherent'
  BY DEF Inv, TypeOK, BlocksAreNamed, OneBufferPerBlock, ExclusiveBuffer, CacheCoherent
<1>4. QueueIsWaitedFor' /\ InvalidIsPending'
  BY DEF Inv, TypeOK, QueueIsWaitedFor, InvalidIsPending
<1>5. GetblkSleeperIsWanted'
  BY DEF Inv, TypeOK, OffProcessor, GetblkSleeperIsWanted
<1> QED
  BY <1>1, <1>2, <1>3, <1>4, <1>5 DEF Inv

(* iowait's test leaves the loop only when the buffer is B_DONE. *)
LEMMA Step_iowait == ASSUME NEW p \in Proc, Inv, iowait(p) PROVE Inv'
<1> USE DEF iowait, bufVars, hdVars
<1>1. TypeOK' /\ OffProcessor'
  BY DEF Inv, TypeOK, OffProcessor
<1>2. ListsAreSimple' /\ DriverBusy'
  BY DEF Inv, TypeOK, ListsAreSimple, DriverBusy, hd_cmd
<1>3. BlocksAreNamed' /\ OneBufferPerBlock' /\ ExclusiveBuffer' /\ CacheCoherent'
  BY DEF Inv, TypeOK, BlocksAreNamed, OneBufferPerBlock, ExclusiveBuffer, CacheCoherent
<1>4. QueueIsWaitedFor' /\ InvalidIsPending'
  BY DEF Inv, TypeOK, QueueIsWaitedFor, InvalidIsPending
<1>5. GetblkSleeperIsWanted'
  BY DEF Inv, TypeOK, OffProcessor, GetblkSleeperIsWanted
<1> QED
  BY <1>1, <1>2, <1>3, <1>4, <1>5 DEF Inv

(* iowait's body: the process sleeps on the buffer it waits for. *)
LEMMA Step_iowait_sleep == ASSUME NEW p \in Proc, Inv, iowait_sleep(p) PROVE Inv'
<1> USE DEF iowait_sleep, sleep, bufVars, hdVars
<1>1. TypeOK' /\ OffProcessor'
  BY DEF Inv, TypeOK, OffProcessor, QueueIsWaitedFor
<1>2. ListsAreSimple' /\ DriverBusy'
  BY DEF Inv, TypeOK, ListsAreSimple, DriverBusy, hd_cmd
<1>3. BlocksAreNamed' /\ OneBufferPerBlock' /\ ExclusiveBuffer' /\ CacheCoherent'
  BY DEF Inv, TypeOK, BlocksAreNamed, OneBufferPerBlock, ExclusiveBuffer, CacheCoherent
<1>4. QueueIsWaitedFor' /\ InvalidIsPending'
  BY DEF Inv, TypeOK, QueueIsWaitedFor, InvalidIsPending
<1>5. GetblkSleeperIsWanted'
  BY DEF Inv, TypeOK, OffProcessor, GetblkSleeperIsWanted
<1> QED
  BY <1>1, <1>2, <1>3, <1>4, <1>5 DEF Inv

(* A caller of getblk names a block of the device. *)
LEMMA Step_ask == ASSUME NEW p \in Proc, NEW k \in Blk, NEW m \in {"bread", "bzero"}, Inv, ask(p, k, m) PROVE Inv'
<1> USE DEF ask, bufVars, hdVars
<1>1. TypeOK' /\ OffProcessor'
  BY DEF Inv, TypeOK, OffProcessor
<1>2. ListsAreSimple' /\ DriverBusy'
  BY DEF Inv, TypeOK, ListsAreSimple, DriverBusy, hd_cmd
<1>3. BlocksAreNamed' /\ OneBufferPerBlock' /\ ExclusiveBuffer' /\ CacheCoherent'
  BY DEF Inv, TypeOK, BlocksAreNamed, OneBufferPerBlock, ExclusiveBuffer, CacheCoherent
<1>4. QueueIsWaitedFor' /\ InvalidIsPending'
  BY DEF Inv, TypeOK, QueueIsWaitedFor, InvalidIsPending
<1>5. GetblkSleeperIsWanted'
  BY DEF Inv, TypeOK, OffProcessor, GetblkSleeperIsWanted
<1> QED
  BY <1>1, <1>2, <1>3, <1>4, <1>5 DEF Inv

(* Case 2 of getblk: the sleeper leaves B_WANTED on a busy buffer. *)
LEMMA Step_getblk_busy == ASSUME NEW p \in Proc, Inv, getblk_busy(p) PROVE Inv'
<1> USE DEF getblk_busy, sleep, incore, bufVars, hdVars
<1>1. TypeOK' /\ OffProcessor'
  BY DEF Inv, TypeOK, OffProcessor
<1>2. ListsAreSimple' /\ DriverBusy'
  BY DEF Inv, TypeOK, ListsAreSimple, DriverBusy, hd_cmd
<1>3. BlocksAreNamed' /\ OneBufferPerBlock' /\ ExclusiveBuffer' /\ CacheCoherent'
  BY DEF Inv, TypeOK, BlocksAreNamed, OneBufferPerBlock, ExclusiveBuffer, CacheCoherent
<1>4. QueueIsWaitedFor' /\ InvalidIsPending'
  BY DEF Inv, TypeOK, QueueIsWaitedFor, InvalidIsPending
<1>5. GetblkSleeperIsWanted'
  BY DEF Inv, TypeOK, OffProcessor, GetblkSleeperIsWanted
<1> QED
  BY <1>1, <1>2, <1>3, <1>4, <1>5 DEF Inv

(* Case 3 of getblk: the sleeper leaves B_WANTED on the free list. *)
LEMMA Step_getblk_nofree == ASSUME NEW p \in Proc, Inv, getblk_nofree(p) PROVE Inv'
<1> USE DEF getblk_nofree, sleep, incore, bufVars, hdVars
<1>1. TypeOK' /\ OffProcessor'
  BY DEF Inv, TypeOK, OffProcessor
<1>2. ListsAreSimple' /\ DriverBusy'
  BY DEF Inv, TypeOK, ListsAreSimple, DriverBusy, hd_cmd
<1>3. BlocksAreNamed' /\ OneBufferPerBlock' /\ ExclusiveBuffer' /\ CacheCoherent'
  BY DEF Inv, TypeOK, BlocksAreNamed, OneBufferPerBlock, ExclusiveBuffer, CacheCoherent
<1>4. QueueIsWaitedFor' /\ InvalidIsPending'
  BY DEF Inv, TypeOK, QueueIsWaitedFor, InvalidIsPending
<1>5. GetblkSleeperIsWanted'
  BY DEF Inv, TypeOK, OffProcessor, GetblkSleeperIsWanted
<1> QED
  BY <1>1, <1>2, <1>3, <1>4, <1>5 DEF Inv

(* Case 1 of getblk: the buffer was nobody's, and leaves the free list. *)
LEMMA Step_getblk_hit == ASSUME NEW p \in Proc, Inv, getblk_hit(p) PROVE Inv'
<1>1. PICK b \in Buf, i \in 1..Len(freelist) :
        /\ b_blkno[b] = want[p] /\ "BUSY" \notin b_flag[b]
        /\ freelist[i] = b
        /\ freelist' = SubSeq(freelist, 1, i - 1) \o SubSeq(freelist, i + 1, Len(freelist))
        /\ b_flag' = [b_flag EXCEPT ![b] = @ \cup {"BUSY"}]
        /\ getblk_return(p, b)
  BY Zenon DEF getblk_hit, incore, notavail
<1>2. /\ freelist' \in Seq(Buf) /\ IsInjective(freelist')
      /\ Range(freelist') = Range(freelist) \ {b}
  <2>1. freelist \in Seq(Buf) /\ IsInjective(freelist)
    BY DEF Inv, TypeOK, ListsAreSimple
  <2>2. /\ i \in 1..Len(freelist) /\ freelist[i] = b
        /\ freelist' = SubSeq(freelist, 1, i - 1) \o SubSeq(freelist, i + 1, Len(freelist))
    BY <1>1
  <2> QED BY <2>1, <2>2, RemoveList, Zenon
<1>3. cu = p /\ pc[p] = "getblk" /\ UNCHANGED b_blkno /\ freelist # <<>>
  BY <1>1 DEF getblk_hit
<1> USE <1>1, <1>2, <1>3 DEF getblk_return, bufVars, hdVars
<1>4. TypeOK' /\ OffProcessor'
  BY DEF Inv, TypeOK, OffProcessor
<1>5. ListsAreSimple' /\ DriverBusy'
  BY DEF Inv, TypeOK, ListsAreSimple, DriverBusy, hd_cmd
<1>6. BlocksAreNamed' /\ OneBufferPerBlock' /\ CacheCoherent'
  BY DEF Inv, TypeOK, BlocksAreNamed, OneBufferPerBlock, CacheCoherent
<1>7. ExclusiveBuffer'
  <2>1. \A q \in Proc : b \notin held[q]
    BY DEF Inv, ExclusiveBuffer
  <2> QED BY <2>1 DEF Inv, TypeOK, ExclusiveBuffer
<1>8. QueueIsWaitedFor'
  <2>1. /\ \A q \in Proc : b \notin held[q]
        /\ \A q \in Proc : q # p /\ pc[q] \in {"iowait", "sleep"} => bp[q] \in Buf /\ bp[q] # b
    BY DEF Inv, TypeOK, QueueIsWaitedFor, ExclusiveBuffer
  <2>3. \A q \in Proc : pc'[q] \in {"bread", "bzero", "iowait", "sleep"} => bp'[q] \in held'[q]
    BY DEF Inv, TypeOK, QueueIsWaitedFor
  <2>4. ASSUME NEW c \in Range(ioq')
        PROVE  /\ "DONE" \notin b_flag'[c]
               /\ \E q \in Proc : bp'[q] = c /\ c \in held'[q] /\ pc'[q] \in {"iowait", "sleep"}
    <3>1. PICK q \in Proc : bp[q] = c /\ c \in held[q] /\ pc[q] \in {"iowait", "sleep"}
      BY DEF Inv, QueueIsWaitedFor
    <3>2. q # p /\ c # b /\ c \in Buf /\ "DONE" \notin b_flag[c]
      BY <3>1, <2>1 DEF Inv, TypeOK, QueueIsWaitedFor
    <3> QED BY <3>1, <3>2 DEF Inv, TypeOK
  <2>5. \A q \in Proc : pc'[q] \in {"iowait", "sleep"} =>
          "DONE" \in b_flag'[bp'[q]] \/ bp'[q] \in Range(ioq')
    BY <2>1 DEF Inv, TypeOK, QueueIsWaitedFor
  <2> QED BY <2>3, <2>4, <2>5 DEF QueueIsWaitedFor
<1>9. InvalidIsPending' /\ GetblkSleeperIsWanted'
  <2>1. InvalidIsPending'
    BY DEF Inv, TypeOK, InvalidIsPending
  <2>2. GetblkSleeperIsWanted'
    BY DEF Inv, TypeOK, OffProcessor, GetblkSleeperIsWanted
  <2> QED BY Zenon, <2>1, <2>2
<1> QED
  BY <1>4, <1>5, <1>6, <1>7, <1>8, <1>9 DEF Inv

(* Case 4 of getblk: a free buffer is in no queue and in no hands, and
   no other buffer stands for the block. *)
LEMMA Step_getblk_take == ASSUME NEW p \in Proc, Inv, getblk_take(p) PROVE Inv'
<1> DEFINE b == Head(freelist)
<1>1. /\ b \in Buf /\ b \in Range(freelist)
      /\ freelist' \in Seq(Buf) /\ IsInjective(freelist')
      /\ Range(freelist') = Range(freelist) \ {b}
  BY SMTT(30), TailList DEF getblk_take, Inv, TypeOK, ListsAreSimple
<1>2. /\ cu = p /\ pc[p] = "getblk" /\ incore(want[p]) = {} /\ freelist # <<>>
      /\ b_flag'  = [b_flag  EXCEPT ![b] = {"BUSY"}]
      /\ b_blkno' = [b_blkno EXCEPT ![b] = want[p]]
      /\ getblk_return(p, b)
  BY DEF getblk_take
<1>3. /\ want[p] \in Blk /\ \A q \in Proc : b \notin held[q]
      /\ "BUSY" \notin b_flag[b] /\ b \notin Range(ioq)
  BY Zenon, <1>1, <1>2 DEF Inv, BlocksAreNamed, ExclusiveBuffer, QueueIsWaitedFor
<1> HIDE DEF b
<1> USE <1>1, <1>2, <1>3 DEF getblk_return, bufVars, hdVars
<1>4. TypeOK' /\ OffProcessor'
  BY DEF Inv, TypeOK, OffProcessor
<1>5. ListsAreSimple'
  BY DEF Inv, ListsAreSimple
<1>6. DriverBusy'
  <2>1. ioq # <<>> => Head(ioq) \in Buf /\ Head(ioq) # b
    BY TailList DEF Inv, TypeOK, ListsAreSimple
  <2> QED BY <2>1 DEF Inv, TypeOK, DriverBusy, hd_cmd
<1>7. BlocksAreNamed' /\ OneBufferPerBlock' /\ CacheCoherent'
  BY DEF Inv, TypeOK, BlocksAreNamed, OneBufferPerBlock, CacheCoherent, incore
<1>8. ExclusiveBuffer'
  BY DEF Inv, TypeOK, ExclusiveBuffer
<1>9. QueueIsWaitedFor'
  <2>1. \A q \in Proc : q # p /\ pc[q] \in {"bread", "bzero", "iowait", "sleep"} => bp[q] \in Buf /\ bp[q] # b
    BY DEF Inv, TypeOK, QueueIsWaitedFor
  <2>3. \A q \in Proc : pc'[q] \in {"bread", "bzero", "iowait", "sleep"} => bp'[q] \in held'[q]
    BY DEF Inv, TypeOK, QueueIsWaitedFor
  <2>4. ASSUME NEW c \in Range(ioq')
        PROVE  /\ "DONE" \notin b_flag'[c]
               /\ \E q \in Proc : bp'[q] = c /\ c \in held'[q] /\ pc'[q] \in {"iowait", "sleep"}
    <3>1. PICK q \in Proc : bp[q] = c /\ c \in held[q] /\ pc[q] \in {"iowait", "sleep"}
      BY DEF Inv, QueueIsWaitedFor
    <3>2. q # p /\ c # b /\ c \in Buf /\ "DONE" \notin b_flag[c]
      <4>1. c \in Buf /\ "DONE" \notin b_flag[c]
        BY DEF Inv, TypeOK, QueueIsWaitedFor
      <4>2. q # p /\ c # b
        BY <3>1 DEF Inv, TypeOK
      <4> QED BY Zenon, <4>1, <4>2
    <3> QED BY <3>1, <3>2 DEF Inv, TypeOK
  <2>5. ASSUME NEW q \in Proc, pc'[q] \in {"iowait", "sleep"}
        PROVE  "DONE" \in b_flag'[bp'[q]] \/ bp'[q] \in Range(ioq')
    <3>1. q # p
      BY Zenon, <2>5 DEF Inv, TypeOK
    <3>2. pc[q] = pc'[q] /\ bp'[q] = bp[q]
      BY <3>1 DEF Inv, TypeOK
    <3>3. b_flag'[bp[q]] = b_flag[bp[q]]
      BY <2>1, <2>5, <3>1, <3>2 DEF Inv, TypeOK
    <3> QED BY <2>5, <3>2, <3>3 DEF Inv, QueueIsWaitedFor
  <2> QED BY <2>3, <2>4, <2>5 DEF QueueIsWaitedFor
<1>10. InvalidIsPending'
  BY DEF Inv, TypeOK, InvalidIsPending
<1>11. GetblkSleeperIsWanted'
  BY DEF Inv, TypeOK, OffProcessor, GetblkSleeperIsWanted
<1> QED
  BY <1>4, <1>5, <1>6, <1>7, <1>8, <1>9, <1>10, <1>11 DEF Inv
-----------------------------------------------------------------------------
(* The steps that queue, finish and give back a buffer.                    *)

(* bread: a buffer that is queued was held by the reader and not queued. *)
LEMMA Step_bread == ASSUME NEW p \in Proc, Inv, bread(p) PROVE Inv'
<1> DEFINE b == bp[p]
<1>1. b \in Buf /\ b \in held[p] /\ cu = p /\ pc[p] = "bread"
  BY Zenon DEF bread, Inv, TypeOK, QueueIsWaitedFor
<1>2. UNCHANGED <<b_blkno, b_data, freelist, freeWanted, cu, p_stat, p_chan, want, mode, bp, held>>
  BY Zenon DEF bread
<1>3. CASE "DONE" \in b_flag[b]
  <2>1. pc' = [pc EXCEPT ![p] = "kern"] /\ UNCHANGED <<b_flag, hdVars>>
    BY Zenon, <1>3 DEF bread
  <2> HIDE DEF b
  <2> USE <1>1, <1>2, <1>3, <2>1 DEF hdVars
  <2>2. TypeOK' /\ OffProcessor'
    BY DEF Inv, TypeOK, OffProcessor
  <2>3. ListsAreSimple' /\ DriverBusy'
    BY DEF Inv, TypeOK, ListsAreSimple, DriverBusy, hd_cmd
  <2>4. BlocksAreNamed' /\ OneBufferPerBlock' /\ ExclusiveBuffer' /\ CacheCoherent'
    BY DEF Inv, TypeOK, BlocksAreNamed, OneBufferPerBlock, ExclusiveBuffer, CacheCoherent
  <2>5. QueueIsWaitedFor' /\ InvalidIsPending'
    BY DEF Inv, TypeOK, QueueIsWaitedFor, InvalidIsPending, b
  <2>6. GetblkSleeperIsWanted'
    BY SMTT(30) DEF Inv, TypeOK, OffProcessor, GetblkSleeperIsWanted
  <2> QED BY Zenon, <2>2, <2>3, <2>4, <2>5, <2>6 DEF Inv
<1>4. CASE "DONE" \notin b_flag[b]
  <2>1. /\ b_flag' = [b_flag EXCEPT ![b] = @ \cup {"READ"}]
        /\ hd_request(b, b_flag'[b], b_data[b])
        /\ pc' = [pc EXCEPT ![p] = "iowait"]
    BY <1>4 DEF bread
  <2>2. b \notin Range(ioq)
    BY <1>1 DEF Inv, ExclusiveBuffer, QueueIsWaitedFor
  <2> HIDE DEF b
  <2>3. /\ ioq' \in Seq(Buf) /\ ioq' # <<>> /\ Range(ioq') = Range(ioq) \cup {b}
        /\ Head(ioq') = (IF ioq = <<>> THEN b ELSE Head(ioq)) /\ IsInjective(ioq')
    <3>1. ioq \in Seq(Buf) /\ IsInjective(ioq) /\ ioq' = Append(ioq, b)
      BY <2>1 DEF hd_request, Inv, TypeOK, ListsAreSimple
    <3> QED BY <1>1, <2>2, <3>1, AppendList
  <2>4. ioq # <<>> => Head(ioq) \in Buf /\ Head(ioq) # b
    BY SMTT(30), <2>2, TailList DEF Inv, TypeOK, ListsAreSimple
  <2>5. /\ d_active' = TRUE /\ UNCHANGED disk
        /\ hd' = IF d_active THEN hd ELSE hd_cmd(b, b_flag'[b], b_data[b])
    BY Zenon, <2>1 DEF hd_request
  <2> USE <1>1, <1>2, <1>4
  <2>6. TypeOK' /\ OffProcessor'
    BY SMTT(30), <2>1, <2>3, <2>5 DEF Inv, TypeOK, OffProcessor, hd_cmd
  <2>7. ListsAreSimple'
    BY Zenon, <2>3 DEF Inv, ListsAreSimple
  <2>8. DriverBusy'
    BY SMTT(30), <2>1, <2>3, <2>4, <2>5 DEF Inv, TypeOK, DriverBusy, hd_cmd
  <2>9. BlocksAreNamed' /\ OneBufferPerBlock' /\ ExclusiveBuffer' /\ CacheCoherent'
    BY SMTT(30), <2>1, <2>5 DEF Inv, TypeOK, BlocksAreNamed,
       OneBufferPerBlock, ExclusiveBuffer, CacheCoherent
  <2>10. QueueIsWaitedFor'
    <3>1. \A q \in Proc : q # p /\ pc[q] \in {"iowait", "sleep"} => bp[q] \in Buf /\ bp[q] # b
      BY DEF Inv, TypeOK, QueueIsWaitedFor, ExclusiveBuffer
    <3>2. \A c \in Buf : b_flag'[c] \cap {"DONE"} = b_flag[c] \cap {"DONE"}
      BY Zenon, <2>1 DEF Inv, TypeOK
    <3> QED BY SMTT(30), <2>1, <2>3, <3>1, <3>2 DEF Inv, TypeOK,
       QueueIsWaitedFor, b
  <2>11. InvalidIsPending'
    BY SMTT(30), <2>1 DEF Inv, TypeOK, InvalidIsPending
  <2>12. GetblkSleeperIsWanted'
    BY SMTT(30), <2>1 DEF Inv, TypeOK, OffProcessor, GetblkSleeperIsWanted
  <2> QED BY Zenon, <2>6, <2>7, <2>8, <2>9, <2>10, <2>11, <2>12 DEF Inv
<1> QED BY <1>3, <1>4

(* bwrite, as called by update and by bzero: what is written is no
   longer B_DONE until the disk has it. *)
LEMMA Step_bwrite ==
  ASSUME NEW p \in Proc, NEW b \in Buf, NEW v \in Val, Inv,
         cu = p, b \in held[p], bwrite(p, b, v),
         pc[p] \in {"kern", "bzero"}, pc[p] = "bzero" => b = bp[p]
  PROVE  Inv'
<1>1. b \notin Range(ioq)
  <2>1. \A q \in Proc : q # p => b \notin held[q]
    BY Zenon DEF Inv, TypeOK, ExclusiveBuffer
  <2> QED BY <2>1 DEF Inv, QueueIsWaitedFor
<1>2. /\ ioq' \in Seq(Buf) /\ ioq' # <<>> /\ Range(ioq') = Range(ioq) \cup {b}
      /\ Head(ioq') = (IF ioq = <<>> THEN b ELSE Head(ioq)) /\ IsInjective(ioq')
  BY <1>1, AppendList DEF bwrite, hd_request, Inv, TypeOK, ListsAreSimple
<1>3. ioq # <<>> => Head(ioq) \in Buf /\ Head(ioq) # b
  BY SMTT(30), <1>1, TailList DEF Inv, TypeOK, ListsAreSimple
<1>4. /\ d_active' = TRUE /\ UNCHANGED disk
      /\ hd' = IF d_active THEN hd ELSE hd_cmd(b, b_flag'[b], v)
  BY Zenon DEF bwrite, hd_request
<1>5. /\ b_data' = [b_data EXCEPT ![b] = v]
      /\ b_flag' = [b_flag EXCEPT ![b] = @ \ {"READ", "DONE"}]
      /\ bp' = [bp EXCEPT ![p] = b] /\ pc' = [pc EXCEPT ![p] = "iowait"]
      /\ UNCHANGED <<b_blkno, freelist, freeWanted, cu, p_stat, p_chan, want, mode, held>>
  BY Zenon DEF bwrite
<1>6. TypeOK' /\ OffProcessor'
  BY SMTT(30), <1>2, <1>4, <1>5 DEF Inv, TypeOK, OffProcessor, hd_cmd
<1>7. ListsAreSimple'
  BY Zenon, <1>2, <1>5 DEF Inv, ListsAreSimple
<1>8. DriverBusy'
  BY SMTT(30), <1>2, <1>3, <1>4, <1>5 DEF Inv, TypeOK, DriverBusy, hd_cmd
<1>9. BlocksAreNamed' /\ OneBufferPerBlock' /\ ExclusiveBuffer' /\ CacheCoherent'
  BY SMTT(30), <1>4, <1>5 DEF Inv, TypeOK, BlocksAreNamed, OneBufferPerBlock,
     ExclusiveBuffer, CacheCoherent
<1>10. QueueIsWaitedFor'
  <2>1. \A q \in Proc : pc'[q] \in {"bread", "bzero", "iowait", "sleep"} => bp'[q] \in held'[q]
    BY SMTT(30), <1>5 DEF Inv, TypeOK, QueueIsWaitedFor
  <2>2. ASSUME NEW c \in Range(ioq')
        PROVE  /\ "DONE" \notin b_flag'[c]
               /\ \E q \in Proc : bp'[q] = c /\ c \in held'[q] /\ pc'[q] \in {"iowait", "sleep"}
    <3>1. CASE c = b
      BY <1>5, <3>1 DEF Inv, TypeOK
    <3>2. CASE c # b
      <4>1. c \in Range(ioq)
        BY Zenon, <1>2, <3>2
      <4>2. PICK q \in Proc : bp[q] = c /\ c \in held[q] /\ pc[q] \in {"iowait", "sleep"}
        BY Zenon, <4>1 DEF Inv, QueueIsWaitedFor
      <4>3. q # p /\ c \in Buf /\ "DONE" \notin b_flag[c]
        BY Zenon, <4>1, <4>2 DEF Inv, TypeOK, QueueIsWaitedFor
      <4> QED BY ZenonT(40), <1>5, <3>2, <4>2, <4>3 DEF Inv, TypeOK
    <3> QED BY Zenon, <3>1, <3>2
  <2>3. ASSUME NEW q \in Proc, pc'[q] \in {"iowait", "sleep"}
        PROVE  "DONE" \in b_flag'[bp'[q]] \/ bp'[q] \in Range(ioq')
    <3>1. CASE q = p
      BY Zenon, <1>2, <1>5, <3>1 DEF Inv, TypeOK
    <3>2. CASE q # p
      <4>1. pc[q] = pc'[q] /\ bp'[q] = bp[q]
        BY SMTT(30), <1>5, <3>2 DEF Inv, TypeOK
      <4>2. bp[q] \in held[q]
        BY Zenon, <2>3, <4>1 DEF Inv, QueueIsWaitedFor
      <4>3. bp[q] \in Buf /\ bp[q] # b
        BY SMTT(30), <3>2, <4>2 DEF Inv, TypeOK, ExclusiveBuffer
      <4>4. b_flag'[bp[q]] = b_flag[bp[q]]
        BY Zenon, <1>5, <4>3 DEF Inv, TypeOK
      <4> QED BY Zenon, <1>2, <2>3, <4>1, <4>4 DEF Inv, QueueIsWaitedFor
    <3> QED BY Zenon, <3>1, <3>2
  <2> QED BY Zenon, <2>1, <2>2, <2>3 DEF QueueIsWaitedFor
<1>11. InvalidIsPending'
  <2> SUFFICES ASSUME NEW q \in Proc, NEW c \in held'[q], "DONE" \notin b_flag'[c]
               PROVE  bp'[q] = c /\ pc'[q] \in {"bread", "bzero", "iowait", "sleep"}
    BY Zenon DEF InvalidIsPending
  <2>0. /\ c \in held[q] /\ c \in Buf
        /\ c # b => "DONE" \notin b_flag[c]
    BY Zenon, <1>5 DEF Inv, TypeOK
  <2>1. CASE q = p
    <3>1. bp'[p] = b /\ pc'[p] = "iowait"
      BY Zenon, <1>5 DEF Inv, TypeOK
    <3>2. c # b => bp[p] = c /\ pc[p] \in {"bread", "bzero", "iowait", "sleep"}
      BY Zenon, <2>0, <2>1 DEF Inv, InvalidIsPending
    <3> QED BY <2>1, <3>1, <3>2
  <2>2. CASE q # p
    <3>1. c # b
      <4>1. held[p] \cap held[q] = {}
        BY Zenon, <2>2 DEF Inv, ExclusiveBuffer
      <4> QED BY <2>0, <4>1
    <3>2. bp'[q] = bp[q] /\ pc'[q] = pc[q]
      BY Zenon, <1>5, <2>2 DEF Inv, TypeOK
    <3> QED BY Zenon, <2>0, <3>1, <3>2 DEF Inv, InvalidIsPending
  <2> QED BY Zenon, <2>1, <2>2
<1>12. GetblkSleeperIsWanted'
  BY <1>5 DEF Inv, TypeOK, OffProcessor, GetblkSleeperIsWanted
<1> QED
  BY Zenon, <1>6, <1>7, <1>8, <1>9, <1>10, <1>11, <1>12 DEF Inv

(* brelse: whoever slept on the buffer or on the free list is woken, and
   no other sleeper relied on the flags it clears. *)
LEMMA Step_brelse == ASSUME NEW p \in Proc, NEW b \in Buf, Inv, brelse(p, b) PROVE Inv'
<1> DEFINE C == (IF "WANTED" \in b_flag[b] THEN {b} ELSE {})
                \cup (IF freeWanted THEN {FreeList} ELSE {})
<1>1. /\ cu = p /\ pc[p] = "kern" /\ b \in held[p]
      /\ p_stat' = [q \in Proc |-> IF p_chan[q] \in C THEN "SRUN" ELSE p_stat[q]]
      /\ p_chan' = [q \in Proc |-> IF p_chan[q] \in C THEN NoChan ELSE p_chan[q]]
      /\ freeWanted' = FALSE
      /\ b_flag' = [b_flag EXCEPT ![b] = @ \ {"WANTED", "BUSY"}]
      /\ freelist' = Append(freelist, b)
      /\ held' = [held EXCEPT ![p] = @ \ {b}]
      /\ UNCHANGED <<b_blkno, b_data, hdVars, cu, pc, want, mode, bp>>
  BY Zenon DEF brelse, wakeup
<1>2. /\ C \subseteq Chan /\ "WANTED" \in b_flag[b] <=> b \in C
      /\ freeWanted <=> FreeList \in C
      /\ \A c \in C : c = b \/ c = FreeList
  BY Zenon DEF Inv, TypeOK
<1> HIDE DEF C
<1>3. /\ b \notin Range(freelist) /\ \A q \in Proc : q # p => b \notin held[q]
      /\ "BUSY" \in b_flag[b]
  BY Zenon, <1>1 DEF Inv, TypeOK, ExclusiveBuffer
<1>4. /\ freelist' \in Seq(Buf) /\ freelist' # <<>>
      /\ Range(freelist') = Range(freelist) \cup {b} /\ IsInjective(freelist')
  BY SMTT(30), <1>1, <1>3, AppendList DEF Inv, TypeOK, ListsAreSimple
<1>5. b \notin Range(ioq)
  BY Zenon, <1>1, <1>3 DEF Inv, QueueIsWaitedFor
<1>6. ioq # <<>> => Head(ioq) \in Buf /\ Head(ioq) # b
  BY SMTT(30), <1>5, TailList DEF Inv, TypeOK, ListsAreSimple
<1>7. "DONE" \in b_flag[b]
  BY Zenon, <1>1 DEF Inv, InvalidIsPending
<1>8. TypeOK'
  BY Zenon, <1>1, <1>2, <1>4 DEF Inv, TypeOK, hdVars
<1>9. OffProcessor'
  BY <1>1, <1>2 DEF Inv, TypeOK, OffProcessor
<1>10. ListsAreSimple'
  BY Zenon, <1>1, <1>4 DEF Inv, ListsAreSimple, hdVars
<1>11. DriverBusy'
  BY <1>1, <1>6 DEF Inv, TypeOK, DriverBusy, hd_cmd, hdVars
<1>12. BlocksAreNamed' /\ OneBufferPerBlock'
  BY Zenon, <1>1 DEF Inv, TypeOK, BlocksAreNamed, OneBufferPerBlock
<1>13. ExclusiveBuffer'
  BY SMTT(30), <1>1, <1>3, <1>4 DEF Inv, TypeOK, ExclusiveBuffer
<1>14. CacheCoherent'
  BY Zenon, <1>1 DEF Inv, TypeOK, CacheCoherent, hdVars
<1>15. \A c \in Buf : "DONE" \in b_flag'[c] <=> "DONE" \in b_flag[c]
  BY Zenon, <1>1 DEF Inv, TypeOK
<1>16. QueueIsWaitedFor'
  <2>1. \A q \in Proc : pc'[q] \in {"bread", "bzero", "iowait", "sleep"} =>
          q # p /\ bp'[q] \in held'[q] /\ bp'[q] \in Buf
    BY <1>1, <1>3 DEF Inv, TypeOK, QueueIsWaitedFor
  <2>2. \A q \in Proc : q # p => held'[q] = held[q]
    BY Zenon, <1>1 DEF Inv, TypeOK
  <2>3. Range(ioq) \subseteq Buf
    BY Zenon, RangeList DEF Inv, TypeOK
  <2> QED BY ZenonT(40), <1>1, <1>15, <2>1, <2>2, <2>3 DEF Inv,
     QueueIsWaitedFor, hdVars
<1>17. InvalidIsPending'
  BY SMTT(30), <1>1, <1>3, <1>15 DEF Inv, TypeOK, InvalidIsPending
<1>18. GetblkSleeperIsWanted'
  <2>1. ASSUME NEW q \in Proc, p_stat'[q] = "SSLEEP", pc'[q] = "getblk"
        PROVE  /\ p_chan'[q] \in Buf /\ b_blkno'[p_chan'[q]] = want'[q]
               /\ {"BUSY", "WANTED"} \subseteq b_flag'[p_chan'[q]]
    <3>1. /\ p_stat[q] = "SSLEEP" /\ pc[q] = "getblk"
          /\ p_chan'[q] = p_chan[q] /\ p_chan[q] \notin C
      BY Zenon, <1>1, <2>1 DEF Inv, TypeOK
    <3>2. /\ p_chan[q] \in Buf /\ b_blkno[p_chan[q]] = want[q]
          /\ {"BUSY", "WANTED"} \subseteq b_flag[p_chan[q]]
      BY Zenon, <1>2, <3>1 DEF Inv, GetblkSleeperIsWanted
    <3>3. p_chan[q] # b
      BY <1>2, <3>1, <3>2
    <3> QED BY Zenon, <1>1, <3>1, <3>2, <3>3 DEF Inv, TypeOK
  <2> QED BY Zenon, <2>1 DEF GetblkSleeperIsWanted
<1> QED
  BY Zenon, <1>8, <1>9, <1>10, <1>11, <1>12, <1>13, <1>14, <1>16, <1>17,
     <1>18 DEF Inv

(* do_hd_intr: the request at the head is the one the controller served,
   so the buffer and the disk agree when B_DONE is set. *)
LEMMA Step_do_hd_intr == ASSUME Inv, do_hd_intr PROVE Inv'
<1> DEFINE b    == Head(ioq)
           rest == Tail(ioq)
           n    == Head(rest)
<1>1. /\ b \in Buf /\ b \in Range(ioq)
      /\ rest \in Seq(Buf) /\ IsInjective(rest) /\ Range(rest) = Range(ioq) \ {b}
      /\ rest # <<>> => n \in Buf /\ n \in Range(rest)
  BY Zenon, TailList DEF do_hd_intr, Inv, TypeOK, ListsAreSimple, DriverBusy
<1>2. PICK q \in Proc : bp[q] = b /\ b \in held[q] /\ pc[q] \in {"iowait", "sleep"}
  BY Zenon, <1>1 DEF Inv, QueueIsWaitedFor
<1>3. b_blkno[b] \in Blk /\ "BUSY" \in b_flag[b]
  BY Zenon, <1>1, <1>2 DEF Inv, ExclusiveBuffer, BlocksAreNamed
<1>4. /\ hd.blk = b_blkno[b] /\ hd.data = b_data[b]
      /\ hd.cmd = (IF "READ" \in b_flag[b] THEN "read" ELSE "write")
  <2>1. hd = hd_cmd(b, b_flag[b], b_data[b])
    BY Zenon DEF do_hd_intr, Inv, DriverBusy
  <2> QED BY <2>1 DEF hd_cmd
<1>5. /\ disk' = IF "READ" \in b_flag[b] THEN disk ELSE [disk EXCEPT ![b_blkno[b]] = b_data[b]]
      /\ b_data' = IF "READ" \in b_flag[b]
                   THEN [b_data EXCEPT ![b] = disk[b_blkno[b]]] ELSE b_data
  BY Zenon, <1>4 DEF do_hd_intr
<1>6. /\ b_flag' = [b_flag EXCEPT ![b] = (@ \cup {"DONE"}) \ {"WANTED"}]
      /\ p_stat' = [p \in Proc |-> IF p_chan[p] \in {b} THEN "SRUN" ELSE p_stat[p]]
      /\ p_chan' = [p \in Proc |-> IF p_chan[p] \in {b} THEN NoChan ELSE p_chan[p]]
      /\ ioq' = rest /\ d_active' = (rest # <<>>)
      /\ hd' = IF rest = <<>> THEN hd ELSE hd_cmd(n, b_flag[n], b_data[n])
      /\ UNCHANGED <<b_blkno, freelist, freeWanted, cu, pc, want, mode, bp, held>>
  BY Zenon DEF do_hd_intr, iodone, hd_start, wakeup
<1> HIDE DEF b, rest, n
<1>7. TypeOK'
  BY Zenon, <1>1, <1>3, <1>5, <1>6 DEF Inv, TypeOK, hd_cmd
<1>8. OffProcessor'
  BY <1>1, <1>6 DEF Inv, TypeOK, OffProcessor
<1>9. ListsAreSimple'
  BY Zenon, <1>1, <1>6 DEF Inv, ListsAreSimple
<1>10. DriverBusy'
  <2>1. CASE rest = <<>>
    BY Zenon, <1>6, <2>1 DEF DriverBusy
  <2>2. CASE rest # <<>>
    <3>1. n \in Buf /\ n # b
      BY <1>1, <2>2
    <3>2. b_flag'[n] = b_flag[n] /\ b_data'[n] = b_data[n] /\ b_blkno'[n] = b_blkno[n]
      BY Zenon, <1>5, <1>6, <3>1 DEF Inv, TypeOK
    <3>3. Head(ioq') = n
      BY Zenon, <1>6 DEF n
    <3> QED BY Zenon, <1>6, <2>2, <3>2, <3>3 DEF DriverBusy, hd_cmd
  <2> QED BY <2>1, <2>2
<1>11. BlocksAreNamed' /\ OneBufferPerBlock'
  BY Zenon, <1>6 DEF Inv, TypeOK, BlocksAreNamed, OneBufferPerBlock
<1>12. ExclusiveBuffer'
  <2>1. \A c \in Buf : "BUSY" \in b_flag'[c] <=> "BUSY" \in b_flag[c]
    BY <1>6 DEF Inv, TypeOK
  <2> QED BY Zenon, <1>6, <2>1 DEF Inv, ExclusiveBuffer
<1>13. CacheCoherent'
  <2> SUFFICES ASSUME NEW c \in Buf, "DONE" \in b_flag'[c]
               PROVE  b_blkno'[c] \in Blk /\ b_data'[c] = disk'[b_blkno'[c]]
    BY Zenon DEF CacheCoherent
  <2>1. CASE c = b
    BY Zenon, <1>1, <1>3, <1>5, <1>6, <2>1 DEF Inv, TypeOK
  <2>2. CASE c # b
    <3>1. "DONE" \in b_flag[c] /\ b_data'[c] = b_data[c]
      BY SMTT(30), <1>5, <1>6, <2>2 DEF Inv, TypeOK
    <3>2. b_blkno[c] \in Blk /\ b_data[c] = disk[b_blkno[c]]
      BY Zenon, <3>1 DEF Inv, CacheCoherent
    <3>3. b_blkno[c] # b_blkno[b]
      BY Zenon, <1>1, <2>2, <3>2 DEF Inv, OneBufferPerBlock
    <3> QED BY Zenon, <1>5, <1>6, <3>1, <3>2, <3>3 DEF Inv, TypeOK
  <2> QED BY Zenon, <2>1, <2>2
<1>14. QueueIsWaitedFor'
  <2>1. \A p \in Proc : pc'[p] \in {"bread", "bzero", "iowait", "sleep"} => bp'[p] \in held'[p]
    BY Zenon, <1>6 DEF Inv, QueueIsWaitedFor
  <2>2. ASSUME NEW c \in Range(ioq')
        PROVE  /\ "DONE" \notin b_flag'[c]
               /\ \E p \in Proc : bp'[p] = c /\ c \in held'[p] /\ pc'[p] \in {"iowait", "sleep"}
    <3>1. c \in Range(ioq) /\ c # b
      BY Zenon, <1>1, <1>6
    <3>2. c \in Buf
      BY SMTT(30), <3>1 DEF Inv, TypeOK, Range
    <3> QED BY SMTT(30), <1>6, <3>1, <3>2 DEF Inv, TypeOK, QueueIsWaitedFor
  <2>3. ASSUME NEW p \in Proc, pc'[p] \in {"iowait", "sleep"}
        PROVE  "DONE" \in b_flag'[bp'[p]] \/ bp'[p] \in Range(ioq')
    <3>1. bp[p] \in Buf
      BY Zenon, <1>6, <2>3 DEF Inv, TypeOK, QueueIsWaitedFor
    <3> QED BY ZenonT(40), <1>1, <1>6, <2>3, <3>1 DEF Inv, TypeOK,
       QueueIsWaitedFor
  <2> QED BY SMTT(30), <2>1, <2>2, <2>3 DEF QueueIsWaitedFor
<1>15. InvalidIsPending'
  BY SMTT(30), <1>6 DEF Inv, TypeOK, InvalidIsPending
<1>16. GetblkSleeperIsWanted'
  BY <1>6 DEF Inv, TypeOK, GetblkSleeperIsWanted
<1> QED
  BY Zenon, <1>7, <1>8, <1>9, <1>10, <1>11, <1>12, <1>13, <1>14, <1>15,
     <1>16 DEF Inv
-----------------------------------------------------------------------------
(* buf_init establishes the invariant. *)
LEMMA InitInv == Init => Inv
<1> SUFFICES ASSUME Init PROVE Inv
  OBVIOUS
<1>2. freelist \in Seq(Buf)
  BY DEF Init
<1>3. ioq = <<>> /\ Range(ioq) = {} /\ IsInjective(ioq) /\ ioq \in Seq(Buf)
  BY DEF Init, Range, IsInjective
<1>4. TypeOK
  BY Zenon, <1>2, <1>3 DEF Init, TypeOK
<1>5. OffProcessor /\ ListsAreSimple /\ BlocksAreNamed /\ OneBufferPerBlock
  BY <1>3 DEF Init, OffProcessor, ListsAreSimple, BlocksAreNamed, OneBufferPerBlock
<1>6. ExclusiveBuffer /\ CacheCoherent /\ InvalidIsPending
  BY DEF Init, ExclusiveBuffer, CacheCoherent, InvalidIsPending
<1>7. QueueIsWaitedFor /\ GetblkSleeperIsWanted /\ DriverBusy
  BY <1>3 DEF Init, QueueIsWaitedFor, GetblkSleeperIsWanted, DriverBusy
<1> QED
  BY <1>4, <1>5, <1>6, <1>7 DEF Inv

(* Every step preserves it. *)
LEMMA NextInv == Inv /\ [Next]_vars => Inv'
<1> SUFFICES ASSUME Inv, [Next]_vars PROVE Inv'
  OBVIOUS
<1>1. CASE do_hd_intr
  BY <1>1, Step_do_hd_intr
<1>2. ASSUME NEW p \in Proc, swtch(p) PROVE Inv'
  BY <1>2, Step_swtch
<1>3. ASSUME NEW p \in Proc, ProcStep(p) PROVE Inv'
  <2>1. CASE do_timer(p)
    BY <2>1, Step_do_timer
  <2>2. CASE enter(p)
    BY <2>2, Step_enter
  <2>3. CASE leave(p)
    BY <2>3, Step_leave
  <2>4. CASE \E k \in Blk, m \in {"bread", "bzero"} : ask(p, k, m)
    BY <2>4, Step_ask
  <2>5. CASE getblk_busy(p)
    BY <2>5, Step_getblk_busy
  <2>6. CASE getblk_hit(p)
    BY <2>6, Step_getblk_hit
  <2>7. CASE getblk_nofree(p)
    BY <2>7, Step_getblk_nofree
  <2>8. CASE getblk_take(p)
    BY <2>8, Step_getblk_take
  <2>9. CASE bread(p)
    BY Zenon, <2>9, Step_bread
  <2>10. CASE bzero(p)
    <3>1. cu = p /\ pc[p] = "bzero" /\ bwrite(p, bp[p], Zero)
      BY Zenon, <2>10 DEF bzero
    <3>2. bp[p] \in held[p] /\ bp[p] \in Buf
      BY Zenon, <3>1 DEF Inv, TypeOK, QueueIsWaitedFor
    <3> QED BY Zenon, <3>1, <3>2, Step_bwrite
  <2>11. CASE \E b \in Buf, v \in Val : update(p, b, v)
    <3>1. PICK b \in Buf, v \in Val : update(p, b, v)
      BY Zenon, <2>11
    <3>2. cu = p /\ pc[p] = "kern" /\ b \in held[p] /\ bwrite(p, b, v)
      BY <3>1 DEF update
    <3> QED BY Zenon, <3>2, Step_bwrite
  <2>12. CASE iowait(p)
    BY <2>12, Step_iowait
  <2>13. CASE iowait_sleep(p)
    BY <2>13, Step_iowait_sleep
  <2>14. CASE \E b \in Buf : brelse(p, b)
    BY Zenon, <2>14, Step_brelse
  <2> QED
    BY <1>3, <2>1, <2>2, <2>3, <2>4, <2>5, <2>6, <2>7, <2>8, <2>9, <2>10,
       <2>11, <2>12, <2>13, <2>14 DEF ProcStep
<1>4. CASE UNCHANGED vars
  <2> USE <1>4 DEF vars, bufVars, hdVars, procVars
  <2>1. TypeOK' /\ OffProcessor' /\ ListsAreSimple' /\ BlocksAreNamed' /\ QueueIsWaitedFor'
    BY Zenon DEF Inv, TypeOK, OffProcessor, ListsAreSimple, BlocksAreNamed,
       QueueIsWaitedFor
  <2>2. OneBufferPerBlock' /\ ExclusiveBuffer' /\ CacheCoherent' /\ InvalidIsPending'
    BY Zenon DEF Inv, OneBufferPerBlock, ExclusiveBuffer, CacheCoherent,
       InvalidIsPending
  <2>3. GetblkSleeperIsWanted' /\ DriverBusy'
    BY Zenon DEF Inv, GetblkSleeperIsWanted, DriverBusy, hd_cmd
  <2> QED BY Zenon, <2>1, <2>2, <2>3 DEF Inv
<1> QED
  BY <1>1, <1>2, <1>3, <1>4 DEF Next

-----------------------------------------------------------------------------
(* The buffer cache, its driver and sleep/wakeup keep Inv for ever.        *)
THEOREM Safety == Spec => []Inv
  BY InitInv, NextInv, PTL DEF Spec

(* Every variable keeps its type.                                          *)
THEOREM TypeCorrect == Spec => []TypeOK
  BY Safety, PTL DEF Inv

(* getblk never gives two buffers for one block, although it sleeps        *)
(* between its search and its choice.                                      *)
THEOREM UniqueBuffers == Spec => []OneBufferPerBlock
  BY Safety, PTL DEF Inv

(* A buffer getblk returned is B_BUSY, off the free list, and its caller's *)
(* alone until brelse.                                                     *)
THEOREM Exclusion == Spec => []ExclusiveBuffer
  BY Safety, PTL DEF Inv

(* B_DONE means that the buffer holds what the disk holds.                 *)
THEOREM Coherence == Spec => []CacheCoherent
  BY Safety, PTL DEF Inv

(* No wakeup is lost in getblk: its sleepers are marked as wanted.         *)
THEOREM NoLostWakeupInGetblk == Spec => []GetblkSleeperIsWanted
  BY Safety, PTL DEF Inv

(* The buffer a process holds never changes under it.                      *)
THEOREM HolderSafety == Spec => HolderSeesStableBuffer
<1> DEFINE A == \A p \in Proc : \A b \in held[p] :
                  /\ b_blkno'[b] = b_blkno[b]
                  /\ "DONE" \in b_flag[b] /\ cu # p => b_data'[b] = b_data[b]
<1>1. Inv /\ [Next]_vars => [A]_vars
  <2> SUFFICES ASSUME Inv, Next, NEW p \in Proc, NEW b \in held[p]
               PROVE  /\ b_blkno'[b] = b_blkno[b]
                      /\ "DONE" \in b_flag[b] /\ cu # p => b_data'[b] = b_data[b]
    BY Zenon
  <2>1. b \in Buf
    BY Zenon DEF Inv, TypeOK
  <2>2. CASE do_hd_intr
    <3>1. Head(ioq) \in Range(ioq)
      BY Zenon, <2>2, TailList DEF do_hd_intr, Inv, TypeOK, ListsAreSimple,
         DriverBusy
    <3>2. "DONE" \in b_flag[b] => b # Head(ioq)
      BY Zenon, <3>1 DEF Inv, QueueIsWaitedFor
    <3> QED BY Zenon, <2>1, <2>2, <3>2 DEF do_hd_intr, Inv, TypeOK
  <2>3. ASSUME NEW q \in Proc, getblk_take(q)
        PROVE  b_blkno'[b] = b_blkno[b] /\ b_data'[b] = b_data[b]
    <3>1. Head(freelist) \in Range(freelist)
      BY Zenon, <2>3, TailList DEF getblk_take, Inv, TypeOK, ListsAreSimple
    <3>2. b # Head(freelist)
      BY ZenonT(40), <2>1, <3>1 DEF Inv, ExclusiveBuffer
    <3> QED BY Zenon, <2>1, <2>3, <3>2 DEF getblk_take, getblk_return, Inv,
       TypeOK
  <2>4. ASSUME NEW q \in Proc, swtch(q) \/ do_timer(q) \/ enter(q) \/ leave(q)
                 \/ getblk_busy(q) \/ getblk_hit(q) \/ getblk_nofree(q)
                 \/ bread(q) \/ iowait(q) \/ iowait_sleep(q)
        PROVE  UNCHANGED <<b_blkno, b_data>>
    BY Zenon, <2>4 DEF swtch, do_timer, enter, leave, getblk_busy,
       getblk_hit, getblk_return,
       getblk_nofree, bread, iowait, iowait_sleep, bufVars
  <2>5. ASSUME NEW q \in Proc, NEW k \in Blk, NEW m \in {"bread", "bzero"}, ask(q, k, m)
        PROVE  UNCHANGED <<b_blkno, b_data>>
    BY Zenon, <2>5 DEF ask, bufVars
  <2>6. ASSUME NEW q \in Proc, NEW c \in Buf, brelse(q, c)
        PROVE  UNCHANGED <<b_blkno, b_data>>
    BY Zenon, <2>6 DEF brelse
  <2>7. ASSUME NEW q \in Proc, NEW c \in held[q], NEW v, cu = q, bwrite(q, c, v)
        PROVE  UNCHANGED b_blkno /\ (cu # p => b_data'[b] = b_data[b])
    <3>1. cu # p => b # c
      BY ZenonT(40), <2>7 DEF Inv, ExclusiveBuffer
    <3> QED BY Zenon, <2>1, <2>7, <3>1 DEF bwrite, Inv, TypeOK
  <2>8. ASSUME NEW q \in Proc, bzero(q)
        PROVE  UNCHANGED b_blkno /\ (cu # p => b_data'[b] = b_data[b])
    BY <2>7, <2>8 DEF bzero, Inv, QueueIsWaitedFor
  <2>9. ASSUME NEW q \in Proc, NEW c \in Buf, NEW v \in Val, update(q, c, v)
        PROVE  UNCHANGED b_blkno /\ (cu # p => b_data'[b] = b_data[b])
    BY <2>7, <2>9 DEF update
  <2> QED
    BY Zenon, <2>2, <2>3, <2>4, <2>5, <2>6, <2>8, <2>9 DEF Next, ProcStep
<1> QED
  BY <1>1, Safety, PTL DEF Spec, HolderSeesStableBuffer

(* If no interrupt comes between iowait's test and its sleep, whoever      *)
(* sleeps in iowait has a request in the driver's queue.                   *)
THEOREM NoLostWakeupInIowait == ASSUME ~IntrInIowait PROVE Spec => []IowaitSleeperIsQueued
<1> DEFINE J == \A p \in Proc : /\ pc[p] = "sleep" => bp[p] \in Range(ioq)
                                /\ p_stat[p] = "SSLEEP" /\ pc[p] = "iowait" => bp[p] \in Range(ioq)
<1>1. Init => J
  BY SMTT(30) DEF Init
<1>2. Inv /\ J /\ [Next]_vars => J'
  <2> SUFFICES ASSUME Inv, J, [Next]_vars PROVE J'
    BY Zenon
  <2>1. CASE do_hd_intr
    <3> DEFINE b == Head(ioq)
    <3>1. /\ b \in Buf /\ Range(ioq') = Range(ioq) \ {b}
          /\ p_stat' = [p \in Proc |-> IF p_chan[p] \in {b} THEN "SRUN" ELSE p_stat[p]]
          /\ UNCHANGED <<cu, pc, bp>> /\ (cu \in Proc => pc[cu] # "sleep")
      BY Zenon, <2>1, TailList DEF do_hd_intr, iodone, wakeup, Inv, TypeOK,
         ListsAreSimple, DriverBusy
    <3> HIDE DEF b
    <3>2. \A p \in Proc : pc[p] # "sleep"
      BY Zenon, <3>1 DEF Inv, OffProcessor
    <3>3. \A p \in Proc : p_stat'[p] = "SSLEEP" /\ pc[p] = "iowait" =>
             p_stat[p] = "SSLEEP" /\ bp[p] # b
      BY Zenon, <3>1 DEF Inv, TypeOK, OffProcessor
    <3> QED BY Zenon, <3>1, <3>2, <3>3
  <2>2. ASSUME NEW p \in Proc, NEW b \in Buf, NEW v, cu = p, bwrite(p, b, v)
        PROVE  J'
    <3>1. Range(ioq') = Range(ioq) \cup {b}
      BY SMTT(30), <2>2, AppendList DEF bwrite, hd_request, Inv, TypeOK
    <3> QED BY Zenon, <2>2, <3>1 DEF bwrite, Inv, TypeOK
  <2>3. ASSUME NEW p \in Proc, bread(p) PROVE J'
    <3>1. bp[p] \in Buf
      BY <2>3 DEF bread, Inv, TypeOK, QueueIsWaitedFor
    <3>2. Range(ioq) \subseteq Range(ioq')
      <4>1. ioq' = ioq \/ ioq' = Append(ioq, bp[p])
        BY Zenon, <2>3 DEF bread, hd_request, hdVars
      <4>2. Range(Append(ioq, bp[p])) = Range(ioq) \cup {bp[p]}
        BY SMTT(30), <3>1, AppendList DEF Inv, TypeOK
      <4> QED BY Zenon, <4>1, <4>2
    <3>5. UNCHANGED <<bp, p_stat>>
      BY Zenon, <2>3 DEF bread
    <3>3. \A q \in Proc : q # p => pc'[q] = pc[q]
      BY Zenon, <2>3 DEF bread, Inv, TypeOK
    <3>4. pc'[p] # "sleep" /\ p_stat[p] # "SSLEEP"
      BY SMTT(30), <2>3 DEF bread, Inv, TypeOK, OffProcessor
    <3> QED BY Zenon, <3>2, <3>3, <3>4, <3>5
  <2>4. ASSUME NEW p \in Proc, iowait(p) PROVE J'
    <3>1. "DONE" \notin b_flag[bp[p]] => bp[p] \in Range(ioq)
      BY Zenon, <2>4 DEF iowait, Inv, QueueIsWaitedFor
    <3> QED BY Zenon, <2>4, <3>1 DEF iowait, Inv, TypeOK, hdVars
  <2>5. ASSUME NEW p \in Proc, iowait_sleep(p) PROVE J'
    BY Zenon, <2>5 DEF iowait_sleep, sleep, Inv, TypeOK, hdVars
  <2>6. ASSUME NEW p \in Proc, NEW b \in Buf, brelse(p, b) PROVE J'
    BY Zenon, <2>6 DEF brelse, wakeup, Inv, TypeOK, hdVars
  <2>7. ASSUME NEW p \in Proc, swtch(p) \/ do_timer(p) \/ enter(p) \/ leave(p) PROVE J'
    BY SMTT(30), <2>7 DEF swtch, do_timer, enter, leave, Inv, TypeOK, hdVars
  <2>8. ASSUME NEW p \in Proc, NEW k \in Blk, NEW m \in {"bread", "bzero"}, ask(p, k, m) PROVE J'
    BY Zenon, <2>8 DEF ask, Inv, TypeOK, hdVars
  <2>9. ASSUME NEW p \in Proc, getblk_busy(p) \/ getblk_nofree(p) PROVE J'
    BY Zenon, <2>9 DEF getblk_busy, getblk_nofree, sleep, Inv, TypeOK, hdVars
  <2>10. ASSUME NEW p \in Proc, getblk_hit(p) \/ getblk_take(p) PROVE J'
    <3>1. /\ pc' = [pc EXCEPT ![p] = mode[p]] /\ \E b : bp' = [bp EXCEPT ![p] = b]
          /\ UNCHANGED <<ioq, p_stat>>
      <4>1. \E b : getblk_return(p, b)
        BY Zenon, <2>10 DEF getblk_hit, getblk_take
      <4> QED
        BY Zenon, <4>1 DEF getblk_return, hdVars
    <3> QED BY Zenon, <3>1 DEF Inv, TypeOK
  <2>11. CASE UNCHANGED vars
    BY Zenon, <2>11 DEF vars, hdVars, procVars
  <2>12. ASSUME NEW p \in Proc, bzero(p) PROVE J'
    <3>1. bp[p] \in Buf
      BY Zenon, <2>12 DEF bzero, Inv, TypeOK, QueueIsWaitedFor
    <3> QED BY Zenon, <2>2, <2>12, <3>1 DEF bzero
  <2>13. ASSUME NEW p \in Proc, NEW b \in Buf, NEW v \in Val, update(p, b, v) PROVE J'
    BY Zenon, <2>2, <2>13 DEF update
  <2> QED
    BY Zenon, <2>1, <2>3, <2>4, <2>5, <2>6, <2>7, <2>8, <2>9, <2>10, <2>11,
       <2>12, <2>13
       DEF Next, ProcStep
<1>3. J => IowaitSleeperIsQueued
  BY DEF IowaitSleeperIsQueued
<1> QED
  BY <1>1, <1>2, <1>3, Safety, PTL DEF Spec
=============================================================================
