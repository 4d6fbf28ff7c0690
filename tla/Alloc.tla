-------------------------------- MODULE Alloc --------------------------------
(***************************************************************************)
(* Blocks and inodes of a device (src/fs/alloc.c, bmap.c): balloc, bfree,  *)
(* ialloc, ifree, bmap and itrunc, as processes that each have a file of   *)
(* their own create it, write to it, truncate and remove it.               *)
(*                                                                         *)
(* A bitmap is the set of its bits that are 1.  The device is as mkfs made *)
(* it: bit 0 of a map stands for nothing, bit k for inode k or block       *)
(* ZONE0 + k - 1, and the first Old blocks belong to files nobody touches. *)
(* Each map is one block; its buffer is held from the bread() to the       *)
(* brelse(), so that the bread() is the one place to wait.  The inode is   *)
(* locked all the time, by its process.  The model stops in a panic, and   *)
(* when an indirect block comes to be used twice.                          *)
(***************************************************************************)
EXTENDS Integers, Sequences, FiniteSets, FiniteSetsExt, SequencesExt

CONSTANTS
  Procs,
  ND, NIND,        \* direct zones of an inode (7), zone numbers in a block
  ZONE0, MAX_ZONE, \* s_data_zone0, s_max_zone
  MAX_INODE,       \* s_max_inode
  USHORT,          \* 2^16
  Old,             \* the blocks in use at first
  Pos              \* the blocks of a file that are written

ASSUME AllocAssumption ==
  /\ ND \in Nat /\ NIND \in Nat \ {0} /\ USHORT \in Nat \ {0}
  /\ ZONE0 \in Nat \ {0} /\ MAX_ZONE \in Nat /\ ZONE0 + Old <= MAX_ZONE
  /\ MAX_INODE \in Nat /\ Old \in Nat
  /\ Pos \subseteq 0 .. ND + NIND + NIND * NIND - 1

None == "none"
Map == {"imap", "zmap"}
(* balloc() returns ZONE0 + k for bit k.                                   *)
Zone == ZONE0 .. MAX_ZONE
Limit == [imap |-> MAX_INODE, zmap |-> MAX_ZONE - ZONE0]

VARIABLES
  bits,            \* the bits that are set in each map
  busy,            \* who has the buffer of each map
  i_num,           \* the inode of a process's file, 0 for none
  i_zone,          \* its zones; ND is the indirect one, ND + 1 the double
  b_data,          \* the zone numbers in each block
  pc, pos,         \* where a process is, the position it writes at
  todo,            \* the blocks that itrunc() still frees
  gone,            \* the file is being removed
  found,           \* where bmap() said that a position is (history)
  cut              \* what itrunc() has met so far: 1 blocks of the inode,
                   \* 2 indirect blocks (history)

vars == <<bits, busy, i_num, i_zone, b_data, pc, pos, todo, gone, found,
          cut>>

(* "ialloc", "balloc", "itrunc", "ifree": about to read a map; "imark",    *)
(* "bmark", "bclear", "iclear": with its buffer.                           *)
Panics == {"not in data zone", "free block", "non-existing inode",
           "free inode"}
Stops == Panics \cup {"shared"}
PC == {"user", "ialloc", "imark", "bmap", "balloc", "bmark", "itrunc",
       "bclear", "ifree", "iclear"} \cup Stops

NoZones == [i \in 0 .. ND + 1 |-> 0]
Nowhere == [n \in Pos |-> 0]

Init ==
  /\ bits = [imap |-> {0}, zmap |-> 0 .. Old]
  /\ busy = [m \in Map |-> None]
  /\ i_num = [p \in Procs |-> 0]
  /\ i_zone = [p \in Procs |-> NoZones]
  /\ b_data = [z \in {0} \cup Zone |-> [i \in 0 .. NIND - 1 |->
                                          IF z = 0 THEN 0 ELSE ZONE0]]
  /\ pc = [p \in Procs |-> "user"]
  /\ pos = [p \in Procs |-> Min(Pos)]
  /\ todo = [p \in Procs |-> <<>>]
  /\ gone = [p \in Procs |-> FALSE]
  /\ found = [p \in Procs |-> Nowhere]
  /\ cut = 0

(* p is at l, and the kernel has not stopped.                              *)
at(p, l) == pc[p] = l /\ \A q \in Procs : pc[q] \notin Stops
goto(p, l) == pc' = [pc EXCEPT ![p] = l]

(* bread() of the block of a map, and bwrite() and brelse() of it.         *)
bread(p, m) == busy[m] = None /\ busy' = [busy EXCEPT ![m] = p]
brelse(m) == busy' = [busy EXCEPT ![m] = None]

(* find_bit(): the bits that are 0; the first is taken.                    *)
find_bit(m) == {k \in 0 .. Limit[m] : k \notin bits[m]}

(* MUTANT: the bit is set in a copy, not in the buffer.                    *)
set_bit_lost(m, k) == UNCHANGED bits

set_bit(m, k) == bits' = [bits EXCEPT ![m] = @ \cup {k}]
-----------------------------------------------------------------------------
(* The zone numbers that lead to block nr of a file: the index in the      *)
(* inode, then in the indirect blocks.                                     *)
path(nr) ==
  CASE nr < ND -> <<nr>>
    [] nr >= ND /\ nr - ND < NIND -> <<ND, nr - ND>>
    [] OTHER -> LET k == nr - ND - NIND IN <<ND + 1, k \div NIND, k % NIND>>

(* The zone number at a path, 0 when there is none.                        *)
zone(p, s) ==
  LET one == i_zone[p][s[1]] IN
  CASE Len(s) = 1 -> one
    [] Len(s) = 2 -> b_data[one][s[2]]
    [] OTHER -> b_data[b_data[one][s[2]]][s[3]]

(* All the zone numbers of a file, by their paths.                         *)
Paths == UNION {{SubSeq(path(n), 1, l) : l \in 1 .. Len(path(n))} :
                  n \in Pos}
Used(p) == {s \in Paths : zone(p, s) # 0}
depth(s) == IF s[1] < ND THEN 1 ELSE 2

(* What bmap() goes through for the position that p writes at, and how     *)
(* much of it is there.  nr is an ushort.                                  *)
way(p) == path(pos[p] % USHORT)
missing(p) == {l \in 1 .. Len(way(p)) : zone(p, SubSeq(way(p), 1, l)) = 0}

(* creat(): the inode that ialloc() finds; an empty file.                  *)
creat(p) ==
  /\ at(p, "user") /\ i_num[p] = 0
  /\ goto(p, "ialloc")
  /\ UNCHANGED <<bits, busy, i_num, i_zone, b_data, pos, todo, gone, found,
                 cut>>

ialloc(p) ==
  /\ at(p, "ialloc") /\ bread(p, "imap") /\ goto(p, "imark")
  /\ UNCHANGED <<bits, i_num, i_zone, b_data, pos, todo, gone, found, cut>>

(* When all bits are set the loop goes on with the same block, which is    *)
(* busy: the process waits for itself.                                     *)
ialloc_mark(p) ==
  /\ at(p, "imark")
  /\ IF find_bit("imap") = {}
     THEN goto(p, "ialloc") /\ UNCHANGED <<bits, busy, i_num>>
     ELSE LET ino == Min(find_bit("imap")) IN
          /\ set_bit("imap", ino)
          /\ i_num' = [i_num EXCEPT ![p] = ino]
          /\ brelse("imap") /\ goto(p, "user")
  /\ UNCHANGED <<i_zone, b_data, pos, todo, gone, found, cut>>

(* writei() asks bmap() for a block, to be created.                        *)
writei(p, n) ==
  /\ at(p, "user") /\ i_num[p] # 0
  /\ pos' = [pos EXCEPT ![p] = n]
  /\ goto(p, "bmap")
  /\ UNCHANGED <<bits, busy, i_num, i_zone, b_data, todo, gone, found, cut>>

(* bmap(): all of the way is there, or a block has to be allocated.        *)
bmap(p) ==
  /\ at(p, "bmap")
  /\ IF missing(p) = {}
     THEN /\ found' = [found EXCEPT ![p][pos[p]] = zone(p, way(p))]
          /\ pos' = [pos EXCEPT ![p] = Min(Pos)]
          /\ goto(p, "user")
     ELSE goto(p, "balloc") /\ UNCHANGED <<found, pos>>
  /\ UNCHANGED <<bits, busy, i_num, i_zone, b_data, todo, gone, cut>>

balloc(p) ==
  /\ at(p, "balloc") /\ bread(p, "zmap") /\ goto(p, "bmark")
  /\ UNCHANGED <<bits, i_num, i_zone, b_data, pos, todo, gone, found, cut>>

(* MUTANT: an indirect block is not cleared.                               *)
store_dirty(p, s, z, last) ==
  IF Len(s) = 1
  THEN i_zone' = [i_zone EXCEPT ![p][s[1]] = z] /\ UNCHANGED b_data
  ELSE /\ b_data' = [b_data EXCEPT ![zone(p, SubSeq(s, 1, Len(s) - 1))]
                                    [s[Len(s)]] = z]
       /\ UNCHANGED i_zone

(* The number z of the new block goes to the end of s, and bzero() clears  *)
(* the block unless it is the last of the way.                             *)
store(p, s, z, last) ==
  LET clear(d) == IF last THEN d
                  ELSE [d EXCEPT ![z] = [i \in 0 .. NIND - 1 |-> 0]] IN
  IF Len(s) = 1
  THEN /\ i_zone' = [i_zone EXCEPT ![p][s[1]] = z]
       /\ b_data' = clear(b_data)
  ELSE /\ b_data' = clear([b_data EXCEPT ![zone(p, SubSeq(s, 1, Len(s) - 1))]
                                          [s[Len(s)]] = z])
       /\ UNCHANGED i_zone

(* The block z, now to be at the end of the way w or an indirect block on  *)
(* it, is in use already, and one of its uses is as an indirect block.     *)
shared(z, l, w) ==
  \E q \in Procs : \E s \in Used(q) :
    zone(q, s) = z /\ (l < Len(w) \/ (depth(s) = 2 /\ Len(s) < s[1] - ND + 2))

balloc_mark(p) ==
  /\ at(p, "bmark")
  /\ LET l == Min(missing(p))
         bn == Min(find_bit("zmap"))
     IN \/ /\ find_bit("zmap") = {}
           /\ goto(p, "balloc")
           /\ UNCHANGED <<bits, busy, i_zone, b_data>>
        \/ /\ find_bit("zmap") # {} /\ shared(ZONE0 + bn, l, way(p))
           /\ goto(p, "shared")
           /\ UNCHANGED <<bits, busy, i_zone, b_data>>
        \/ /\ find_bit("zmap") # {} /\ ~shared(ZONE0 + bn, l, way(p))
           /\ set_bit("zmap", bn)
           /\ store(p, SubSeq(way(p), 1, l), ZONE0 + bn, l = Len(way(p)))
           /\ brelse("zmap") /\ goto(p, "bmap")
  /\ UNCHANGED <<i_num, pos, todo, gone, found, cut>>
-----------------------------------------------------------------------------
(* A byte of a block of ushorts, read as a signed char.                    *)
char(z, i) ==
  LET w == IF z \in Zone THEN b_data[z][i \div 2] ELSE 0
      c == IF i % 2 = 0 THEN w % 256 ELSE (w \div 256) % 256
  IN IF c < 128 THEN c ELSE c - 256

(* The bytes of a block that are not 0, as itrunc() goes through them.     *)
chars(z) == SelectSeq([i \in 1 .. NIND |-> char(z, i - 1)], LAMBDA c : c # 0)

(* The blocks that itrunc() frees, in order.  zmap points to chars.        *)
freed(p) ==
  LET Rest(z, below) == IF z = 0 THEN <<>> ELSE below \o <<z>>
      double == chars(i_zone[p][ND + 1])
      inner == [k \in 1 .. Len(double) |-> chars(double[k]) \o <<double[k]>>]
  IN SelectSeq([i \in 1 .. ND |-> i_zone[p][i - 1]], LAMBDA z : z # 0)
       \o Rest(i_zone[p][ND], chars(i_zone[p][ND]))
       \o Rest(i_zone[p][ND + 1], FlattenSeq(inner))

(* MUTANT: the zones of the inode stay.                                    *)
itrunc_keep(p, last) ==
  /\ at(p, "user") /\ i_num[p] # 0
  /\ cut' = Max({cut} \cup {depth(s) : s \in Used(p)})
  /\ todo' = [todo EXCEPT ![p] = freed(p)]
  /\ found' = [found EXCEPT ![p] = Nowhere]
  /\ gone' = [gone EXCEPT ![p] = last]
  /\ goto(p, "itrunc")
  /\ UNCHANGED <<bits, busy, i_num, i_zone, b_data, pos>>

(* itrunc(), of open() with O_TRUNC or of the last iput() of a file that   *)
(* has no name any more.                                                   *)
itrunc(p, last) ==
  /\ at(p, "user") /\ i_num[p] # 0
  /\ cut' = Max({cut} \cup {depth(s) : s \in Used(p)})
  /\ todo' = [todo EXCEPT ![p] = freed(p)]
  /\ i_zone' = [i_zone EXCEPT ![p] = NoZones]
  /\ found' = [found EXCEPT ![p] = Nowhere]
  /\ gone' = [gone EXCEPT ![p] = last]
  /\ goto(p, "itrunc")
  /\ UNCHANGED <<bits, busy, i_num, b_data, pos>>

itrunc_end(p) ==
  /\ at(p, "itrunc") /\ todo[p] = <<>>
  /\ goto(p, IF gone[p] THEN "ifree" ELSE "user")
  /\ UNCHANGED <<bits, busy, i_num, i_zone, b_data, pos, todo, gone, found,
                 cut>>

(* bfree(): a block that is not in the data zone is a panic.               *)
bfree(p) ==
  /\ at(p, "itrunc") /\ todo[p] # <<>>
  /\ IF Head(todo[p]) \in ZONE0 .. MAX_ZONE - 1
     THEN bread(p, "zmap") /\ goto(p, "bclear")
     ELSE goto(p, "not in data zone") /\ UNCHANGED busy
  /\ UNCHANGED <<bits, i_num, i_zone, b_data, pos, todo, gone, found, cut>>

bfree_clear(p) ==
  /\ at(p, "bclear")
  /\ LET bn == Head(todo[p]) + 1 - ZONE0 IN
     IF bn \notin bits["zmap"]
     THEN goto(p, "free block") /\ UNCHANGED <<bits, busy, todo>>
     ELSE /\ bits' = [bits EXCEPT !["zmap"] = @ \ {bn}]
          /\ todo' = [todo EXCEPT ![p] = Tail(@)]
          /\ brelse("zmap") /\ goto(p, "itrunc")
  /\ UNCHANGED <<i_num, i_zone, b_data, pos, gone, found, cut>>

ifree(p) ==
  /\ at(p, "ifree")
  /\ IF i_num[p] > 0 /\ i_num[p] < MAX_INODE
     THEN bread(p, "imap") /\ goto(p, "iclear")
     ELSE goto(p, "non-existing inode") /\ UNCHANGED busy
  /\ UNCHANGED <<bits, i_num, i_zone, b_data, pos, todo, gone, found, cut>>

ifree_clear(p) ==
  /\ at(p, "iclear")
  /\ IF i_num[p] \notin bits["imap"]
     THEN goto(p, "free inode") /\ UNCHANGED <<bits, busy, i_num, gone>>
     ELSE /\ bits' = [bits EXCEPT !["imap"] = @ \ {i_num[p]}]
          /\ i_num' = [i_num EXCEPT ![p] = 0]
          /\ gone' = [gone EXCEPT ![p] = FALSE]
          /\ brelse("imap") /\ goto(p, "user")
  /\ UNCHANGED <<i_zone, b_data, pos, todo, found, cut>>

Next ==
  \E p \in Procs :
    \/ creat(p) \/ ialloc(p) \/ ialloc_mark(p)
    \/ \E n \in Pos : writei(p, n)
    \/ bmap(p) \/ balloc(p) \/ balloc_mark(p)
    \/ \E last \in BOOLEAN : itrunc(p, last)
    \/ itrunc_end(p) \/ bfree(p) \/ bfree_clear(p) \/ ifree(p) \/ ifree_clear(p)

Spec == Init /\ [][Next]_vars
-----------------------------------------------------------------------------
TypeOK ==
  /\ bits \in [Map -> SUBSET Nat]
  /\ \A m \in Map : bits[m] \subseteq 0 .. Limit[m]
  /\ busy \in [Map -> Procs \cup {None}]
  /\ i_num \in [Procs -> 0 .. MAX_INODE]
  /\ i_zone \in [Procs -> [0 .. ND + 1 -> {0} \cup Zone]]
  /\ pc \in [Procs -> PC] /\ pos \in [Procs -> Pos] /\ gone \in [Procs -> BOOLEAN]
  /\ cut \in 0 .. 2

(* No block is used twice: by two files, at two places of one, or by a     *)
(* file that was there before - as long as none has been given back:       *)
(* bfree() clears the bit of the block before.                             *)
NoSharedBlock ==
  cut = 0 =>
    /\ \A p, q \in Procs : \A s \in Used(p), t \in Used(q) :
         zone(p, s) = zone(q, t) => p = q /\ s = t
    /\ \A p \in Procs : \A s \in Used(p) : zone(p, s) >= ZONE0 + Old

(* What was written at a position is found there, in a block of its own,   *)
(* whatever the file and other files have got since: positions that fit    *)
(* bmap()'s ushort, and as long as no block has been given back.           *)
BmapFinds ==
  \A p \in Procs : cut = 0 /\ pc[p] = "user" =>
    \A m, n \in Pos \cap 0 .. USHORT - 1 : found[p][n] # 0 =>
      /\ zone(p, path(n)) = found[p][n]
      /\ found[p][m] = found[p][n] => m = n

(* No update of a bitmap is lost: as many bits are set as there are zone   *)
(* numbers in files, or still to be freed, and inodes - as long as         *)
(* itrunc() has met no indirect block, whose numbers it misreads.          *)
Balance ==
  /\ cut <= 1 =>
       Cardinality(bits["zmap"]) = 1 + Old
         + MapThenSumSet(LAMBDA p : Cardinality(Used(p)) + Len(todo[p]), Procs)
  /\ Cardinality(bits["imap"]) = 1 + Cardinality({p \in Procs : i_num[p] # 0})

(* Two files do not have the same inode.                                   *)
InodesDistinct ==
  \A p, q \in Procs : i_num[p] # 0 /\ i_num[p] = i_num[q] => p = q
=============================================================================
