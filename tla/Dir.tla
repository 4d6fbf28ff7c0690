--------------------------------- MODULE Dir ---------------------------------
(***************************************************************************)
(* Directories and links (src/fs/namei.c, link.c, and do_mknod): the walk  *)
(* of namei() from the root, find_entry, link_entry, unlink_entry, link,   *)
(* unlink, open with and without O_CREAT, and mknod.                       *)
(*                                                                         *)
(* An inode is locked while it is worked on, which is what makes a step    *)
(* out of what a process does between two waits for a lock; that the locks *)
(* exclude each other, and that who waits is woken, is InodeCache's        *)
(* matter.                                                                 *)
(***************************************************************************)
EXTENDS Integers, Sequences, FiniteSets, FiniteSetsExt

CONSTANTS
  Procs,
  Dirs,            \* the directories besides the root: names and inodes
  Files,           \* the files that are in the root at first
  MaxIno,          \* s_max_inode
  Names,           \* the names that programs use, and
  Long,            \* the ones with more than NAMELEN characters
  Calls,           \* the system calls with their paths
  SPB,             \* the entries in a block
  Junk             \* what is in a block that a directory gets

ROOT == 1
None == "none"
Ino == 1 .. MaxIno
(* A name that no lookup matches: of a component with a '/' after it, of   *)
(* more characters than fit, or of an entry that was never used.           *)
Garbled == "garbled"

Range2(f) == {f[x] : x \in DOMAIN f}
Folder == {ROOT} \cup Range2(Dirs)

ASSUME DirAssumption ==
  /\ Folder \subseteq Ino /\ Range2(Files) \subseteq Ino /\ SPB \in Nat \ {0}
  /\ DOMAIN Dirs \cup DOMAIN Files \subseteq Names
  /\ \A c \in Calls : /\ c.path \in Seq(Names) \ {<<>>}
                       /\ c.op = "link" => c.to \in Seq(Names) \ {<<>>}

VARIABLES
  entry,           \* entry[d]: the blocks of directory d, as entries
  size,            \* size[d]: how many of them are within i_size
  i_nlink, i_count, lock,
  imap,            \* the inodes in use
  cu,              \* who ran last, and is still in the kernel
  pc, call,
  path,            \* what is left of the path
  wip, tip         \* the inodes that a process has, or waits for

vars == <<entry, size, i_nlink, i_count, lock, imap, cu, pc, call,
          path, wip, tip>>

NoCall == [op |-> "none", path |-> <<>>, to |-> <<>>]
Empty == [name |-> Garbled, ino |-> 0]

(* "open": in a program that has wip open.  "iget": waits for wip.         *)
(* "namei": has it.  "got": namei() is done.  "null": it has failed.       *)
(* "lock", "undo": in lock_ino() of do_link().  "drop": in iget() of       *)
(* do_unlink().  "panic", "fault": the kernel has stopped, or goes on with *)
(* a pointer that is NULL or was never set.                                *)
PC == {"user", "open", "iget", "namei", "got", "null", "lock", "undo", "drop",
       "panic", "fault"}

(* The root holds the other directories and the files, one block each.     *)
Init ==
  /\ LET names == DOMAIN Dirs \cup DOMAIN Files
         ino(n) == IF n \in DOMAIN Dirs THEN Dirs[n] ELSE Files[n]
         first == [n \in names |-> Cardinality({m \in names : ino(m) <= ino(n)})]
         old(k) == LET n == CHOOSE m \in names : first[m] = k
                   IN [name |-> n, ino |-> ino(n)]
     IN /\ size = [d \in Folder |-> IF d = ROOT THEN Cardinality(names) ELSE 0]
        /\ entry = [d \in Folder |->
             IF d = ROOT
             THEN [k \in 1 .. Cardinality(names) |-> old(k)]
             ELSE <<>>]
  /\ i_nlink = [i \in Ino |-> IF i \in Folder \cup Range2(Files) THEN 1 ELSE 0]
  /\ i_count = [i \in Ino |-> 0]
  /\ lock = [i \in Ino |-> None]
  /\ imap = Folder \cup Range2(Files)
  /\ cu = None
  /\ pc = [p \in Procs |-> "user"]
  /\ call = [p \in Procs |-> NoCall]
  /\ path = [p \in Procs |-> <<>>]
  /\ wip = [p \in Procs |-> 0]
  /\ tip = [p \in Procs |-> 0]

(* What p waits for, and whom.                                             *)
Wants(p) ==
  CASE pc[p] = "iget" -> {wip[p]}
    [] pc[p] \in {"lock", "undo", "drop"} -> {tip[p]}
    [] OTHER -> {}
WaitsFor(p) == {lock[i] : i \in Wants(p)} \ {None}

(* Who waits for nothing any more.  The sleep was at PINOD: swtch() takes  *)
(* it before one that waited for a block, at PRIBIO, or any program.       *)
Woken == {p \in Procs : Wants(p) # {} /\ WaitsFor(p) = {}}

at(p, l) ==
  /\ pc[p] = l /\ \A q \in Procs : pc[q] # "panic"
  /\ Woken = {} \/ p \in Woken \cup {cu}
goto(p, l) ==
  pc' = [pc EXCEPT ![p] = l] /\ cu' = IF l \in {"user", "open"} THEN None ELSE p
-----------------------------------------------------------------------------
(* The entries with a name, whether they are in use or not, and whether    *)
(* they are within i_size or not: the whole block is searched.             *)
match(d, n) == {k \in DOMAIN entry[d] : entry[d][k].name = n /\ n \notin Long}

(* find_entry(): 0 if there is none, or if the first is not in use.        *)
find_entry(d, n) == IF match(d, n) = {} THEN 0 ELSE entry[d][Min(match(d, n))].ino

(* unlink_entry(): the name stays.                                         *)
unlink_entry(d, n) ==
  entry' = IF match(d, n) = {} THEN entry
           ELSE [entry EXCEPT ![d][Min(match(d, n))].ino = 0]

(* MUTANT: a new entry goes behind the others.                             *)
free_last(d) == {}

(* The entries within i_size that are free.                                *)
free(d) == {k \in 1 .. size[d] : entry[d][k].ino = 0}

(* What link_entry() writes: the characters up to and including the one    *)
(* behind the name, which ends it if it is the last of the path.           *)
written(n, last, i) ==
  [name |-> IF last /\ n \notin Long THEN n ELSE Garbled, ino |-> i]

(* link_entry(): the first free entry, or one more, perhaps in a block     *)
(* that balloc() gives and nobody clears.                                  *)
link_entry(d, n, last, i) ==
  IF free(d) # {}
  THEN /\ entry' = [entry EXCEPT ![d][Min(free(d))] = written(n, last, i)]
       /\ UNCHANGED size
  ELSE /\ size' = [size EXCEPT ![d] = @ + 1]
       /\ entry' = [entry EXCEPT ![d] =
            LET e == IF size[d] < Len(@) THEN @
                     ELSE @ \o [k \in 1 .. SPB |-> Junk]
            IN [e EXCEPT ![size[d] + 1] = written(n, last, i)]]

(* iput() of the inodes S, whose links are nlink: the last reference to    *)
(* one without links frees it.                                             *)
iput(S, nlink) ==
  /\ i_count' = [i \in Ino |-> IF i \in S THEN i_count[i] - 1 ELSE i_count[i]]
  /\ lock' = [i \in Ino |-> IF i \in S THEN None ELSE lock[i]]
  /\ imap' = imap \ {i \in S : i_count[i] = 1 /\ nlink[i] = 0}
  /\ i_nlink' = nlink

(* The system call returns.                                                *)
ret(p) ==
  /\ goto(p, "user")
  /\ call' = [call EXCEPT ![p] = NoCall]
  /\ path' = [path EXCEPT ![p] = <<>>]
  /\ wip' = [wip EXCEPT ![p] = 0]
  /\ tip' = [tip EXCEPT ![p] = 0]
-----------------------------------------------------------------------------
(* iget() of i, when the locks and the references are lk and cnt: a        *)
(* process that need not wait goes on at once.                             *)
take(p, i, lk, cnt) ==
  /\ wip' = [wip EXCEPT ![p] = i]
  /\ IF lk[i] = None
     THEN /\ lock' = [lk EXCEPT ![i] = p]
          /\ i_count' = [cnt EXCEPT ![i] = @ + 1]
          /\ goto(p, "namei")
     ELSE lock' = lk /\ i_count' = cnt /\ goto(p, "iget")

(* The locks and the references without those of wip.                      *)
unlocked(p) == [lock EXCEPT ![wip[p]] = None]
released(p) == [i_count EXCEPT ![wip[p]] = @ - 1]

(* A system call starts with a walk from the root; link() does a second    *)
(* one, and its tip tells that it is the second.                           *)
start(p, c) ==
  /\ at(p, "user")
  /\ call' = [call EXCEPT ![p] = c]
  /\ path' = [path EXCEPT ![p] = c.path]
  /\ take(p, ROOT, lock, i_count)
  /\ UNCHANGED <<entry, size, i_nlink, imap, tip>>

creates(p) == call[p].op \in {"creat", "mknod"}
parent(p) == call[p].op = "unlink" \/ tip[p] # 0

iget(p) ==
  /\ at(p, "iget") /\ lock[wip[p]] = None
  /\ take(p, wip[p], lock, i_count)
  /\ UNCHANGED <<entry, size, i_nlink, imap, call, path, tip>>

(* namei() has come to the end of the path, or of all but the name.        *)
namei_end(p) ==
  /\ at(p, "namei")
  /\ path[p] = <<>> \/ (parent(p) /\ Len(path[p]) = 1 /\ wip[p] \in Folder)
  /\ goto(p, "got")
  /\ UNCHANGED <<entry, size, i_nlink, i_count, lock, imap, call, path, wip, tip>>

(* The next component of the path, when there is one to look up.           *)
looks(p) ==
  /\ at(p, "namei") /\ path[p] # <<>>
  /\ ~(parent(p) /\ Len(path[p]) = 1 /\ wip[p] \in Folder)

(* It is not in a directory, or not there.                                 *)
namei_null(p) ==
  /\ looks(p)
  /\ wip[p] \in Folder => ~creates(p) /\ find_entry(wip[p], Head(path[p])) = 0
  /\ iput({wip[p]}, i_nlink)
  /\ goto(p, "null")
  /\ UNCHANGED <<entry, size, call, path, wip, tip>>

namei_next(p) ==
  /\ looks(p) /\ wip[p] \in Folder
  /\ LET i == find_entry(wip[p], Head(path[p])) IN
     i # 0 /\ take(p, i, unlocked(p), released(p))
  /\ path' = [path EXCEPT ![p] = Tail(@)]
  /\ UNCHANGED <<entry, size, i_nlink, imap, call, tip>>

(* A component that is not there is created, the last of the path or not:  *)
(* ialloc() and link_entry().                                              *)
namei_creat(p) ==
  /\ looks(p) /\ wip[p] \in Folder /\ creates(p) /\ imap # Ino
  /\ find_entry(wip[p], Head(path[p])) = 0
  /\ LET i == Min(Ino \ imap) IN
     /\ link_entry(wip[p], Head(path[p]), Len(path[p]) = 1, i)
     /\ imap' = imap \cup {i}
     /\ take(p, i, unlocked(p), released(p))
  /\ path' = [path EXCEPT ![p] = Tail(@)]
  /\ UNCHANGED <<i_nlink, call, tip>>

(* namei() has returned NULL: open() fails; open() with O_CREAT and the    *)
(* callers of namei_parent() use what they did not get, and link() and     *)
(* mknod() call iput(NULL).                                                *)
failed(p) ==
  /\ at(p, "null")
  /\ \/ call[p].op = "open" /\ ret(p)
     \/ /\ call[p].op = "mknod" \/ (call[p].op = "link" /\ tip[p] = 0)
        /\ goto(p, "panic")
        /\ UNCHANGED <<call, path, wip, tip>>
     \/ /\ call[p].op \in {"creat", "unlink"} \/ tip[p] # 0
        /\ goto(p, "fault")
        /\ UNCHANGED <<call, path, wip, tip>>
  /\ UNCHANGED <<entry, size, i_nlink, i_count, lock, imap>>
-----------------------------------------------------------------------------
(* do_open() keeps the reference when it unlocks the inode.  A new inode   *)
(* has no links yet.                                                       *)
do_open(p) ==
  /\ at(p, "got") /\ call[p].op \in {"open", "creat"}
  /\ i_nlink' = [i_nlink EXCEPT ![wip[p]] =
                   IF creates(p) /\ @ = 0 THEN 1 ELSE @]
  /\ lock' = unlocked(p)
  /\ goto(p, "open")
  /\ UNCHANGED <<entry, size, i_count, imap, call, path, wip, tip>>

(* do_close(), by a program.  It does not wait for the lock; what comes of *)
(* that when another has it is in InodeCache and left out here.            *)
do_close(p) ==
  /\ at(p, "open") /\ lock[wip[p]] = None
  /\ iput({wip[p]}, i_nlink)
  /\ ret(p)
  /\ UNCHANGED <<entry, size>>

do_mknod(p) ==
  /\ at(p, "got") /\ call[p].op = "mknod"
  /\ iput({wip[p]}, [i_nlink EXCEPT ![wip[p]] = IF @ = 0 THEN 1 ELSE @])
  /\ ret(p)
  /\ UNCHANGED <<entry, size>>

(* MUTANT: tip is not unlocked.                                            *)
do_link_locked(p) ==
  /\ at(p, "got") /\ call[p].op = "link" /\ tip[p] = 0
  /\ i_nlink' = [i_nlink EXCEPT ![wip[p]] = @ + 1]
  /\ tip' = [tip EXCEPT ![p] = wip[p]]
  /\ path' = [path EXCEPT ![p] = call[p].to]
  /\ take(p, ROOT, lock, i_count)
  /\ UNCHANGED <<entry, size, imap, call>>

(* MUTANT: the link is not counted.                                        *)
do_link_uncounted(p) ==
  /\ at(p, "got") /\ call[p].op = "link" /\ tip[p] = 0
  /\ tip' = [tip EXCEPT ![p] = wip[p]]
  /\ path' = [path EXCEPT ![p] = call[p].to]
  /\ take(p, ROOT, unlocked(p), i_count)
  /\ UNCHANGED <<entry, size, i_nlink, imap, call>>

(* do_link(): one link more, and on to the directory of the second path.   *)
do_link(p) ==
  /\ at(p, "got") /\ call[p].op = "link" /\ tip[p] = 0
  /\ i_nlink' = [i_nlink EXCEPT ![wip[p]] = @ + 1]
  /\ tip' = [tip EXCEPT ![p] = wip[p]]
  /\ path' = [path EXCEPT ![p] = call[p].to]
  /\ take(p, ROOT, unlocked(p), i_count)
  /\ UNCHANGED <<entry, size, imap, call>>

(* With the directory, it waits for tip to make the entry, or to undo.     *)
do_link_name(p) ==
  /\ at(p, "got") /\ call[p].op = "link" /\ tip[p] # 0
  /\ goto(p, IF \/ Head(path[p]) \in Long
                \/ find_entry(wip[p], Head(path[p])) # 0
             THEN "undo" ELSE "lock")
  /\ UNCHANGED <<entry, size, i_nlink, i_count, lock, imap, call, path, wip, tip>>

(* MUTANT: the link that was counted stays counted.                        *)
do_link_undo_keep(p) ==
  /\ at(p, "undo") /\ lock[tip[p]] = None
  /\ iput({tip[p], wip[p]}, i_nlink)
  /\ ret(p)
  /\ UNCHANGED <<entry, size>>

do_link_undo(p) ==
  /\ at(p, "undo") /\ lock[tip[p]] = None
  /\ iput({tip[p], wip[p]}, [i_nlink EXCEPT ![tip[p]] = (@ - 1) % 256])
  /\ ret(p)
  /\ UNCHANGED <<entry, size>>

do_link_entry(p) ==
  /\ at(p, "lock") /\ lock[tip[p]] = None
  /\ link_entry(wip[p], Head(path[p]), TRUE, tip[p])
  /\ iput({tip[p], wip[p]}, i_nlink)
  /\ ret(p)

(* do_unlink(): the entry is cleared first; the directory stays locked.    *)
do_unlink(p) ==
  /\ at(p, "got") /\ call[p].op = "unlink"
  /\ LET n == Head(path[p]) IN
     IF find_entry(wip[p], n) = 0
     THEN /\ iput({wip[p]}, i_nlink)
          /\ ret(p)
          /\ UNCHANGED entry
     ELSE /\ unlink_entry(wip[p], n)
          /\ tip' = [tip EXCEPT ![p] = find_entry(wip[p], n)]
          /\ goto(p, "drop")
          /\ UNCHANGED <<i_nlink, i_count, lock, imap, call, path, wip>>
  /\ UNCHANGED size

(* Then comes the inode; a directory gets its entry back.                  *)
do_unlink_ino(p) ==
  /\ at(p, "drop") /\ lock[tip[p]] = None
  /\ IF tip[p] \in Folder
     THEN /\ link_entry(wip[p], Head(path[p]), TRUE, tip[p])
          /\ UNCHANGED <<i_nlink, imap>>
     ELSE LET left == (i_nlink[tip[p]] - 1) % 256 IN
          /\ i_nlink' = [i_nlink EXCEPT ![tip[p]] = left]
          /\ imap' = IF left = 0 /\ i_count[tip[p]] = 0 THEN imap \ {tip[p]}
                     ELSE imap
          /\ UNCHANGED <<entry, size>>
  /\ lock' = unlocked(p) /\ i_count' = released(p)
  /\ ret(p)

Next ==
  \E p \in Procs :
    \/ \E c \in Calls : start(p, c)
    \/ iget(p) \/ namei_end(p) \/ namei_null(p) \/ namei_next(p)
    \/ namei_creat(p) \/ failed(p) \/ do_open(p) \/ do_close(p) \/ do_mknod(p)
    \/ do_link(p) \/ do_link_name(p) \/ do_link_undo(p) \/ do_link_entry(p)
    \/ do_unlink(p) \/ do_unlink_ino(p)

Spec == Init /\ [][Next]_vars
-----------------------------------------------------------------------------
TypeOK ==
  /\ entry \in [Folder -> Seq([name : Names \cup {Garbled}, ino : 0 .. MaxIno])]
  /\ \A d \in Folder : size[d] \in 0 .. Len(entry[d])
  /\ i_nlink \in [Ino -> 0 .. 255] /\ i_count \in [Ino -> Nat]
  /\ lock \in [Ino -> Procs \cup {None}] /\ imap \subseteq Ino
  /\ cu \in Procs \cup {None} /\ pc \in [Procs -> PC]
  /\ wip \in [Procs -> 0 .. MaxIno] /\ tip \in [Procs -> 0 .. MaxIno]

Live(d) == {k \in 1 .. size[d] : entry[d][k].ino # 0}

(* The entry of a name is found, although find_entry() stops at the first  *)
(* with the name, and the names of entries that are free again stay.       *)
NameFound ==
  \A d \in Folder : \A k \in Live(d) :
    entry[d][k].name # Garbled =>
      find_entry(d, entry[d][k].name) = entry[d][k].ino

(* The links of an inode are the entries with its number, once all calls   *)
(* have returned.                                                          *)
LinksCounted ==
  (\A p \in Procs : pc[p] \in {"user", "open"}) =>
    \A i \in imap \ {ROOT} :
      i_nlink[i] = Cardinality({dk \in UNION {{d} \X Live(d) : d \in Folder} :
                                  entry[dk[1]][dk[2]].ino = i})

(* An entry that is in use has an inode that is in use.                    *)
EntryValid == \A d \in Folder : \A k \in Live(d) : entry[d][k].ino \in imap

(* No process waits for itself, and no processes for each other, unless    *)
(* one makes a link to a directory: do_link() then may wait for a lock it  *)
(* holds, or that another holds who waits for it.                          *)
NoCycle ==
  (\A p \in Procs : call[p].op = "link" => tip[p] \notin Folder) =>
    \A S \in SUBSET Procs \ {{}} : \E p \in S : WaitsFor(p) \cap S = {}
=============================================================================
