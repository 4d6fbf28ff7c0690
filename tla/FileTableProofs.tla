--------------------------- MODULE FileTableProofs ---------------------------
(***************************************************************************)
(* The counts of the file table and of the inodes, the inode's lock and    *)
(* the descriptors that exec() closes, for any number of processes, files, *)
(* descriptors and inodes.                                                 *)
(***************************************************************************)
EXTENDS FileTable, FiniteSetTheorems, TLAPS

OFile == [Procs -> [Fd -> File \cup {NULL}]]
Slot == Procs \X Fd

(* The descriptors that refer to one of the files S, in the tables o.      *)
sel(o, S) == {m \in Slot : o[m[1]][m[2]] \in S}

(* The processes that sleep in iput() while they close f.                  *)
clo(a, c, f) == {p \in Procs : a[p].f = f /\ c[p] = "put"}

LEMMA FdFinite == IsFiniteSet(Fd) /\ NOFILE \in Nat /\ 0 \in Fd
<1>1. NOFILE \in Nat \ {0}
  BY FileAssumption
<1>2. 0 \in Int /\ NOFILE - 1 \in Int
  BY <1>1
<1> QED
  BY <1>1, <1>2, FS_Interval DEF Fd

LEMMA SlotFinite == IsFiniteSet(Slot)
<1>1. IsFiniteSet(Procs)
  BY FileAssumption
<1> QED
  BY <1>1, FdFinite, FS_Product DEF Slot

LEMMA SelFinite ==
  ASSUME NEW o, NEW S
  PROVE  IsFiniteSet(sel(o, S)) /\ Cardinality(sel(o, S)) \in Nat
<1>1. sel(o, S) \subseteq Slot
  BY DEF sel
<1>2. IsFiniteSet(sel(o, S))
  BY <1>1, SlotFinite, FS_Subset
<1> QED
  BY <1>2, FS_CardinalityType

LEMMA CloFinite ==
  ASSUME NEW a, NEW c, NEW f
  PROVE  IsFiniteSet(clo(a, c, f)) /\ Cardinality(clo(a, c, f)) \in Nat
<1>1. clo(a, c, f) \subseteq Procs
  BY DEF clo
<1>2. IsFiniteSet(clo(a, c, f))
  BY <1>1, FileAssumption, FS_Subset
<1> QED
  BY <1>2, FS_CardinalityType

(* Descriptor fd of p is f in o2, and the others are as they are in o.     *)
sets(o, o2, p, fd, f) ==
  /\ o \in OFile /\ o2 \in OFile /\ o2[p][fd] = f
  /\ \A q \in Procs, e \in Fd : q # p \/ e # fd => o2[q][e] = o[q][e]

(* A descriptor more.                                                      *)
LEMMA SelAdd ==
  ASSUME NEW o, NEW o2, NEW p \in Procs, NEW fd \in Fd, NEW f \in File,
         o[p][fd] = NULL, sets(o, o2, p, fd, f), NEW S \in SUBSET File
  PROVE  /\ f \in S => Cardinality(sel(o2, S)) = Cardinality(sel(o, S)) + 1
         /\ f \notin S => sel(o2, S) = sel(o, S)
<1>0. NULL \notin S
  BY DEF NULL, File
<1>1. /\ o2[p][fd] = f
      /\ \A q \in Procs, e \in Fd : q # p \/ e # fd => o2[q][e] = o[q][e]
  BY DEF sets
<1>2. ASSUME NEW m \in Slot, m # <<p, fd>>
      PROVE  m \in sel(o2, S) <=> m \in sel(o, S)
  <2>1. PICK q \in Procs, e \in Fd : m = <<q, e>>
    BY DEF Slot
  <2> QED
    BY <1>1, <1>2, <2>1 DEF sel
<1>3. /\ <<p, fd>> \in Slot /\ <<p, fd>> \notin sel(o, S)
      /\ <<p, fd>> \in sel(o2, S) <=> f \in S
  BY <1>0, <1>1 DEF sel, Slot
<1>4. sel(o, S) \subseteq Slot /\ sel(o2, S) \subseteq Slot
  BY DEF sel
<1>5. ASSUME f \in S
      PROVE  Cardinality(sel(o2, S)) = Cardinality(sel(o, S)) + 1
  <2>1. sel(o2, S) = sel(o, S) \cup {<<p, fd>>}
    BY <1>2, <1>3, <1>4, <1>5
  <2>2. Cardinality(sel(o, S) \cup {<<p, fd>>}) = Cardinality(sel(o, S)) + 1
    BY Zenon, <1>3, SelFinite, FS_AddElement
  <2> QED
    BY <2>1, <2>2
<1>6. ASSUME f \notin S
      PROVE  sel(o2, S) = sel(o, S)
  BY <1>2, <1>3, <1>4, <1>6
<1> QED
  BY <1>5, <1>6

(* A descriptor less.                                                      *)
LEMMA SelDrop ==
  ASSUME NEW o, NEW o2, NEW p \in Procs, NEW fd \in Fd, NEW f \in File,
         o[p][fd] = f, sets(o, o2, p, fd, NULL), NEW S \in SUBSET File
  PROVE  /\ f \in S => Cardinality(sel(o, S)) = Cardinality(sel(o2, S)) + 1
         /\ f \notin S => sel(o2, S) = sel(o, S)
<1>1. o2[p][fd] = NULL /\ sets(o2, o, p, fd, f)
  BY DEF sets
<1> QED
  BY <1>1, SelAdd

(* The descriptors of p that refer to one of the files S.                  *)
own(o, p, S) == {fd \in Fd : o[p][fd] \in S}

pairs(q, T) == {q} \X T

LEMMA OwnPairs ==
  ASSUME NEW o, NEW p, NEW q, NEW S
  PROVE  /\ IsFiniteSet(own(o, p, S)) /\ Cardinality(own(o, p, S)) \in Nat
         /\ IsFiniteSet(pairs(q, own(o, p, S)))
         /\ Cardinality(pairs(q, own(o, p, S))) = Cardinality(own(o, p, S))
<1>1. own(o, p, S) \subseteq Fd
  BY DEF own
<1>2. IsFiniteSet(own(o, p, S))
  BY <1>1, FdFinite, FS_Subset
<1>3. Cardinality(own(o, p, S)) \in Nat
  BY <1>2, FS_CardinalityType
<1>4. IsFiniteSet({q}) /\ Cardinality({q}) = 1
  BY Zenon, FS_Singleton
<1>5. /\ IsFiniteSet(pairs(q, own(o, p, S)))
      /\ Cardinality(pairs(q, own(o, p, S))) = 1 * Cardinality(own(o, p, S))
  BY <1>2, <1>4, FS_Product DEF pairs
<1> QED
  BY <1>2, <1>3, <1>5

(* The tables after fork(): q, which has no descriptor, gets those of p.   *)
LEMMA SelCopy ==
  ASSUME NEW o \in OFile, NEW p \in Procs, NEW q \in Procs, p # q,
         \A fd \in Fd : o[q][fd] = NULL,
         NEW o2 \in OFile, o2[q] = o[p],
         \A r \in Procs \ {q} : o2[r] = o[r], NEW S \in SUBSET File
  PROVE  Cardinality(sel(o2, S)) =
           Cardinality(sel(o, S)) + Cardinality(own(o, p, S))
<1>0. NULL \notin S
  BY DEF NULL, File
<1>1. o2[q] = o[p] /\ \A r \in Procs \ {q} : o2[r] = o[r]
  OBVIOUS
<1>2. sel(o2, S) = sel(o, S) \cup pairs(q, own(o, p, S))
  <2>1. ASSUME NEW r \in Procs, NEW fd \in Fd
        PROVE  <<r, fd>> \in sel(o2, S) <=>
                 <<r, fd>> \in sel(o, S) \cup pairs(q, own(o, p, S))
    <3>1. CASE r = q
      BY <1>0, <1>1, <3>1 DEF sel, own, Slot, pairs
    <3>2. CASE r # q
      BY <1>1, <3>2 DEF sel, own, Slot, pairs
    <3> QED
      BY <3>1, <3>2
  <2>2. sel(o, S) \subseteq Slot /\ sel(o2, S) \subseteq Slot
    BY DEF sel
  <2>3. pairs(q, own(o, p, S)) \subseteq Slot
    BY DEF own, Slot, pairs
  <2>4. ASSUME NEW m \in Slot
        PROVE  m \in sel(o2, S) <=> m \in sel(o, S) \cup pairs(q, own(o, p, S))
    <3>1. PICK r \in Procs, fd \in Fd : m = <<r, fd>>
      BY DEF Slot
    <3> QED
      BY <2>1, <3>1
  <2> QED
    BY <2>2, <2>3, <2>4
<1>3. sel(o, S) \cap pairs(q, own(o, p, S)) = {}
  BY <1>0 DEF sel, own, Slot, pairs
<1>4. PICK A, B : A = sel(o, S) /\ B = pairs(q, own(o, p, S))
  OBVIOUS
<1>5. /\ IsFiniteSet(A) /\ IsFiniteSet(B) /\ Cardinality(A) \in Nat
      /\ Cardinality(own(o, p, S)) \in Nat
      /\ Cardinality(B) = Cardinality(own(o, p, S))
  <2>1. IsFiniteSet(A) /\ Cardinality(A) \in Nat
    BY <1>4, SelFinite
  <2>2. /\ IsFiniteSet(B) /\ Cardinality(own(o, p, S)) \in Nat
        /\ Cardinality(B) = Cardinality(own(o, p, S))
    BY <1>4, OwnPairs
  <2> QED
    BY <2>1, <2>2
<1>6. Cardinality(A \cap B) = 0
  <2>1. A \cap B = {}
    BY <1>3, <1>4
  <2> QED
    BY <2>1, FS_EmptySet
<1>7. Cardinality(A \cup B) =
        Cardinality(A) + Cardinality(B) - Cardinality(A \cap B)
  BY <1>5, FS_Union
<1>8. Cardinality(A \cup B) = Cardinality(A) + Cardinality(own(o, p, S))
  BY <1>5, <1>6, <1>7
<1> QED
  BY <1>1, <1>2, <1>4, <1>8

(* A file that nobody refers to does not count.                            *)
LEMMA SelUnused ==
  ASSUME NEW o \in OFile, NEW f \in File, sel(o, {f}) = {},
         NEW S \in SUBSET File, NEW T \in SUBSET File,
         \A g \in File \ {f} : g \in S <=> g \in T
  PROVE  sel(o, S) = sel(o, T)
<1>1. \A m \in Slot : o[m[1]][m[2]] # f
  BY DEF sel
<1> QED
  BY <1>1 DEF sel

(* A process starts to sleep in iput(), or wakes up.                       *)
LEMMA CloSame ==
  ASSUME NEW a, NEW a2, NEW c, NEW c2, NEW f, NEW p \in Procs,
         c[p] # "put", c2[p] # "put",
         \A q \in Procs \ {p} : a2[q] = a[q] /\ c2[q] = c[q]
  PROVE  clo(a2, c2, f) = clo(a, c, f)
BY DEF clo

LEMMA CloIn ==
  ASSUME NEW a, NEW a2, NEW c, NEW c2, NEW f, NEW p \in Procs,
         c[p] # "put", c2[p] = "put",
         \A q \in Procs \ {p} : a2[q] = a[q] /\ c2[q] = c[q]
  PROVE  /\ a2[p].f = f => Cardinality(clo(a2, c2, f)) =
                             Cardinality(clo(a, c, f)) + 1
         /\ a2[p].f # f => clo(a2, c2, f) = clo(a, c, f)
<1>1. ASSUME a2[p].f = f
      PROVE  Cardinality(clo(a2, c2, f)) = Cardinality(clo(a, c, f)) + 1
  <2>1. clo(a2, c2, f) = clo(a, c, f) \cup {p} /\ p \notin clo(a, c, f)
    BY <1>1 DEF clo
  <2>2. Cardinality(clo(a, c, f) \cup {p}) = Cardinality(clo(a, c, f)) + 1
    BY Zenon, <2>1, CloFinite, FS_AddElement
  <2> QED
    BY <2>1, <2>2
<1>2. ASSUME a2[p].f # f
      PROVE  clo(a2, c2, f) = clo(a, c, f)
  BY <1>2 DEF clo
<1> QED
  BY <1>1, <1>2
-----------------------------------------------------------------------------
(* What is true of a process by itself: one that is dead has no            *)
(* descriptor; one that reads, writes or truncates has the file open; one  *)
(* in dup2() has newfd closed.                                             *)
Args ==
  [f : File \cup {NULL}, fd : Fd, off : Nat, cnt : 0 .. UINT_MAX, next : Pc]

Holding == {"trunc", "read", "write", "readi", "writei"}

Local(p, o, c, a, live) ==
  /\ p \notin live => c = "user" /\ \A fd \in Fd : o[fd] = NULL
  /\ c \in Holding => a.f \in File /\ \E fd \in Fd : o[fd] = a.f
  /\ c = "put" => a.f \in File /\ a.next \in {"user", "dup2", "exit", "exec"}
  /\ c = "dup2" \/ (c = "put" /\ a.next = "dup2") =>
       a.off \in File /\ o[a.fd] = NULL
  /\ c \in {"write", "writei"} => a.off <= MAX_FILESIZ

ProcTypes ==
  /\ p_ofile \in OFile /\ p_fdflag \in [Procs -> [Fd -> BOOLEAN]]
  /\ alive \subseteq Procs /\ pc \in [Procs -> Pc] /\ arg \in [Procs -> Args]

FileTypes ==
  /\ f_count \in [File -> Int] /\ f_oflag \in [File -> Oflag]
  /\ f_offset \in [File -> 0 .. UINT_MAX] /\ f_ino \in [File -> Inodes]

InodeTypes ==
  /\ i_count \in [Inodes -> Nat] /\ locked \in [Inodes -> Procs \cup {NoProc}]
  /\ data \in [Inodes -> Seq(Procs \cup {NoProc})]
  /\ \A i \in Inodes : Len(data[i]) <= MAX_FILESIZ

Locals == \A p \in Procs : Local(p, p_ofile[p], pc[p], arg[p], alive)

Shape == ProcTypes /\ FileTypes /\ InodeTypes /\ Locals

(* No file has more references than f_count, a char, can hold.             *)
Fits ==
  \A f \in File : users(Procs, f) +
    Cardinality({p \in Procs : arg[p].f = f /\ pc[p] = "put"}) <= CHAR_MAX

(* p goes on at l with the arguments a, nobody else moves.                 *)
Goes(p, l, a) ==
  /\ pc' \in [Procs -> Pc] /\ arg' \in [Procs -> Args]
  /\ pc'[p] = l /\ arg'[p] = a
  /\ \A q \in Procs \ {p} : pc'[q] = pc[q] /\ arg'[q] = arg[q]

LEMMA GotoIs ==
  ASSUME ProcTypes, NEW p \in Procs, NEW l \in Pc, NEW a \in Args,
         goto(p, l, a)
  PROVE  Goes(p, l, a)
BY DEF ProcTypes, goto, Goes

LEMMA StaysIs ==
  ASSUME ProcTypes, NEW p \in Procs, UNCHANGED <<pc, arg>>
  PROVE  Goes(p, pc[p], arg[p])
BY DEF ProcTypes, Goes

LEMMA NoneIs ==
  /\ None \in Args /\ None.f = NULL /\ None.next = "user"
  /\ \A f \in File : /\ [None EXCEPT !.f = f] \in Args
                     /\ [None EXCEPT !.f = f].f = f
  /\ \A f \in File, fd \in Fd :
       /\ [None EXCEPT !.off = f, !.fd = fd] \in Args
       /\ [None EXCEPT !.off = f, !.fd = fd].off = f
       /\ [None EXCEPT !.off = f, !.fd = fd].fd = fd
  /\ \A f \in File, n \in 0 .. UINT_MAX :
       /\ [None EXCEPT !.f = f, !.cnt = n] \in Args
       /\ [None EXCEPT !.f = f, !.cnt = n].f = f
  /\ \A f \in File, n \in 0 .. UINT_MAX, m \in Nat :
       /\ [None EXCEPT !.f = f, !.off = m, !.cnt = n] \in Args
       /\ [None EXCEPT !.f = f, !.off = m, !.cnt = n].f = f
       /\ [None EXCEPT !.f = f, !.off = m, !.cnt = n].off = m
<1>1. 0 \in Fd /\ 0 \in 0 .. UINT_MAX /\ File \subseteq Nat
  BY FdFinite, FileAssumption DEF File
<1>2. "user" \in Pc /\ NULL \in File \cup {NULL}
  BY DEF Pc
<1>3. None \in Args
  BY <1>1, <1>2 DEF Args, None
<1>4. None.f = NULL /\ None.next = "user"
  BY DEF None
<1>5. \A f \in File : [None EXCEPT !.f = f] \in Args /\ [None EXCEPT !.f = f].f = f
  BY <1>3 DEF Args
<1>6. \A f \in File, fd \in Fd :
        /\ [None EXCEPT !.off = f, !.fd = fd] \in Args
        /\ [None EXCEPT !.off = f, !.fd = fd].off = f
        /\ [None EXCEPT !.off = f, !.fd = fd].fd = fd
  BY Zenon, <1>1, <1>3 DEF Args
<1>7. \A f \in File, n \in 0 .. UINT_MAX :
        /\ [None EXCEPT !.f = f, !.cnt = n] \in Args
        /\ [None EXCEPT !.f = f, !.cnt = n].f = f
  BY Zenon, <1>3 DEF Args
<1>8. \A f \in File, n \in 0 .. UINT_MAX, m \in Nat :
        /\ [None EXCEPT !.f = f, !.off = m, !.cnt = n] \in Args
        /\ [None EXCEPT !.f = f, !.off = m, !.cnt = n].f = f
        /\ [None EXCEPT !.f = f, !.off = m, !.cnt = n].off = m
  BY Zenon, <1>3 DEF Args
<1> QED
  BY Zenon, <1>3, <1>4, <1>5, <1>6, <1>7, <1>8

LEMMA NullIs == NULL \notin File
BY DEF NULL, File

(* A step of p that concerns no other process.                             *)
LEMMA ShapeStep ==
  ASSUME Shape, NEW p \in Procs, NEW l, NEW a, Goes(p, l, a),
         p_ofile' \in OFile, \A q \in Procs \ {p} : p_ofile'[q] = p_ofile[q],
         p_fdflag' \in [Procs -> [Fd -> BOOLEAN]],
         alive' = alive \/ alive' = alive \ {p},
         FileTypes', InodeTypes', Local(p, p_ofile'[p], l, a, alive')
  PROVE  Shape'
<1>1. ProcTypes'
  BY DEF Shape, ProcTypes, Goes
<1>2. ASSUME NEW q \in Procs
      PROVE  Local(q, p_ofile'[q], pc'[q], arg'[q], alive')
  <2>1. CASE q = p
    BY <2>1 DEF Goes
  <2>2. CASE q # p
    <3>1. /\ pc'[q] = pc[q] /\ arg'[q] = arg[q] /\ p_ofile'[q] = p_ofile[q]
          /\ q \in alive' <=> q \in alive
      BY <2>2 DEF Goes
    <3>2. Local(q, p_ofile[q], pc[q], arg[q], alive)
      BY DEF Shape, Locals
    <3> QED
      BY <3>1, <3>2 DEF Local
  <2> QED
    BY <2>1, <2>2
<1> QED
  BY <1>1, <1>2 DEF Shape, Locals

(* The same, when the tables of descriptors stay as they are.              *)
LEMMA ShapeGoes ==
  ASSUME Shape, NEW p \in Procs, NEW l, NEW a, Goes(p, l, a),
         UNCHANGED <<p_ofile, p_fdflag, alive>>, FileTypes', InodeTypes',
         Local(p, p_ofile[p], l, a, alive)
  PROVE  Shape'
<1>1. /\ p_ofile' \in OFile /\ \A q \in Procs \ {p} : p_ofile'[q] = p_ofile[q]
      /\ p_fdflag' \in [Procs -> [Fd -> BOOLEAN]] /\ alive' = alive
      /\ Local(p, p_ofile'[p], l, a, alive')
  BY DEF Shape, ProcTypes
<1> QED
  BY <1>1, ShapeStep

LEMMA FileTypesSame ==
  ASSUME FileTypes, UNCHANGED fvars
  PROVE  FileTypes'
BY DEF FileTypes, fvars

LEMMA InodeTypesSame ==
  ASSUME InodeTypes, UNCHANGED <<i_count, locked, data>>
  PROVE  InodeTypes'
BY DEF InodeTypes

(* A process that runs a program has no obligations.                       *)
LEMMA LocalUser ==
  ASSUME NEW p, NEW o, NEW a, NEW live, p \in live,
         NEW l \in {"user", "exit", "exec"}
  PROVE  Local(p, o, l, a, live)
BY DEF Local, Holding
-----------------------------------------------------------------------------
LEMMA SetOfile ==
  ASSUME ProcTypes, NEW p \in Procs, NEW fd \in Fd,
         NEW f, f \in File \/ f = NULL,
         p_ofile' = [p_ofile EXCEPT ![p][fd] = f]
  PROVE  /\ sets(p_ofile, p_ofile', p, fd, f)
         /\ \A q \in Procs \ {p} : p_ofile'[q] = p_ofile[q]
<1>1. p_ofile \in [Procs -> [Fd -> File \cup {NULL}]]
  BY DEF OFile, ProcTypes
<1>2. PICK r : r = [p_ofile[p] EXCEPT ![fd] = f]
  BY Zenon
<1>3. /\ r \in [Fd -> File \cup {NULL}] /\ r[fd] = f
      /\ \A e \in Fd \ {fd} : r[e] = p_ofile[p][e]
  BY <1>1, <1>2
<1>4. p_ofile' = [p_ofile EXCEPT ![p] = r]
  BY <1>1, <1>2
<1>5. /\ p_ofile' \in OFile /\ p_ofile'[p] = r
      /\ \A q \in Procs \ {p} : p_ofile'[q] = p_ofile[q]
  BY <1>1, <1>3, <1>4 DEF OFile
<1> QED
  BY Zenon, <1>1, <1>3, <1>5 DEF sets, OFile

(* open().                                                                 *)
Opened(p, i, fd, f) ==
  /\ p_ofile[p][fd] = NULL /\ sets(p_ofile, p_ofile', p, fd, f)
  /\ \A q \in Procs \ {p} : p_ofile'[q] = p_ofile[q]
  /\ f_count[f] = 0 /\ f_count' = [f_count EXCEPT ![f] = 1]
  /\ f_ino' = [f_ino EXCEPT ![f] = i]
  /\ i_count' = [i_count EXCEPT ![i] = @ + 1]
  /\ \/ locked' = locked /\ Goes(p, "user", arg[p])
     \/ /\ locked' = [locked EXCEPT ![i] = p]
        /\ \E a \in Args : a.f = f /\ Goes(p, "trunc", a)

LEMMA OpenIs ==
  ASSUME Shape, NEW p \in Procs, NEW i \in Inodes, NEW flag \in Oflags,
         do_open(p, i, flag)
  PROVE  /\ Shape' /\ pc[p] = "user"
         /\ \E fd \in Fd, f \in File : Opened(p, i, fd, f)
<1>1. /\ p \in alive /\ pc[p] = "user" /\ alive' = alive /\ data' = data
  BY DEF do_open, call, at
<1>2. PICK fd \in Fd, f \in File :
       /\ p_ofile[p][fd] = NULL /\ f_count[f] = 0
       /\ p_ofile' = [p_ofile EXCEPT ![p][fd] = f]
       /\ p_fdflag' = [p_fdflag EXCEPT ![p][fd] = TRUE]
       /\ f_count' = [f_count EXCEPT ![f] = 1]
       /\ f_oflag' = [f_oflag EXCEPT ![f] = flag]
       /\ f_offset' = [f_offset EXCEPT ![f] = 0]
       /\ f_ino' = [f_ino EXCEPT ![f] = i]
       /\ i_count' = [i_count EXCEPT ![i] = @ + 1]
       /\ IF "TRUNC" \in flag
          THEN /\ locked' = [locked EXCEPT ![i] = p]
               /\ goto(p, "trunc", [None EXCEPT !.f = f])
          ELSE UNCHANGED <<locked, pc, arg>>
  BY Zenon DEF do_open, ufalloc, falloc
<1>3. ProcTypes /\ FileTypes /\ InodeTypes
  BY DEF Shape
<1>4. /\ sets(p_ofile, p_ofile', p, fd, f)
      /\ \A q \in Procs \ {p} : p_ofile'[q] = p_ofile[q]
  BY Zenon, <1>2, <1>3, SetOfile
<1>5. FileTypes'
  <2>1. f_count' \in [File -> Int] /\ f_ino' \in [File -> Inodes]
    BY <1>2, <1>3 DEF FileTypes
  <2>2. f_oflag' \in [File -> Oflag]
    BY <1>2, <1>3, FileAssumption DEF FileTypes
  <2>3. 0 \in 0 .. UINT_MAX
    BY FileAssumption
  <2>4. f_offset' \in [File -> 0 .. UINT_MAX]
    BY <1>2, <1>3, <2>3 DEF FileTypes
  <2> QED
    BY <2>1, <2>2, <2>4 DEF FileTypes
<1>6. InodeTypes'
  <2>1. i_count' \in [Inodes -> Nat]
    BY <1>2, <1>3 DEF InodeTypes
  <2>2. locked' \in [Inodes -> Procs \cup {NoProc}]
    BY Zenon, <1>2, <1>3 DEF InodeTypes
  <2> QED
    BY <1>1, <1>3, <2>1, <2>2 DEF InodeTypes
<1>7. p_fdflag' \in [Procs -> [Fd -> BOOLEAN]]
  <2>1. PICK r : r = [p_fdflag[p] EXCEPT ![fd] = TRUE]
    BY Zenon
  <2>2. r \in [Fd -> BOOLEAN]
    BY <1>3, <2>1 DEF ProcTypes
  <2>3. p_fdflag' = [p_fdflag EXCEPT ![p] = r]
    BY <1>2, <1>3, <2>1 DEF ProcTypes
  <2> QED
    BY <1>3, <2>2, <2>3 DEF ProcTypes
<1>8. \/ locked' = locked /\ Goes(p, "user", arg[p])
      \/ /\ locked' = [locked EXCEPT ![i] = p]
         /\ \E a \in Args : a.f = f /\ Goes(p, "trunc", a)
  <2>1. CASE "TRUNC" \in flag
    <3>1. PICK a \in Args : a.f = f /\ a = [None EXCEPT !.f = f]
      BY Zenon, NoneIs
    <3>2. locked' = [locked EXCEPT ![i] = p] /\ goto(p, "trunc", a)
      BY <1>2, <2>1, <3>1
    <3>3. "trunc" \in Pc
      BY DEF Pc
    <3> QED
      BY Zenon, <1>3, <3>1, <3>2, <3>3, GotoIs
  <2>2. CASE "TRUNC" \notin flag
    BY <1>1, <1>2, <1>3, <2>2, StaysIs
  <2> QED
    BY <2>1, <2>2
<1>9. Opened(p, i, fd, f)
  BY <1>2, <1>4, <1>8 DEF Opened
<1>10. p_ofile' \in OFile /\ p_ofile'[p][fd] = f
  BY <1>4 DEF sets
<1>11. Shape'
  <2>1. CASE Goes(p, "user", arg[p])
    <3>1. Local(p, p_ofile'[p], "user", arg[p], alive')
      BY Zenon, <1>1, LocalUser
    <3> QED
      BY Zenon, <1>1, <1>4, <1>5, <1>6, <1>7, <1>10, <2>1, <3>1, ShapeStep
  <2>2. ASSUME NEW a \in Args, a.f = f, Goes(p, "trunc", a)
        PROVE  Shape'
    <3>1. Local(p, p_ofile'[p], "trunc", a, alive')
      BY <1>1, <1>10, <2>2 DEF Local, Holding
    <3> QED
      BY Zenon, <1>1, <1>4, <1>5, <1>6, <1>7, <1>10, <2>2, <3>1, ShapeStep
  <2> QED
    BY Zenon, <1>8, <2>1, <2>2
<1> QED
  BY <1>1, <1>9, <1>11

(* The end of do_close().                                                  *)
LEMMA PutTypes ==
  ASSUME FileTypes, NEW f \in File, put(f)
  PROVE  FileTypes'
<1>1. /\ f_count' = [f_count EXCEPT ![f] =
           IF f_count[f] - 1 <= 0 THEN 0 ELSE f_count[f] - 1]
      /\ f_oflag' = [f_oflag EXCEPT ![f] = IF f_count[f] - 1 <= 0 THEN {} ELSE @]
      /\ f_offset' = [f_offset EXCEPT ![f] = IF f_count[f] - 1 <= 0 THEN 0 ELSE @]
      /\ f_ino' = f_ino
  BY DEF put
<1>2. f_count' \in [File -> Int]
  BY <1>1 DEF FileTypes
<1>3. f_oflag' \in [File -> Oflag]
  <2>1. {} \in Oflag /\ f_oflag[f] \in Oflag
    BY DEF Oflag, FileTypes
  <2> QED
    BY <1>1, <2>1 DEF FileTypes
<1>4. f_offset' \in [File -> 0 .. UINT_MAX]
  <2>1. 0 \in 0 .. UINT_MAX /\ f_offset[f] \in 0 .. UINT_MAX
    BY FileAssumption DEF FileTypes
  <2> QED
    BY <1>1, <2>1 DEF FileTypes
<1> QED
  BY <1>1, <1>2, <1>3, <1>4 DEF FileTypes

(* do_close(): it sleeps in iput(), or does not.                           *)
Closed(p, fd, f, next, a) ==
  /\ p_ofile[p][fd] = f /\ sets(p_ofile, p_ofile', p, fd, NULL)
  /\ \A q \in Procs \ {p} : p_ofile'[q] = p_ofile[q]
  /\ i_count' = [i_count EXCEPT ![f_ino[f]] = IF @ > 0 THEN @ - 1 ELSE 0]
  /\ locked' = [locked EXCEPT ![f_ino[f]] = NoProc]
  /\ \/ put(f) /\ Goes(p, next, a)
     \/ /\ UNCHANGED fvars
        /\ \E b \in Args : /\ b.f = f /\ b.next = next /\ b.off = a.off
                           /\ b.fd = a.fd /\ Goes(p, "put", b)

LEMMA CloseIs ==
  ASSUME Shape, NEW p \in Procs, NEW fd \in Fd, p \in alive,
         NEW next \in {"user", "dup2", "exit", "exec"}, NEW a \in Args,
         next = "dup2" => a.off \in File /\ a.fd = fd,
         do_close(p, fd, next, a), UNCHANGED <<p_fdflag, alive, data>>
  PROVE  Shape' /\ \E f \in File : Closed(p, fd, f, next, a)
<1>1. ProcTypes /\ FileTypes /\ InodeTypes
  BY DEF Shape
<1>2. PICK f : f = p_ofile[p][fd]
  OBVIOUS
<1>3. f \in File
  <2>1. f # NULL
    BY <1>2 DEF do_close
  <2> QED
    BY <1>1, <1>2, <2>1 DEF ProcTypes, OFile
<1>4. PICK i \in Inodes : i = f_ino[f]
  BY <1>1, <1>3 DEF FileTypes
<1>5. /\ p_ofile' = [p_ofile EXCEPT ![p][fd] = NULL]
      /\ i_count' = [i_count EXCEPT ![i] = IF @ > 0 THEN @ - 1 ELSE 0]
      /\ locked' = [locked EXCEPT ![i] = NoProc]
      /\ \/ put(f) /\ goto(p, next, a)
         \/ /\ UNCHANGED fvars
            /\ goto(p, "put", [a EXCEPT !.f = f, !.next = next])
  BY <1>2, <1>4 DEF do_close
<1>6. /\ sets(p_ofile, p_ofile', p, fd, NULL)
      /\ \A q \in Procs \ {p} : p_ofile'[q] = p_ofile[q]
  BY Zenon, <1>1, <1>5, SetOfile
<1>7. next \in Pc /\ "put" \in Pc
  BY DEF Pc
<1>8. PICK b \in Args : /\ b = [a EXCEPT !.f = f, !.next = next]
                        /\ b.f = f /\ b.next = next /\ b.off = a.off
                        /\ b.fd = a.fd
  <2>1. PICK b : b = [a EXCEPT !.f = f, !.next = next]
    OBVIOUS
  <2>2. f \in File \cup {NULL}
    BY <1>3
  <2>3. b \in Args /\ b.f = f /\ b.next = next /\ b.off = a.off /\ b.fd = a.fd
    BY Zenon, <1>7, <2>1, <2>2 DEF Args
  <2> QED
    BY Zenon, <2>1, <2>3
<1>9. (put(f) /\ Goes(p, next, a)) \/ (UNCHANGED fvars /\ Goes(p, "put", b))
  BY <1>1, <1>5, <1>7, <1>8, GotoIs
<1>10. Closed(p, fd, f, next, a)
  BY Zenon, <1>2, <1>4, <1>5, <1>6, <1>8, <1>9 DEF Closed
<1>11. FileTypes'
  BY <1>1, <1>3, <1>9, PutTypes, FileTypesSame
<1>12. InodeTypes'
  <2>1. i_count' \in [Inodes -> Nat]
    BY <1>1, <1>5 DEF InodeTypes
  <2>2. locked' \in [Inodes -> Procs \cup {NoProc}]
    BY <1>1, <1>5 DEF InodeTypes
  <2> QED
    BY <1>1, <2>1, <2>2 DEF InodeTypes
<1>13. p_ofile' \in OFile /\ p_ofile'[p][fd] = NULL
  BY <1>6 DEF sets
<1>14. /\ Local(p, p_ofile'[p], next, a, alive')
       /\ Local(p, p_ofile'[p], "put", b, alive')
  BY <1>3, <1>8, <1>13 DEF Local, Holding
<1>15. p_fdflag' \in [Procs -> [Fd -> BOOLEAN]] /\ alive' = alive
  BY <1>1 DEF ProcTypes
<1>16. Shape'
  <2>1. CASE Goes(p, next, a)
    BY Zenon, <1>6, <1>11, <1>12, <1>13, <1>14, <1>15, <2>1, ShapeStep
  <2>2. CASE Goes(p, "put", b)
    BY Zenon, <1>6, <1>11, <1>12, <1>13, <1>14, <1>15, <2>2, ShapeStep
  <2> QED
    BY Zenon, <1>9, <2>1, <2>2
<1> QED
  BY <1>3, <1>10, <1>16

(* iput() is through.                                                      *)
LEMMA PutEndIs ==
  ASSUME Shape, NEW p \in Procs, put_end(p)
  PROVE  /\ Shape' /\ pc[p] = "put" /\ arg[p].f \in File /\ put(arg[p].f)
         /\ UNCHANGED <<p_ofile, i_count, locked>>
         /\ \E l \in Pc \ {"put"}, a \in Args : Goes(p, l, a)
<1>1. /\ p \in alive /\ pc[p] = "put" /\ put(arg[p].f)
      /\ goto(p, arg[p].next, [arg[p] EXCEPT !.f = NULL, !.next = "user"])
      /\ UNCHANGED <<p_ofile, p_fdflag, alive, i_count, locked, data, ncall>>
  BY DEF put_end, at
<1>2. ProcTypes /\ FileTypes /\ InodeTypes
  BY DEF Shape
<1>3. Local(p, p_ofile[p], "put", arg[p], alive)
  BY Zenon, <1>1 DEF Shape, Locals
<1>4. /\ arg[p].f \in File /\ arg[p].next \in {"user", "dup2", "exit", "exec"}
      /\ arg[p].next = "dup2" =>
           arg[p].off \in File /\ p_ofile[p][arg[p].fd] = NULL
  BY <1>3 DEF Local
<1>5. PICK l \in Pc \ {"put"} :
        l = arg[p].next /\ l \in {"user", "dup2", "exit", "exec"}
  BY <1>4 DEF Pc
<1>6. "user" \in Pc /\ arg[p] \in Args
  BY <1>2 DEF Pc, ProcTypes
<1>7. PICK a \in Args : /\ a = [arg[p] EXCEPT !.f = NULL, !.next = "user"]
                        /\ a.off = arg[p].off /\ a.fd = arg[p].fd
  <2>1. PICK a : a = [arg[p] EXCEPT !.f = NULL, !.next = "user"]
    OBVIOUS
  <2>2. NULL \in File \cup {NULL}
    OBVIOUS
  <2>3. a \in Args /\ a.off = arg[p].off /\ a.fd = arg[p].fd
    BY Zenon, <1>6, <2>1, <2>2 DEF Args
  <2> QED
    BY Zenon, <2>1, <2>3
<1>8. Goes(p, l, a)
  BY <1>1, <1>2, <1>5, <1>7, GotoIs
<1>9. FileTypes' /\ InodeTypes'
  BY Zenon, <1>1, <1>2, <1>4, PutTypes, InodeTypesSame
<1>10. Local(p, p_ofile[p], l, a, alive)
  BY <1>1, <1>4, <1>5, <1>7 DEF Local, Holding
<1>11. Shape'
  BY Zenon, <1>1, <1>8, <1>9, <1>10, ShapeGoes
<1> QED
  BY <1>1, <1>4, <1>8, <1>11

(* A descriptor more for a file that is open: dup(), dup2().               *)
LEMMA DupTypes ==
  ASSUME FileTypes, InodeTypes, ProcTypes, NEW p \in Procs, NEW f \in File,
         NEW fd \in Fd, dup(p, f, fd), UNCHANGED <<locked, data>>
  PROVE  /\ FileTypes' /\ InodeTypes' /\ sets(p_ofile, p_ofile', p, fd, f)
         /\ \A q \in Procs \ {p} : p_ofile'[q] = p_ofile[q]
<1>1. /\ p_ofile' = [p_ofile EXCEPT ![p][fd] = f]
      /\ f_count' = [f_count EXCEPT ![f] = wrap(f_count[f] + 1)]
      /\ i_count' = [i_count EXCEPT ![f_ino[f]] = @ + 1]
      /\ UNCHANGED <<f_oflag, f_offset, f_ino>>
  BY DEF dup
<1>2. wrap(f_count[f] + 1) \in Int
  BY FileAssumption DEF wrap, FileTypes
<1>3. FileTypes'
  BY <1>1, <1>2 DEF FileTypes
<1>4. InodeTypes'
  <2>0. f_ino[f] \in Inodes
    BY DEF FileTypes
  <2>1. i_count' \in [Inodes -> Nat]
    BY <1>1, <2>0 DEF InodeTypes
  <2> QED
    BY <2>1 DEF InodeTypes
<1> QED
  BY Zenon, <1>1, <1>3, <1>4, SetOfile

LEMMA DupIs ==
  ASSUME Shape, NEW p \in Procs, NEW fd \in Fd, do_dup(p, fd)
  PROVE  /\ Shape' /\ pc[p] = "user" /\ UNCHANGED <<locked, pc, arg>>
         /\ \E f \in File, newfd \in Fd :
              p_ofile[p][newfd] = NULL /\ dup(p, f, newfd)
<1>1. /\ p \in alive /\ pc[p] = "user" /\ p_ofile[p][fd] # NULL
      /\ \E newfd \in Fd : ufalloc(p, newfd) /\ dup(p, p_ofile[p][fd], newfd)
      /\ UNCHANGED <<p_fdflag, alive, locked, data, pc, arg>>
  BY DEF do_dup, call, at
<1>2. ProcTypes /\ FileTypes /\ InodeTypes
  BY DEF Shape
<1>3. PICK f \in File : f = p_ofile[p][fd]
  BY <1>1, <1>2 DEF ProcTypes, OFile
<1>4. PICK newfd \in Fd : p_ofile[p][newfd] = NULL /\ dup(p, f, newfd)
  BY Zenon, <1>1, <1>3 DEF ufalloc
<1>5. /\ FileTypes' /\ InodeTypes' /\ sets(p_ofile, p_ofile', p, newfd, f)
      /\ \A q \in Procs \ {p} : p_ofile'[q] = p_ofile[q]
  BY Zenon, <1>1, <1>2, <1>4, DupTypes
<1>6. Goes(p, "user", arg[p])
  BY <1>1, <1>2, StaysIs
<1>7. p_ofile' \in OFile
  BY <1>5 DEF sets
<1>8. p_fdflag' \in [Procs -> [Fd -> BOOLEAN]] /\ alive' = alive
  BY Zenon, <1>1, <1>2 DEF ProcTypes
<1>9. Local(p, p_ofile'[p], "user", arg[p], alive')
  BY Zenon, <1>1, <1>8, LocalUser
<1>10. Shape'
  BY Zenon, <1>5, <1>6, <1>7, <1>8, <1>9, ShapeStep
<1> QED
  BY Zenon, <1>1, <1>4, <1>10

LEMMA Dup2EndIs ==
  ASSUME Shape, NEW p \in Procs, dup2_end(p)
  PROVE  /\ Shape' /\ pc[p] = "dup2" /\ UNCHANGED locked
         /\ Goes(p, "user", None)
         /\ \E f \in File, newfd \in Fd :
              p_ofile[p][newfd] = NULL /\ dup(p, f, newfd)
<1>1. /\ p \in alive /\ pc[p] = "dup2" /\ dup(p, arg[p].off, arg[p].fd)
      /\ goto(p, "user", None)
      /\ UNCHANGED <<p_fdflag, alive, locked, data, ncall>>
  BY DEF dup2_end, at, done
<1>2. ProcTypes /\ FileTypes /\ InodeTypes
  BY Zenon DEF Shape
<1>3. Local(p, p_ofile[p], "dup2", arg[p], alive)
  BY <1>1 DEF Shape, Locals
<1>4. PICK f \in File, newfd \in Fd :
        /\ f = arg[p].off /\ newfd = arg[p].fd /\ p_ofile[p][newfd] = NULL
  BY Zenon, <1>2, <1>3 DEF Local, ProcTypes, Args
<1>5. /\ FileTypes' /\ InodeTypes' /\ sets(p_ofile, p_ofile', p, newfd, f)
      /\ \A q \in Procs \ {p} : p_ofile'[q] = p_ofile[q]
  BY Zenon, <1>1, <1>2, <1>4, DupTypes
<1>6. Goes(p, "user", None)
  <2>1. "user" \in Pc
    BY DEF Pc
  <2> QED
    BY Zenon, <1>1, <1>2, <2>1, GotoIs, NoneIs
<1>7. p_ofile' \in OFile
  BY <1>5 DEF sets
<1>8. p_fdflag' \in [Procs -> [Fd -> BOOLEAN]] /\ alive' = alive
  BY Zenon, <1>1, <1>2 DEF ProcTypes
<1>9. Local(p, p_ofile'[p], "user", None, alive')
  BY Zenon, <1>1, <1>8, LocalUser
<1>10. Shape'
  BY Zenon, <1>5, <1>6, <1>7, <1>8, <1>9, ShapeStep
<1> QED
  BY Zenon, <1>1, <1>4, <1>6, <1>10
-----------------------------------------------------------------------------
(* The steps that leave descriptors, files and counts alone.               *)
Locking == {"trunc", "readi", "writei"}

(* p lets go of the inode it has locked, or locks the one of its file.     *)
LockOk(p) ==
  \A i \in Inodes :
    \/ locked'[i] = NoProc
    \/ /\ locked'[i] = locked[i]
       /\ pc[p] \in Locking => i # f_ino[arg[p].f]
    \/ locked'[i] = p /\ pc'[p] \in Locking /\ f_ino'[arg'[p].f] = i

Quiet(p) ==
  /\ pc[p] # "put" /\ UNCHANGED <<p_ofile, f_count, f_ino, i_count>>
  /\ LockOk(p)
  /\ \E l \in Pc \ {"put"}, a \in Args : Goes(p, l, a)

LEMMA QuietIs ==
  ASSUME Shape, NEW p \in Procs, NEW l \in Pc \ {"put"}, NEW a \in Args,
         goto(p, l, a), UNCHANGED <<p_ofile, p_fdflag, alive>>,
         UNCHANGED <<f_count, f_ino, i_count>>, FileTypes', InodeTypes',
         Local(p, p_ofile[p], l, a, alive), pc[p] # "put", LockOk(p)
  PROVE  Shape' /\ Quiet(p)
<1>1. Goes(p, l, a)
  BY Zenon, GotoIs DEF Shape
<1>2. Shape'
  BY Zenon, <1>1, ShapeGoes
<1> QED
  BY Zenon, <1>1, <1>2 DEF Quiet

LEMMA StillIs ==
  ASSUME Shape, NEW p \in Procs, UNCHANGED <<pc, arg, p_ofile, alive>>,
         UNCHANGED <<f_count, f_ino, i_count, locked>>,
         p_fdflag' \in [Procs -> [Fd -> BOOLEAN]],
         FileTypes', InodeTypes', pc[p] = "user", p \in alive
  PROVE  Shape' /\ Quiet(p)
<1>1. ProcTypes
  BY DEF Shape
<1>2. Goes(p, "user", arg[p]) /\ arg[p] \in Args
  BY Zenon, <1>1, StaysIs DEF ProcTypes
<1>3. "user" \in Pc \ {"put"}
  BY Zenon DEF Pc
<1>4. Local(p, p_ofile'[p], "user", arg[p], alive')
  BY LocalUser
<1>5. p_ofile' \in OFile /\ \A q \in Procs \ {p} : p_ofile'[q] = p_ofile[q]
  BY Zenon, <1>1 DEF ProcTypes
<1>6. Shape'
  BY Zenon, <1>2, <1>4, <1>5, ShapeStep
<1>7. LockOk(p)
  BY DEF LockOk, Locking
<1> QED
  BY Zenon, <1>2, <1>3, <1>6, <1>7 DEF Quiet

LEMMA UintType ==
  ASSUME NEW n \in Nat
  PROVE  uint(n) \in 0 .. UINT_MAX
<1>1. UINT_MAX + 1 \in Nat \ {0}
  BY FileAssumption
<1>2. n % (UINT_MAX + 1) \in 0 .. (UINT_MAX + 1) - 1
  BY <1>1
<1> QED
  BY <1>2, FileAssumption DEF uint

(* writei() does not make a file larger than MAX_FILESIZ.                  *)
LEMMA WriteiType ==
  ASSUME NEW V, NEW d \in Seq(V), Len(d) <= MAX_FILESIZ, NEW p \in V,
         NoProc \in V, NEW off \in Nat, off <= MAX_FILESIZ, NEW cnt \in Nat
  PROVE  /\ writei(d, p, off, cnt) \in Seq(V)
         /\ Len(writei(d, p, off, cnt)) <= MAX_FILESIZ
<1>1. MAX_FILESIZ \in Nat /\ Len(d) \in Nat
  BY FileAssumption
<1>2. PICK n : n = IF off + cnt > MAX_FILESIZ THEN MAX_FILESIZ - off ELSE cnt
  OBVIOUS
<1>3. n \in Nat /\ off + n <= MAX_FILESIZ
  BY <1>1, <1>2
<1>4. PICK size : size = IF n > 0 /\ off + n > Len(d) THEN off + n ELSE Len(d)
  OBVIOUS
<1>5. size \in Nat /\ size <= MAX_FILESIZ
  BY <1>1, <1>3, <1>4
<1>6. PICK s : s = [k \in 1 .. size |-> IF k \in off + 1 .. off + n THEN p
                                       ELSE IF k <= Len(d) THEN d[k] ELSE NoProc]
  BY Zenon
<1>7. s = writei(d, p, off, cnt)
  BY <1>2, <1>4, <1>6 DEF writei
<1>8. ASSUME NEW k \in 1 .. size
      PROVE  s[k] \in V
  <2>1. k \in Nat /\ k >= 1
    BY <1>5
  <2>2. k <= Len(d) => d[k] \in V
    BY <1>1, <2>1
  <2> QED
    BY <1>6, <2>2
<1>9. s \in Seq(V) /\ Len(s) = size
  <2>1. s \in [1 .. size -> V]
    BY <1>6, <1>8
  <2> QED
    BY <1>5, <2>1
<1> QED
  BY Zenon, <1>5, <1>7, <1>9

LEMMA SeekType ==
  ASSUME FileTypes, InodeTypes, NEW f \in File, NEW off \in Seeks,
         NEW whence \in {"SET", "CUR", "END"}
  PROVE  seek_to(f, off, whence) \in Int /\
         (seek_to(f, off, whence) >= 0 =>
            seek_to(f, off, whence) \in 0 .. UINT_MAX)
<1>1. off \in 0 .. UINT_MAX /\ UINT_MAX \in Nat
  BY FileAssumption
<1>2. f_offset[f] \in Nat /\ Len(data[f_ino[f]]) \in Nat
  <2>1. f_ino[f] \in Inodes /\ f_offset[f] \in 0 .. UINT_MAX
    BY DEF FileTypes
  <2> QED
    BY <1>1, <2>1 DEF InodeTypes
<1>3. PICK base : base = IF whence = "CUR" THEN f_offset[f]
                         ELSE Len(data[f_ino[f]])
  BY Zenon
<1>4. base \in Nat /\ uint(base + off) \in 0 .. UINT_MAX
  <2>1. base \in Nat /\ base + off \in Nat
    BY <1>1, <1>2, <1>3
  <2> QED
    BY <2>1, UintType
<1>5. CASE whence = "SET"
  <2>1. seek_to(f, off, whence) = IF off > UINT_MAX \div 2 THEN -1 ELSE off
    BY Zenon, <1>5 DEF seek_to
  <2> QED
    BY <1>1, <2>1
<1>6. CASE whence # "SET"
  <2>1. seek_to(f, off, whence) =
          IF uint(base + off) < base THEN -1 ELSE uint(base + off)
    BY Zenon, <1>3, <1>6 DEF seek_to
  <2> QED
    BY <1>1, <1>4, <2>1
<1> QED
  BY <1>5, <1>6

LEMMA TruncIs ==
  ASSUME Shape, NEW p \in Procs, itrunc(p)
  PROVE  Shape' /\ Quiet(p)
<1>1. /\ p \in alive /\ pc[p] = "trunc"
      /\ data' = [data EXCEPT ![f_ino[arg[p].f]] = <<>>]
      /\ locked' = [locked EXCEPT ![f_ino[arg[p].f]] = NoProc]
      /\ goto(p, "user", None)
      /\ UNCHANGED <<p_ofile, p_fdflag, alive, fvars, i_count, ncall>>
  BY DEF itrunc, at, done
<1>2. FileTypes /\ InodeTypes
  BY DEF Shape
<1>3. FileTypes' /\ UNCHANGED <<f_count, f_ino>>
  BY Zenon, <1>1, <1>2, FileTypesSame DEF fvars
<1>4. InodeTypes'
  <2>1. locked' \in [Inodes -> Procs \cup {NoProc}]
    BY Zenon, <1>1, <1>2 DEF InodeTypes
  <2>2. /\ <<>> \in Seq(Procs \cup {NoProc}) /\ Len(<<>>) = 0
        /\ MAX_FILESIZ \in Nat
    BY FileAssumption
  <2>3. /\ data' \in [Inodes -> Seq(Procs \cup {NoProc})]
        /\ \A i \in Inodes : data'[i] = data[i] \/ data'[i] = <<>>
    BY Zenon, <1>1, <1>2, <2>2 DEF InodeTypes
  <2>4. \A i \in Inodes : Len(data'[i]) <= MAX_FILESIZ
    BY <1>2, <2>2, <2>3 DEF InodeTypes
  <2> QED
    BY Zenon, <1>1, <1>2, <2>1, <2>3, <2>4 DEF InodeTypes
<1>5. LockOk(p)
  BY <1>1, <1>2 DEF InodeTypes, LockOk, Locking
<1>6. "user" \in Pc \ {"put"} /\ Local(p, p_ofile[p], "user", None, alive)
  BY Zenon, <1>1, LocalUser DEF Pc
<1> QED
  BY Zenon, <1>1, <1>3, <1>4, <1>5, <1>6, NoneIs, QuietIs

(* The end of a call that has locked the inode of its file.                *)
LEMMA UnlockIs ==
  ASSUME Shape, NEW p \in Procs, p \in alive, pc[p] \in Locking,
         locked' = [locked EXCEPT ![f_ino[arg[p].f]] = NoProc],
         goto(p, "user", None), FileTypes',
         data' \in [Inodes -> Seq(Procs \cup {NoProc})],
         \A i \in Inodes : Len(data'[i]) <= MAX_FILESIZ,
         UNCHANGED <<p_ofile, p_fdflag, alive, f_count, f_ino, i_count>>
  PROVE  Shape' /\ Quiet(p)
<1>1. InodeTypes'
  <2>1. locked' \in [Inodes -> Procs \cup {NoProc}]
    BY Zenon DEF InodeTypes, Shape
  <2> QED
    BY Zenon, <2>1 DEF InodeTypes, Shape
<1>2. LockOk(p)
  BY DEF InodeTypes, LockOk, Locking, Shape
<1>3. /\ "user" \in Pc \ {"put"} /\ Local(p, p_ofile[p], "user", None, alive)
      /\ pc[p] # "put"
  BY LocalUser DEF Pc, Locking
<1> QED
  BY Zenon, <1>1, <1>2, <1>3, NoneIs, QuietIs

LEMMA ReadEndIs ==
  ASSUME Shape, NEW p \in Procs, read_end(p)
  PROVE  Shape' /\ Quiet(p)
<1>1. /\ p \in alive /\ pc[p] = "readi" /\ goto(p, "user", None)
      /\ UNCHANGED <<p_ofile, p_fdflag, alive, f_count, f_oflag, f_ino, i_count,
                     data, ncall>>
  BY DEF read_end, at, done
<1>2. FileTypes /\ InodeTypes /\ ProcTypes
  BY Zenon DEF Shape
<1>3. PICK f \in File : f = arg[p].f
  BY Zenon, <1>1 DEF Shape, Locals, Local, Holding
<1>4. arg[p].cnt \in Nat /\ f_offset[f] \in 0 .. UINT_MAX /\ f_offset[f] \in Nat
  BY SMTT(30), <1>2, <1>3, FileAssumption DEF ProcTypes, FileTypes, Args
<1>5. PICK r : f_offset' = [f_offset EXCEPT ![f] =
                  IF r < 0 THEN @ ELSE uint(f_offset[f] + arg[p].cnt)]
  BY Zenon, <1>3 DEF read_end
<1>6. uint(f_offset[f] + arg[p].cnt) \in 0 .. UINT_MAX
  BY <1>4, UintType
<1>7. FileTypes'
  <2>1. f_offset' \in [File -> 0 .. UINT_MAX]
    BY Zenon, <1>2, <1>4, <1>5, <1>6 DEF FileTypes
  <2> QED
    BY <1>1, <1>2, <2>1 DEF FileTypes
<1>8. locked' = [locked EXCEPT ![f_ino[arg[p].f]] = NoProc]
  BY Zenon, <1>3 DEF read_end
<1>9. /\ data' \in [Inodes -> Seq(Procs \cup {NoProc})]
      /\ \A i \in Inodes : Len(data'[i]) <= MAX_FILESIZ
  BY Zenon, <1>1, <1>2 DEF InodeTypes
<1>10. pc[p] \in Locking
  BY Zenon, <1>1 DEF Locking
<1> QED
  BY Zenon, <1>1, <1>7, <1>8, <1>9, <1>10, UnlockIs

LEMMA WriteEndIs ==
  ASSUME Shape, NEW p \in Procs, write_end(p)
  PROVE  Shape' /\ Quiet(p)
<1>1. /\ p \in alive /\ pc[p] = "writei" /\ goto(p, "user", None)
      /\ UNCHANGED <<p_ofile, p_fdflag, alive, f_count, f_oflag, f_ino, i_count,
                     ncall>>
  BY Zenon DEF write_end, at, done
<1>2. FileTypes /\ InodeTypes /\ ProcTypes
  BY Zenon DEF Shape
<1>3. PICK f \in File : f = arg[p].f
  BY Zenon, <1>1 DEF Shape, Locals, Local, Holding
<1>4. PICK i \in Inodes : i = f_ino[f]
  BY Zenon, <1>2 DEF FileTypes
<1>5. PICK off \in Nat, cnt \in Nat :
        off = arg[p].off /\ cnt = arg[p].cnt /\ off <= MAX_FILESIZ
  <2>1. arg[p] \in Args
    BY Zenon, <1>2 DEF ProcTypes
  <2>2. arg[p].off \in Nat /\ arg[p].cnt \in 0 .. UINT_MAX
    BY <2>1 DEF Args
  <2>3. arg[p].off <= MAX_FILESIZ
    BY Zenon, <1>1 DEF Shape, Locals, Local
  <2>4. arg[p].cnt \in Nat
    BY <2>2, FileAssumption
  <2> QED
    BY <2>2, <2>3, <2>4
<1>6. /\ data' = [data EXCEPT ![i] = writei(data[i], p, off, cnt)]
      /\ f_offset' = [f_offset EXCEPT ![f] = uint(off + cnt)]
      /\ locked' = [locked EXCEPT ![f_ino[arg[p].f]] = NoProc]
  BY Zenon, <1>3, <1>4, <1>5 DEF write_end
<1>7. uint(off + cnt) \in 0 .. UINT_MAX
  BY UintType
<1>8. FileTypes'
  <2>1. f_offset' \in [File -> 0 .. UINT_MAX]
    BY Zenon, <1>2, <1>6, <1>7 DEF FileTypes
  <2> QED
    BY <1>1, <1>2, <2>1 DEF FileTypes
<1>9. PICK d : /\ d = writei(data[i], p, off, cnt)
               /\ d \in Seq(Procs \cup {NoProc}) /\ Len(d) <= MAX_FILESIZ
  <2>0. PICK V : V = Procs \cup {NoProc}
    BY Zenon
  <2>1. /\ data[i] \in Seq(V) /\ Len(data[i]) <= MAX_FILESIZ
        /\ p \in V /\ NoProc \in V
    BY <1>2, <2>0 DEF InodeTypes
  <2>2. /\ writei(data[i], p, off, cnt) \in Seq(V)
        /\ Len(writei(data[i], p, off, cnt)) <= MAX_FILESIZ
    BY Zenon, <1>5, <2>1, WriteiType
  <2> QED
    BY <2>0, <2>2
<1>10. /\ data' \in [Inodes -> Seq(Procs \cup {NoProc})]
       /\ \A j \in Inodes : Len(data'[j]) <= MAX_FILESIZ
  BY Zenon, <1>2, <1>6, <1>9 DEF InodeTypes
<1>11. pc[p] \in Locking
  BY Zenon, <1>1 DEF Locking
<1> QED
  BY Zenon, <1>1, <1>6, <1>8, <1>10, <1>11, UnlockIs

LEMMA LockIs ==
  ASSUME Shape, NEW p \in Procs, NEW c \in {"read", "write"},
         NEW d \in {"readi", "writei"}, c = "read" <=> d = "readi",
         lock_ino(p, c, d)
  PROVE  Shape' /\ Quiet(p)
<1>1. /\ p \in alive /\ pc[p] = c
      /\ locked' = [locked EXCEPT ![f_ino[arg[p].f]] = p]
      /\ goto(p, d, arg[p])
      /\ UNCHANGED <<p_ofile, p_fdflag, alive, fvars, i_count, data, ncall>>
  BY DEF lock_ino, at
<1>2. FileTypes /\ InodeTypes /\ ProcTypes
  BY Zenon DEF Shape
<1>3. FileTypes' /\ UNCHANGED <<f_count, f_ino>>
  BY Zenon, <1>1, <1>2, FileTypesSame DEF fvars
<1>4. InodeTypes'
  <2>1. locked' \in [Inodes -> Procs \cup {NoProc}]
    BY Zenon, <1>1, <1>2 DEF InodeTypes
  <2> QED
    BY Zenon, <1>1, <1>2, <2>1 DEF InodeTypes
<1>5. d \in Pc \ {"put"} /\ arg[p] \in Args /\ pc[p] # "put"
  BY <1>1, <1>2 DEF Pc, ProcTypes
<1>6. LockOk(p)
  <2>1. pc'[p] = d /\ arg'[p] = arg[p]
    BY Zenon, <1>1, <1>2 DEF goto, ProcTypes
  <2> QED
    BY <1>1, <1>2, <1>3, <2>1 DEF InodeTypes, LockOk, Locking
<1>7. Local(p, p_ofile[p], d, arg[p], alive)
  <2>1. Local(p, p_ofile[p], c, arg[p], alive)
    BY Zenon, <1>1 DEF Shape, Locals
  <2> QED
    BY Zenon, <2>1 DEF Local, Holding
<1> QED
  BY Zenon, <1>1, <1>3, <1>4, <1>5, <1>6, <1>7, QuietIs

(* A call that begins, with nothing locked.                                *)
LEMMA BeginIs ==
  ASSUME Shape, NEW p \in Procs, p \in alive, pc[p] = "user",
         NEW l \in Pc \ {"put"}, NEW a \in Args, goto(p, l, a),
         UNCHANGED <<p_ofile, p_fdflag, alive, fvars, i_count, locked, data>>,
         Local(p, p_ofile[p], l, a, alive)
  PROVE  Shape' /\ Quiet(p)
<1>1. FileTypes' /\ InodeTypes' /\ UNCHANGED <<f_count, f_ino>>
  BY Zenon, FileTypesSame, InodeTypesSame DEF Shape, fvars
<1>2. LockOk(p)
  BY Zenon DEF LockOk, Locking
<1> QED
  BY Zenon, <1>1, <1>2, QuietIs

LEMMA FileOf ==
  ASSUME Shape, NEW p \in Procs, NEW fd \in Fd, p_ofile[p][fd] # NULL
  PROVE  p_ofile[p][fd] \in File
BY DEF Shape, ProcTypes, OFile

LEMMA ReadIs ==
  ASSUME Shape, NEW p \in Procs, NEW fd \in Fd, NEW cnt \in Cnts,
         do_read(p, fd, cnt)
  PROVE  Shape' /\ Quiet(p)
<1>1. /\ p \in alive /\ pc[p] = "user" /\ p_ofile[p][fd] # NULL
      /\ goto(p, "read", [None EXCEPT !.f = p_ofile[p][fd], !.cnt = cnt])
      /\ UNCHANGED <<p_ofile, p_fdflag, alive, fvars, i_count, locked, data>>
  BY DEF do_read, call, at
<1>2. PICK f \in File : f = p_ofile[p][fd]
  BY Zenon, <1>1, FileOf
<1>3. cnt \in 0 .. UINT_MAX
  BY FileAssumption
<1>4. PICK a \in Args : a = [None EXCEPT !.f = f, !.cnt = cnt] /\ a.f = f
  <2>1. PICK a : a = [None EXCEPT !.f = f, !.cnt = cnt]
    OBVIOUS
  <2>2. a \in Args /\ a.f = f
    BY Zenon, <1>3, <2>1, NoneIs DEF Args
  <2> QED
    BY Zenon, <2>1, <2>2
<1>5. goto(p, "read", a)
  BY <1>1, <1>2, <1>4
<1>6. "read" \in Pc \ {"put"} /\ Local(p, p_ofile[p], "read", a, alive)
  BY Zenon, <1>1, <1>2, <1>4 DEF Pc, Local, Holding
<1> QED
  BY <1>1, <1>5, <1>6, BeginIs

LEMMA WriteIs ==
  ASSUME Shape, NEW p \in Procs, NEW fd \in Fd, NEW cnt \in Cnts,
         do_write(p, fd, cnt)
  PROVE  Shape' /\ Quiet(p)
<1>1. /\ p \in alive /\ pc[p] = "user" /\ p_ofile[p][fd] # NULL
      /\ UNCHANGED <<p_ofile, p_fdflag, alive, fvars, i_count, locked, data>>
  BY Zenon DEF do_write, call, at
<1>2. PICK f \in File : f = p_ofile[p][fd]
  BY Zenon, <1>1, FileOf
<1>3. cnt \in 0 .. UINT_MAX /\ UINT_MAX \in Nat
  BY FileAssumption
<1>4. f_offset[f] \in Nat /\ Len(data[f_ino[f]]) \in Nat
  <2>1. f_ino[f] \in Inodes /\ f_offset[f] \in 0 .. UINT_MAX
    BY Zenon DEF FileTypes, Shape
  <2>2. data[f_ino[f]] \in Seq(Procs \cup {NoProc})
    BY Zenon, <2>1 DEF InodeTypes, Shape
  <2> QED
    BY <1>3, <2>1, <2>2
<1>5. PICK off : /\ off = IF "APPEND" \in f_oflag[f] THEN Len(data[f_ino[f]])
                                                     ELSE f_offset[f]
                 /\ off <= MAX_FILESIZ
                 /\ goto(p, "write",
                         [None EXCEPT !.f = f, !.off = off, !.cnt = cnt])
  BY Zenon, <1>2 DEF do_write
<1>6. off \in Nat
  BY <1>4, <1>5
<1>7. PICK a : a = [None EXCEPT !.f = f, !.off = off, !.cnt = cnt]
  BY Zenon
<1>8. a \in Args /\ a.f = f /\ a.off = off
  BY Zenon, <1>3, <1>6, <1>7, NoneIs DEF Args
<1>9. goto(p, "write", a)
  BY Zenon, <1>5, <1>7
<1>10. "write" \in Pc \ {"put"} /\ Local(p, p_ofile[p], "write", a, alive)
  BY Zenon, <1>1, <1>2, <1>5, <1>8 DEF Pc, Local, Holding
<1> QED
  BY Zenon, <1>1, <1>8, <1>9, <1>10, BeginIs

LEMMA SeekIs ==
  ASSUME Shape, NEW p \in Procs, NEW fd \in Fd, NEW off \in Seeks,
         NEW whence \in {"SET", "CUR", "END"}, do_lseek(p, fd, off, whence)
  PROVE  Shape' /\ Quiet(p)
<1>1. /\ p \in alive /\ pc[p] = "user" /\ p_ofile[p][fd] # NULL
      /\ UNCHANGED <<p_ofile, p_fdflag, alive, f_count, f_oflag, f_ino, i_count,
                     locked, data, pc, arg>>
  BY Zenon DEF do_lseek, call, at
<1>2. PICK f \in File : f = p_ofile[p][fd]
  BY <1>1, FileOf
<1>3. PICK r : r = seek_to(f, off, whence)
  OBVIOUS
<1>4. r \in Int /\ (r >= 0 => r \in 0 .. UINT_MAX)
  BY Zenon, <1>3, SeekType DEF Shape
<1>5. f_offset' = [f_offset EXCEPT ![f] = IF r < 0 THEN @ ELSE r]
  BY Zenon, <1>2, <1>3 DEF do_lseek
<1>6. FileTypes' /\ InodeTypes'
  <2>1. (IF r < 0 THEN f_offset[f] ELSE r) \in 0 .. UINT_MAX
    BY <1>4 DEF FileTypes, Shape
  <2>2. f_offset' \in [File -> 0 .. UINT_MAX]
    BY Zenon, <1>5, <2>1 DEF FileTypes, Shape
  <2> QED
    BY Zenon, <1>1, <2>2, InodeTypesSame DEF FileTypes, Shape
<1>7. p_fdflag' \in [Procs -> [Fd -> BOOLEAN]]
  BY <1>1 DEF Shape, ProcTypes
<1> QED
  BY Zenon, <1>1, <1>6, <1>7, StillIs

LEMMA FcntlIs ==
  ASSUME Shape, NEW p \in Procs, NEW fd \in Fd,
         \/ \E flag \in Oflags : fcntl_setfl(p, fd, flag)
         \/ \E b \in BOOLEAN : fcntl_setfd(p, fd, b)
  PROVE  Shape' /\ Quiet(p)
<1>1. CASE \E flag \in Oflags : fcntl_setfl(p, fd, flag)
  <2>1. PICK flag \in Oflags :
          /\ p \in alive /\ pc[p] = "user"
          /\ f_oflag' = [f_oflag EXCEPT ![p_ofile[p][fd]] = flag]
          /\ UNCHANGED <<p_ofile, p_fdflag, alive, f_count, f_offset, f_ino,
                         i_count, locked, data, pc, arg>>
    BY Zenon, <1>1 DEF fcntl_setfl, call, at
  <2>2. f_oflag' \in [File -> Oflag]
    BY Zenon, <2>1, FileAssumption DEF Shape, FileTypes
  <2>3. /\ FileTypes' /\ InodeTypes'
        /\ p_fdflag' \in [Procs -> [Fd -> BOOLEAN]]
    BY Zenon, <2>1, <2>2, InodeTypesSame DEF Shape, FileTypes, ProcTypes
  <2> QED
    BY Zenon, <2>1, <2>3, StillIs
<1>2. CASE \E b \in BOOLEAN : fcntl_setfd(p, fd, b)
  <2>1. PICK b \in BOOLEAN :
          /\ p \in alive /\ pc[p] = "user"
          /\ p_fdflag' = [p_fdflag EXCEPT ![p][fd] = b]
          /\ UNCHANGED <<p_ofile, alive, fvars, i_count, locked, data, pc, arg>>
    BY Zenon, <1>2 DEF fcntl_setfd, call, at
  <2>2. FileTypes' /\ InodeTypes' /\ UNCHANGED <<f_count, f_ino>>
    BY <2>1, FileTypesSame, InodeTypesSame DEF Shape, fvars
  <2>3. p_fdflag' \in [Procs -> [Fd -> BOOLEAN]]
    <3>1. p_fdflag \in [Procs -> [Fd -> BOOLEAN]]
      BY DEF Shape, ProcTypes
    <3>2. PICK r : r = [p_fdflag[p] EXCEPT ![fd] = b]
      BY Zenon
    <3>3. r \in [Fd -> BOOLEAN] /\ p_fdflag' = [p_fdflag EXCEPT ![p] = r]
      BY <2>1, <3>1, <3>2
    <3> QED
      BY <3>1, <3>3
  <2> QED
    BY Zenon, <2>1, <2>2, <2>3, StillIs
<1> QED
  BY Zenon, <1>1, <1>2

LEMMA StartIs ==
  ASSUME Shape, NEW p \in Procs, NEW c \in {"exit", "exec"}, start(p, c)
  PROVE  Shape' /\ Quiet(p)
<1>1. /\ p \in alive /\ pc[p] = "user" /\ goto(p, c, None)
      /\ UNCHANGED <<p_ofile, p_fdflag, alive, fvars, i_count, locked, data>>
  BY Zenon DEF start, call, at
<1>2. c \in Pc \ {"put"} /\ Local(p, p_ofile[p], c, None, alive)
  BY Zenon, <1>1, LocalUser DEF Pc
<1> QED
  BY Zenon, <1>1, <1>2, NoneIs, BeginIs

LEMMA EndIs ==
  ASSUME Shape, NEW p \in Procs, NEW c \in {"exit", "exec"}, end(p, c)
  PROVE  Shape' /\ Quiet(p)
<1>1. /\ p \in alive /\ pc[p] = c /\ closes(p, c) = {}
      /\ alive' = IF c = "exit" THEN alive \ {p} ELSE alive
      /\ p_fdflag' = IF c = "exit"
                     THEN [p_fdflag EXCEPT ![p] = [fd \in Fd |-> FALSE]]
                     ELSE p_fdflag
      /\ goto(p, "user", None)
      /\ UNCHANGED <<p_ofile, fvars, i_count, locked, data, ncall>>
  BY DEF end, at, done
<1>2. ProcTypes
  BY DEF Shape
<1>3. FileTypes' /\ InodeTypes' /\ UNCHANGED <<f_count, f_ino>>
  BY Zenon, <1>1, FileTypesSame, InodeTypesSame DEF Shape, fvars
<1>4. p_fdflag' \in [Procs -> [Fd -> BOOLEAN]]
  BY <1>1, <1>2 DEF ProcTypes
<1>5. "user" \in Pc \ {"put"}
  BY Zenon DEF Pc
<1>6. Goes(p, "user", None)
  BY Zenon, <1>1, <1>2, <1>5, NoneIs, GotoIs
<1>7. p_ofile' \in OFile /\ \A q \in Procs \ {p} : p_ofile'[q] = p_ofile[q]
  BY <1>1, <1>2 DEF ProcTypes
<1>8. Local(p, p_ofile'[p], "user", None, alive')
  <2>1. CASE c = "exec"
    BY Zenon, <1>1, <2>1, LocalUser
  <2>2. CASE c = "exit"
    <3>1. \A fd \in Fd : p_ofile'[p][fd] = NULL
      BY Zenon, <1>1, <2>2 DEF closes
    <3> QED
      BY Zenon, <3>1 DEF Local, Holding
  <2> QED
    BY Zenon, <2>1, <2>2
<1>9. Shape'
  BY Zenon, <1>1, <1>3, <1>4, <1>6, <1>7, <1>8, ShapeStep
<1>10. LockOk(p)
  BY Zenon, <1>1 DEF LockOk, Locking
<1> QED
  BY Zenon, <1>1, <1>3, <1>5, <1>6, <1>9, <1>10, NoneIs DEF Quiet

(* A step that closes a descriptor: of close(), dup2(), exec() or exit().  *)
Closing(p) ==
  /\ pc[p] \in {"user", "exit", "exec"}
  /\ \E fd \in Fd, f \in File, next \in {"user", "dup2", "exit", "exec"},
        a \in Args : Closed(p, fd, f, next, a)

LEMMA SysCloseIs ==
  ASSUME Shape, NEW p \in Procs, NEW fd \in Fd, sys_close(p, fd)
  PROVE  Shape' /\ Closing(p)
<1>1. /\ p \in alive /\ pc[p] = "user" /\ do_close(p, fd, "user", None)
      /\ UNCHANGED <<p_fdflag, alive, data>>
  BY Zenon DEF sys_close, call, at
<1>2. Shape' /\ \E f \in File : Closed(p, fd, f, "user", None)
  BY Zenon, <1>1, NoneIs, CloseIs
<1> QED
  BY Zenon, <1>1, <1>2, NoneIs DEF Closing

LEMMA CloseNextIs ==
  ASSUME Shape, NEW p \in Procs, NEW c \in {"exit", "exec"}, close_next(p, c)
  PROVE  Shape' /\ Closing(p)
<1>1. /\ p \in alive /\ pc[p] = c /\ UNCHANGED <<p_fdflag, alive, data>>
  BY Zenon DEF close_next, at
<1>2. PICK fd \in Fd : do_close(p, fd, c, None)
  BY DEF close_next, closes
<1>3. PICK next \in {"user", "dup2", "exit", "exec"} :
        next = c /\ next # "dup2"
  BY Zenon
<1>4. None \in Args
  BY Zenon, NoneIs
<1>5. do_close(p, fd, next, None)
  BY Zenon, <1>2, <1>3
<1>6. Shape' /\ \E f \in File : Closed(p, fd, f, next, None)
  BY Zenon, <1>1, <1>3, <1>4, <1>5, CloseIs
<1>7. pc[p] \in {"user", "exit", "exec"}
  BY Zenon, <1>1
<1> QED
  BY Zenon, <1>4, <1>6, <1>7 DEF Closing

LEMMA Dup2Is ==
  ASSUME Shape, NEW p \in Procs, NEW fd \in Fd, NEW newfd \in Fd,
         do_dup2(p, fd, newfd)
  PROVE  Shape' /\ (Quiet(p) \/ Closing(p))
<1>1. /\ p \in alive /\ pc[p] = "user" /\ p_ofile[p][fd] # NULL
      /\ UNCHANGED <<p_fdflag, alive, data>>
  BY Zenon DEF do_dup2, call, at
<1>2. PICK f \in File : f = p_ofile[p][fd]
  BY <1>1, FileOf
<1>3. PICK a : a = [None EXCEPT !.off = f, !.fd = newfd]
  BY Zenon
<1>4. a \in Args /\ a.off = f /\ a.fd = newfd
  <2>1. f \in Nat
    BY FileAssumption DEF File
  <2> QED
    BY Zenon, <1>3, <2>1, NoneIs DEF Args
<1>5. \/ /\ p_ofile[p][newfd] = NULL /\ goto(p, "dup2", a)
         /\ UNCHANGED <<p_ofile, fvars, i_count, locked>>
      \/ do_close(p, newfd, "dup2", a)
  BY Zenon, <1>2, <1>3 DEF do_dup2
<1>6. CASE /\ p_ofile[p][newfd] = NULL /\ goto(p, "dup2", a)
           /\ UNCHANGED <<p_ofile, fvars, i_count, locked>>
  <2>1. "dup2" \in Pc \ {"put"} /\ Local(p, p_ofile[p], "dup2", a, alive)
    BY Zenon, <1>1, <1>4, <1>6 DEF Pc, Local, Holding
  <2> QED
    BY Zenon, <1>1, <1>4, <1>6, <2>1, BeginIs
<1>7. CASE do_close(p, newfd, "dup2", a)
  <2>1. Shape' /\ \E g \in File : Closed(p, newfd, g, "dup2", a)
    BY Zenon, <1>1, <1>4, <1>7, CloseIs
  <2> QED
    BY Zenon, <1>1, <1>4, <2>1 DEF Closing
<1> QED
  BY Zenon, <1>5, <1>6, <1>7
-----------------------------------------------------------------------------
(* The files of inode i.                                                   *)
filesof(n, i) == {f \in File : n[f] = i}

LEMMA UsersIs ==
  ASSUME NEW p, NEW f
  PROVE  /\ users({p}, f) = Cardinality(own(p_ofile, p, {f}))
         /\ users(Procs, f) = Cardinality(sel(p_ofile, {f}))
<1>1. {m \in {p} \X Fd : p_ofile[m[1]][m[2]] = f} =
        pairs(p, own(p_ofile, p, {f}))
  BY DEF pairs, own
<1>2. {m \in Procs \X Fd : p_ofile[m[1]][m[2]] = f} = sel(p_ofile, {f})
  BY DEF sel, Slot
<1>3. Cardinality(pairs(p, own(p_ofile, p, {f}))) =
        Cardinality(own(p_ofile, p, {f}))
  BY OwnPairs
<1> QED
  BY Zenon, <1>1, <1>2, <1>3 DEF users

(* The descriptors of inode i, as InodeCount has them.                     *)
slots(o, n, i) == {m \in Procs \X Fd : /\ o[m[1]][m[2]] # NULL
                                       /\ n[o[m[1]][m[2]]] = i}

LEMMA InodeSel ==
  ASSUME NEW o \in OFile, NEW n, NEW i
  PROVE  /\ slots(o, n, i) = sel(o, filesof(n, i))
         /\ \A p \in Procs : {fd \in Fd : o[p][fd] # NULL /\ n[o[p][fd]] = i} =
                               own(o, p, filesof(n, i))
<1>1. \A p \in Procs, fd \in Fd : o[p][fd] # NULL <=> o[p][fd] \in File
  BY Zenon, NullIs DEF OFile
<1>2. \A p \in Procs, fd \in Fd :
        o[p][fd] \in filesof(n, i) <=> o[p][fd] # NULL /\ n[o[p][fd]] = i
  BY <1>1 DEF filesof
<1>3. \A m \in Slot : m[1] \in Procs /\ m[2] \in Fd
  BY Zenon DEF Slot
<1> QED
  BY <1>2, <1>3 DEF sel, own, Slot, slots

(* fork(): q gets the descriptors of p.                                    *)
Forked(p, q) ==
  /\ p # q /\ \A fd \in Fd : p_ofile[q][fd] = NULL
  /\ p_ofile' = [p_ofile EXCEPT ![q] = p_ofile[p]]
  /\ \A f \in File :
       f_count'[f] = wrap(f_count[f] + Cardinality(own(p_ofile, p, {f})))
  /\ \A i \in Inodes :
       i_count'[i] = i_count[i] + Cardinality(own(p_ofile, p, filesof(f_ino, i)))
  /\ UNCHANGED <<f_ino, locked, pc, arg>>

LEMMA ForkIs ==
  ASSUME Shape, NEW p \in Procs, NEW q \in Procs, fork(p, q)
  PROVE  Shape' /\ Forked(p, q)
<1>1. /\ p \in alive /\ pc[p] = "user" /\ q \notin alive
      /\ alive' = alive \cup {q}
      /\ p_ofile' = [p_ofile EXCEPT ![q] = p_ofile[p]]
      /\ p_fdflag' = [p_fdflag EXCEPT ![q] = p_fdflag[p]]
      /\ UNCHANGED <<f_oflag, f_offset, f_ino, locked, data, pc, arg>>
  BY DEF fork, call, at
<1>2. ProcTypes /\ FileTypes /\ InodeTypes
  BY DEF Shape
<1>3. f_count' = [f \in File |-> wrap(f_count[f] + users({p}, f))]
  BY DEF fork
<1>4. i_count' = [i \in Inodes |-> i_count[i] +
       Cardinality({fd \in Fd : /\ p_ofile[p][fd] # NULL
                                /\ f_ino[p_ofile[p][fd]] = i})]
  BY Zenon DEF fork
<1>5. p # q /\ pc[q] = "user" /\ \A fd \in Fd : p_ofile[q][fd] = NULL
  BY Zenon, <1>1 DEF Shape, Locals, Local
<1>6. ASSUME NEW f \in File
      PROVE  /\ f_count'[f] =
                  wrap(f_count[f] + Cardinality(own(p_ofile, p, {f})))
             /\ f_count'[f] \in Int
  <2>1. /\ f_count'[f] = wrap(f_count[f] + users({p}, f))
        /\ users({p}, f) = Cardinality(own(p_ofile, p, {f}))
    BY Zenon, <1>3, UsersIs
  <2>2. Cardinality(own(p_ofile, p, {f})) \in Nat /\ f_count[f] \in Int
    BY Zenon, <1>2, OwnPairs DEF FileTypes
  <2> QED
    BY SMTT(30), <2>1, <2>2, FileAssumption DEF wrap
<1>7. ASSUME NEW i \in Inodes
      PROVE  /\ i_count'[i] = i_count[i] +
                  Cardinality(own(p_ofile, p, filesof(f_ino, i)))
             /\ i_count'[i] \in Nat
  <2>1. {fd \in Fd : p_ofile[p][fd] # NULL /\ f_ino[p_ofile[p][fd]] = i} =
          own(p_ofile, p, filesof(f_ino, i))
    BY SMTT(30), <1>2, InodeSel DEF ProcTypes
  <2>2. i_count'[i] = i_count[i] +
          Cardinality(own(p_ofile, p, filesof(f_ino, i)))
    BY Zenon, <1>4, <2>1
  <2>3. Cardinality(own(p_ofile, p, filesof(f_ino, i))) \in Nat
    BY Zenon, OwnPairs
  <2> QED
    BY SMTT(30), <1>2, <2>2, <2>3 DEF InodeTypes
<1>8. FileTypes' /\ InodeTypes'
  <2>1. f_count' \in [File -> Int]
    BY Zenon, <1>3, <1>6
  <2>2. i_count' \in [Inodes -> Nat]
    BY <1>4, <1>7
  <2> QED
    BY Zenon, <1>1, <1>2, <2>1, <2>2 DEF FileTypes, InodeTypes
<1>9. ProcTypes'
  BY Zenon, <1>1, <1>2 DEF ProcTypes, OFile
<1>10. ASSUME NEW r \in Procs
       PROVE  Local(r, p_ofile'[r], pc'[r], arg'[r], alive')
  <2>1. CASE r = q
    BY Zenon, <1>1, <1>5, <2>1, LocalUser
  <2>2. CASE r # q
    <3>1. p_ofile'[r] = p_ofile[r] /\ pc'[r] = pc[r] /\ arg'[r] = arg[r]
      BY Zenon, <1>1, <1>2, <2>2 DEF ProcTypes, OFile
    <3>2. Local(r, p_ofile[r], pc[r], arg[r], alive)
      BY Zenon DEF Shape, Locals
    <3> QED
      BY Zenon, <1>1, <2>2, <3>1, <3>2 DEF Local
  <2> QED
    BY Zenon, <2>1, <2>2
<1> QED
  BY Zenon, <1>1, <1>5, <1>6, <1>7, <1>8, <1>9, <1>10 DEF Shape, Locals, Forked
-----------------------------------------------------------------------------
Opening(p) ==
  /\ pc[p] = "user"
  /\ \E i \in Inodes, fd \in Fd, f \in File : Opened(p, i, fd, f)

Putting(p) ==
  /\ pc[p] = "put" /\ arg[p].f \in File /\ put(arg[p].f)
  /\ UNCHANGED <<p_ofile, i_count, locked>>
  /\ \E l \in Pc \ {"put"}, a \in Args : Goes(p, l, a)

Duping(p) ==
  /\ pc[p] \in {"user", "dup2"} /\ UNCHANGED locked
  /\ \E a \in Args : Goes(p, "user", a)
  /\ \E f \in File, fd \in Fd :
       /\ p_ofile[p][fd] = NULL /\ sets(p_ofile, p_ofile', p, fd, f)
       /\ dup(p, f, fd)

LEMMA DupingIs ==
  ASSUME Shape, NEW p \in Procs, dup2_end(p) \/ \E fd \in Fd : do_dup(p, fd)
  PROVE  Shape' /\ Duping(p)
<1>0. ProcTypes
  BY Zenon DEF Shape
<1>1. /\ Shape' /\ pc[p] \in {"user", "dup2"} /\ UNCHANGED locked
      /\ \E a \in Args : Goes(p, "user", a)
      /\ \E f \in File, fd \in Fd : p_ofile[p][fd] = NULL /\ dup(p, f, fd)
  <2>1. CASE dup2_end(p)
    BY Zenon, <2>1, Dup2EndIs, NoneIs
  <2>2. CASE \E fd \in Fd : do_dup(p, fd)
    <3>1. /\ Shape' /\ pc[p] = "user" /\ UNCHANGED <<locked, pc, arg>>
          /\ \E f \in File, fd \in Fd : p_ofile[p][fd] = NULL /\ dup(p, f, fd)
      BY Zenon, <2>2, DupIs
    <3>2. Goes(p, "user", arg[p]) /\ arg[p] \in Args
      BY Zenon, <1>0, <3>1, StaysIs DEF ProcTypes
    <3> QED
      BY Zenon, <3>1, <3>2
  <2> QED
    BY Zenon, <2>1, <2>2
<1>2. PICK f \in File, fd \in Fd : p_ofile[p][fd] = NULL /\ dup(p, f, fd)
  BY Zenon, <1>1
<1>3. p_ofile' = [p_ofile EXCEPT ![p][fd] = f]
  BY Zenon, <1>2 DEF dup
<1>4. sets(p_ofile, p_ofile', p, fd, f)
  BY Zenon, <1>0, <1>3, SetOfile
<1> QED
  BY Zenon, <1>1, <1>2, <1>4 DEF Duping

(* Every step is one of six kinds.                                         *)
LEMMA NextIs ==
  ASSUME Shape, Next
  PROVE  /\ Shape'
         /\ \E p \in Procs : \/ Quiet(p) \/ Opening(p) \/ Closing(p)
                             \/ Putting(p) \/ Duping(p)
                             \/ \E q \in Procs : Forked(p, q)
<1>1. PICK p \in Procs :
    \/ \E i \in Inodes, flag \in Oflags : do_open(p, i, flag)
    \/ \E fd \in Fd : sys_close(p, fd) \/ do_dup(p, fd)
    \/ \E fd \in Fd, newfd \in Fd : do_dup2(p, fd, newfd)
    \/ \E fd \in Fd, flag \in Oflags : fcntl_setfl(p, fd, flag)
    \/ \E fd \in Fd, b \in BOOLEAN : fcntl_setfd(p, fd, b)
    \/ \E q \in Procs : fork(p, q)
    \/ \E c \in {"exit", "exec"} : start(p, c)
    \/ \E fd \in Fd, cnt \in Cnts : do_read(p, fd, cnt) \/ do_write(p, fd, cnt)
    \/ \E fd \in Fd, off \in Seeks, whence \in {"SET", "CUR", "END"} :
         do_lseek(p, fd, off, whence)
    \/ lock_ino(p, "read", "readi") \/ lock_ino(p, "write", "writei")
    \/ itrunc(p) \/ read_end(p) \/ write_end(p) \/ Close(p)
  BY Zenon DEF Next
<1>2. CASE \E i \in Inodes, flag \in Oflags : do_open(p, i, flag)
  BY Zenon, <1>2, OpenIs DEF Opening
<1>3. CASE \E fd \in Fd : sys_close(p, fd)
  BY Zenon, <1>3, SysCloseIs
<1>4. CASE dup2_end(p) \/ \E fd \in Fd : do_dup(p, fd)
  BY Zenon, <1>4, DupingIs
<1>5. CASE \E fd \in Fd, newfd \in Fd : do_dup2(p, fd, newfd)
  BY Zenon, <1>5, Dup2Is
<1>6. CASE \/ \E fd \in Fd, flag \in Oflags : fcntl_setfl(p, fd, flag)
           \/ \E fd \in Fd, b \in BOOLEAN : fcntl_setfd(p, fd, b)
  BY Zenon, <1>6, FcntlIs
<1>7. CASE \E q \in Procs : fork(p, q)
  BY Zenon, <1>7, ForkIs
<1>8. CASE \E c \in {"exit", "exec"} : start(p, c)
  BY Zenon, <1>8, StartIs
<1>9. CASE \E fd \in Fd, cnt \in Cnts : do_read(p, fd, cnt) \/ do_write(p, fd, cnt)
  BY Zenon, <1>9, ReadIs, WriteIs
<1>10. CASE \E fd \in Fd, off \in Seeks, whence \in {"SET", "CUR", "END"} :
              do_lseek(p, fd, off, whence)
  BY Zenon, <1>10, SeekIs
<1>11. CASE lock_ino(p, "read", "readi") \/ lock_ino(p, "write", "writei")
  BY Zenon, <1>11, LockIs
<1>12. CASE itrunc(p) \/ read_end(p) \/ write_end(p)
  BY Zenon, <1>12, TruncIs, ReadEndIs, WriteEndIs
<1>13. CASE put_end(p)
  BY Zenon, <1>13, PutEndIs DEF Putting
<1>14. CASE \E c \in {"exit", "exec"} : close_next(p, c) \/ end(p, c)
  BY Zenon, <1>14, CloseNextIs, EndIs
<1> QED
  BY ZenonT(40), <1>1, <1>2, <1>3, <1>4, <1>5, <1>6, <1>7, <1>8, <1>9, <1>10,
     <1>11,
     <1>12, <1>13, <1>14 DEF Close

LEMMA InitShape ==
  ASSUME Init
  PROVE  Shape
<1>1. /\ p_ofile = [p \in Procs |-> [fd \in Fd |-> NULL]]
      /\ p_fdflag = [p \in Procs |-> [fd \in Fd |-> FALSE]]
      /\ \E p \in Procs : alive = {p}
      /\ f_count = [f \in File |-> 0]
      /\ f_oflag = [f \in File |-> {}]
      /\ f_offset = [f \in File |-> 0]
      /\ f_ino \in [File -> {CHOOSE i \in Inodes : TRUE}]
      /\ i_count = [i \in Inodes |-> 0]
      /\ locked = [i \in Inodes |-> NoProc]
      /\ data = [i \in Inodes |-> <<>>]
      /\ pc = [p \in Procs |-> "user"] /\ arg = [p \in Procs |-> None]
  BY Zenon DEF Init
<1>2. ProcTypes
  BY Zenon, <1>1, NoneIs DEF ProcTypes, OFile, Pc
<1>3. FileTypes
  <2>1. (CHOOSE i \in Inodes : TRUE) \in Inodes
    BY Zenon, FileAssumption
  <2>2. f_ino \in [File -> Inodes]
    BY Zenon, <1>1, <2>1
  <2>3. 0 \in 0 .. UINT_MAX /\ {} \in Oflag
    BY FileAssumption DEF Oflag
  <2> QED
    BY SMTT(30), <1>1, <2>2, <2>3 DEF FileTypes
<1>4. InodeTypes
  <2>1. Len(<<>>) = 0 /\ MAX_FILESIZ \in Nat
    BY Zenon, FileAssumption
  <2> QED
    BY SMTT(30), <1>1, <2>1 DEF InodeTypes
<1>5. Locals
  BY Zenon, <1>1 DEF Locals, Local, Holding
<1> QED
  BY Zenon, <1>2, <1>3, <1>4, <1>5 DEF Shape

LEMMA StutterShape ==
  ASSUME Shape, UNCHANGED vars
  PROVE  Shape'
<1>1. ProcTypes' /\ FileTypes' /\ InodeTypes'
  BY Zenon, FileTypesSame, InodeTypesSame DEF Shape, ProcTypes, vars
<1> QED
  BY Zenon, <1>1 DEF Shape, Locals, vars
-----------------------------------------------------------------------------
(* The counts, with the sets by name.                                      *)
Refs ==
  \A f \in File : f_count[f] =
    Cardinality(sel(p_ofile, {f})) + Cardinality(clo(arg, pc, f))

Inos ==
  \A i \in Inodes : i_count[i] = Cardinality(sel(p_ofile, filesof(f_ino, i)))

LEMMA SelIs ==
  ASSUME NEW o, NEW f
  PROVE  {m \in Procs \X Fd : o[m[1]][m[2]] = f} = sel(o, {f})
BY DEF sel, Slot

LEMMA CountIs ==
  /\ FileCount <=> Refs
  /\ FileCount' <=> Refs'
  /\ ProcTypes => (InodeCount <=> Inos)
  /\ ProcTypes' => (InodeCount' <=> Inos')
  /\ Fits' => \A f \in File : Cardinality(sel(p_ofile', {f})) +
                Cardinality(clo(arg', pc', f)) <= CHAR_MAX
<1>1. FileCount <=> Refs
  BY Zenon, SelIs DEF FileCount, Refs, users, clo
<1>2. FileCount' <=> Refs'
  BY Zenon, SelIs DEF FileCount, Refs, users, clo
<1>3. ProcTypes => (InodeCount <=> Inos)
  <2>1. InodeCount <=>
          \A i \in Inodes : i_count[i] = Cardinality(slots(p_ofile, f_ino, i))
    BY DEF InodeCount, slots
  <2>2. ASSUME ProcTypes, NEW i \in Inodes
        PROVE  slots(p_ofile, f_ino, i) = sel(p_ofile, filesof(f_ino, i))
    <3>1. p_ofile \in OFile
      BY Zenon, <2>2 DEF ProcTypes
    <3> QED
      BY Zenon, <3>1, InodeSel
  <2> QED
    BY Zenon, <2>1, <2>2 DEF Inos
<1>4. ProcTypes' => (InodeCount' <=> Inos')
  <2>1. InodeCount' <=>
          \A i \in Inodes : i_count'[i] = Cardinality(slots(p_ofile', f_ino', i))
    BY DEF InodeCount, slots
  <2>2. ASSUME ProcTypes', NEW i \in Inodes
        PROVE  slots(p_ofile', f_ino', i) = sel(p_ofile', filesof(f_ino', i))
    <3>1. p_ofile' \in OFile
      BY Zenon, <2>2 DEF ProcTypes
    <3> QED
      BY Zenon, <3>1, InodeSel
  <2> QED
    BY Zenon, <2>1, <2>2 DEF Inos
<1>5. Fits' => \A f \in File : Cardinality(sel(p_ofile', {f})) +
                 Cardinality(clo(arg', pc', f)) <= CHAR_MAX
  BY Zenon, SelIs DEF Fits, users, clo
<1> QED
  BY Zenon, <1>1, <1>2, <1>3, <1>4, <1>5

(* A file that a process reads, writes or truncates is in use.             *)
LEMMA HeldCounted ==
  ASSUME Shape, Refs, NEW q \in Procs, pc[q] \in Holding
  PROVE  arg[q].f \in File /\ f_count[arg[q].f] # 0
<1>1. PICK f \in File, fd \in Fd : f = arg[q].f /\ p_ofile[q][fd] = f
  BY DEF Shape, Locals, Local
<1>2. <<q, fd>> \in sel(p_ofile, {f})
  BY Zenon, <1>1 DEF sel, Slot
<1>3. Cardinality(sel(p_ofile, {f})) # 0 /\ Cardinality(sel(p_ofile, {f})) \in Nat
  BY Zenon, <1>2, SelFinite, FS_EmptySet
<1>4. Cardinality(clo(arg, pc, f)) \in Nat
  BY CloFinite
<1>5. f_count[f] = Cardinality(sel(p_ofile, {f})) + Cardinality(clo(arg, pc, f))
  BY Zenon DEF Refs
<1> QED
  BY <1>1, <1>3, <1>4, <1>5

LEMMA LockKept ==
  ASSUME Shape, Refs, LockReleased, NEW p \in Procs, NEW l, NEW a,
         Goes(p, l, a), LockOk(p),
         \A f \in File : f_count[f] # 0 => f_ino'[f] = f_ino[f]
  PROVE  LockReleased'
<1> SUFFICES ASSUME NEW i \in Inodes, locked'[i] # NoProc
             PROVE  /\ pc'[locked'[i]] \in Locking
                    /\ f_ino'[arg'[locked'[i]].f] = i
  BY Zenon DEF LockReleased, Locking
<1>1. CASE locked'[i] = p /\ pc'[p] \in Locking /\ f_ino'[arg'[p].f] = i
  BY Zenon, <1>1
<1>2. CASE /\ locked'[i] = locked[i]
           /\ pc[p] \in Locking => i # f_ino[arg[p].f]
  <2>1. PICK q \in Procs : q = locked[i]
    BY Zenon, <1>2 DEF Shape, InodeTypes
  <2>2. pc[q] \in Locking /\ f_ino[arg[q].f] = i
    BY Zenon, <1>2, <2>1 DEF LockReleased, Locking
  <2>3. q # p
    BY Zenon, <1>2, <2>2
  <2>4. pc'[q] = pc[q] /\ arg'[q] = arg[q]
    BY Zenon, <2>3 DEF Goes
  <2>5. arg[q].f \in File /\ f_count[arg[q].f] # 0
    BY Zenon, <2>2, HeldCounted DEF Locking, Holding
  <2>6. f_ino'[arg[q].f] = i
    BY Zenon, <2>2, <2>5
  <2> QED
    BY Zenon, <1>2, <2>1, <2>2, <2>4, <2>6
<1> QED
  BY Zenon, <1>1, <1>2 DEF LockOk

LEMMA QuietCount ==
  ASSUME Shape, Refs, Inos, LockReleased, NEW p \in Procs, Quiet(p)
  PROVE  Refs' /\ Inos' /\ LockReleased'
<1>1. PICK l \in Pc \ {"put"}, a \in Args : Goes(p, l, a)
  BY DEF Quiet
<1>2. /\ pc[p] # "put" /\ UNCHANGED <<p_ofile, f_count, f_ino, i_count>>
      /\ LockOk(p)
  BY Zenon DEF Quiet
<1>3. \A f \in File : clo(arg', pc', f) = clo(arg, pc, f)
  BY SMTT(30), <1>1, <1>2, CloSame DEF Goes
<1>4. Refs'
  BY Zenon, <1>2, <1>3 DEF Refs
<1>5. Inos'
  BY Zenon, <1>2 DEF Inos
<1> QED
  BY Zenon, <1>1, <1>2, <1>4, <1>5, LockKept

LEMMA OpenCount ==
  ASSUME Shape, Refs, Inos, LockReleased, NEW p \in Procs, Opening(p)
  PROVE  Refs' /\ Inos' /\ LockReleased'
<1>1. PICK i \in Inodes, fd \in Fd, f \in File : Opened(p, i, fd, f)
  BY Zenon DEF Opening
<1>2. /\ p_ofile[p][fd] = NULL /\ sets(p_ofile, p_ofile', p, fd, f)
      /\ f_count[f] = 0 /\ f_count' = [f_count EXCEPT ![f] = 1]
      /\ f_ino' = [f_ino EXCEPT ![f] = i]
      /\ i_count' = [i_count EXCEPT ![i] = @ + 1]
  BY Zenon, <1>1 DEF Opened
<1>3. PICK l \in {"user", "trunc"}, a \in Args :
        /\ Goes(p, l, a)
        /\ \/ locked' = locked
           \/ locked' = [locked EXCEPT ![i] = p] /\ l = "trunc" /\ a.f = f
  BY Zenon, <1>1 DEF Opened, Shape, ProcTypes
<1>4. pc[p] = "user" /\ pc'[p] # "put" /\ pc'[p] = l /\ arg'[p] = a
  BY Zenon, <1>3 DEF Opening, Goes
<1>5. \A g \in File : clo(arg', pc', g) = clo(arg, pc, g)
  BY SMTT(30), <1>3, <1>4, CloSame DEF Goes
<1>6. /\ Cardinality(sel(p_ofile, {f})) = 0 /\ sel(p_ofile, {f}) = {}
      /\ Cardinality(clo(arg, pc, f)) = 0
  <2>1. f_count[f] = Cardinality(sel(p_ofile, {f})) + Cardinality(clo(arg, pc, f))
    BY Zenon DEF Refs
  <2>2. /\ Cardinality(sel(p_ofile, {f})) \in Nat
        /\ Cardinality(clo(arg, pc, f)) \in Nat
    BY Zenon, SelFinite, CloFinite
  <2>3. Cardinality(sel(p_ofile, {f})) = 0 /\ Cardinality(clo(arg, pc, f)) = 0
    BY SMTT(30), <1>2, <2>1, <2>2
  <2> QED
    BY Zenon, <2>3, SelFinite, FS_EmptySet
<1>7. /\ Cardinality(sel(p_ofile', {f})) = 1
      /\ \A g \in File \ {f} : sel(p_ofile', {g}) = sel(p_ofile, {g})
  <2>1. Cardinality(sel(p_ofile', {f})) = Cardinality(sel(p_ofile, {f})) + 1
    BY SMTT(30), <1>2, SelAdd
  <2>2. \A g \in File \ {f} : sel(p_ofile', {g}) = sel(p_ofile, {g})
    BY SMTT(30), <1>2, SelAdd
  <2> QED
    BY SMTT(30), <1>6, <2>1, <2>2
<1>8. Refs'
  <2> SUFFICES ASSUME NEW g \in File
               PROVE  f_count'[g] = Cardinality(sel(p_ofile', {g})) +
                                      Cardinality(clo(arg', pc', g))
    BY Zenon DEF Refs
  <2>1. CASE g = f
    <3>1. f_count'[f] = 1
      BY <1>2 DEF Shape, FileTypes
    <3>2. Cardinality(clo(arg', pc', f)) = 0
      BY Zenon, <1>5, <1>6
    <3> QED
      BY <1>7, <2>1, <3>1, <3>2
  <2>2. CASE g # f
    <3>1. f_count'[g] = f_count[g]
      BY Zenon, <1>2, <2>2 DEF Shape, FileTypes
    <3> QED
      BY Zenon, <1>5, <1>7, <2>2, <3>1 DEF Refs
  <2> QED
    BY Zenon, <2>1, <2>2
<1>9. /\ f_ino'[f] = i /\ \A g \in File \ {f} : f_ino'[g] = f_ino[g]
      /\ p_ofile \in OFile
  BY Zenon, <1>2 DEF Shape, FileTypes, ProcTypes
<1>10. ASSUME NEW j \in Inodes
       PROVE  i_count'[j] = Cardinality(sel(p_ofile', filesof(f_ino', j)))
  <2>1. PICK S \in SUBSET File, T \in SUBSET File :
          S = filesof(f_ino, j) /\ T = filesof(f_ino', j)
    BY Zenon DEF filesof
  <2>2. /\ \A g \in File \ {f} : g \in S <=> g \in T
        /\ f \in T <=> i = j
    BY <1>9, <2>1 DEF filesof
  <2>3. sel(p_ofile, S) = sel(p_ofile, T)
    BY <1>6, <1>9, <2>2, SelUnused
  <2>4. /\ f \in T => Cardinality(sel(p_ofile', T)) =
                        Cardinality(sel(p_ofile, T)) + 1
        /\ f \notin T => sel(p_ofile', T) = sel(p_ofile, T)
    BY SMTT(30), <1>2, SelAdd
  <2>5. i_count[j] = Cardinality(sel(p_ofile, S))
    BY Zenon, <2>1 DEF Inos
  <2>6. i_count'[j] = IF i = j THEN i_count[j] + 1 ELSE i_count[j]
    BY Zenon, <1>2 DEF Shape, InodeTypes
  <2> QED
    BY Zenon, <2>1, <2>2, <2>3, <2>4, <2>5, <2>6
<1>11. Inos'
  BY Zenon, <1>10 DEF Inos
<1>12. LockOk(p)
  BY SMTT(30), <1>3, <1>4, <1>9 DEF LockOk, Locking, Shape, InodeTypes
<1>13. \A g \in File : f_count[g] # 0 => f_ino'[g] = f_ino[g]
  BY Zenon, <1>2, <1>9
<1> QED
  BY Zenon, <1>3, <1>8, <1>11, <1>12, <1>13, LockKept

LEMMA PutEffect ==
  ASSUME FileTypes, NEW f \in File, put(f)
  PROVE  /\ f_ino' = f_ino /\ \A g \in File \ {f} : f_count'[g] = f_count[g]
         /\ f_count[f] > 0 => f_count'[f] = f_count[f] - 1
<1>1. f_count' = [f_count EXCEPT ![f] =
        IF f_count[f] - 1 <= 0 THEN 0 ELSE f_count[f] - 1]
  BY DEF put
<1> QED
  BY <1>1 DEF FileTypes, put

LEMMA CloseCount ==
  ASSUME Shape, Refs, Inos, LockReleased, NEW p \in Procs, Closing(p)
  PROVE  Refs' /\ Inos' /\ LockReleased'
<1>1. PICK fd \in Fd, f \in File, next \in {"user", "dup2", "exit", "exec"},
           a \in Args : Closed(p, fd, f, next, a)
  BY Zenon DEF Closing
<1>2. /\ p_ofile[p][fd] = f /\ sets(p_ofile, p_ofile', p, fd, NULL)
      /\ i_count' = [i_count EXCEPT ![f_ino[f]] = IF @ > 0 THEN @ - 1 ELSE 0]
      /\ locked' = [locked EXCEPT ![f_ino[f]] = NoProc]
  BY Zenon, <1>1 DEF Closed
<1>3. PICK l \in {"user", "dup2", "exit", "exec", "put"}, b \in Args :
        /\ Goes(p, l, b)
        /\ \/ put(f) /\ l # "put"
           \/ UNCHANGED fvars /\ l = "put" /\ b.f = f
  BY Zenon, <1>1 DEF Closed
<1>4. pc[p] \notin {"put", "trunc", "readi", "writei"} /\ pc'[p] = l /\ arg'[p] = b
  BY <1>3 DEF Closing, Goes
<1>5. FileTypes /\ InodeTypes
  BY Zenon DEF Shape
<1>6. f_ino' = f_ino
  BY Zenon, <1>3, <1>5, PutEffect DEF fvars
<1>7. ASSUME NEW g \in File
      PROVE  /\ g = f => Cardinality(sel(p_ofile, {g})) =
                           Cardinality(sel(p_ofile', {g})) + 1
             /\ g # f => sel(p_ofile', {g}) = sel(p_ofile, {g})
  <2>1. p_ofile[p][fd] = f /\ sets(p_ofile, p_ofile', p, fd, NULL)
    BY Zenon, <1>2
  <2>2. {g} \in SUBSET File /\ (f \in {g} <=> g = f)
    OBVIOUS
  <2>3. /\ f \in {g} => Cardinality(sel(p_ofile, {g})) =
                           Cardinality(sel(p_ofile', {g})) + 1
        /\ f \notin {g} => sel(p_ofile', {g}) = sel(p_ofile, {g})
    BY <2>1, <2>2, SelDrop
  <2> QED
    BY Zenon, <2>2, <2>3
<1>8. ASSUME NEW g \in File
      PROVE  f_count'[g] = Cardinality(sel(p_ofile', {g})) +
                             Cardinality(clo(arg', pc', g))
  <2>1. PICK R \in Nat, R2 \in Nat, C \in Nat, C2 \in Nat :
          /\ R = Cardinality(sel(p_ofile, {g}))
          /\ R2 = Cardinality(sel(p_ofile', {g}))
          /\ C = Cardinality(clo(arg, pc, g))
          /\ C2 = Cardinality(clo(arg', pc', g))
    BY SelFinite, CloFinite
  <2>2. f_count[g] = R + C
    BY Zenon, <2>1 DEF Refs
  <2>3. (g = f => R = R2 + 1) /\ (g # f => R = R2)
    BY Zenon, <1>7, <2>1
  <2>4. CASE put(f) /\ l # "put"
    <3>1. C2 = C
      <4>1. pc[p] # "put" /\ pc'[p] # "put"
        BY <1>4, <2>4
      <4>2. \A q \in Procs \ {p} : arg'[q] = arg[q] /\ pc'[q] = pc[q]
        BY Zenon, <1>3 DEF Goes
      <4>3. clo(arg', pc', g) = clo(arg, pc, g)
        BY <4>1, <4>2, CloSame
      <4> QED
        BY Zenon, <2>1, <4>3
    <3>2. /\ g # f => f_count'[g] = f_count[g]
          /\ g = f /\ f_count[g] > 0 => f_count'[g] = f_count[g] - 1
      BY <1>5, <2>4, PutEffect
    <3>3. f_count'[g] = R2 + C2
      BY SMTT(30), <2>2, <2>3, <3>1, <3>2
    <3> QED
      BY Zenon, <2>1, <3>3
  <2>5. CASE UNCHANGED fvars /\ l = "put" /\ b.f = f
    <3>1. (g = f => C2 = C + 1) /\ (g # f => C2 = C)
      <4>1. pc[p] # "put" /\ pc'[p] = "put" /\ arg'[p].f = f
        BY <1>4, <2>5
      <4>2. \A q \in Procs \ {p} : arg'[q] = arg[q] /\ pc'[q] = pc[q]
        BY Zenon, <1>3 DEF Goes
      <4>3. /\ arg'[p].f = g => Cardinality(clo(arg', pc', g)) =
                                  Cardinality(clo(arg, pc, g)) + 1
            /\ arg'[p].f # g => clo(arg', pc', g) = clo(arg, pc, g)
        BY <4>1, <4>2, CloIn
      <4> QED
        BY Zenon, <2>1, <4>1, <4>3
    <3>2. f_count'[g] = f_count[g]
      BY Zenon, <2>5 DEF fvars
    <3>3. f_count'[g] = R2 + C2
      BY SMTT(30), <2>2, <2>3, <3>1, <3>2
    <3> QED
      BY Zenon, <2>1, <3>3
  <2> QED
    BY Zenon, <1>3, <2>4, <2>5
<1>9. ASSUME NEW j \in Inodes
      PROVE  i_count'[j] = Cardinality(sel(p_ofile', filesof(f_ino', j)))
  <2>1. PICK S \in SUBSET File : S = filesof(f_ino, j) /\ S = filesof(f_ino', j)
    BY Zenon, <1>6 DEF filesof
  <2>2. f \in S <=> f_ino[f] = j
    BY <2>1 DEF filesof
  <2>3. PICK R \in Nat, R2 \in Nat :
          R = Cardinality(sel(p_ofile, S)) /\ R2 = Cardinality(sel(p_ofile', S))
    BY SelFinite
  <2>4. (f \in S => R = R2 + 1) /\ (f \notin S => R = R2)
    <3>1. p_ofile[p][fd] = f /\ sets(p_ofile, p_ofile', p, fd, NULL)
      BY Zenon, <1>2
    <3>2. /\ f \in S => Cardinality(sel(p_ofile, S)) =
                          Cardinality(sel(p_ofile', S)) + 1
          /\ f \notin S => sel(p_ofile', S) = sel(p_ofile, S)
      BY <3>1, SelDrop
    <3> QED
      BY Zenon, <2>3, <3>2
  <2>5. i_count[j] = R
    BY Zenon, <2>1, <2>3 DEF Inos
  <2>6. /\ f_ino[f] = j =>
             i_count'[j] = IF i_count[j] > 0 THEN i_count[j] - 1 ELSE 0
        /\ f_ino[f] # j => i_count'[j] = i_count[j]
    BY Zenon, <1>2, <1>5 DEF InodeTypes
  <2>7. i_count'[j] = R2
    BY SMTT(30), <2>2, <2>4, <2>5, <2>6
  <2> QED
    BY Zenon, <2>1, <2>3, <2>7
<1>10. LockOk(p)
  BY Zenon, <1>2, <1>4, <1>5 DEF LockOk, Locking, InodeTypes
<1>11. Refs' /\ Inos'
  BY Zenon, <1>8, <1>9 DEF Refs, Inos
<1>12. LockReleased'
  BY Zenon, <1>3, <1>6, <1>10, LockKept
<1> QED
  BY Zenon, <1>11, <1>12

LEMMA PutCount ==
  ASSUME Shape, Refs, Inos, LockReleased, NEW p \in Procs, Putting(p)
  PROVE  Refs' /\ Inos' /\ LockReleased'
<1>1. PICK f \in File : f = arg[p].f /\ put(f)
  BY Zenon DEF Putting
<1>2. pc[p] = "put" /\ UNCHANGED <<p_ofile, i_count, locked>>
  BY Zenon DEF Putting
<1>3. PICK l \in Pc \ {"put"}, a \in Args : Goes(p, l, a)
  BY Zenon DEF Putting
<1>4. /\ f_ino' = f_ino /\ \A g \in File \ {f} : f_count'[g] = f_count[g]
      /\ f_count[f] > 0 => f_count'[f] = f_count[f] - 1
  BY Zenon, <1>1, PutEffect DEF Shape
<1>5. ASSUME NEW g \in File
      PROVE  f_count'[g] = Cardinality(sel(p_ofile', {g})) +
                             Cardinality(clo(arg', pc', g))
  <2>1. PICK R \in Nat, C \in Nat, C2 \in Nat :
          /\ R = Cardinality(sel(p_ofile, {g}))
          /\ C = Cardinality(clo(arg, pc, g))
          /\ C2 = Cardinality(clo(arg', pc', g))
    BY Zenon, SelFinite, CloFinite
  <2>2. f_count[g] = R + C
    BY Zenon, <2>1 DEF Refs
  <2>3. (g = f => C = C2 + 1) /\ (g # f => C = C2)
    <3>1. /\ pc'[p] # "put" /\ pc[p] = "put" /\ arg[p].f = f
          /\ \A q \in Procs \ {p} : arg[q] = arg'[q] /\ pc[q] = pc'[q]
      BY <1>1, <1>2, <1>3 DEF Goes
    <3>2. /\ arg[p].f = g => Cardinality(clo(arg, pc, g)) =
                               Cardinality(clo(arg', pc', g)) + 1
          /\ arg[p].f # g => clo(arg, pc, g) = clo(arg', pc', g)
      BY <3>1, CloIn
    <3> QED
      BY Zenon, <2>1, <3>1, <3>2
  <2>4. f_count'[g] = R + C2
    BY <1>4, <2>2, <2>3
  <2> QED
    BY Zenon, <1>2, <2>1, <2>4
<1>6. Refs' /\ Inos'
  BY Zenon, <1>2, <1>4, <1>5 DEF Refs, Inos
<1>7. LockOk(p)
  BY Zenon, <1>2 DEF LockOk, Locking
<1>8. LockReleased'
  BY Zenon, <1>3, <1>4, <1>7, LockKept
<1> QED
  BY Zenon, <1>6, <1>8

LEMMA DupCount ==
  ASSUME Shape, Refs, Inos, LockReleased, Fits', NEW p \in Procs, Duping(p)
  PROVE  Refs' /\ Inos' /\ LockReleased'
<1>1. PICK f \in File, fd \in Fd :
        /\ p_ofile[p][fd] = NULL /\ sets(p_ofile, p_ofile', p, fd, f)
        /\ dup(p, f, fd)
  BY Zenon DEF Duping
<1>2. /\ f_count' = [f_count EXCEPT ![f] = wrap(@ + 1)]
      /\ i_count' = [i_count EXCEPT ![f_ino[f]] = @ + 1]
      /\ f_ino' = f_ino
  BY Zenon, <1>1 DEF dup
<1>3. PICK a \in Args : Goes(p, "user", a)
  BY Zenon DEF Duping
<1>4. pc[p] \in {"user", "dup2"} /\ UNCHANGED locked
  BY Zenon DEF Duping
<1>5. ASSUME NEW g \in File
      PROVE  f_count'[g] = Cardinality(sel(p_ofile', {g})) +
                             Cardinality(clo(arg', pc', g))
  <2>1. PICK R \in Nat, R2 \in Nat, C \in Nat :
          /\ R = Cardinality(sel(p_ofile, {g}))
          /\ R2 = Cardinality(sel(p_ofile', {g}))
          /\ C = Cardinality(clo(arg, pc, g))
    BY Zenon, SelFinite, CloFinite
  <2>2. clo(arg', pc', g) = clo(arg, pc, g)
    BY SMTT(30), <1>3, <1>4, CloSame DEF Goes
  <2>3. f_count[g] = R + C
    BY Zenon, <2>1 DEF Refs
  <2>4. (g = f => R2 = R + 1) /\ (g # f => R2 = R)
    <3>1. /\ g = f => Cardinality(sel(p_ofile', {g})) =
                         Cardinality(sel(p_ofile, {g})) + 1
          /\ g # f => sel(p_ofile', {g}) = sel(p_ofile, {g})
      BY SMTT(30), <1>1, SelAdd
    <3> QED
      BY Zenon, <2>1, <3>1
  <2>5. R2 + C <= CHAR_MAX
    BY Zenon, <2>1, <2>2, CountIs
  <2>6. f_count'[g] = IF g = f THEN wrap(f_count[g] + 1) ELSE f_count[g]
    BY Zenon, <1>2 DEF Shape, FileTypes
  <2>7. CHAR_MAX \in Nat
    BY Zenon, FileAssumption
  <2>8. f_count'[g] = R2 + C
    <3>1. CASE g = f
      BY SMTT(30), <2>3, <2>4, <2>5, <2>6, <2>7, <3>1 DEF wrap
    <3>2. CASE g # f
      BY Zenon, <2>3, <2>4, <2>6, <3>2
    <3> QED
      BY Zenon, <3>1, <3>2
  <2> QED
    BY Zenon, <2>1, <2>2, <2>8
<1>6. ASSUME NEW j \in Inodes
      PROVE  i_count'[j] = Cardinality(sel(p_ofile', filesof(f_ino', j)))
  <2>1. PICK S \in SUBSET File : S = filesof(f_ino, j) /\ S = filesof(f_ino', j)
    BY Zenon, <1>2 DEF filesof
  <2>2. f \in S <=> f_ino[f] = j
    BY <2>1 DEF filesof
  <2>3. /\ f \in S => Cardinality(sel(p_ofile', S)) =
                        Cardinality(sel(p_ofile, S)) + 1
        /\ f \notin S => sel(p_ofile', S) = sel(p_ofile, S)
    BY SMTT(30), <1>1, SelAdd
  <2>4. i_count[j] = Cardinality(sel(p_ofile, S))
    BY Zenon, <2>1 DEF Inos
  <2>5. i_count'[j] = IF f_ino[f] = j THEN i_count[j] + 1 ELSE i_count[j]
    BY <1>2 DEF Shape, InodeTypes
  <2> QED
    BY Zenon, <2>1, <2>2, <2>3, <2>4, <2>5
<1>7. Refs' /\ Inos'
  BY <1>5, <1>6 DEF Refs, Inos
<1>8. LockOk(p)
  BY Zenon, <1>4 DEF LockOk, Locking
<1>9. LockReleased'
  BY Zenon, <1>2, <1>3, <1>8, LockKept
<1> QED
  BY Zenon, <1>7, <1>9

LEMMA ForkCount ==
  ASSUME Shape, Refs, Inos, LockReleased, Fits', NEW p \in Procs,
         NEW q \in Procs, Forked(p, q)
  PROVE  Refs' /\ Inos' /\ LockReleased'
<1>1. /\ p # q /\ \A fd \in Fd : p_ofile[q][fd] = NULL
      /\ p_ofile' = [p_ofile EXCEPT ![q] = p_ofile[p]]
      /\ UNCHANGED <<f_ino, locked, pc, arg>>
  BY Zenon DEF Forked
<1>2. ASSUME NEW S \in SUBSET File
      PROVE  Cardinality(sel(p_ofile', S)) =
               Cardinality(sel(p_ofile, S)) + Cardinality(own(p_ofile, p, S))
  <2>1. PICK o \in OFile, o2 \in OFile : o = p_ofile /\ o2 = p_ofile'
    BY Zenon, <1>1 DEF Shape, ProcTypes, OFile
  <2>2. \A fd \in Fd : o[q][fd] = NULL
    BY <1>1, <2>1
  <2>3. Cardinality(sel(o2, S)) =
          Cardinality(sel(o, S)) + Cardinality(own(o, p, S))
    <3>1. p # q /\ o2[q] = o[p] /\ \A r \in Procs \ {q} : o2[r] = o[r]
      BY Zenon, <1>1, <2>1 DEF OFile
    <3> QED
      BY <2>2, <3>1, SelCopy
  <2> QED
    BY Zenon, <2>1, <2>3
<1>3. ASSUME NEW g \in File
      PROVE  f_count'[g] = Cardinality(sel(p_ofile', {g})) +
                             Cardinality(clo(arg', pc', g))
  <2>1. PICK R \in Nat, R2 \in Nat, C \in Nat, U \in Nat :
          /\ R = Cardinality(sel(p_ofile, {g}))
          /\ R2 = Cardinality(sel(p_ofile', {g}))
          /\ C = Cardinality(clo(arg, pc, g))
          /\ U = Cardinality(own(p_ofile, p, {g}))
    BY Zenon, SelFinite, CloFinite, OwnPairs
  <2>2. clo(arg', pc', g) = clo(arg, pc, g)
    BY Zenon, <1>1
  <2>3. f_count[g] = R + C
    BY Zenon, <2>1 DEF Refs
  <2>4. R2 = R + U
    BY Zenon, <1>2, <2>1
  <2>5. R2 + C <= CHAR_MAX
    BY Zenon, <2>1, <2>2, CountIs
  <2>6. f_count'[g] = wrap(f_count[g] + U)
    BY Zenon, <2>1 DEF Forked
  <2>7. f_count'[g] = R2 + C
    BY SMTT(30), <2>3, <2>4, <2>5, <2>6, FileAssumption DEF wrap
  <2> QED
    BY Zenon, <2>1, <2>2, <2>7
<1>4. ASSUME NEW j \in Inodes
      PROVE  i_count'[j] = Cardinality(sel(p_ofile', filesof(f_ino', j)))
  <2>1. PICK S \in SUBSET File : S = filesof(f_ino, j) /\ S = filesof(f_ino', j)
    BY Zenon, <1>1 DEF filesof
  <2>2. i_count[j] = Cardinality(sel(p_ofile, S))
    BY Zenon, <2>1 DEF Inos
  <2>3. i_count'[j] = i_count[j] + Cardinality(own(p_ofile, p, S))
    BY <2>1 DEF Forked
  <2> QED
    BY Zenon, <1>2, <2>1, <2>2, <2>3
<1>5. Refs' /\ Inos'
  BY Zenon, <1>3, <1>4 DEF Refs, Inos
<1>6. LockReleased'
  BY <1>1 DEF LockReleased
<1> QED
  BY Zenon, <1>5, <1>6

LEMMA NextCounted ==
  ASSUME Shape, Refs, Inos, LockReleased, Fits', [Next]_vars
  PROVE  Shape' /\ Refs' /\ Inos' /\ LockReleased'
<1>1. CASE Next
  BY Zenon, <1>1, NextIs, QuietCount, OpenCount, CloseCount, PutCount,
     DupCount,
     ForkCount
<1>2. CASE UNCHANGED vars
  <2>1. UNCHANGED <<p_ofile, f_count, f_ino, i_count, locked, pc, arg>>
    BY <1>2 DEF vars, fvars
  <2> QED
    BY Zenon, <1>2, <2>1, StutterShape DEF Refs, Inos, LockReleased
<1> QED
  BY Zenon, <1>1, <1>2

LEMMA InitCounted ==
  ASSUME Init
  PROVE  Refs /\ Inos /\ LockReleased
<1>1. /\ p_ofile = [p \in Procs |-> [fd \in Fd |-> NULL]]
      /\ f_count = [f \in File |-> 0] /\ i_count = [i \in Inodes |-> 0]
      /\ locked = [i \in Inodes |-> NoProc]
      /\ pc = [p \in Procs |-> "user"]
  BY DEF Init
<1>2. ASSUME NEW S \in SUBSET File
      PROVE  Cardinality(sel(p_ofile, S)) = 0
  <2>1. sel(p_ofile, S) = {}
    BY Zenon, <1>1, NullIs DEF sel, Slot
  <2> QED
    BY Zenon, <2>1, FS_EmptySet
<1>3. ASSUME NEW f \in File
      PROVE  Cardinality(clo(arg, pc, f)) = 0
  <2>1. clo(arg, pc, f) = {}
    BY Zenon, <1>1 DEF clo
  <2> QED
    BY Zenon, <2>1, FS_EmptySet
<1>4. Refs
  BY SMTT(30), <1>1, <1>2, <1>3 DEF Refs
<1>5. Inos
  <2>1. \A i \in Inodes : filesof(f_ino, i) \in SUBSET File
    BY Zenon DEF filesof
  <2> QED
    BY Zenon, <1>1, <1>2, <2>1 DEF Inos
<1>6. LockReleased
  BY Zenon, <1>1 DEF LockReleased
<1> QED
  BY Zenon, <1>4, <1>5, <1>6
-----------------------------------------------------------------------------
(* What a process does not do itself leaves its descriptors alone.         *)
Alone(p) == p_ofile'[p] = p_ofile[p] /\ pc'[p] = pc[p]

LEMMA CloseAlone ==
  ASSUME Shape, NEW r \in Procs, NEW p \in Procs, p # r,
         NEW fd \in Fd, NEW next, NEW a, do_close(r, fd, next, a)
  PROVE  Alone(p)
<1>1. p_ofile' = [p_ofile EXCEPT ![r][fd] = NULL]
  BY DEF do_close
<1>2. PICK l : pc' = [pc EXCEPT ![r] = l]
  BY Zenon DEF do_close, goto
<1>3. p_ofile \in OFile /\ pc \in [Procs -> Pc]
  BY Zenon DEF Shape, ProcTypes
<1> QED
  BY Zenon, <1>1, <1>2, <1>3 DEF Alone, OFile

LEMMA DupAlone ==
  ASSUME Shape, NEW r \in Procs, NEW p \in Procs, p # r,
         NEW fd, NEW f, dup(r, f, fd)
  PROVE  p_ofile'[p] = p_ofile[p]
BY Zenon DEF dup, Shape, ProcTypes, OFile

LEMMA OthersAlone ==
  ASSUME Shape, NEW r \in Procs, NEW p \in Procs, p # r, pc[p] # "user",
    \/ \E i \in Inodes, flag \in Oflags : do_open(r, i, flag)
    \/ \E fd \in Fd : sys_close(r, fd) \/ do_dup(r, fd)
    \/ \E fd \in Fd, newfd \in Fd : do_dup2(r, fd, newfd)
    \/ \E fd \in Fd, flag \in Oflags : fcntl_setfl(r, fd, flag)
    \/ \E fd \in Fd, b \in BOOLEAN : fcntl_setfd(r, fd, b)
    \/ \E q \in Procs : fork(r, q)
    \/ \E c \in {"exit", "exec"} : start(r, c)
    \/ \E fd \in Fd, cnt \in Cnts : do_read(r, fd, cnt) \/ do_write(r, fd, cnt)
    \/ \E fd \in Fd, off \in Seeks, whence \in {"SET", "CUR", "END"} :
         do_lseek(r, fd, off, whence)
    \/ lock_ino(r, "read", "readi") \/ lock_ino(r, "write", "writei")
    \/ itrunc(r) \/ read_end(r) \/ write_end(r) \/ Close(r)
  PROVE  Alone(p)
<1>0. p_ofile \in OFile /\ pc \in [Procs -> Pc]
  BY Zenon DEF Shape, ProcTypes
<1>1. ASSUME NEW l, NEW a, goto(r, l, a)
      PROVE  pc'[p] = pc[p]
  BY Zenon, <1>0, <1>1 DEF goto
<1>2. CASE \E i \in Inodes, flag \in Oflags : do_open(r, i, flag)
  <2>1. PICK fd \in Fd, f \in File :
          /\ p_ofile' = [p_ofile EXCEPT ![r][fd] = f]
          /\ pc' = pc \/ \E a : goto(r, "trunc", a)
    BY ZenonT(40), <1>2 DEF do_open
  <2> QED
    BY Zenon, <1>0, <1>1, <2>1 DEF Alone, OFile
<1>3. CASE \E fd \in Fd : sys_close(r, fd)
  BY Zenon, <1>3, CloseAlone DEF sys_close
<1>4. CASE \E fd \in Fd : do_dup(r, fd)
  <2>1. pc' = pc /\ \E f, fd : dup(r, f, fd)
    BY Zenon, <1>4 DEF do_dup
  <2> QED
    BY Zenon, <2>1, DupAlone DEF Alone
<1>5. CASE \E fd \in Fd, newfd \in Fd : do_dup2(r, fd, newfd)
  <2>1. PICK fd \in Fd, newfd \in Fd : do_dup2(r, fd, newfd)
    BY Zenon, <1>5
  <2>2. PICK a : \/ goto(r, "dup2", a) /\ UNCHANGED p_ofile
                 \/ do_close(r, newfd, "dup2", a)
    BY Zenon, <2>1 DEF do_dup2
  <2> QED
    BY Zenon, <1>1, <2>2, CloseAlone DEF Alone
<1>6. CASE \/ \E fd \in Fd, flag \in Oflags : fcntl_setfl(r, fd, flag)
           \/ \E fd \in Fd, b \in BOOLEAN : fcntl_setfd(r, fd, b)
  BY Zenon, <1>6 DEF fcntl_setfl, fcntl_setfd, Alone
<1>7. CASE \E q \in Procs : fork(r, q)
  <2>1. PICK q \in Procs : fork(r, q)
    BY Zenon, <1>7
  <2>2. /\ q \notin alive /\ p_ofile' = [p_ofile EXCEPT ![q] = p_ofile[r]]
        /\ pc' = pc
    BY Zenon, <2>1 DEF fork
  <2>3. pc[q] = "user"
    BY Zenon, <2>2 DEF Shape, Locals, Local
  <2> QED
    BY Zenon, <1>0, <2>2, <2>3 DEF Alone, OFile
<1>8. CASE \E c \in {"exit", "exec"} : start(r, c)
  BY Zenon, <1>1, <1>8 DEF start, Alone
<1>9. CASE \E fd \in Fd, cnt \in Cnts : do_read(r, fd, cnt) \/ do_write(r, fd, cnt)
  <2>1. p_ofile' = p_ofile /\ \E l, a : goto(r, l, a)
    BY Zenon, <1>9 DEF do_read, do_write
  <2> QED
    BY Zenon, <1>1, <2>1 DEF Alone
<1>10. CASE \E fd \in Fd, off \in Seeks, whence \in {"SET", "CUR", "END"} :
              do_lseek(r, fd, off, whence)
  BY Zenon, <1>10 DEF do_lseek, Alone
<1>11. CASE lock_ino(r, "read", "readi") \/ lock_ino(r, "write", "writei")
  BY Zenon, <1>1, <1>11 DEF lock_ino, Alone
<1>12. CASE itrunc(r) \/ read_end(r) \/ write_end(r)
  BY Zenon, <1>1, <1>12 DEF itrunc, read_end, write_end, done, Alone
<1>13. CASE put_end(r)
  BY Zenon, <1>1, <1>13 DEF put_end, Alone
<1>14. CASE dup2_end(r)
  <2>1. (\E f, fd : dup(r, f, fd)) /\ goto(r, "user", None)
    BY Zenon, <1>14 DEF dup2_end, done
  <2> QED
    BY Zenon, <1>1, <2>1, DupAlone DEF Alone
<1>15. CASE \E c \in {"exit", "exec"} : close_next(r, c)
  <2>1. PICK c \in {"exit", "exec"} : close_next(r, c)
    BY Zenon, <1>15
  <2>2. \E fd \in Fd : do_close(r, fd, c, None)
    BY Zenon, <2>1 DEF close_next, closes
  <2> QED
    BY Zenon, <2>2, CloseAlone
<1>16. CASE \E c \in {"exit", "exec"} : end(r, c)
  BY Zenon, <1>1, <1>16 DEF end, done, Alone
<1> QED
  BY ZenonT(40), <1>2, <1>3, <1>4, <1>5, <1>6, <1>7, <1>8, <1>9, <1>10,
     <1>11, <1>12,
     <1>13, <1>14, <1>15, <1>16 DEF Close

(* The step of ExecCloses.                                                 *)
Execs ==
  \A p \in Procs : pc[p] = "exec" =>
    /\ \A fd \in Fd : p_ofile'[p][fd] # p_ofile[p][fd] => p_fdflag[p][fd]
    /\ pc'[p] = "user" =>
         \A fd \in Fd : p_fdflag[p][fd] => p_ofile[p][fd] = NULL

LEMMA NextExec ==
  ASSUME Shape, Next
  PROVE  Execs
<1> SUFFICES ASSUME NEW p \in Procs, pc[p] = "exec"
             PROVE  /\ \A fd \in Fd : p_ofile'[p][fd] # p_ofile[p][fd] =>
                         p_fdflag[p][fd]
                    /\ pc'[p] = "user" =>
                         \A fd \in Fd : p_fdflag[p][fd] => p_ofile[p][fd] = NULL
  BY Zenon DEF Execs
<1>1. PICK r \in Procs :
    \/ \E i \in Inodes, flag \in Oflags : do_open(r, i, flag)
    \/ \E fd \in Fd : sys_close(r, fd) \/ do_dup(r, fd)
    \/ \E fd \in Fd, newfd \in Fd : do_dup2(r, fd, newfd)
    \/ \E fd \in Fd, flag \in Oflags : fcntl_setfl(r, fd, flag)
    \/ \E fd \in Fd, b \in BOOLEAN : fcntl_setfd(r, fd, b)
    \/ \E q \in Procs : fork(r, q)
    \/ \E c \in {"exit", "exec"} : start(r, c)
    \/ \E fd \in Fd, cnt \in Cnts : do_read(r, fd, cnt) \/ do_write(r, fd, cnt)
    \/ \E fd \in Fd, off \in Seeks, whence \in {"SET", "CUR", "END"} :
         do_lseek(r, fd, off, whence)
    \/ lock_ino(r, "read", "readi") \/ lock_ino(r, "write", "writei")
    \/ itrunc(r) \/ read_end(r) \/ write_end(r) \/ Close(r)
  BY Zenon DEF Next
<1>2. CASE r # p
  <2>1. Alone(p)
    BY Zenon, <1>1, <1>2, OthersAlone
  <2> QED
    BY Zenon, <2>1 DEF Alone
<1>3. CASE r = p
  <2>1. close_next(p, "exec") \/ end(p, "exec")
    <3>1. \A c : ~call(p, c)
      BY Zenon DEF call, at
    <3>2. Close(p)
      BY Zenon, <1>1, <1>3, <3>1 DEF do_open, sys_close, do_dup, do_dup2,
         fcntl_setfl,
        fcntl_setfd, fork, start, do_read, do_write, do_lseek, lock_ino, itrunc,
        read_end, write_end, at
    <3> QED
      BY Zenon, <3>2 DEF Close, put_end, dup2_end, close_next, end, at
  <2>2. CASE close_next(p, "exec")
    <3>1. PICK fd \in closes(p, "exec") : do_close(p, fd, "exec", None)
      BY Zenon, <2>2 DEF close_next
    <3>2. fd \in Fd /\ p_fdflag[p][fd]
      BY Zenon, <3>1 DEF closes
    <3>3. p_ofile' = [p_ofile EXCEPT ![p][fd] = NULL] /\ p_ofile \in OFile
      BY Zenon, <3>1 DEF do_close, Shape, ProcTypes
    <3>4. \A e \in Fd \ {fd} : p_ofile'[p][e] = p_ofile[p][e]
      BY Zenon, <3>3 DEF OFile
    <3>5. pc'[p] # "user"
      <4>1. \E l \in {"exec", "put"} : \E a : goto(p, l, a)
        BY Zenon, <3>1 DEF do_close
      <4> QED
        BY Zenon, <4>1 DEF goto, Shape, ProcTypes
    <3> QED
      BY Zenon, <3>2, <3>4, <3>5
  <2>3. CASE end(p, "exec")
    <3>1. p_ofile' = p_ofile /\ closes(p, "exec") = {}
      BY Zenon, <2>3 DEF end
    <3> QED
      BY Zenon, <3>1 DEF closes
  <2> QED
    BY Zenon, <2>1, <2>2, <2>3
<1> QED
  BY Zenon, <1>2, <1>3
-----------------------------------------------------------------------------
(* The inductive invariant: the shape of the tables, what each process has *)
(* between its steps, and the counts.                                      *)
IInv == Shape /\ FileCount /\ InodeCount /\ LockReleased

LEMMA NextIInv ==
  ASSUME IInv, Fits', [Next]_vars
  PROVE  IInv'
<1>1. Shape /\ Refs /\ Inos /\ LockReleased
  BY CountIs DEF IInv, Shape
<1>2. Shape' /\ Refs' /\ Inos' /\ LockReleased'
  BY <1>1, NextCounted
<1> QED
  BY Zenon, <1>2, CountIs DEF IInv, Shape

(* Whatever the counts do, open(), close(), dup(), dup2(), fork(), exec()  *)
(* and exit() leave a process that sleeps in read(), write() or itrunc()   *)
(* with a descriptor of the file it works on, dup2() with a free one, and  *)
(* a slot of proc[] that is not in use without descriptors.                *)
THEOREM TablesSound == Spec => []Shape
<1>1. Init => Shape
  BY Zenon, InitShape
<1>2. Shape /\ [Next]_vars => Shape'
  BY Zenon, NextIs, StutterShape
<1> QED
  BY <1>1, <1>2, PTL DEF Spec

(* open(), close(), dup(), dup2(), fork(), exec() and exit() keep the      *)
(* tables, both counts and the locks right together, as long as the        *)
(* references to a file fit into f_count.                                  *)
THEOREM FileInvariant == Spec /\ []Fits => []IInv
<1>1. Init => IInv
  BY Zenon, InitShape, InitCounted, CountIs DEF IInv, Shape
<1>2. IInv /\ Fits' /\ [Next]_vars => IInv'
  BY NextIInv
<1> QED
  BY <1>1, <1>2, PTL DEF Spec

(* As long as the references to a file fit into f_count, a char, f_count   *)
(* is the number of descriptors of the file and of closes that are in      *)
(* iput(), with every interleaving of open(), close(), dup(), dup2(),      *)
(* fork(), exec() and exit().                                              *)
THEOREM FilesCounted == Spec /\ []Fits => []FileCount
<1>1. IInv => FileCount
  BY DEF IInv
<1> QED
  BY <1>1, FileInvariant, PTL

(* As long as f_count fits, i_count is the number of descriptors of the    *)
(* files of the inode: the iput() of do_close() gives up exactly the       *)
(* reference that open(), dup(), dup2() or fork() took.                    *)
THEOREM InodesCounted == Spec /\ []Fits => []InodeCount
<1>1. IInv => InodeCount
  BY DEF IInv
<1> QED
  BY <1>1, FileInvariant, PTL

(* As long as f_count fits, an inode that is locked is locked by a process *)
(* in itrunc(), readi() or writei() of a file with that inode, although    *)
(* the iput() of any process that closes the file unlocks it.              *)
THEOREM LocksReleased == Spec /\ []Fits => []LockReleased
<1>1. IInv => LockReleased
  BY DEF IInv
<1> QED
  BY <1>1, FileInvariant, PTL

(* exec() closes descriptors with FD_CLOEXEC and no others, and all of     *)
(* them before the new program runs.  Nothing is assumed of the counts.    *)
THEOREM ExecClosesExactly == Spec => ExecCloses
<1>1. Shape /\ [Next]_vars => [Execs]_vars
  BY NextExec
<1>2. Spec => [][Execs]_vars
  BY <1>1, TablesSound, PTL DEF Spec
<1> QED
  BY <1>2 DEF ExecCloses, Execs

(* As long as the references to a file fit into f_count it is never        *)
(* negative, offsets stay unsigned ints and no file grows over             *)
(* MAX_FILESIZ, which do_write() looks at before it locks the inode.       *)
THEOREM FileTableTypes == Spec /\ []Fits => []TypeOK
<1>1. ASSUME IInv, Fits
      PROVE  TypeOK
  <2>1. ASSUME NEW f \in File
        PROVE  f_count[f] \in 0 .. CHAR_MAX
    <3>1. PICK R \in Nat, C \in Nat :
            /\ R = Cardinality(sel(p_ofile, {f}))
            /\ C = Cardinality(clo(arg, pc, f))
      BY Zenon, SelFinite, CloFinite
    <3>2. f_count[f] = R + C
      BY Zenon, <1>1, <3>1, CountIs DEF IInv, Refs
    <3>3. f_count[f] <= CHAR_MAX
      BY Zenon, <1>1 DEF IInv, FileCount, Fits
    <3> QED
      BY SMTT(30), <3>2, <3>3, FileAssumption
  <2>2. f_count \in [File -> 0 .. CHAR_MAX]
    BY <1>1, <2>1 DEF IInv, Shape, FileTypes
  <2> QED
    BY Zenon, <1>1, <2>2
    DEF IInv, Shape, ProcTypes, FileTypes, InodeTypes, OFile, TypeOK
<1> QED
  BY <1>1, FileInvariant, PTL
=============================================================================
