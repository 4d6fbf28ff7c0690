-------------------------- MODULE InodeCacheProofs --------------------------
(***************************************************************************)
(* The counting of references to in-core inodes, and that an inode has one *)
(* slot, for any processes, table size and device.                         *)
(*                                                                         *)
(* RefCount is inductive once it is known which system call can be at      *)
(* which place (Shape): only then is it clear that the process at the end  *)
(* of iload() or of iupdate() has a reference, and of which kind.          *)
(***************************************************************************)
EXTENDS InodeCache, FiniteSetTheorems, WellFoundedInduction, TLAPS

(* The system call that is at a place, and that it works on a slot there.  *)
Shape(p) ==
  /\ pc[p] \in {"iget", "iload"} => op[p] \in {"open", "creat", "unlink"}
  /\ pc[p] = "free" => op[p] \in {"close", "unlink"}
  /\ pc[p] \in {"upd", "wr"} => op[p] \in {"creat", "close", "unlink"}
  /\ pc[p] \in {"lock", "readi", "tty"} => op[p] = "read"
  /\ pc[p] \in {"iload", "free", "upd", "wr", "lock", "readi", "tty"} =>
       slot[p] \in Slot

(* The finiteness is needed to count.                                      *)
Counted == \A s \in Slot : /\ IsFiniteSet(refs(s))
                           /\ i_count[s] = Cardinality(refs(s))

IInv == TypeOK /\ (\A p \in Procs : Shape(p)) /\ Counted /\ OneSlot
-----------------------------------------------------------------------------
(* A set of natural numbers has a least element: the slot that iget()      *)
(* comes to first, and the number that ialloc() does.                      *)
LEMMA MinInSet ==
  ASSUME NEW S \in SUBSET Nat, S # {}
  PROVE  Min(S) \in S
<1> DEFINE R == OpToRel(<, Nat)
<1>1. IsWellFoundedOn(R, Nat)
  BY NatLessThanWellFounded
<1>2. ASSUME NEW a \in Nat, NEW b \in Nat, a < b
      PROVE  <<a, b>> \in R
  BY <1>2 DEF OpToRel
<1> HIDE DEF R
<1>3. PICK x \in S : \A y \in S : ~(<<y, x>> \in R)
  BY Zenon, <1>1, WFMin
<1>4. ASSUME NEW y \in S
      PROVE  x <= y
  <2>1. x \in Nat /\ y \in Nat
    OBVIOUS
  <2>2. ~(y < x)
    BY Zenon, <1>2, <1>3, <2>1
  <2> QED
    BY <2>1, <2>2
<1> QED
  BY Zenon, <1>3, <1>4 DEF Min

LEMMA SlotNat == Slot \subseteq Nat
BY InodeAssumption DEF Slot

(* The system calls in progress that have a reference.                     *)
calling(p) ==
  pc[p] = "iload" \/ (pc[p] \in {"upd", "wr"} /\ op[p] = "creat")

LEMMA CallersAre ==
  ASSUME NEW s, NEW p \in Procs, Shape(p)
  PROVE  p \in callers(s) <=> slot[p] = s /\ calling(p)
BY DEF callers, users, Shape, calling

LEMMA CallersArePrime ==
  ASSUME NEW s, NEW p \in Procs, Shape(p)'
  PROVE  p \in callers(s)' <=> slot'[p] = s /\ calling(p)'
BY DEF callers, users, Shape, calling

LEMMA CallersFrame ==
  ASSUME NEW s, NEW p \in Procs,
         pc'[p] = pc[p], op'[p] = op[p], slot'[p] = slot[p]
  PROVE  p \in callers(s)' <=> p \in callers(s)
BY DEF callers, users

LEMMA DescsMember ==
  ASSUME NEW s, NEW x
  PROVE  x \in descs(s) <=>
           \E p \in Procs : \E k \in 1 .. ofile[p][s] : x = <<p, k>>
BY DEF descs

LEMMA DescsMemberPrime ==
  ASSUME NEW s, NEW x
  PROVE  x \in descs(s)' <=>
           \E p \in Procs : \E k \in 1 .. ofile'[p][s] : x = <<p, k>>
BY DEF descs

(* A descriptor more, one less, and none: what descs() becomes.            *)
LEMMA DescsStep ==
  ASSUME NEW s, NEW p \in Procs, ofile[p][s] \in Nat, ofile'[p][s] \in Nat,
         \A q \in Procs \ {p} : ofile'[q][s] = ofile[q][s]
  PROVE  /\ ofile'[p][s] = ofile[p][s] => descs(s)' = descs(s)
         /\ ofile'[p][s] = ofile[p][s] + 1 =>
              /\ <<p, ofile'[p][s]>> \notin descs(s)
              /\ descs(s)' = descs(s) \cup {<<p, ofile'[p][s]>>}
         /\ ofile'[p][s] = ofile[p][s] - 1 =>
              /\ <<p, ofile[p][s]>> \in descs(s)
              /\ descs(s)' = descs(s) \ {<<p, ofile[p][s]>>}
<1>1. ASSUME ofile'[p][s] = ofile[p][s]
      PROVE  descs(s)' = descs(s)
  <2>1. \A q \in Procs : ofile'[q][s] = ofile[q][s]
    BY <1>1
  <2>2. ASSUME NEW x PROVE x \in descs(s)' <=> x \in descs(s)
    BY <2>1, DescsMember, DescsMemberPrime
  <2> QED
    BY Zenon, <2>2
<1>2. ASSUME ofile'[p][s] = ofile[p][s] + 1
      PROVE  /\ <<p, ofile'[p][s]>> \notin descs(s)
             /\ descs(s)' = descs(s) \cup {<<p, ofile'[p][s]>>}
  <2> DEFINE n == ofile[p][s]
  <2>1. 1 .. (n + 1) = (1 .. n) \cup {n + 1} /\ n + 1 \notin 1 .. n
    OBVIOUS
  <2>2. <<p, ofile'[p][s]>> \notin descs(s)
    BY <1>2, <2>1, DescsMember
  <2>3. ASSUME NEW x
        PROVE  x \in descs(s)' <=> x \in descs(s) \cup {<<p, ofile'[p][s]>>}
    BY <1>2, <2>1, DescsMember, DescsMemberPrime
  <2> QED
    BY <2>2, <2>3
<1>3. ASSUME ofile'[p][s] = ofile[p][s] - 1
      PROVE  /\ <<p, ofile[p][s]>> \in descs(s)
             /\ descs(s)' = descs(s) \ {<<p, ofile[p][s]>>}
  <2> DEFINE n == ofile'[p][s]
  <2>1. 1 .. (n + 1) = (1 .. n) \cup {n + 1} /\ n + 1 \notin 1 .. n
    OBVIOUS
  <2>2. ofile[p][s] = n + 1
    BY <1>3
  <2>3. <<p, ofile[p][s]>> \in descs(s)
    BY <2>1, <2>2, DescsMember
  <2>4. ASSUME NEW x
        PROVE  x \in descs(s)' <=> x \in descs(s) \ {<<p, ofile[p][s]>>}
    BY <2>1, <2>2, DescsMember, DescsMemberPrime
  <2> QED
    BY <2>3, <2>4
<1> QED
  BY <1>1, <1>2, <1>3
-----------------------------------------------------------------------------
(* The number of 0 or 1 that a process adds to a slot as a caller.         *)
One(b) == IF b THEN 1 ELSE 0

LEMMA CallerToken ==
  ASSUME NEW s, NEW p \in Procs
  PROVE  /\ <<p, 0>> \in refs(s) <=> p \in callers(s)
         /\ \A k \in Nat \ {0} : <<p, k>> \in refs(s) <=> <<p, k>> \in descs(s)
<1>1. <<p, 0>> \notin descs(s)
  BY DescsMember
<1> QED
  BY <1>1 DEF refs

(* A step of p does not touch the locals and the descriptors of another.   *)
Moves(p) ==
  \A q \in Procs \ {p} :
    pc'[q] = pc[q] /\ op'[q] = op[q] /\ slot'[q] = slot[q]
Keeps(p) == Moves(p) /\ \A q \in Procs \ {p} : ofile'[q] = ofile[q]

(* The types of what a system call has to itself, and of the locks.        *)
LocalTypes ==
  /\ i_flag \in [Slot -> SUBSET {"I_LOCK", "I_WANTED"}]
  /\ chan \in [Procs -> 0 .. NINODE]
  /\ pc \in [Procs -> PC] /\ op \in [Procs -> Op]
  /\ num \in [Procs -> 0 .. MaxIno] /\ slot \in [Procs -> 0 .. NINODE]
  /\ dlock \in Procs \cup {None}

(* A step moves references to s only, and counts one more for each         *)
(* descriptor that p gets and for what it has itself afterwards; others    *)
(* is the number of references without p's own.                            *)
Shifts(p, s, others) ==
  /\ \A t \in Slot \ {s} : /\ i_count'[t] = i_count[t]
                           /\ ofile'[p][t] = ofile[p][t]
  /\ ofile'[p][s] - ofile[p][s] \in {-1, 0, 1}
  /\ i_count'[s] = others + (ofile'[p][s] - ofile[p][s]) + One(calling(p)')
  /\ calling(p)' => slot'[p] = s

(* A step of p that moves i_count of one slot by as much as it moves p's   *)
(* descriptors and p's own reference leaves the counts right.              *)
LEMMA RefStep ==
  ASSUME Counted, TypeOK, TypeOK', NEW p \in Procs, NEW s \in Slot,
         Keeps(p),
         \A t \in Slot \ {s} : i_count'[t] = i_count[t]
                               /\ ofile'[p][t] = ofile[p][t]
                               /\ (p \in callers(t)' <=> p \in callers(t)),
         ofile'[p][s] - ofile[p][s] \in {-1, 0, 1},
         i_count'[s] = i_count[s] + (ofile'[p][s] - ofile[p][s])
                       + (One(p \in callers(s)') - One(p \in callers(s)))
  PROVE  Counted'
<1>1. ASSUME NEW t \in Slot
      PROVE  ofile[p][t] \in Nat /\ ofile'[p][t] \in Nat
  BY DEF TypeOK
<1>2. ASSUME NEW t \in Slot, NEW q \in Procs \ {p}
      PROVE  q \in callers(t)' <=> q \in callers(t)
  BY CallersFrame DEF Keeps, Moves
<1>3. ASSUME NEW t \in Slot \ {s}
      PROVE  refs(t)' = refs(t)
  <2>1. descs(t)' = descs(t)
    <3>1. \A q \in Procs \ {p} : ofile'[q][t] = ofile[q][t]
      BY DEF Keeps
    <3>2. ofile'[p][t] = ofile[p][t]
      OBVIOUS
    <3> QED
      BY Zenon, <1>1, <3>1, <3>2, DescsStep
  <2>2. callers(t)' = callers(t)
    <3>1. ASSUME NEW q PROVE q \in callers(t)' <=> q \in callers(t)
      <4>1. callers(t) \subseteq Procs /\ callers(t)' \subseteq Procs
        BY DEF callers, users
      <4> QED
        BY <1>2, <4>1
    <3> QED
      BY Zenon, <3>1
  <2> QED
    BY <2>1, <2>2 DEF refs
<1> DEFINE C == {<<q, 0>> : q \in callers(s)}
           D == {<<q, 0>> : q \in callers(s)'}
           n == ofile[p][s]
           m == ofile'[p][s]
<1>4. /\ p \in callers(s) => <<p, 0>> \in C
      /\ p \notin callers(s) => <<p, 0>> \notin C
      /\ D = IF p \in callers(s)' THEN C \cup {<<p, 0>>} ELSE C \ {<<p, 0>>}
  <2>1. callers(s)' = IF p \in callers(s)' THEN callers(s) \cup {p}
                      ELSE callers(s) \ {p}
    <3>1. ASSUME NEW q
          PROVE  q \in callers(s)' <=> IF p \in callers(s)'
                                       THEN q \in callers(s) \cup {p}
                                       ELSE q \in callers(s) \ {p}
      <4>1. callers(s) \subseteq Procs /\ callers(s)' \subseteq Procs
        BY DEF callers, users
      <4> QED
        BY <1>2, <4>1
    <3> QED
      BY <3>1
  <2> QED
    BY <2>1
<1>5. /\ m = n => descs(s)' = descs(s)
      /\ m = n + 1 => /\ <<p, m>> \notin descs(s)
                      /\ descs(s)' = descs(s) \cup {<<p, m>>}
      /\ m = n - 1 => /\ <<p, n>> \in descs(s)
                      /\ descs(s)' = descs(s) \ {<<p, n>>}
  BY <1>1, DescsStep DEF Keeps
<1>6. /\ refs(s) = descs(s) \cup C /\ refs(s)' = descs(s)' \cup D
      /\ <<p, 0>> \notin descs(s)
      /\ \A k \in Nat \ {0} : <<p, k>> \notin C
  <2>1. <<p, 0>> \notin descs(s)
    BY DescsMember
  <2> QED
    BY <2>1 DEF refs
<1> DEFINE E == IF m = n + 1 THEN refs(s) \cup {<<p, m>>}
                ELSE IF m = n - 1 THEN refs(s) \ {<<p, n>>} ELSE refs(s)
<1>7. n \in Nat /\ m \in Nat /\ (m = n \/ m = n + 1 \/ m = n - 1)
  BY <1>1
<1>8. refs(s)' = IF p \in callers(s)' THEN E \cup {<<p, 0>>} ELSE E \ {<<p, 0>>}
  <2> HIDE DEF C, D, m, n
  <2>1. CASE m = n
    BY <2>1, <1>4, <1>5, <1>6, <1>7
  <2>2. CASE m = n + 1
    BY <2>2, <1>4, <1>5, <1>6, <1>7
  <2>3. CASE m = n - 1
    BY <2>3, <1>4, <1>5, <1>6, <1>7
  <2> QED
    BY <1>7, <2>1, <2>2, <2>3
<1>9. /\ <<p, 0>> \in E <=> p \in callers(s)
      /\ IsFiniteSet(E)
      /\ Cardinality(E) = i_count[s] + (m - n)
  <2>1. IsFiniteSet(refs(s)) /\ i_count[s] = Cardinality(refs(s))
        /\ i_count[s] \in Nat
    BY DEF Counted, TypeOK
  <2>2. <<p, 0>> \in refs(s) <=> p \in callers(s)
    BY CallerToken
  <2> HIDE DEF C, D, m, n
  <2>3. CASE m = n
    <3>1. E = refs(s)
      BY <2>3, <1>7
    <3> QED
      BY <2>1, <2>2, <2>3, <3>1, <1>7
  <2>4. CASE m = n + 1
    <3>1. E = refs(s) \cup {<<p, m>>} /\ <<p, m>> \notin refs(s)
      BY <2>4, <1>5, <1>6, <1>7
    <3>2. IsFiniteSet(E) /\ Cardinality(E) = Cardinality(refs(s)) + 1
      BY Zenon, <2>1, <3>1, FS_AddElement
    <3> QED
      BY <2>1, <2>2, <2>4, <3>1, <3>2, <1>7
  <2>5. CASE m = n - 1
    <3>1. E = refs(s) \ {<<p, n>>} /\ <<p, n>> \in refs(s) /\ n # 0
      BY <2>5, <1>5, <1>6, <1>7
    <3>2. IsFiniteSet(E) /\ Cardinality(E) = Cardinality(refs(s)) - 1
      BY Zenon, <2>1, <3>1, FS_RemoveElement
    <3> QED
      BY <2>1, <2>2, <2>5, <3>1, <3>2, <1>7
  <2> QED
    BY Zenon, <1>7, <2>3, <2>4, <2>5
<1> HIDE DEF E, C, D
<1>10. /\ IsFiniteSet(refs(s)')
       /\ Cardinality(refs(s)') =
            Cardinality(E) + (One(p \in callers(s)') - One(p \in callers(s)))
  <2>1. Cardinality(E) \in Nat
    BY <1>9, FS_CardinalityType
  <2>2. CASE p \in callers(s)'
    <3>1. refs(s)' = E \cup {<<p, 0>>}
      BY <1>8, <2>2
    <3>2. /\ IsFiniteSet(E \cup {<<p, 0>>})
          /\ Cardinality(E \cup {<<p, 0>>}) =
               IF p \in callers(s) THEN Cardinality(E) ELSE Cardinality(E) + 1
      BY Zenon, <1>9, FS_AddElement
    <3> QED
      BY <2>1, <2>2, <3>1, <3>2 DEF One
  <2>3. CASE p \notin callers(s)'
    <3>1. refs(s)' = E \ {<<p, 0>>}
      BY <1>8, <2>3
    <3>2. /\ IsFiniteSet(E \ {<<p, 0>>})
          /\ Cardinality(E \ {<<p, 0>>}) =
               IF p \in callers(s) THEN Cardinality(E) - 1 ELSE Cardinality(E)
      BY Zenon, <1>9, FS_RemoveElement
    <3> QED
      BY <2>1, <2>3, <3>1, <3>2 DEF One
  <2> QED
    BY <2>2, <2>3
<1>11. i_count'[s] = Cardinality(refs(s)')
  BY <1>9, <1>10
<1> QED
  BY Zenon, <1>3, <1>10, <1>11 DEF Counted

LEMMA ShiftStep ==
  ASSUME IInv, TypeOK', NEW p \in Procs, NEW s \in Slot, Keeps(p), Shape(p)',
         calling(p) => slot[p] = s, Shifts(p, s, i_count[s] - One(calling(p)))
  PROVE  Counted'
<1>1. \A t \in Slot : p \in callers(t) <=> slot[p] = t /\ calling(p)
  BY CallersAre DEF IInv
<1>2. \A t \in Slot : p \in callers(t)' <=> slot'[p] = t /\ calling(p)'
  BY CallersArePrime
<1>3. \A t \in Slot \ {s} : p \in callers(t)' <=> p \in callers(t)
  BY <1>1, <1>2 DEF Shifts
<1>4. /\ One(p \in callers(s)) = One(calling(p))
      /\ One(p \in callers(s)') = One(calling(p)')
  BY Zenon, <1>1, <1>2 DEF Shifts, One
<1>5. /\ ofile[p][s] \in Nat /\ ofile'[p][s] \in Nat
      /\ i_count[s] \in Nat
      /\ One(calling(p)) \in Nat /\ One(calling(p)') \in Nat
  BY DEF IInv, TypeOK, One
<1>6. i_count'[s] = i_count[s] + (ofile'[p][s] - ofile[p][s])
                     + (One(p \in callers(s)') - One(p \in callers(s)))
  BY <1>4, <1>5 DEF Shifts
<1>7. /\ \A t \in Slot \ {s} : i_count'[t] = i_count[t]
                              /\ ofile'[p][t] = ofile[p][t]
                              /\ (p \in callers(t)' <=> p \in callers(t))
      /\ ofile'[p][s] - ofile[p][s] \in {-1, 0, 1}
  BY Zenon, <1>3 DEF Shifts
<1> QED
  BY <1>6, <1>7, RefStep DEF IInv

(* A step that moves no reference.                                         *)
LEMMA SameRefs ==
  ASSUME IInv, TypeOK', NEW p \in Procs, Keeps(p), Shape(p)',
         ofile' = ofile, i_count' = i_count,
         calling(p)' <=> calling(p), calling(p) => slot'[p] = slot[p]
  PROVE  Counted'
<1>1. SUFFICES ASSUME NEW s \in Slot
               PROVE  Counted'
  BY DEF Counted
<1>2. \A t \in Slot : p \in callers(t)' <=> p \in callers(t)
  BY Zenon, CallersAre, CallersArePrime DEF IInv
<1>3. ofile[p][s] \in Nat /\ i_count[s] \in Nat
  BY DEF IInv, TypeOK
<1>4. /\ ofile'[p][s] - ofile[p][s] = 0
      /\ One(p \in callers(s)') - One(p \in callers(s)) = 0
  BY <1>2, <1>3 DEF One
<1> QED
  BY <1>2, <1>3, <1>4, RefStep DEF IInv

LEMMA Combine ==
  ASSUME IInv, TypeOK', NEW p \in Procs, Keeps(p), Shape(p)', Counted',
         i_num' = i_num \/ OneSlot'
  PROVE  IInv'
<1>1. ASSUME NEW q \in Procs
      PROVE  Shape(q)'
  BY DEF Keeps, Moves, Shape, IInv
<1>2. OneSlot'
  BY DEF OneSlot, IInv
<1> QED
  BY <1>1, <1>2 DEF IInv

LEMMA InitIInv == Init => IInv
<1> SUFFICES ASSUME Init
             PROVE  IInv
  OBVIOUS
<1>1. TypeOK
  BY InodeAssumption DEF Init, TypeOK, Slot, Ino, PC, Op, None
<1>2. \A p \in Procs : Shape(p)
  BY DEF Init, Shape
<1>3. Counted
  <2>1. SUFFICES ASSUME NEW s \in Slot
                 PROVE  refs(s) = {} /\ i_count[s] = 0
    BY FS_EmptySet DEF Counted
  <2>2. callers(s) = {}
    BY DEF Init, callers, users
  <2>3. descs(s) = {}
    <3>1. \A p \in Procs : ofile[p][s] = 0
      BY DEF Init
    <3> QED
      BY <3>1, DescsMember
  <2> QED
    BY <2>2, <2>3 DEF Init, refs
<1>4. OneSlot
  BY DEF Init, OneSlot
<1> QED
  BY <1>1, <1>2, <1>3, <1>4 DEF IInv
-----------------------------------------------------------------------------
(* The effects of the routines that the actions share.                     *)
LEMMA DoneEffect ==
  ASSUME TypeOK, NEW p \in Procs, done(p)
  PROVE  /\ pc' \in [Procs -> PC] /\ op' \in [Procs -> Op]
         /\ num' \in [Procs -> 0 .. MaxIno] /\ slot' \in [Procs -> 0 .. NINODE]
         /\ dlock' \in Procs \cup {None}
         /\ pc'[p] = "user"
         /\ Moves(p)
         /\ Shape(p)' /\ ~calling(p)'
<1>1. 0 \in 0 .. MaxIno /\ None \in 0 .. NINODE
  BY InodeAssumption DEF None
<1>2. /\ pc' \in [Procs -> PC] /\ op' \in [Procs -> Op]
      /\ num' \in [Procs -> 0 .. MaxIno] /\ slot' \in [Procs -> 0 .. NINODE]
      /\ dlock' \in Procs \cup {None}
  BY Zenon, <1>1 DEF done, goto, TypeOK, PC, Op
<1>3. /\ pc'[p] = "user"
      /\ Moves(p)
  BY DEF done, goto, TypeOK, Moves
<1> QED
  BY <1>2, <1>3 DEF Shape, calling

LEMMA CallEffect ==
  ASSUME TypeOK, NEW p \in Procs, NEW c \in Op, NEW s \in Slot, NEW l \in PC,
         call(p, c, s, l)
  PROVE  /\ pc' \in [Procs -> PC] /\ op' \in [Procs -> Op]
         /\ slot' \in [Procs -> 0 .. NINODE]
         /\ pc'[p] = l /\ op'[p] = c /\ slot'[p] = s
         /\ Moves(p)
<1>1. s \in 0 .. NINODE
  BY InodeAssumption DEF Slot
<1> QED
  BY <1>1 DEF call, goto, TypeOK, Moves

LEMMA UnlkEffect ==
  ASSUME TypeOK, NEW s \in Slot, unlk_ino(s)
  PROVE  /\ i_flag' \in [Slot -> SUBSET {"I_LOCK", "I_WANTED"}]
         /\ chan' \in [Procs -> 0 .. NINODE]
<1>1. None \in 0 .. NINODE
  BY InodeAssumption DEF None
<1> QED
  BY Zenon, <1>1 DEF unlk_ino, TypeOK

LEMMA LockEffect ==
  ASSUME TypeOK, NEW s \in Slot, NEW f \in {"I_LOCK", "I_WANTED"},
         i_flag' = [i_flag EXCEPT ![s] = @ \cup {f}]
  PROVE  i_flag' \in [Slot -> SUBSET {"I_LOCK", "I_WANTED"}]
BY SMTT(30) DEF TypeOK

LEMMA IputEffect ==
  ASSUME TypeOK, NEW p \in Procs, NEW c \in {"unlink", "close"},
         NEW s \in Slot, NEW count \in Nat, NEW nlink,
         iput(p, c, s, count, nlink)
  PROVE  /\ i_count' = [i_count EXCEPT ![s] =
               IF count > 1 THEN count - 1 ELSE 0]
         /\ LocalTypes'
         /\ Moves(p)
         /\ Shape(p)' /\ ~calling(p)'
<1>1. CASE count > 1
  <2>1. /\ i_count' = [i_count EXCEPT ![s] = count - 1]
        /\ unlk_ino(s) /\ done(p)
    BY <1>1 DEF iput
  <2>2. LocalTypes'
    BY <2>1, UnlkEffect, DoneEffect DEF LocalTypes
  <2> QED
    BY <1>1, <2>1, <2>2, DoneEffect
<1>2. CASE ~(count > 1)
  <2>1. PICK l \in {"free", "upd"} : call(p, c, s, l)
    BY <1>2 DEF iput
  <2>2. /\ i_count' = [i_count EXCEPT ![s] = 0]
        /\ i_flag' = [i_flag EXCEPT ![s] = @ \cup {"I_LOCK"}]
        /\ UNCHANGED <<chan, dlock, num>>
    BY <1>2 DEF iput
  <2>3. c \in Op /\ l \in PC
    BY DEF Op, PC
  <2>4. /\ pc' \in [Procs -> PC] /\ op' \in [Procs -> Op]
        /\ slot' \in [Procs -> 0 .. NINODE]
        /\ pc'[p] = l /\ op'[p] = c /\ slot'[p] = s
        /\ Moves(p)
    BY <2>1, <2>3, CallEffect
  <2>5. Shape(p)' /\ ~calling(p)'
    BY <2>4 DEF Shape, calling
  <2>6. i_flag' \in [Slot -> SUBSET {"I_LOCK", "I_WANTED"}]
    BY Zenon, <2>2, LockEffect
  <2>7. LocalTypes'
    BY Zenon, <2>2, <2>4, <2>6 DEF TypeOK, LocalTypes
  <2> QED
    BY <1>2, <2>2, <2>4, <2>5, <2>7
<1> QED
  BY <1>1, <1>2

LEMMA DescMore ==
  ASSUME TypeOK, NEW p \in Procs, NEW s \in Slot,
         ofile' = [ofile EXCEPT ![p][s] = @ + 1]
  PROVE  /\ ofile' \in [Procs -> [Slot -> Nat]]
         /\ ofile'[p][s] = ofile[p][s] + 1
         /\ \A t \in Slot \ {s} : ofile'[p][t] = ofile[p][t]
         /\ \A q \in Procs \ {p} : ofile'[q] = ofile[q]
<1>1. ofile \in [Procs -> [Slot -> Nat]]
  BY DEF TypeOK
<1>2. ofile' = [ofile EXCEPT ![p] = [ofile[p] EXCEPT ![s] = ofile[p][s] + 1]]
  BY <1>1
<1>3. [ofile[p] EXCEPT ![s] = ofile[p][s] + 1] \in [Slot -> Nat]
  BY <1>1
<1> QED
  BY <1>1, <1>2, <1>3

(* What iget() returns to the system call: the reference it has counted is *)
(* a descriptor in the end, or still the call's, or given up.              *)
LEMMA GotEffect ==
  ASSUME TypeOK, NEW p \in Procs, NEW c \in {"open", "creat", "unlink"},
         NEW s \in Slot, NEW count \in Nat \ {0}, NEW nlink \in 0 .. 255,
         got(p, c, s, count, nlink)
  PROVE  /\ i_count' \in [Slot -> Nat] /\ i_nlink' \in [Slot -> 0 .. 255]
         /\ ofile' \in [Procs -> [Slot -> Nat]] /\ LocalTypes'
         /\ Keeps(p) /\ Shape(p)' /\ Shifts(p, s, count - 1)
<1>0. ofile[p][s] \in Nat
  BY DEF TypeOK
<1>1. CASE c = "unlink"
  <2>1. /\ i_nlink' = [i_nlink EXCEPT ![s] = decr(nlink)]
        /\ iput(p, c, s, count, decr(nlink))
        /\ ofile' = ofile
    BY <1>1 DEF got
  <2>2. decr(nlink) \in 0 .. 255
    BY SMTT(30) DEF decr
  <2>3. i_nlink' \in [Slot -> 0 .. 255] /\ ofile' \in [Procs -> [Slot -> Nat]]
    BY Zenon, <2>1, <2>2 DEF TypeOK
  <2>4. /\ i_count' = [i_count EXCEPT ![s] =
             IF count > 1 THEN count - 1 ELSE 0]
        /\ LocalTypes' /\ Moves(p) /\ Shape(p)' /\ ~calling(p)'
    BY <1>1, <2>1, IputEffect
  <2>5. /\ i_count' \in [Slot -> Nat] /\ i_count'[s] = count - 1
        /\ \A t \in Slot \ {s} : i_count'[t] = i_count[t]
    BY <2>4 DEF TypeOK
  <2>6. Keeps(p)
    BY Zenon, <2>1, <2>4 DEF Keeps
  <2>7. Shifts(p, s, count - 1)
    BY <1>0, <2>1, <2>4, <2>5 DEF Shifts, One
  <2> QED
    BY <2>3, <2>4, <2>5, <2>6, <2>7
<1>2. CASE c = "creat" /\ nlink = 0
      /\ i_nlink' = [i_nlink EXCEPT ![s] = 1]
      /\ i_count' = [i_count EXCEPT ![s] = count]
      /\ i_flag' = [i_flag EXCEPT ![s] = @ \cup {"I_LOCK"}]
      /\ call(p, c, s, "upd")
      /\ UNCHANGED <<num, chan, dlock, ofile>>
  <2>1. /\ pc' \in [Procs -> PC] /\ op' \in [Procs -> Op]
        /\ slot' \in [Procs -> 0 .. NINODE]
        /\ pc'[p] = "upd" /\ op'[p] = c /\ slot'[p] = s /\ Moves(p)
    <3>1. c \in Op /\ "upd" \in PC
      BY <1>2 DEF Op, PC
    <3> QED
      BY <1>2, <3>1, CallEffect
  <2>2. Keeps(p)
    BY <1>2, <2>1 DEF Keeps
  <2>3. Shape(p)' /\ calling(p)'
    BY Zenon, <1>2, <2>1 DEF Shape, calling
  <2>4. LocalTypes'
    <3>1. i_flag' \in [Slot -> SUBSET {"I_LOCK", "I_WANTED"}]
      BY Zenon, <1>2, LockEffect
    <3> QED
      BY Zenon, <1>2, <2>1, <3>1 DEF TypeOK, LocalTypes
  <2>5. /\ i_count' \in [Slot -> Nat] /\ i_count'[s] = count
        /\ \A t \in Slot \ {s} : i_count'[t] = i_count[t]
        /\ i_nlink' \in [Slot -> 0 .. 255]
        /\ ofile' \in [Procs -> [Slot -> Nat]]
    <3>1. /\ i_count \in [Slot -> Nat] /\ i_nlink \in [Slot -> 0 .. 255]
          /\ ofile \in [Procs -> [Slot -> Nat]]
      BY Zenon DEF TypeOK
    <3> QED
      BY <1>2, <3>1
  <2>6. Shifts(p, s, count - 1)
    BY <1>0, <1>2, <2>1, <2>3, <2>5 DEF Shifts, One
  <2> QED
    BY Zenon, <2>2, <2>3, <2>4, <2>5, <2>6
<1>3. CASE /\ i_nlink' = [i_nlink EXCEPT ![s] = nlink]
           /\ i_count' = [i_count EXCEPT ![s] = count]
           /\ unlk_ino(s)
           /\ ofile' = [ofile EXCEPT ![p][s] = @ + 1]
           /\ done(p)
  <2>1. /\ ofile' \in [Procs -> [Slot -> Nat]]
        /\ ofile'[p][s] = ofile[p][s] + 1
        /\ \A t \in Slot \ {s} : ofile'[p][t] = ofile[p][t]
        /\ \A q \in Procs \ {p} : ofile'[q] = ofile[q]
    BY Zenon, <1>3, DescMore
  <2>2. /\ i_count' \in [Slot -> Nat] /\ i_count'[s] = count
        /\ \A t \in Slot \ {s} : i_count'[t] = i_count[t]
        /\ i_nlink' \in [Slot -> 0 .. 255]
    <3>1. /\ i_nlink' = [i_nlink EXCEPT ![s] = nlink]
          /\ i_count' = [i_count EXCEPT ![s] = count]
      BY <1>3
    <3> QED
      BY ZenonT(40), <3>1 DEF TypeOK
  <2>3. Moves(p) /\ Shape(p)' /\ ~calling(p)'
    BY <1>3, DoneEffect
  <2>4. Keeps(p)
    BY <2>1, <2>3 DEF Keeps
  <2>5. LocalTypes'
    <3>1. unlk_ino(s) /\ done(p)
      BY <1>3
    <3> QED
      BY <3>1, UnlkEffect, DoneEffect DEF LocalTypes
  <2>6. Shifts(p, s, count - 1)
    <3>1. ofile'[p][s] - ofile[p][s] = 1 /\ One(calling(p)') = 0
      BY <1>0, <2>1, <2>3 DEF One
    <3>2. i_count'[s] = (count - 1) + 1 + 0
      BY <2>2
    <3> QED
      BY Zenon, <2>1, <2>2, <2>3, <3>1, <3>2 DEF Shifts
  <2> QED
    BY Zenon, <2>1, <2>2, <2>3, <2>4, <2>5, <2>6
<1>4. \/ c = "unlink"
      \/ /\ c = "creat" /\ nlink = 0
         /\ i_nlink' = [i_nlink EXCEPT ![s] = 1]
         /\ i_count' = [i_count EXCEPT ![s] = count]
         /\ i_flag' = [i_flag EXCEPT ![s] = @ \cup {"I_LOCK"}]
         /\ call(p, c, s, "upd")
         /\ UNCHANGED <<num, chan, dlock, ofile>>
      \/ /\ i_nlink' = [i_nlink EXCEPT ![s] = nlink]
         /\ i_count' = [i_count EXCEPT ![s] = count]
         /\ unlk_ino(s)
         /\ ofile' = [ofile EXCEPT ![p][s] = @ + 1]
         /\ done(p)
  BY DEF got
<1> QED
  BY Zenon, <1>1, <1>2, <1>3, <1>4
-----------------------------------------------------------------------------
(* One lemma per action.                                                   *)
LEMMA StartStep ==
  ASSUME IInv, NEW p \in Procs, NEW c \in {"open", "creat", "unlink"},
         NEW n \in Ino, start(p, c, n), imap' \subseteq Ino,
         entry' \subseteq Ino, dlock' \in Procs \cup {None}
  PROVE  IInv'
<1>1. /\ op' = [op EXCEPT ![p] = c] /\ num' = [num EXCEPT ![p] = n]
      /\ pc' = [pc EXCEPT ![p] = "iget"] /\ pc[p] = "user"
      /\ ncall' = [ncall EXCEPT ![p] = @ + 1] /\ ncall[p] < MaxCalls
      /\ UNCHANGED <<i_num, i_count, i_flag, i_nlink, d_nlink, busy, slot,
                     chan, ofile>>
  BY Zenon DEF start, enter, at, goto
<1>2. TypeOK'
  <2>1. n \in 0 .. MaxIno /\ c \in Op /\ "iget" \in PC
    BY SMTT(30), InodeAssumption DEF Ino, Op, PC
  <2>2. ncall' \in [Procs -> 0 .. MaxCalls]
    BY SMTT(30), <1>1, InodeAssumption DEF IInv, TypeOK
  <2> QED
    BY Zenon, <1>1, <2>1, <2>2 DEF IInv, TypeOK
<1>3. Keeps(p) /\ pc'[p] = "iget" /\ op'[p] = c
  BY <1>1 DEF Keeps, Moves, IInv, TypeOK
<1>4. Shape(p)' /\ ~calling(p) /\ ~calling(p)'
  BY Zenon, <1>1, <1>3 DEF Shape, calling
<1>5. Counted'
  BY Zenon, <1>1, <1>2, <1>3, <1>4, SameRefs
<1> QED
  BY Zenon, <1>1, <1>2, <1>3, <1>4, <1>5, Combine

LEMMA OpenStep ==
  ASSUME IInv, NEW p \in Procs, NEW n \in Ino,
         do_open(p, n) \/ do_creat(p, n) \/ do_unlink(p, n)
  PROVE  IInv'
<1>1. imap \subseteq Ino /\ entry \subseteq Ino /\ dlock \in Procs \cup {None}
  BY Zenon DEF IInv, TypeOK
<1>2. CASE do_open(p, n)
  BY Zenon, <1>1, <1>2, StartStep DEF do_open
<1>3. CASE do_creat(p, n)
  BY Zenon, <1>1, <1>3, StartStep DEF do_creat
<1>4. CASE do_unlink(p, n)
  BY Zenon, <1>1, <1>4, StartStep DEF do_unlink
<1> QED
  BY Zenon, <1>2, <1>3, <1>4

LEMMA WaitStep ==
  ASSUME IInv, NEW p \in Procs, iget_wait(p)
  PROVE  IInv'
<1> DEFINE s == Min(cached(num[p]))
<1>1. s \in Slot
  <2>1. cached(num[p]) \in SUBSET Nat /\ cached(num[p]) # {}
    BY Zenon, SlotNat DEF iget_wait, cached
  <2> QED
    BY Zenon, <2>1, MinInSet DEF cached
<1> HIDE DEF s
<1>2. /\ i_flag' = [i_flag EXCEPT ![s] = @ \cup {"I_WANTED"}]
      /\ chan' = [chan EXCEPT ![p] = s]
      /\ UNCHANGED <<i_num, i_count, i_nlink, d_nlink, imap, entry, dlock,
                     busy, pc, op, num, slot, ofile, ncall>>
  BY DEF iget_wait, s
<1>3. TypeOK'
  <2>1. i_flag' \in [Slot -> SUBSET {"I_LOCK", "I_WANTED"}]
    BY Zenon, <1>1, <1>2, LockEffect DEF IInv
  <2>2. s \in 0 .. NINODE
    BY SMTT(30), <1>1, InodeAssumption DEF Slot
  <2> QED
    BY Zenon, <1>2, <2>1, <2>2 DEF IInv, TypeOK
<1>4. Keeps(p) /\ Shape(p)' /\ (calling(p)' <=> calling(p))
  BY <1>2 DEF Keeps, Moves, Shape, calling, IInv
<1>5. Counted'
  BY Zenon, <1>2, <1>3, <1>4, SameRefs
<1> QED
  BY <1>2, <1>3, <1>4, <1>5, Combine

LEMMA HitStep ==
  ASSUME IInv, NEW p \in Procs, iget_hit(p)
  PROVE  IInv'
<1> DEFINE s == Min(cached(num[p]))
<1>1. s \in Slot
  <2>1. cached(num[p]) \in SUBSET Nat /\ cached(num[p]) # {}
    BY Zenon, SlotNat DEF iget_hit, cached
  <2> QED
    BY Zenon, <2>1, MinInSet DEF cached
<1> HIDE DEF s
<1>2. /\ got(p, op[p], s, i_count[s] + 1, i_nlink[s])
      /\ pc[p] = "iget"
      /\ UNCHANGED <<i_num, d_nlink, imap, entry, busy, ncall>>
  BY Zenon DEF iget_hit, at, s
<1>3. /\ op[p] \in {"open", "creat", "unlink"} /\ i_count[s] + 1 \in Nat \ {0}
      /\ i_nlink[s] \in 0 .. 255 /\ i_count[s] \in Nat
  <2>1. op[p] \in {"open", "creat", "unlink"}
    BY <1>2 DEF IInv, Shape
  <2>2. i_nlink[s] \in 0 .. 255 /\ i_count[s] \in Nat
    BY Zenon, <1>1 DEF IInv, TypeOK
  <2> QED
    BY <2>1, <2>2
<1>4. /\ i_count' \in [Slot -> Nat] /\ i_nlink' \in [Slot -> 0 .. 255]
      /\ ofile' \in [Procs -> [Slot -> Nat]] /\ LocalTypes'
      /\ Keeps(p) /\ Shape(p)' /\ Shifts(p, s, (i_count[s] + 1) - 1)
  BY ZenonT(40), <1>1, <1>2, <1>3, GotEffect DEF IInv
<1>5. TypeOK'
  BY Zenon, <1>2, <1>4 DEF IInv, TypeOK, LocalTypes
<1>6. ~calling(p)
  BY Zenon, <1>2 DEF calling
<1>7. (i_count[s] + 1) - 1 = i_count[s] - One(calling(p))
  BY <1>3, <1>6 DEF One
<1>8. Counted'
  BY Zenon, <1>1, <1>4, <1>5, <1>6, <1>7, ShiftStep
<1> QED
  BY Zenon, <1>2, <1>4, <1>5, <1>8, Combine

LEMMA MissStep ==
  ASSUME IInv, NEW p \in Procs, iget_miss(p)
  PROVE  IInv'
<1> DEFINE s == Min(unused)
<1>1. s \in Slot
  <2>1. unused \in SUBSET Nat /\ unused # {}
    BY Zenon, SlotNat DEF iget_miss, unused
  <2> QED
    BY Zenon, <2>1, MinInSet DEF unused
<1> HIDE DEF s
<1>2. /\ i_num' = [i_num EXCEPT ![s] = num[p]]
      /\ i_flag' = [i_flag EXCEPT ![s] = {"I_LOCK"}]
      /\ i_count' = [i_count EXCEPT ![s] = @ + 1]
      /\ slot' = [slot EXCEPT ![p] = s]
      /\ pc' = [pc EXCEPT ![p] = "iload"]
      /\ pc[p] = "iget" /\ cached(num[p]) = {}
      /\ UNCHANGED <<i_nlink, d_nlink, imap, entry, dlock, busy, op, num,
                     chan, ofile, ncall>>
  BY DEF iget_miss, at, goto, s
<1>3. TypeOK'
  <2>1. s \in 0 .. NINODE /\ "iload" \in PC
    BY SMTT(30), <1>1, InodeAssumption DEF Slot, PC
  <2>2. i_num' \in [Slot -> 0 .. MaxIno] /\ i_count' \in [Slot -> Nat]
    BY SMTT(30), <1>1, <1>2 DEF IInv, TypeOK
  <2>3. i_flag' \in [Slot -> SUBSET {"I_LOCK", "I_WANTED"}]
    BY Zenon, <1>1, <1>2 DEF IInv, TypeOK
  <2>4. slot' \in [Procs -> 0 .. NINODE] /\ pc' \in [Procs -> PC]
    BY Zenon, <1>2, <2>1 DEF IInv, TypeOK
  <2> QED
    BY Zenon, <1>2, <2>2, <2>3, <2>4 DEF IInv, TypeOK
<1>4. /\ pc'[p] = "iload" /\ slot'[p] = s /\ op'[p] = op[p] /\ Moves(p)
      /\ i_count'[s] = i_count[s] + 1 /\ i_count[s] \in Nat
      /\ \A t \in Slot \ {s} : i_count'[t] = i_count[t]
      /\ ofile[p][s] \in Nat
  BY SMTT(30), <1>1, <1>2 DEF IInv, TypeOK, Moves
<1>5. Keeps(p)
  BY Zenon, <1>2, <1>4 DEF Keeps
<1>6. Shape(p)' /\ calling(p)' /\ ~calling(p)
  BY Zenon, <1>1, <1>2, <1>4 DEF IInv, Shape, calling
<1>7. Shifts(p, s, i_count[s] - One(calling(p)))
  <2>1. One(calling(p)) = 0 /\ One(calling(p)') = 1
    BY Zenon, <1>6 DEF One
  <2>2. ofile'[p][s] - ofile[p][s] = 0
    BY SMTT(30), <1>2, <1>4
  <2>3. i_count'[s] = (i_count[s] - 0) + 0 + 1
    BY SMTT(30), <1>4
  <2>4. \A t \in Slot \ {s} : i_count'[t] = i_count[t]
                             /\ ofile'[p][t] = ofile[p][t]
    BY <1>2, <1>4
  <2> QED
    BY <1>4, <2>1, <2>2, <2>3, <2>4 DEF Shifts
<1>8. Counted'
  BY Zenon, <1>1, <1>3, <1>5, <1>6, <1>7, ShiftStep
<1>9. OneSlot'
  <2>1. \A t \in Slot : i_num[t] # num[p]
    BY Zenon, <1>2 DEF cached
  <2>2. \A t \in Slot : i_num'[t] = IF t = s THEN num[p] ELSE i_num[t]
    BY Zenon, <1>1, <1>2 DEF IInv, TypeOK
  <2> QED
    BY <2>1, <2>2 DEF IInv, OneSlot
<1> QED
  BY Zenon, <1>3, <1>5, <1>6, <1>8, <1>9, Combine

LEMMA FullStep ==
  ASSUME IInv, NEW p \in Procs, iget_full(p)
  PROVE  IInv'
<1>1. /\ pc[p] = "iget"
      /\ UNCHANGED <<i_num, i_count, i_flag, i_nlink, d_nlink, imap, entry,
                     busy, chan, ofile, ncall>>
  BY DEF iget_full, at
<1>2. /\ pc' \in [Procs -> PC] /\ op' \in [Procs -> Op]
      /\ num' \in [Procs -> 0 .. MaxIno] /\ slot' \in [Procs -> 0 .. NINODE]
      /\ dlock' \in Procs \cup {None}
      /\ Moves(p) /\ Shape(p)' /\ ~calling(p)'
  <2>1. CASE op[p] = "open"
    BY Zenon, <2>1, DoneEffect DEF iget_full, IInv
  <2>2. CASE op[p] # "open"
    <3>1. pc' = [pc EXCEPT ![p] = "panic"] /\ UNCHANGED <<op, num, slot, dlock>>
      BY Zenon, <2>2 DEF iget_full, goto
    <3>2. pc' \in [Procs -> PC] /\ pc'[p] = "panic" /\ Moves(p)
      BY Zenon, <3>1 DEF IInv, TypeOK, PC, Moves
    <3> QED
      BY Zenon, <3>1, <3>2 DEF IInv, TypeOK, Shape, calling
  <2> QED
    BY Zenon, <2>1, <2>2
<1>3. TypeOK'
  BY Zenon, <1>1, <1>2 DEF IInv, TypeOK
<1>4. Keeps(p) /\ ~calling(p)
  BY Zenon, <1>1, <1>2 DEF Keeps, calling
<1>5. Counted'
  BY Zenon, <1>1, <1>2, <1>3, <1>4, SameRefs
<1> QED
  BY Zenon, <1>1, <1>2, <1>3, <1>4, <1>5, Combine

(* Who has a reference is counted: i_count is not 0.                       *)
LEMMA CallerCounted ==
  ASSUME IInv, NEW p \in Procs, NEW s \in Slot,
         (calling(p) /\ slot[p] = s) \/ ofile[p][s] > 0
  PROVE  i_count[s] \in Nat \ {0}
<1>1. /\ IsFiniteSet(refs(s)) /\ i_count[s] = Cardinality(refs(s))
      /\ i_count[s] \in Nat /\ ofile[p][s] \in Nat
  BY DEF IInv, Counted, TypeOK
<1>2. refs(s) # {}
  <2>1. CASE calling(p) /\ slot[p] = s
    <3>1. p \in callers(s)
      BY Zenon, <2>1, CallersAre DEF IInv
    <3> QED
      BY Zenon, <3>1 DEF refs
  <2>2. CASE ofile[p][s] > 0
    <3>1. 1 \in 1 .. ofile[p][s]
      BY <1>1, <2>2
    <3>2. <<p, 1>> \in descs(s)
      BY Zenon, <3>1, DescsMember
    <3> QED
      BY <3>2 DEF refs
  <2> QED
    BY Zenon, <2>1, <2>2
<1> QED
  BY Zenon, <1>1, <1>2, FS_EmptySet

LEMMA IloadStep ==
  ASSUME IInv, NEW p \in Procs, iload(p)
  PROVE  IInv'
<1> DEFINE s == slot[p]
<1>1. /\ got(p, op[p], s, i_count[s], d_nlink[i_num[s]])
      /\ pc[p] = "iload"
      /\ UNCHANGED <<i_num, d_nlink, imap, entry, busy, ncall>>
  BY Zenon DEF iload, at
<1>2. s \in Slot /\ op[p] \in {"open", "creat", "unlink"} /\ calling(p)
  BY Zenon, <1>1 DEF IInv, Shape, calling
<1>3. i_count[s] \in Nat \ {0}
  BY Zenon, <1>2, CallerCounted
<1>4. d_nlink[i_num[s]] \in 0 .. 255
  BY SMTT(30), <1>2 DEF IInv, TypeOK
<1> HIDE DEF s
<1>5. /\ i_count' \in [Slot -> Nat] /\ i_nlink' \in [Slot -> 0 .. 255]
      /\ ofile' \in [Procs -> [Slot -> Nat]] /\ LocalTypes'
      /\ Keeps(p) /\ Shape(p)' /\ Shifts(p, s, i_count[s] - 1)
  BY ZenonT(40), <1>1, <1>2, <1>3, <1>4, GotEffect DEF IInv
<1>6. TypeOK'
  BY Zenon, <1>1, <1>5 DEF IInv, TypeOK, LocalTypes
<1>7. One(calling(p)) = 1 /\ slot[p] = s
  BY Zenon, <1>2 DEF One, s
<1>8. Counted'
  BY Zenon, <1>2, <1>5, <1>6, <1>7, ShiftStep
<1> QED
  BY Zenon, <1>1, <1>5, <1>6, <1>8, Combine

LEMMA CloseStep ==
  ASSUME IInv, NEW p \in Procs, NEW s \in Slot, do_close(p, s)
  PROVE  IInv'
<1>1. /\ iput(p, "close", s, i_count[s], i_nlink[s])
      /\ ofile' = [ofile EXCEPT ![p][s] = @ - 1] /\ ofile[p][s] > 0
      /\ ncall' = [ncall EXCEPT ![p] = @ + 1] /\ ncall[p] < MaxCalls
      /\ pc[p] = "user"
      /\ UNCHANGED <<i_num, i_nlink, d_nlink, imap, entry, busy>>
  BY DEF do_close, enter, at
<1>2. i_count[s] \in Nat \ {0}
  BY Zenon, <1>1, CallerCounted
<1>3. /\ i_count' = [i_count EXCEPT ![s] =
           IF i_count[s] > 1 THEN i_count[s] - 1 ELSE 0]
      /\ LocalTypes' /\ Moves(p) /\ Shape(p)' /\ ~calling(p)'
  BY <1>1, <1>2, IputEffect DEF IInv
<1>4. /\ i_count' \in [Slot -> Nat] /\ i_count'[s] = i_count[s] - 1
      /\ \A t \in Slot \ {s} : i_count'[t] = i_count[t]
  <2>3. /\ (IF i_count[s] > 1 THEN i_count[s] - 1 ELSE 0) = i_count[s] - 1
        /\ i_count[s] - 1 \in Nat
    BY <1>2
  <2>4. i_count' = [i_count EXCEPT ![s] =
                     IF i_count[s] > 1 THEN i_count[s] - 1 ELSE 0]
    BY <1>3
  <2>1. i_count' = [i_count EXCEPT ![s] = i_count[s] - 1]
        /\ i_count[s] - 1 \in Nat
    BY Zenon, <2>3, <2>4
  <2>2. i_count \in [Slot -> Nat]
    BY DEF IInv, TypeOK
  <2> QED
    BY <2>1, <2>2
<1>5. /\ ofile' \in [Procs -> [Slot -> Nat]]
      /\ ofile'[p][s] - ofile[p][s] = -1
      /\ \A t \in Slot \ {s} : ofile'[p][t] = ofile[p][t]
      /\ \A q \in Procs \ {p} : ofile'[q] = ofile[q]
  <2>1. ofile \in [Procs -> [Slot -> Nat]]
    BY Zenon DEF IInv, TypeOK
  <2>2. ofile' = [ofile EXCEPT ![p] = [ofile[p] EXCEPT ![s] = ofile[p][s] - 1]]
    BY Zenon, <1>1, <2>1
  <2>3. ofile[p][s] - 1 \in Nat
    BY <1>1, <2>1
  <2>4. [ofile[p] EXCEPT ![s] = ofile[p][s] - 1] \in [Slot -> Nat]
    BY Zenon, <2>1, <2>3
  <2> QED
    BY <2>1, <2>2, <2>3, <2>4
<1>6. TypeOK'
  <2>1. ncall' \in [Procs -> 0 .. MaxCalls]
    <3>1. /\ ncall' = [ncall EXCEPT ![p] = @ + 1] /\ ncall[p] < MaxCalls
          /\ ncall \in [Procs -> 0 .. MaxCalls]
      BY Zenon, <1>1 DEF IInv, TypeOK
    <3> QED
      BY SMTT(30), <3>1, InodeAssumption
  <2> QED
    BY Zenon, <1>1, <1>3, <1>4, <1>5, <2>1 DEF IInv, TypeOK, LocalTypes
<1>7. Keeps(p)
  BY Zenon, <1>3, <1>5 DEF Keeps
<1>8. ~calling(p)
  BY Zenon, <1>1 DEF calling
<1>9. Shifts(p, s, i_count[s] - One(calling(p)))
  <2>1. One(calling(p)) = 0 /\ One(calling(p)') = 0
    BY Zenon, <1>3, <1>8 DEF One
  <2>2. i_count'[s] = (i_count[s] - 0) + (-1) + 0
    BY SMTT(30), <1>2, <1>4
  <2> QED
    BY Zenon, <1>3, <1>4, <1>5, <2>1, <2>2 DEF Shifts
<1>10. Counted'
  BY Zenon, <1>3, <1>6, <1>7, <1>8, <1>9, ShiftStep
<1> QED
  BY Zenon, <1>1, <1>3, <1>6, <1>7, <1>10, Combine

LEMMA DupStep ==
  ASSUME IInv, NEW p \in Procs, NEW s \in Slot, do_dup(p, s)
  PROVE  IInv'
<1>1. /\ i_count' = [i_count EXCEPT ![s] = @ + 1]
      /\ ofile' = [ofile EXCEPT ![p][s] = @ + 1]
      /\ ncall' = [ncall EXCEPT ![p] = @ + 1] /\ ncall[p] < MaxCalls
      /\ pc[p] = "user"
      /\ UNCHANGED <<i_num, i_flag, i_nlink, d_nlink, imap, entry, dlock,
                     busy, pc, op, num, slot, chan>>
  BY Zenon DEF do_dup, enter, at
<1>2. /\ ofile' \in [Procs -> [Slot -> Nat]]
      /\ ofile'[p][s] = ofile[p][s] + 1
      /\ \A t \in Slot \ {s} : ofile'[p][t] = ofile[p][t]
      /\ \A q \in Procs \ {p} : ofile'[q] = ofile[q]
  BY Zenon, <1>1, DescMore DEF IInv
<1>3. /\ i_count' \in [Slot -> Nat] /\ i_count'[s] = i_count[s] + 1
      /\ \A t \in Slot \ {s} : i_count'[t] = i_count[t]
      /\ i_count[s] \in Nat /\ ofile[p][s] \in Nat
  BY <1>1 DEF IInv, TypeOK
<1>4. TypeOK'
  <2>1. ncall' \in [Procs -> 0 .. MaxCalls]
    BY SMTT(30), <1>1, InodeAssumption DEF IInv, TypeOK
  <2> QED
    BY Zenon, <1>1, <1>2, <1>3, <2>1 DEF IInv, TypeOK
<1>5. Keeps(p)
  BY Zenon, <1>1, <1>2 DEF Keeps, Moves
<1>6. Shape(p)' /\ ~calling(p) /\ ~calling(p)'
  BY Zenon, <1>1 DEF Shape, calling
<1>7. Shifts(p, s, i_count[s] - One(calling(p)))
  <2>1. One(calling(p)) = 0 /\ One(calling(p)') = 0
    BY Zenon, <1>6 DEF One
  <2>2. ofile'[p][s] - ofile[p][s] = 1
    BY SMTT(30), <1>2, <1>3
  <2>3. i_count'[s] = (i_count[s] - 0) + 1 + 0
    BY SMTT(30), <1>3
  <2> QED
    BY Zenon, <1>2, <1>3, <1>6, <2>1, <2>2, <2>3 DEF Shifts
<1>8. Counted'
  BY Zenon, <1>4, <1>5, <1>6, <1>7, ShiftStep
<1> QED
  BY Zenon, <1>1, <1>4, <1>5, <1>6, <1>8, Combine

LEMMA FreeStep ==
  ASSUME IInv, NEW p \in Procs, iput_free(p)
  PROVE  IInv'
<1>1. PICK l \in {"upd", "panic"} : pc' = [pc EXCEPT ![p] = l]
  BY Zenon DEF iput_free, goto
<1>2. /\ imap' \subseteq imap /\ pc[p] = "free"
      /\ UNCHANGED <<i_num, i_count, i_flag, i_nlink, d_nlink, entry, dlock,
                     busy, op, num, slot, chan, ofile, ncall>>
  BY Zenon DEF iput_free, at
<1>3. op[p] \in {"close", "unlink"} /\ slot[p] \in Slot
  BY Zenon, <1>2 DEF IInv, Shape
<1>4. TypeOK'
  <2>1. l \in PC
    BY Zenon DEF PC
  <2> QED
    BY Zenon, <1>1, <1>2, <2>1 DEF IInv, TypeOK
<1>5. Keeps(p) /\ pc'[p] = l
  BY <1>1, <1>2 DEF Keeps, Moves, IInv, TypeOK
<1>6. Shape(p)' /\ ~calling(p) /\ ~calling(p)'
  BY Zenon, <1>2, <1>3, <1>5 DEF Shape, calling
<1>7. Counted'
  BY Zenon, <1>2, <1>4, <1>5, <1>6, SameRefs
<1> QED
  BY Zenon, <1>2, <1>4, <1>5, <1>6, <1>7, Combine

LEMMA UpdateStep ==
  ASSUME IInv, NEW p \in Procs, iupdate(p)
  PROVE  IInv'
<1>1. /\ pc[p] = "upd" /\ busy' = p /\ pc' = [pc EXCEPT ![p] = "wr"]
      /\ d_nlink' = [d_nlink EXCEPT ![i_num[slot[p]]] = i_nlink[slot[p]]]
      /\ UNCHANGED <<i_num, i_count, i_flag, i_nlink, imap, entry, dlock, op,
                     num, slot, chan, ofile, ncall>>
  BY Zenon DEF iupdate, at, goto
<1>2. op[p] \in {"creat", "close", "unlink"} /\ slot[p] \in Slot
  BY Zenon, <1>1 DEF IInv, Shape
<1>3. TypeOK'
  <2>1. d_nlink' \in [0 .. MaxIno -> 0 .. 255]
    BY SMTT(30), <1>1, <1>2 DEF IInv, TypeOK
  <2>2. pc' \in [Procs -> PC]
    BY Zenon, <1>1 DEF IInv, TypeOK, PC
  <2> QED
    BY Zenon, <1>1, <2>1, <2>2 DEF IInv, TypeOK
<1>4. Keeps(p) /\ pc'[p] = "wr"
  BY Zenon, <1>1 DEF Keeps, Moves, IInv, TypeOK
<1>5. Shape(p)' /\ (calling(p)' <=> calling(p))
  BY Zenon, <1>1, <1>2, <1>4 DEF Shape, calling
<1>6. Counted'
  BY Zenon, <1>1, <1>3, <1>4, <1>5, SameRefs
<1> QED
  BY Zenon, <1>1, <1>3, <1>4, <1>5, <1>6, Combine

(* creat's own reference becomes the descriptor's; iput() has none left.   *)
LEMMA UpdateEndStep ==
  ASSUME IInv, NEW p \in Procs, iupdate_end(p)
  PROVE  IInv'
<1> DEFINE s == slot[p]
<1>1. /\ pc[p] = "wr" /\ busy' = None /\ done(p)
      /\ UNCHANGED <<i_count, d_nlink, imap, entry, ncall>>
  BY Zenon DEF iupdate_end, at
<1>2. op[p] \in {"creat", "close", "unlink"} /\ s \in Slot
  BY Zenon, <1>1 DEF IInv, Shape
<1>3. i_count[s] \in Nat /\ ofile[p][s] \in Nat
  BY <1>2 DEF IInv, TypeOK
<1>4. /\ pc' \in [Procs -> PC] /\ op' \in [Procs -> Op]
      /\ num' \in [Procs -> 0 .. MaxIno] /\ slot' \in [Procs -> 0 .. NINODE]
      /\ dlock' \in Procs \cup {None}
      /\ Moves(p) /\ Shape(p)' /\ ~calling(p)'
  BY <1>1, DoneEffect DEF IInv
<1>5. CASE op[p] = "creat"
  <2>1. /\ unlk_ino(s) /\ ofile' = [ofile EXCEPT ![p][s] = @ + 1]
        /\ UNCHANGED <<i_num, i_nlink>>
    BY <1>5 DEF iupdate_end
  <2>2. calling(p)
    BY Zenon, <1>1, <1>5 DEF calling
  <2> HIDE DEF s
  <2>3. /\ ofile' \in [Procs -> [Slot -> Nat]]
        /\ ofile'[p][s] = ofile[p][s] + 1
        /\ \A t \in Slot \ {s} : ofile'[p][t] = ofile[p][t]
        /\ \A q \in Procs \ {p} : ofile'[q] = ofile[q]
    BY Zenon, <1>2, <2>1, DescMore DEF IInv
  <2>4. /\ i_flag' \in [Slot -> SUBSET {"I_LOCK", "I_WANTED"}]
        /\ chan' \in [Procs -> 0 .. NINODE]
    BY <1>2, <2>1, UnlkEffect DEF IInv
  <2>5. TypeOK'
    BY Zenon, <1>1, <1>4, <2>1, <2>3, <2>4 DEF IInv, TypeOK
  <2>6. Keeps(p)
    BY Zenon, <1>4, <2>3 DEF Keeps
  <2>7. Shifts(p, s, i_count[s] - One(calling(p)))
    <3>1. One(calling(p)) = 1 /\ One(calling(p)') = 0
      BY Zenon, <1>4, <2>2 DEF One
    <3>2. ofile'[p][s] - ofile[p][s] = 1
      BY SMTT(30), <1>3, <2>3
    <3>3. i_count'[s] = (i_count[s] - 1) + 1 + 0
      BY <1>1, <1>3
    <3> QED
      BY Zenon, <1>1, <1>4, <2>3, <3>1, <3>2, <3>3 DEF Shifts
  <2>8. slot[p] = s
    BY Zenon DEF s
  <2>9. Counted'
    BY Zenon, <1>2, <1>4, <2>5, <2>6, <2>7, <2>8, ShiftStep
  <2> QED
    BY Zenon, <1>4, <2>1, <2>5, <2>6, <2>9, Combine
<1>6. CASE op[p] # "creat"
  <2>1. /\ i_flag' = [i_flag EXCEPT ![s] = {}]
        /\ i_num' = [i_num EXCEPT ![s] = 0]
        /\ i_nlink' = i_nlink \/ i_nlink' = [i_nlink EXCEPT ![s] = 1]
        /\ UNCHANGED <<chan, ofile>>
    BY Zenon, <1>6 DEF iupdate_end
  <2>2. ~calling(p)
    BY Zenon, <1>1, <1>6 DEF calling
  <2> HIDE DEF s
  <2>3. /\ i_flag' \in [Slot -> SUBSET {"I_LOCK", "I_WANTED"}]
        /\ i_nlink' \in [Slot -> 0 .. 255]
    <3>1. /\ i_flag \in [Slot -> SUBSET {"I_LOCK", "I_WANTED"}]
          /\ i_nlink \in [Slot -> 0 .. 255]
      BY Zenon DEF IInv, TypeOK
    <3>0. 1 \in 0 .. 255
      OBVIOUS
    <3>2. [i_nlink EXCEPT ![s] = 1] \in [Slot -> 0 .. 255]
      BY Zenon, <3>0, <3>1
    <3> QED
      BY SMTT(30), <2>1, <3>1, <3>2
  <2>4. i_num' \in [Slot -> 0 .. MaxIno]
    <3>1. 0 \in 0 .. MaxIno /\ i_num \in [Slot -> 0 .. MaxIno]
      BY InodeAssumption DEF IInv, TypeOK
    <3>2. i_num' = [i_num EXCEPT ![s] = 0]
      BY Zenon, <2>1
    <3> QED
      BY Zenon, <3>1, <3>2
  <2>5. TypeOK'
    BY Zenon, <1>1, <1>4, <2>1, <2>3, <2>4, InodeAssumption DEF IInv, TypeOK
  <2>6. Keeps(p)
    BY <1>4, <2>1 DEF Keeps
  <2>7. Counted'
    BY Zenon, <1>1, <1>4, <2>1, <2>2, <2>5, <2>6, SameRefs
  <2>8. OneSlot'
    <3>1. \A t \in Slot : i_num'[t] = IF t = s THEN 0 ELSE i_num[t]
      BY Zenon, <2>1 DEF IInv, TypeOK
    <3> QED
      BY Zenon, <3>1 DEF IInv, OneSlot
  <2> QED
    BY Zenon, <1>4, <2>5, <2>6, <2>7, <2>8, Combine
<1> QED
  BY Zenon, <1>5, <1>6

LEMMA ReadStep ==
  ASSUME IInv, NEW p \in Procs, NEW s \in Slot, do_read(p, s)
  PROVE  IInv'
<1>1. PICK l \in {"tty", "lock"} : call(p, "read", s, l)
  BY Zenon DEF do_read
<1>2. /\ ncall' = [ncall EXCEPT ![p] = @ + 1] /\ ncall[p] < MaxCalls
      /\ pc[p] = "user"
      /\ UNCHANGED <<i_num, i_count, i_flag, i_nlink, d_nlink, imap, entry,
                     dlock, busy, num, chan, ofile>>
  BY Zenon DEF do_read, enter, at
<1>3. /\ pc' \in [Procs -> PC] /\ op' \in [Procs -> Op]
      /\ slot' \in [Procs -> 0 .. NINODE]
      /\ pc'[p] = l /\ op'[p] = "read" /\ slot'[p] = s
      /\ Moves(p)
  <2>1. "read" \in Op /\ l \in PC
    BY Zenon DEF Op, PC
  <2> QED
    BY <1>1, <2>1, CallEffect DEF IInv
<1>4. TypeOK'
  <2>1. ncall' \in [Procs -> 0 .. MaxCalls]
    BY SMTT(30), <1>2, InodeAssumption DEF IInv, TypeOK
  <2> QED
    BY Zenon, <1>2, <1>3, <2>1 DEF IInv, TypeOK
<1>5. Keeps(p)
  BY Zenon, <1>2, <1>3 DEF Keeps
<1>6. Shape(p)' /\ ~calling(p) /\ ~calling(p)'
  BY Zenon, <1>2, <1>3 DEF Shape, calling
<1>7. Counted'
  BY Zenon, <1>2, <1>4, <1>5, <1>6, SameRefs
<1> QED
  BY Zenon, <1>2, <1>4, <1>5, <1>6, <1>7, Combine

LEMMA LockStep ==
  ASSUME IInv, NEW p \in Procs, lock_ino(p)
  PROVE  IInv'
<1>1. /\ pc[p] = "lock"
      /\ UNCHANGED <<i_num, i_count, i_nlink, d_nlink, imap, entry, dlock,
                     busy, op, num, slot, ofile, ncall>>
  BY Zenon DEF lock_ino, at
<1>2. op[p] = "read" /\ slot[p] \in Slot
  BY Zenon, <1>1 DEF IInv, Shape
<1>3. /\ i_flag' \in [Slot -> SUBSET {"I_LOCK", "I_WANTED"}]
      /\ chan' \in [Procs -> 0 .. NINODE] /\ pc' \in [Procs -> PC]
      /\ pc'[p] \in {"lock", "readi"}
      /\ \A q \in Procs \ {p} : pc'[q] = pc[q]
  <2>1. CASE "I_LOCK" \in i_flag[slot[p]]
    <3>1. chan' = [chan EXCEPT ![p] = slot[p]] /\ UNCHANGED <<i_flag, pc>>
      BY Zenon, <2>1 DEF lock_ino
    <3> QED
      BY Zenon, <1>1, <3>1 DEF IInv, TypeOK
  <2>2. CASE "I_LOCK" \notin i_flag[slot[p]]
    <3>1. /\ i_flag' = [i_flag EXCEPT ![slot[p]] = @ \cup {"I_LOCK"}]
          /\ pc' = [pc EXCEPT ![p] = "readi"] /\ chan' = chan
      BY Zenon, <2>2 DEF lock_ino, goto
    <3>2. i_flag' \in [Slot -> SUBSET {"I_LOCK", "I_WANTED"}]
      BY Zenon, <1>2, <3>1, LockEffect DEF IInv
    <3> QED
      BY SMTT(30), <3>1, <3>2 DEF IInv, TypeOK, PC
  <2> QED
    BY Zenon, <2>1, <2>2
<1>4. TypeOK'
  BY Zenon, <1>1, <1>3 DEF IInv, TypeOK
<1>5. Keeps(p)
  BY Zenon, <1>1, <1>3 DEF Keeps, Moves
<1>6. Shape(p)' /\ ~calling(p) /\ ~calling(p)'
  BY Zenon, <1>1, <1>2, <1>3 DEF Shape, calling
<1>7. Counted'
  BY Zenon, <1>1, <1>4, <1>5, <1>6, SameRefs
<1> QED
  BY Zenon, <1>1, <1>4, <1>5, <1>6, <1>7, Combine

LEMMA ReadEndStep ==
  ASSUME IInv, NEW p \in Procs, read_end(p)
  PROVE  IInv'
<1>1. /\ pc[p] \in {"readi", "tty"} /\ unlk_ino(slot[p]) /\ done(p)
      /\ UNCHANGED <<i_num, i_count, i_nlink, d_nlink, imap, entry, busy,
                     ofile, ncall>>
  BY Zenon DEF read_end, at
<1>2. slot[p] \in Slot
  BY Zenon, <1>1 DEF IInv, Shape
<1>3. /\ pc' \in [Procs -> PC] /\ op' \in [Procs -> Op]
      /\ num' \in [Procs -> 0 .. MaxIno] /\ slot' \in [Procs -> 0 .. NINODE]
      /\ dlock' \in Procs \cup {None}
      /\ Moves(p) /\ Shape(p)' /\ ~calling(p)'
  BY Zenon, <1>1, DoneEffect DEF IInv
<1>4. /\ i_flag' \in [Slot -> SUBSET {"I_LOCK", "I_WANTED"}]
      /\ chan' \in [Procs -> 0 .. NINODE]
  BY Zenon, <1>1, <1>2, UnlkEffect DEF IInv
<1>5. TypeOK'
  BY Zenon, <1>1, <1>3, <1>4 DEF IInv, TypeOK
<1>6. Keeps(p) /\ ~calling(p)
  BY Zenon, <1>1, <1>3 DEF Keeps, calling
<1>7. Counted'
  BY Zenon, <1>1, <1>3, <1>5, <1>6, SameRefs
<1> QED
  BY Zenon, <1>1, <1>3, <1>5, <1>6, <1>7, Combine
-----------------------------------------------------------------------------
LEMMA NextIInv == IInv /\ [Next]_vars => IInv'
<1> SUFFICES ASSUME IInv, [Next]_vars
             PROVE  IInv'
  BY Zenon
<1>1. ASSUME NEW p \in Procs, Step(p)
      PROVE  IInv'
  BY Zenon, <1>1, WaitStep, HitStep, MissStep, FullStep, IloadStep, FreeStep,
     UpdateStep, UpdateEndStep, LockStep, ReadEndStep DEF Step
<1>2. ASSUME NEW p \in Procs, NEW n \in Ino,
             do_open(p, n) \/ do_creat(p, n) \/ do_unlink(p, n)
      PROVE  IInv'
  BY <1>2, OpenStep
<1>3. ASSUME NEW p \in Procs, NEW s \in Slot,
             do_close(p, s) \/ do_dup(p, s) \/ do_read(p, s)
      PROVE  IInv'
  BY <1>3, CloseStep, DupStep, ReadStep
<1>4. CASE UNCHANGED vars
  <2>1. TypeOK' /\ (\A p \in Procs : Shape(p)') /\ OneSlot'
    BY Zenon, <1>4 DEF vars, IInv, TypeOK, Shape, OneSlot
  <2>2. Counted'
    <3>0. UNCHANGED <<ofile, pc, op, slot>>
      BY Zenon, <1>4 DEF vars
    <3>1. ASSUME NEW s
          PROVE  descs(s)' = descs(s) /\ callers(s)' = callers(s)
      <4>1. descs(s)' = descs(s)
        BY <3>0 DEF descs
      <4>2. users(s)' = users(s)
        BY <3>0 DEF users
      <4>3. callers(s)' = callers(s)
        BY <3>0, <4>2 DEF callers
      <4> QED
        BY <4>1, <4>3
    <3>2. \A s : refs(s)' = refs(s)
      BY Zenon, <3>1 DEF refs
    <3> QED
      BY <1>4, <3>2 DEF vars, IInv, Counted
  <2> QED
    BY Zenon, <2>1, <2>2 DEF IInv
<1> QED
  BY <1>1, <1>2, <1>3, <1>4 DEF Next

LEMMA Invariance == Spec => []IInv
BY InitIInv, NextIInv, PTL DEF Spec

(* Every variable of the inode cache stays in its type: whoever works on   *)
(* an inode works on a slot of the table, and i_nlink, an uchar, wraps.    *)
THEOREM InodeTypes == Spec => []TypeOK
<1>1. IInv => TypeOK
  BY DEF IInv
<1> QED
  BY <1>1, Invariance, PTL

(* i_count is the number of descriptors and of system calls in progress    *)
(* that refer to the inode, whatever iget(), iput(), dup(), close() and    *)
(* the paths that fail do, and in whatever order.                          *)
THEOREM ReferencesCounted == Spec => []RefCount
<1>1. IInv => RefCount
  BY DEF IInv, Counted, RefCount
<1> QED
  BY <1>1, Invariance, PTL

(* iget() never fills a second slot with an inode that is in core.         *)
THEOREM OneSlotPerInode == Spec => []OneSlot
<1>1. IInv => OneSlot
  BY DEF IInv
<1> QED
  BY <1>1, Invariance, PTL
=============================================================================
