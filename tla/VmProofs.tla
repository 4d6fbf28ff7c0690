------------------------------ MODULE VmProofs ------------------------------
(***************************************************************************)
(* The counting of pages, the TLB and copy on write, for any processes,    *)
(* pages and programs.                                                     *)
(*                                                                         *)
(* PageCount is inductive once it is known that a process maps a page at   *)
(* most once (Once): then fork() adds one to a count, and as there are     *)
(* fewer than 256 processes the uchar does not overflow.  That a page that *)
(* may be written has one pte (Alone) rests on the counts, for             *)
(* do_wp_page() gives PTE_W to a page that has count 1.                    *)
(***************************************************************************)
EXTENDS Vm, FiniteSetTheorems, TLAPS

(* No other pte refers to the page of this one.                            *)
Own(p, v) ==
  \A q \in Procs, u \in VPage : pt[q][u].off = pt[p][v].off => q = p /\ u = v

PteOK == \A p \in Procs, v \in VPage : pt[p][v].off = NoPage => ~pt[p][v].w
Once ==
  \A p \in Procs : \A u, v \in VPage :
    pt[p][u].off = pt[p][v].off /\ pt[p][u].off # NoPage => u = v
Alone == \A p \in Procs, v \in VPage : pt[p][v].w => Own(p, v)

PtType == pt \in [Procs -> [VPage -> Pte]]
Map ==
  /\ PtType /\ PteOK /\ Once /\ Alone
  /\ pg_count \in [Pages -> 0 .. 255] /\ PageCount
-----------------------------------------------------------------------------
(* A set of mappings with one per process has fewer than 256 elements.     *)
LEMMA AtMostOnce ==
  ASSUME NEW M \in SUBSET (Procs \X VPage),
         \A m, n \in M : m[1] = n[1] => m = n
  PROVE  IsFiniteSet(M) /\ Cardinality(M) \in 0 .. 255
<1> DEFINE f == [m \in M |-> m[1]]
<1>1. f \in [M -> Procs]
  OBVIOUS
<1>2. \A a, b \in M : f[a] = f[b] => a = b
  OBVIOUS
<1>3. f \in Injection(M, Procs)
  BY <1>1, <1>2 DEF Injection, IsInjective
<1> HIDE DEF f
<1>4. IsFiniteSet(M) /\ Cardinality(M) <= Cardinality(Procs)
  BY <1>3, FS_Injection, VmAssumption
<1>5. Cardinality(M) \in Nat /\ Cardinality(Procs) \in Nat
  BY <1>4, FS_CardinalityType, VmAssumption
<1> QED
  BY <1>4, <1>5, VmAssumption

LEMMA MapsMember ==
  ASSUME NEW g, NEW p \in Procs, NEW v \in VPage
  PROVE  <<p, v>> \in maps(g) <=> pt[p][v].off = g
BY DEF maps

LEMMA MapsMemberPrime ==
  ASSUME NEW g, NEW p \in Procs, NEW v \in VPage
  PROVE  <<p, v>> \in maps(g)' <=> pt'[p][v].off = g
BY DEF maps

LEMMA MapsPairs ==
  ASSUME NEW g
  PROVE  /\ maps(g) \in SUBSET (Procs \X VPage)
         /\ maps(g)' \in SUBSET (Procs \X VPage)
BY DEF maps

LEMMA MapsFinite ==
  ASSUME Once, NEW g \in Pages
  PROVE  IsFiniteSet(maps(g)) /\ Cardinality(maps(g)) \in 0 .. 255
<1>1. ASSUME NEW m \in maps(g), NEW n \in maps(g), m[1] = n[1]
      PROVE  m = n
  <2>1. /\ m = <<m[1], m[2]>> /\ n = <<n[1], n[2]>>
        /\ m[1] \in Procs /\ m[2] \in VPage /\ n[2] \in VPage
        /\ pt[m[1]][m[2]].off = g /\ pt[n[1]][n[2]].off = g
    BY DEF maps
  <2>2. g # NoPage
    BY VmAssumption
  <2>3. m[2] = n[2]
    BY <1>1, <2>1, <2>2 DEF Once
  <2> QED
    BY <1>1, <2>1, <2>3
<1> QED
  BY <1>1, MapsPairs, AtMostOnce

LEMMA MapsFinitePrime ==
  ASSUME Once', NEW g \in Pages
  PROVE  IsFiniteSet(maps(g)') /\ Cardinality(maps(g)') \in 0 .. 255
<1>1. ASSUME NEW m \in maps(g)', NEW n \in maps(g)', m[1] = n[1]
      PROVE  m = n
  <2>1. /\ m = <<m[1], m[2]>> /\ n = <<n[1], n[2]>>
        /\ m[1] \in Procs /\ m[2] \in VPage /\ n[2] \in VPage
        /\ pt'[m[1]][m[2]].off = g /\ pt'[n[1]][n[2]].off = g
    BY DEF maps
  <2>2. g # NoPage
    BY VmAssumption
  <2>3. m[2] = n[2]
    BY <1>1, <2>1, <2>2 DEF Once
  <2> QED
    BY <1>1, <2>1, <2>3
<1> QED
  BY <1>1, MapsPairs, AtMostOnce

(* A page on the free list has no pte, one with count 1 has one.           *)
LEMMA FreeUnmapped ==
  ASSUME Map, NEW g \in pgfreelist
  PROVE  g \in Pages /\ maps(g) = {} /\ pg_count[g] = 0
<1>1. g \in Pages /\ pg_count[g] = 0
  BY DEF pgfreelist
<1>2. IsFiniteSet(maps(g)) /\ Cardinality(maps(g)) = 0
  BY <1>1, MapsFinite DEF Map, PageCount
<1> QED
  BY <1>1, <1>2, FS_EmptySet

LEMMA CountOne ==
  ASSUME Map, NEW p \in Procs, NEW v \in VPage, pt[p][v].off \in Pages,
         pg_count[pt[p][v].off] = 1
  PROVE  Own(p, v)
<1> DEFINE g == pt[p][v].off
<1>1. IsFiniteSet(maps(g)) /\ Cardinality(maps(g)) = 1
  BY MapsFinite DEF Map, PageCount
<1>2. PICK x : maps(g) = {x}
  BY Zenon, <1>1, FS_Singleton
<1>3. <<p, v>> \in maps(g)
  BY MapsMember
<1>4. ASSUME NEW q \in Procs, NEW u \in VPage, pt[q][u].off = g
      PROVE  q = p /\ u = v
  <2>1. <<q, u>> \in maps(g)
    BY <1>4, MapsMember
  <2>2. <<q, u>> = <<p, v>>
    BY <1>2, <1>3, <2>1
  <2> QED
    BY <2>2
<1> QED
  BY <1>4 DEF Own
-----------------------------------------------------------------------------
(* One pte becomes e, the others stay.                                     *)
Sets(p, v, e) ==
  /\ pt'[p][v] = e
  /\ \A q \in Procs, u \in VPage : q # p \/ u # v => pt'[q][u] = pt[q][u]

LEMMA PteSet ==
  ASSUME PtType, NEW p \in Procs, NEW v \in VPage, NEW e \in Pte,
         pt' = [pt EXCEPT ![p] = [pt[p] EXCEPT ![v] = e]]
  PROVE  PtType' /\ Sets(p, v, e)
<1>1. [pt[p] EXCEPT ![v] = e] \in [VPage -> Pte]
  BY DEF PtType
<1>2. PtType'
  BY <1>1 DEF PtType
<1>3. pt'[p][v] = e
  BY DEF PtType
<1>4. ASSUME NEW q \in Procs, NEW u \in VPage, q # p \/ u # v
      PROVE  pt'[q][u] = pt[q][u]
  BY <1>4 DEF PtType
<1> QED
  BY <1>2, <1>3, <1>4 DEF Sets

(* A pte gets a page that no pte had.                                      *)
LEMMA NewPage ==
  ASSUME Map, NEW p \in Procs, NEW v \in VPage, NEW n \in Pages,
         NEW e, e.off = n, maps(n) = {}, Sets(p, v, e)
  PROVE  /\ PteOK' /\ Once' /\ Alone' /\ Own(p, v)'
         /\ maps(n)' = {<<p, v>>}
         /\ \A h \in Pages \ {n} :
              maps(h)' = IF h = pt[p][v].off THEN maps(h) \ {<<p, v>>}
                                             ELSE maps(h)
<1>1. \A q \in Procs, u \in VPage : pt[q][u].off # n
  BY Zenon, MapsMember
<1>2. n # NoPage
  BY VmAssumption
<1>3. pt'[p][v].off = n
  BY DEF Sets
<1>4. \A q \in Procs, u \in VPage : q # p \/ u # v => pt'[q][u] = pt[q][u]
  BY DEF Sets
<1>5. PteOK'
  BY <1>2, <1>3, <1>4 DEF PteOK, Map
<1>6. Once'
  <2> SUFFICES ASSUME NEW q \in Procs, NEW t \in VPage, NEW u \in VPage,
                      pt'[q][t].off = pt'[q][u].off, pt'[q][t].off # NoPage
               PROVE  t = u
    BY DEF Once
  <2> QED
    BY <1>1, <1>3, <1>4 DEF Map, Once
<1>7. Own(p, v)'
  BY <1>1, <1>3, <1>4 DEF Own
<1>8. Alone'
  <2> SUFFICES ASSUME NEW q \in Procs, NEW u \in VPage, pt'[q][u].w
               PROVE  Own(q, u)'
    BY DEF Alone
  <2>1. CASE q = p /\ u = v
    BY <2>1, <1>7
  <2>2. CASE q # p \/ u # v
    <3>1. pt'[q][u] = pt[q][u] /\ Own(q, u)
      BY <2>2, <1>4 DEF Map, Alone
    <3> QED
      BY <3>1, <1>1, <1>3, <1>4 DEF Own
  <2> QED
    BY <2>1, <2>2
<1>9. maps(n)' = {<<p, v>>}
  <2>1. ASSUME NEW q \in Procs, NEW u \in VPage
        PROVE  <<q, u>> \in maps(n)' <=> <<q, u>> = <<p, v>>
    <3>1. CASE q = p /\ u = v
      BY <3>1, <1>3, MapsMemberPrime
    <3>2. CASE q # p \/ u # v
      BY <3>2, <1>1, <1>4, MapsMemberPrime
    <3> QED
      BY <3>1, <3>2
  <2> QED
    BY <2>1, MapsPairs
<1>10. ASSUME NEW h \in Pages \ {n}
       PROVE  maps(h)' = IF h = pt[p][v].off THEN maps(h) \ {<<p, v>>}
                                             ELSE maps(h)
  <2>1. ASSUME NEW q \in Procs, NEW u \in VPage
        PROVE  <<q, u>> \in maps(h)' <=>
                 <<q, u>> \in maps(h) /\ (q # p \/ u # v)
    <3>1. CASE q = p /\ u = v
      BY <3>1, <1>3, MapsMemberPrime
    <3>2. CASE q # p \/ u # v
      BY <3>2, <1>4, MapsMember, MapsMemberPrime
    <3> QED
      BY <3>1, <3>2
  <2>2. maps(h)' = maps(h) \ {<<p, v>>}
    BY <2>1, MapsPairs
  <2>3. h # pt[p][v].off => <<p, v>> \notin maps(h)
    BY MapsMember
  <2> QED
    BY <2>2, <2>3
<1> QED
  BY <1>5, <1>6, <1>7, <1>8, <1>9, <1>10

(* The pte with PTE_W set or cleared.                                      *)
LEMMA PteW ==
  ASSUME NEW e \in Pte, NEW b \in BOOLEAN
  PROVE  /\ [e EXCEPT !.w = b] \in Pte
         /\ [e EXCEPT !.w = b].off = e.off /\ [e EXCEPT !.w = b].w = b
BY DEF Pte

(* pgattach(): a pte that was not there gets a page of the free list.      *)
LEMMA AttachMap ==
  ASSUME Map, NEW p \in Procs, NEW v \in VPage, NEW g \in pgfreelist,
         NEW e, e.off = g, pt[p][v].off = NoPage, PtType', Sets(p, v, e),
         pg_count' = pgalloc(pg_count, g)
  PROVE  Map' /\ Own(p, v)'
<1>1. g \in Pages /\ maps(g) = {}
  BY FreeUnmapped
<1>6. /\ PteOK' /\ Once' /\ Alone' /\ Own(p, v)'
      /\ maps(g)' = {<<p, v>>}
      /\ \A h \in Pages \ {g} :
           maps(h)' = IF h = pt[p][v].off THEN maps(h) \ {<<p, v>>}
                                          ELSE maps(h)
  BY <1>1, NewPage
<1>7. \A h \in Pages \ {g} : maps(h)' = maps(h)
  BY <1>6, VmAssumption
<1>8. /\ pg_count' \in [Pages -> 0 .. 255] /\ pg_count'[g] = 1
      /\ \A h \in Pages \ {g} : pg_count'[h] = pg_count[h]
  <2>1. 1 \in 0 .. 255
    OBVIOUS
  <2> QED
    BY <1>1, <2>1 DEF Map, pgalloc
<1>9. PageCount'
  <2>1. pg_count'[g] = Cardinality(maps(g)')
    BY ZenonT(40), <1>6, <1>8, FS_Singleton
  <2>2. ASSUME NEW h \in Pages \ {g}
        PROVE  pg_count'[h] = Cardinality(maps(h)')
    BY <1>7, <1>8 DEF Map, PageCount
  <2> QED
    BY <2>1, <2>2 DEF PageCount
<1> QED
  BY <1>6, <1>8, <1>9 DEF Map

(* do_wp_page() of a page that is shared.                                  *)
LEMMA CopyMap ==
  ASSUME Map, NEW p \in Procs, NEW v \in VPage, NEW n \in pgfreelist,
         pt[p][v].off \in Pages,
         NEW e, e.off = n, PtType', Sets(p, v, e),
         pg_count' =
           pgalloc([pg_count EXCEPT ![pt[p][v].off] = @ - 1], n)
  PROVE  Map' /\ Own(p, v)'
<1>0. PICK g \in Pages : g = pt[p][v].off
  OBVIOUS
<1>1. n \in Pages /\ maps(n) = {}
  BY FreeUnmapped
<1>6. <<p, v>> \in maps(g)
  BY <1>0, MapsMember
<1>7. g # n
  BY <1>1, <1>6
<1>8. /\ PteOK' /\ Once' /\ Alone' /\ Own(p, v)'
      /\ maps(n)' = {<<p, v>>}
      /\ \A h \in Pages \ {n} :
           maps(h)' = IF h = g THEN maps(h) \ {<<p, v>>} ELSE maps(h)
  <2>1. /\ PteOK' /\ Once' /\ Alone' /\ Own(p, v)'
        /\ maps(n)' = {<<p, v>>}
        /\ \A h \in Pages \ {n} :
             maps(h)' = IF h = pt[p][v].off THEN maps(h) \ {<<p, v>>}
                                            ELSE maps(h)
    BY <1>1, NewPage
  <2> QED
    BY <1>0, <2>1
<1>9. /\ IsFiniteSet(maps(g)) /\ pg_count[g] = Cardinality(maps(g))
      /\ pg_count[g] \in 0 .. 255
  BY <1>7, MapsFinite DEF Map, PageCount
<1>10. Cardinality(maps(g)') = pg_count[g] - 1 /\ pg_count[g] - 1 \in 0 .. 255
  <2>1. maps(g)' = maps(g) \ {<<p, v>>}
    BY <1>7, <1>8
  <2>2. Cardinality(maps(g)') = Cardinality(maps(g)) - 1
    BY ZenonT(40), <1>6, <1>9, <2>1, FS_RemoveElement
  <2>3. Cardinality(maps(g)') \in Nat
    BY <1>7, <1>8, MapsFinitePrime
  <2> QED
    BY <1>9, <2>2, <2>3
<1>11. /\ pg_count' \in [Pages -> 0 .. 255] /\ pg_count'[n] = 1
       /\ pg_count'[g] = pg_count[g] - 1
       /\ \A h \in Pages \ {g, n} : pg_count'[h] = pg_count[h]
  <2>1. 1 \in 0 .. 255 /\ pg_count \in [Pages -> 0 .. 255]
    BY DEF Map
  <2>2. pg_count' = [[pg_count EXCEPT ![g] = pg_count[g] - 1] EXCEPT ![n] = 1]
    BY <1>0, <1>7, <2>1 DEF pgalloc
  <2>3. [pg_count EXCEPT ![g] = pg_count[g] - 1] \in [Pages -> 0 .. 255]
    BY <1>7, <1>10, <2>1
  <2> QED
    BY ZenonT(40), <1>1, <1>7, <2>1, <2>2, <2>3
<1>12. PageCount'
  <2>1. pg_count'[n] = Cardinality(maps(n)')
    BY Zenon, <1>8, <1>11, FS_Singleton
  <2>2. ASSUME NEW h \in Pages \ {g, n}
        PROVE  pg_count'[h] = Cardinality(maps(h)')
    BY ZenonT(40), <1>8, <1>11 DEF Map, PageCount
  <2>3. pg_count'[g] = Cardinality(maps(g)')
    BY Zenon, <1>10, <1>11
  <2> QED
    BY Zenon, <2>1, <2>2, <2>3 DEF PageCount
<1> QED
  BY Zenon, <1>8, <1>11, <1>12 DEF Map

(* do_wp_page() of a page that has no other pte.                           *)
LEMMA ClaimMap ==
  ASSUME Map, NEW p \in Procs, NEW v \in VPage, pt[p][v].off \in Pages,
         pg_count[pt[p][v].off] = 1,
         NEW e, e.off = pt[p][v].off, PtType', Sets(p, v, e),
         pg_count' = pg_count
  PROVE  Map' /\ Own(p, v)'
<1>1. Own(p, v)
  BY CountOne
<1>6. pt'[p][v].off = pt[p][v].off /\ pt[p][v].off # NoPage
  BY VmAssumption DEF Sets
<1>7. \A q \in Procs, u \in VPage : q # p \/ u # v => pt'[q][u] = pt[q][u]
  BY DEF Sets
<1>8. \A q \in Procs, u \in VPage : pt'[q][u].off = pt[q][u].off
  BY <1>6, <1>7
<1>9. PteOK'
  BY <1>6, <1>7 DEF Map, PteOK
<1>10. Once'
  BY <1>8 DEF Map, Once
<1>11. Own(p, v)'
  BY <1>1, <1>8 DEF Own
<1>12. Alone'
  <2> SUFFICES ASSUME NEW q \in Procs, NEW u \in VPage, pt'[q][u].w
               PROVE  Own(q, u)'
    BY DEF Alone
  <2>1. CASE q = p /\ u = v
    BY <2>1, <1>11
  <2>2. CASE q # p \/ u # v
    <3>1. Own(q, u)
      BY <2>2, <1>7 DEF Map, Alone
    <3> QED
      BY <3>1, <1>8 DEF Own
  <2> QED
    BY <2>1, <2>2
<1>13. PageCount'
  <2>1. \A h \in Pages : maps(h)' = maps(h)
    BY <1>8 DEF maps
  <2> QED
    BY <2>1 DEF Map, PageCount
<1> QED
  BY <1>9, <1>10, <1>11, <1>12, <1>13 DEF Map

(* What a process has of a page: one pte or none.                          *)
ptes(p, g) == {v \in VPage : pt[p][v].off = g}

LEMMA PtesOfPage ==
  ASSUME Map, NEW p \in Procs, NEW g \in Pages
  PROVE  \/ ptes(p, g) = {} /\ Cardinality(ptes(p, g)) = 0
         \/ \E v \in VPage : /\ ptes(p, g) = {v} /\ pt[p][v].off = g
                             /\ Cardinality(ptes(p, g)) = 1
<1>1. CASE ptes(p, g) = {}
  BY <1>1, FS_EmptySet
<1>2. CASE ptes(p, g) # {}
  <2>1. PICK v \in VPage : v \in ptes(p, g)
    BY <1>2 DEF ptes
  <2>2. pt[p][v].off = g /\ g # NoPage
    BY <2>1, VmAssumption DEF ptes
  <2>3. ptes(p, g) = {v}
    BY Zenon, <2>1, <2>2 DEF ptes, Map, Once
  <2> QED
    BY <2>2, <2>3, FS_Singleton
<1> QED
  BY <1>1, <1>2

(* q gets the pages of p, and neither may write them.                      *)
Clones(p, q) ==
  /\ \A v \in VPage : /\ pt'[p][v].off = pt[p][v].off /\ ~pt'[p][v].w
                      /\ pt'[q][v].off = pt[p][v].off /\ ~pt'[q][v].w
  /\ \A r \in Procs \ {p, q} : pt'[r] = pt[r]

LEMMA CloneMap ==
  ASSUME Map, NEW p \in Procs, NEW q \in Procs, p # q,
         \A v \in VPage : pt[q][v].off = NoPage, PtType', Clones(p, q),
         pg_count' = [g \in Pages |->
           (pg_count[g] + Cardinality(ptes(p, g))) % 256]
  PROVE  Map'
<1>1. PteOK'
  BY DEF PteOK, Map, Clones
<1>2. Once'
  <2> SUFFICES ASSUME NEW r \in Procs, NEW t \in VPage, NEW u \in VPage,
                      pt'[r][t].off = pt'[r][u].off, pt'[r][t].off # NoPage
               PROVE  t = u
    BY DEF Once
  <2>1. CASE r \in {p, q}
    BY <2>1 DEF Map, Once, Clones
  <2>2. CASE r \notin {p, q}
    BY <2>2 DEF Map, Once, Clones
  <2> QED
    BY <2>1, <2>2
<1>3. Alone'
  <2> SUFFICES ASSUME NEW r \in Procs, NEW u \in VPage, pt'[r][u].w,
                      NEW s \in Procs, NEW t \in VPage,
                      pt'[s][t].off = pt'[r][u].off
               PROVE  s = r /\ t = u
    BY DEF Alone, Own
  <2>1. r \notin {p, q} /\ pt'[r][u] = pt[r][u]
    BY DEF Clones
  <2>2. Own(r, u)
    BY <2>1 DEF Map, Alone
  <2>3. CASE s \in {p, q}
    <3>1. pt[p][t].off = pt[r][u].off
      BY <2>1, <2>3 DEF Clones
    <3> QED
      BY <2>1, <2>2, <3>1 DEF Own
  <2>4. CASE s \notin {p, q}
    BY <2>1, <2>2, <2>4 DEF Own, Clones
  <2> QED
    BY <2>3, <2>4
<1>4. ASSUME NEW g \in Pages
      PROVE  pg_count[g] + Cardinality(ptes(p, g)) = Cardinality(maps(g)')
  <2>1. /\ IsFiniteSet(maps(g)) /\ pg_count[g] = Cardinality(maps(g))
        /\ pg_count[g] \in 0 .. 255
    BY MapsFinite DEF Map, PageCount
  <2>2. ASSUME NEW r \in Procs, NEW u \in VPage
        PROVE  <<r, u>> \in maps(g)' <=>
                 <<r, u>> \in maps(g) \/ (r = q /\ u \in ptes(p, g))
    <3>1. CASE r = p
      BY <3>1, MapsMember, MapsMemberPrime DEF Clones
    <3>2. CASE r = q
      <4>1. pt[r][u].off # g
        BY <3>2, VmAssumption
      <4> QED
        BY <3>2, <4>1, MapsMember, MapsMemberPrime DEF Clones, ptes
    <3>3. CASE r \notin {p, q}
      BY <3>3, MapsMember, MapsMemberPrime DEF Clones
    <3> QED
      BY <3>1, <3>2, <3>3
  <2>3. CASE ptes(p, g) = {} /\ Cardinality(ptes(p, g)) = 0
    <3>0. \A r \in Procs, u \in VPage :
            <<r, u>> \in maps(g)' <=> <<r, u>> \in maps(g)
      BY <2>2, <2>3
    <3>1. maps(g)' = maps(g)
      BY <3>0, MapsPairs
    <3> QED
      BY <2>1, <2>3, <3>1
  <2>4. ASSUME NEW v \in VPage, ptes(p, g) = {v}, pt[p][v].off = g,
               Cardinality(ptes(p, g)) = 1
        PROVE  pg_count[g] + Cardinality(ptes(p, g)) = Cardinality(maps(g)')
    <3>0. \A r \in Procs, u \in VPage :
            <<r, u>> \in maps(g)' <=> <<r, u>> \in maps(g) \cup {<<q, v>>}
      BY <2>2, <2>4
    <3>1. maps(g)' = maps(g) \cup {<<q, v>>}
      BY <3>0, MapsPairs
    <3>2. <<q, v>> \notin maps(g)
      BY MapsMember, VmAssumption
    <3>3. Cardinality(maps(g)') = Cardinality(maps(g)) + 1
      <4>1. Cardinality(maps(g) \cup {<<q, v>>}) = Cardinality(maps(g)) + 1
        BY Zenon, <2>1, <3>2, FS_AddElement
      <4> QED
        BY <3>1, <4>1
    <3> QED
      BY <2>1, <2>4, <3>3
  <2> QED
    BY <2>3, <2>4, PtesOfPage
<1>5. ASSUME NEW g \in Pages
      PROVE  pg_count'[g] = Cardinality(maps(g)') /\ pg_count'[g] \in 0 .. 255
  <2>1. Cardinality(maps(g)') \in 0 .. 255
    BY <1>2, MapsFinitePrime
  <2>2. pg_count'[g] = Cardinality(maps(g)') % 256
    BY Zenon, <1>4
  <2> QED
    BY <2>1, <2>2
<1>6. pg_count' \in [Pages -> 0 .. 255] /\ PageCount'
  BY <1>5 DEF PageCount
<1> QED
  BY Zenon, <1>1, <1>2, <1>3, <1>6 DEF Map

(* p has no page left.                                                     *)
Drops(p) ==
  /\ \A v \in VPage : pt'[p][v].off = NoPage /\ ~pt'[p][v].w
  /\ \A r \in Procs \ {p} : pt'[r] = pt[r]

LEMMA FreeMap ==
  ASSUME Map, NEW p \in Procs, PtType', Drops(p),
         pg_count' = [g \in Pages |->
           pg_count[g] - Cardinality(ptes(p, g))]
  PROVE  Map'
<1>1. PteOK'
  BY DEF PteOK, Map, Drops
<1>2. Once'
  <2> SUFFICES ASSUME NEW r \in Procs, NEW t \in VPage, NEW u \in VPage,
                      pt'[r][t].off = pt'[r][u].off, pt'[r][t].off # NoPage
               PROVE  t = u
    BY DEF Once
  <2>1. r # p
    BY DEF Drops
  <2> QED
    BY <2>1 DEF Map, Once, Drops
<1>3. Alone'
  <2> SUFFICES ASSUME NEW r \in Procs, NEW u \in VPage, pt'[r][u].w,
                      NEW s \in Procs, NEW t \in VPage,
                      pt'[s][t].off = pt'[r][u].off
               PROVE  s = r /\ t = u
    BY DEF Alone, Own
  <2>1. r # p /\ pt'[r][u] = pt[r][u]
    BY DEF Drops
  <2>2. Own(r, u) /\ pt[r][u].off # NoPage
    BY <2>1 DEF Map, Alone, PteOK
  <2>3. s # p
    BY <2>1, <2>2 DEF Drops
  <2> QED
    BY <2>1, <2>2, <2>3 DEF Own, Drops
<1>4. ASSUME NEW g \in Pages
      PROVE  pg_count[g] - Cardinality(ptes(p, g)) = Cardinality(maps(g)')
  <2>1. /\ IsFiniteSet(maps(g)) /\ pg_count[g] = Cardinality(maps(g))
        /\ pg_count[g] \in 0 .. 255
    BY MapsFinite DEF Map, PageCount
  <2>2. ASSUME NEW r \in Procs, NEW u \in VPage
        PROVE  <<r, u>> \in maps(g)' <=> <<r, u>> \in maps(g) /\ r # p
    <3>1. CASE r = p
      BY <3>1, MapsMemberPrime, VmAssumption DEF Drops
    <3>2. CASE r # p
      BY <3>2, MapsMember, MapsMemberPrime DEF Drops
    <3> QED
      BY <3>1, <3>2
  <2>3. CASE ptes(p, g) = {} /\ Cardinality(ptes(p, g)) = 0
    <3>1. \A u \in VPage : <<p, u>> \notin maps(g)
      BY <2>3, MapsMember DEF ptes
    <3>2. maps(g)' = maps(g)
      BY <2>2, <3>1, MapsPairs
    <3> QED
      BY <2>1, <2>3, <3>2
  <2>4. ASSUME NEW v \in VPage, ptes(p, g) = {v}, pt[p][v].off = g,
               Cardinality(ptes(p, g)) = 1
        PROVE  pg_count[g] - Cardinality(ptes(p, g)) = Cardinality(maps(g)')
    <3>1. \A u \in VPage : <<p, u>> \in maps(g) <=> u = v
      BY <2>4, MapsMember DEF ptes
    <3>2. maps(g)' = maps(g) \ {<<p, v>>}
      BY <2>2, <3>1, MapsPairs
    <3>3. Cardinality(maps(g)') = Cardinality(maps(g)) - 1
      BY ZenonT(40), <2>1, <3>1, <3>2, FS_RemoveElement
    <3> QED
      BY <2>1, <2>4, <3>3
  <2> QED
    BY <2>3, <2>4, PtesOfPage
<1>5. ASSUME NEW g \in Pages
      PROVE  pg_count'[g] = Cardinality(maps(g)') /\ pg_count'[g] \in 0 .. 255
  <2>1. Cardinality(maps(g)') \in 0 .. 255
    BY <1>2, MapsFinitePrime
  <2>2. pg_count'[g] = Cardinality(maps(g)')
    BY <1>4
  <2> QED
    BY <2>1, <2>2
<1>6. pg_count' \in [Pages -> 0 .. 255] /\ PageCount'
  BY <1>5 DEF PageCount
<1> QED
  BY <1>1, <1>2, <1>3, <1>6 DEF Map
-----------------------------------------------------------------------------
(* Only the process that runs can be on its way out of a system call, and  *)
(* one that is not alive has no page.                                      *)
Running ==
  /\ cu # NoProc => cu \in alive \/ pc[cu] = "ret"
  /\ \A p \in Procs : pc[p] = "ret" => p = cu
  /\ \A p \in Procs \ alive :
       (\A v \in VPage : pt[p][v].off = NoPage) /\ pc[p] \in {"user", "ret"}

IInv == TypeOK /\ Map /\ Running /\ TlbSound

MemTypes == mem \in [Pages -> Value] /\ want \in [Procs -> [VPage -> Value]]

LEMMA AbsentIs ==
  ASSUME NEW e \in Pte, e.off = NoPage => ~e.w
  PROVE  e = Absent <=> e.off = NoPage
BY DEF Pte, Absent

LEMMA FlushedType ==
  /\ Flushed \in [VPage -> Pte] /\ Absent \in Pte
  /\ Absent.off = NoPage /\ Absent.w = FALSE
  /\ \A v \in VPage : Flushed[v] = Absent
BY DEF Flushed, Absent, Pte

LEMMA PteIs ==
  ASSUME Map, NEW p \in Procs, NEW v \in VPage
  PROVE  /\ pt[p][v] \in Pte
         /\ pt[p][v] = Absent <=> pt[p][v].off = NoPage
         /\ pt[p][v] # Absent => pt[p][v].off \in Pages
<1>1. pt[p][v] \in Pte /\ (pt[p][v].off = NoPage => ~pt[p][v].w)
  BY DEF Map, PtType, PteOK
<1>2. pt[p][v].off \in Pages \cup {NoPage}
  BY <1>1 DEF Pte
<1> QED
  BY <1>1, <1>2, AbsentIs

LEMMA FreshValue == Fresh \in Value
BY VmAssumption DEF Fresh

(* A fault of process p at page v is served: it has the page to itself,    *)
(* with the contents it should have, and no other pte sees a difference.   *)
Fixed(p, v) ==
  /\ tlb' = Flushed
  /\ \A q \in Procs, u \in VPage :
       pt'[q][u].off = pt'[p][v].off => q = p /\ u = v
  /\ \A q \in Procs, u \in VPage : q # p \/ u # v =>
       /\ pt'[q][u] = pt[q][u] /\ want'[q][u] = want[q][u]
       /\ pt[q][u] # Absent => mem'[pt[q][u].off] = mem[pt[q][u].off]
  /\ (pt[p][v] = Absent \/ mem[pt[p][v].off] = want[p][v]) =>
       mem'[pt'[p][v].off] = want'[p][v]

Faults(p) == UNCHANGED <<pt, tlb, pg_count, mem, want>> /\ sig' = sig \cup {p}

LEMMA OtherPages ==
  ASSUME Map, NEW g \in Pages, maps(g) = {}, NEW q \in Procs, NEW u \in VPage
  PROVE  pt[q][u].off # g
BY Zenon, MapsMember

(* pgattach(), whatever happens to the contents of the page.               *)
Attached(p, v, g, w, y) ==
  /\ pg_count' = pgalloc(pg_count, g)
  /\ pt' = [pt EXCEPT ![p] = [pt[p] EXCEPT ![v] = [off |-> g, w |-> w]]]
  /\ tlb' = Flushed
  /\ mem' = [mem EXCEPT ![g] = y]
  /\ want' = [want EXCEPT ![p] = [want[p] EXCEPT ![v] = y]]
  /\ sig' = sig

LEMMA AttachEffect ==
  ASSUME Map, MemTypes, NEW p \in Procs, NEW v \in VPage,
         pt[p][v].off = NoPage, NEW g \in pgfreelist, NEW w \in BOOLEAN,
         NEW y \in Value, Attached(p, v, g, w, y)
  PROVE  Map' /\ MemTypes' /\ Fixed(p, v) /\ sig' = sig
<1>1. g \in Pages /\ maps(g) = {}
  BY FreeUnmapped
<1>2. PICK e : e = [off |-> g, w |-> w]
  BY Zenon
<1>3. e \in Pte /\ e.off = g
  BY <1>1, <1>2 DEF Pte
<1>4. PtType /\ pt' = [pt EXCEPT ![p] = [pt[p] EXCEPT ![v] = e]]
  BY <1>2 DEF Attached, Map
<1>5. PtType' /\ Sets(p, v, e)
  BY Zenon, <1>3, <1>4, PteSet
<1>6. pg_count' = pgalloc(pg_count, g)
  BY DEF Attached
<1>7. Map' /\ Own(p, v)'
  BY <1>3, <1>5, <1>6, AttachMap
<1>8. mem' = [mem EXCEPT ![g] = y] /\ mem \in [Pages -> Value]
  BY DEF Attached, MemTypes
<1>9. /\ mem' \in [Pages -> Value] /\ mem'[g] = y
      /\ \A h \in Pages \ {g} : mem'[h] = mem[h]
  BY <1>1, <1>8
<1>10. /\ want' = [want EXCEPT ![p] = [want[p] EXCEPT ![v] = y]]
       /\ want \in [Procs -> [VPage -> Value]]
  BY DEF Attached, MemTypes
<1>11. /\ want' \in [Procs -> [VPage -> Value]] /\ want'[p][v] = y
       /\ \A q \in Procs, u \in VPage : q # p \/ u # v =>
            want'[q][u] = want[q][u]
  <2>1. [want[p] EXCEPT ![v] = y] \in [VPage -> Value]
    BY <1>10
  <2>2. want' \in [Procs -> [VPage -> Value]] /\ want'[p][v] = y
    BY <1>10, <2>1
  <2>3. ASSUME NEW q \in Procs, NEW u \in VPage, q # p \/ u # v
        PROVE  want'[q][u] = want[q][u]
    BY <1>10, <2>3
  <2> QED
    BY <2>2, <2>3
<1>12. pt'[p][v].off = g
  BY <1>3, <1>5 DEF Sets
<1>13. ASSUME NEW q \in Procs, NEW u \in VPage, q # p \/ u # v
       PROVE  /\ pt'[q][u] = pt[q][u] /\ want'[q][u] = want[q][u]
              /\ pt[q][u] # Absent => mem'[pt[q][u].off] = mem[pt[q][u].off]
  <2>1. pt'[q][u] = pt[q][u] /\ want'[q][u] = want[q][u]
    BY <1>5, <1>11, <1>13 DEF Sets
  <2>2. pt[q][u].off # g
    BY <1>1, OtherPages
  <2>3. pt[q][u] # Absent => pt[q][u].off \in Pages
    BY PteIs
  <2> QED
    BY Zenon, <1>9, <2>1, <2>2, <2>3
<1>14. mem'[pt'[p][v].off] = want'[p][v]
  BY <1>9, <1>11, <1>12
<1>15. tlb' = Flushed /\ sig' = sig
  BY DEF Attached
<1>16. \A q \in Procs, u \in VPage :
         pt'[q][u].off = pt'[p][v].off => q = p /\ u = v
  BY Zenon, <1>7 DEF Own
<1>17. Fixed(p, v)
  BY <1>13, <1>14, <1>15, <1>16 DEF Fixed
<1> QED
  BY <1>7, <1>9, <1>11, <1>15, <1>17 DEF MemTypes

LEMMA PgattachIs ==
  ASSUME Map, MemTypes, NEW p \in Procs, cu = p, NEW v \in VPage,
         NEW w \in BOOLEAN,
         pgattach(v, FALSE, w) \/ pgattach(v, TRUE, w)
  PROVE  \E g \in pgfreelist, y \in Value : Attached(p, v, g, w, y)
<1>1. PtType /\ MemTypes
  BY DEF Map
<1>2. CASE pgattach(v, FALSE, w)
  <2>1. PICK g \in pgfreelist :
          /\ pg_count' = pgalloc(pg_count, g)
          /\ pt' = [pt EXCEPT ![p][v] = [off |-> g, w |-> w]]
          /\ tlb' = Flushed
          /\ mem' = [mem EXCEPT ![g] = mem[g]]
          /\ want' = [want EXCEPT ![p][v] = mem[g]]
          /\ UNCHANGED sig
    BY Zenon, <1>2 DEF pgattach
  <2>2. PICK y \in Value : y = mem[g]
    BY <1>1 DEF MemTypes, pgfreelist
  <2>3. pt' = [pt EXCEPT ![p] = [pt[p] EXCEPT ![v] = [off |-> g, w |-> w]]]
    BY <2>1, <1>1 DEF PtType
  <2>4. want' = [want EXCEPT ![p] = [want[p] EXCEPT ![v] = y]]
    BY <2>1, <2>2, <1>1 DEF MemTypes
  <2>5. Attached(p, v, g, w, y)
    BY <2>1, <2>2, <2>3, <2>4 DEF Attached
  <2> QED
    BY Zenon, <2>5
<1>3. CASE pgattach(v, TRUE, w)
  <2>1. PICK g \in pgfreelist :
          /\ pg_count' = pgalloc(pg_count, g)
          /\ pt' = [pt EXCEPT ![p][v] = [off |-> g, w |-> w]]
          /\ tlb' = Flushed
          /\ mem' = [mem EXCEPT ![g] = Fresh]
          /\ want' = [want EXCEPT ![p][v] = Fresh]
          /\ UNCHANGED sig
    BY Zenon, <1>3 DEF pgattach
  <2>2. PICK y \in Value : y = Fresh
    BY FreshValue
  <2>3. pt' = [pt EXCEPT ![p] = [pt[p] EXCEPT ![v] = [off |-> g, w |-> w]]]
    BY <2>1, <1>1 DEF PtType
  <2>4. want' = [want EXCEPT ![p] = [want[p] EXCEPT ![v] = y]]
    BY <2>1, <2>2, <1>1 DEF MemTypes
  <2>5. Attached(p, v, g, w, y)
    BY <2>1, <2>2, <2>3, <2>4 DEF Attached
  <2> QED
    BY <2>5
<1> QED
  BY <1>2, <1>3

VbaseType == v_base \in [Procs -> Low .. NV]

LEMMA NoPageEffect ==
  ASSUME Map, MemTypes, VbaseType, NEW p \in Procs, cu = p, NEW v \in VPage,
         pt[p][v].off = NoPage, NEW first \in BOOLEAN, do_no_page(v, first)
  PROVE  /\ Map' /\ MemTypes' /\ VbaseType'
         /\ (Fixed(p, v) /\ sig' = sig) \/ Faults(p)
<1>1. ASSUME NEW w \in BOOLEAN,
             pgattach(v, FALSE, w) \/ pgattach(v, TRUE, w)
      PROVE  Map' /\ MemTypes' /\ Fixed(p, v) /\ sig' = sig
  <2>1. PICK g \in pgfreelist, y \in Value : Attached(p, v, g, w, y)
    BY Zenon, <1>1, PgattachIs
  <2> QED
    BY <2>1, AttachEffect
<1>2. CASE v_base[cu] - v = 1 \/ (v_base[cu] = v /\ first)
  <2>1. /\ v_base[p] > Low /\ pgattach(v, FALSE, TRUE)
        /\ v_base' = [v_base EXCEPT ![p] = @ - 1]
    BY Zenon, <1>2 DEF do_no_page
  <2>2. VbaseType'
    <3>1. v_base[p] \in Low .. NV /\ Low \in Nat /\ NV \in Nat
      BY VmAssumption DEF VbaseType
    <3>2. v_base[p] - 1 \in Low .. NV
      BY <2>1, <3>1
    <3>3. v_base' = [v_base EXCEPT ![p] = v_base[p] - 1]
      BY <2>1
    <3> QED
      BY <3>2, <3>3 DEF VbaseType
  <2>3. TRUE \in BOOLEAN
    OBVIOUS
  <2> QED
    BY Zenon, <1>1, <2>1, <2>2, <2>3
<1>3. CASE ~(v_base[cu] - v = 1 \/ (v_base[cu] = v /\ first))
  <2>1. /\ CASE find_vma(v) = "gap" -> segv
             [] find_vma(v) = "bss" -> pgattach(v, TRUE, TRUE)
             [] find_vma(v) = "text" -> pgattach(v, TRUE, TRUE)
             [] find_vma(v) = "data" -> pgattach(v, TRUE, FALSE)
        /\ v_base' = v_base
    BY Zenon, <1>3 DEF do_no_page
  <2>2. VbaseType'
    BY <2>1 DEF VbaseType
  <2>3. find_vma(v) \in Kind
    BY VmAssumption DEF find_vma, Kind
  <2>4. CASE find_vma(v) = "gap"
    <3>1. segv
      BY <2>1, <2>4
    <3>2. Faults(p)
      BY <3>1 DEF segv, Faults
    <3>3. Map' /\ MemTypes'
      BY <3>2 DEF Faults, Map, MemTypes, PtType, PteOK, Once, Alone, Own,
                  PageCount, maps
    <3> QED
      BY <2>2, <3>2, <3>3
  <2>5. CASE find_vma(v) # "gap"
    <3>1. PICK w \in BOOLEAN : pgattach(v, TRUE, w)
      BY Zenon, <2>1, <2>3, <2>5 DEF Kind
    <3> QED
      BY Zenon, <1>1, <2>2, <3>1
  <2> QED
    BY <2>4, <2>5
<1> QED
  BY <1>2, <1>3

LEMMA WpEffect ==
  ASSUME Map, MemTypes, NEW p \in Procs, cu = p, NEW v \in VPage,
         pt[p][v].off \in Pages, do_wp_page(v)
  PROVE  /\ Map' /\ MemTypes'
         /\ \/ Fixed(p, v) /\ sig' = sig
            \/ Faults(p) /\ Area[v] = "text"
<1>0. PICK g \in Pages : g = pt[p][v].off
  OBVIOUS
<1>1. PtType
  BY DEF Map
<1>2. CASE find_vma(v) = "text" /\ segv
  <2>1. Faults(p) /\ Area[v] = "text"
    BY <1>2 DEF segv, Faults, find_vma
  <2>2. Map' /\ MemTypes'
    BY <2>1 DEF Faults, Map, MemTypes, PtType, PteOK, Once, Alone, Own,
                PageCount, maps
  <2> QED
    BY <2>1, <2>2
<1>3. ASSUME NEW n \in pgfreelist,
             pg_count' = pgalloc([pg_count EXCEPT ![g] = @ - 1], n),
             pt' = [pt EXCEPT ![p][v] = [off |-> n, w |-> TRUE]],
             mem' = [mem EXCEPT ![n] = mem[g]], tlb' = Flushed,
             UNCHANGED <<sig, want>>
      PROVE  Map' /\ MemTypes' /\ Fixed(p, v)
  <2>1. n \in Pages /\ maps(n) = {}
    BY FreeUnmapped
  <2>2. PICK e : e = [off |-> n, w |-> TRUE]
    BY Zenon
  <2>3. e \in Pte /\ e.off = n
    BY <2>1, <2>2 DEF Pte
  <2>4. pt' = [pt EXCEPT ![p] = [pt[p] EXCEPT ![v] = e]]
    BY <1>1, <1>3, <2>2 DEF PtType
  <2>5. PtType' /\ Sets(p, v, e)
    BY Zenon, <1>1, <2>3, <2>4, PteSet
  <2>6. pg_count' = pgalloc([pg_count EXCEPT ![pt[p][v].off] = @ - 1], n)
    BY <1>0, <1>3
  <2>7. Map' /\ Own(p, v)'
    BY <2>3, <2>5, <2>6, CopyMap
  <2>8. /\ mem' \in [Pages -> Value] /\ mem'[n] = mem[g]
        /\ \A h \in Pages \ {n} : mem'[h] = mem[h]
    BY <1>3, <2>1 DEF MemTypes
  <2>9. pt'[p][v].off = n
    BY Zenon, <2>3, <2>5 DEF Sets
  <2>10. ASSUME NEW q \in Procs, NEW u \in VPage, q # p \/ u # v
         PROVE  /\ pt'[q][u] = pt[q][u] /\ want'[q][u] = want[q][u]
                /\ pt[q][u] # Absent =>
                     mem'[pt[q][u].off] = mem[pt[q][u].off]
    <3>1. pt'[q][u] = pt[q][u] /\ want'[q][u] = want[q][u]
      BY <1>3, <2>5, <2>10 DEF Sets
    <3>2. pt[q][u].off # n
      BY <2>1, OtherPages
    <3>3. pt[q][u] # Absent => pt[q][u].off \in Pages
      BY PteIs
    <3> QED
      BY <2>8, <3>1, <3>2, <3>3
  <2>11. \A q \in Procs, u \in VPage :
           pt'[q][u].off = pt'[p][v].off => q = p /\ u = v
    BY <2>7 DEF Own
  <2>12. pt[p][v] # Absent
    BY <1>0, PteIs, VmAssumption
  <2>13. mem[pt[p][v].off] = want[p][v] => mem'[pt'[p][v].off] = want'[p][v]
    BY Zenon, <1>0, <1>3, <2>8, <2>9
  <2>14. Fixed(p, v)
    BY <1>3, <2>10, <2>11, <2>12, <2>13 DEF Fixed
  <2> QED
    BY <1>3, <2>7, <2>8, <2>14 DEF MemTypes
<1>4. ASSUME pg_count[g] = 1, pt' = [pt EXCEPT ![p][v].w = TRUE],
             tlb' = Flushed, UNCHANGED <<sig, want, pg_count, mem>>
      PROVE  Map' /\ MemTypes' /\ Fixed(p, v)
  <2>1. pt[p][v] \in Pte
    BY <1>1 DEF PtType
  <2>2. PICK e : e = [pt[p][v] EXCEPT !.w = TRUE]
    BY Zenon
  <2>3. e \in Pte /\ e.off = pt[p][v].off
    BY Zenon, <2>1, <2>2, PteW
  <2>4. pt' = [pt EXCEPT ![p] = [pt[p] EXCEPT ![v] = e]]
    BY <1>1, <1>4, <2>2 DEF PtType
  <2>5. PtType' /\ Sets(p, v, e)
    BY Zenon, <1>1, <2>3, <2>4, PteSet
  <2>6. Map' /\ Own(p, v)'
    BY <1>0, <1>4, <2>3, <2>5, ClaimMap
  <2>7. \A q \in Procs, u \in VPage :
          pt'[q][u].off = pt'[p][v].off => q = p /\ u = v
    BY <2>6 DEF Own
  <2>8. pt'[p][v].off = pt[p][v].off
    BY <2>3, <2>5 DEF Sets
  <2>9. pt[p][v] # Absent
    BY <1>0, PteIs, VmAssumption
  <2>10. \A q \in Procs, u \in VPage : q # p \/ u # v => pt'[q][u] = pt[q][u]
    BY <2>5 DEF Sets
  <2>11. Fixed(p, v)
    BY Zenon, <1>4, <2>7, <2>8, <2>9, <2>10 DEF Fixed
  <2> QED
    BY <1>4, <2>6, <2>11 DEF MemTypes
<1>5. \/ find_vma(v) = "text" /\ segv
      \/ \E n \in pgfreelist :
           /\ pg_count' = pgalloc([pg_count EXCEPT ![g] = @ - 1], n)
           /\ pt' = [pt EXCEPT ![p][v] = [off |-> n, w |-> TRUE]]
           /\ mem' = [mem EXCEPT ![n] = mem[g]]
           /\ tlb' = Flushed
           /\ UNCHANGED <<sig, want>>
      \/ /\ pg_count[g] = 1 /\ pt' = [pt EXCEPT ![p][v].w = TRUE]
         /\ tlb' = Flushed
         /\ UNCHANGED <<sig, want, pg_count, mem>>
  BY Zenon, <1>0 DEF do_wp_page
<1>6. sig' = sig \/ (find_vma(v) = "text" /\ segv)
  BY <1>5
<1> QED
  BY Zenon, <1>2, <1>3, <1>4, <1>5, <1>6
-----------------------------------------------------------------------------
(* read() and write() are called with pages of data, and fstat() is not    *)
(* called: read() of a page of the program's text leaves the page shared   *)
(* (vm_verify() does not look at what do_wp_page() did), and fstat() does  *)
(* not call vm_verify(), so that the kernel, for which PTE_W does not      *)
(* count, would store into another process's page.                         *)
Verified ==
  Targets["fstat"] = {} /\ \A v \in Targets["read"] : Area[v] # "text"

Arg == [call : {"none", "exec", "read", "write", "fstat"}, v : VPage]

(* What vm_verify() has made sure of when the kernel copies.               *)
Call(p) ==
  /\ pc[p] \in {"verify", "copy"} =>
       \/ arg[p].call = "exec"
       \/ /\ arg[p].call \in {"read", "write", "fstat"}
          /\ arg[p].v \in Targets[arg[p].call]
  /\ pc[p] = "verify" /\ arg[p].call = "exec" =>
       \A v \in VPage : pt[p][v].off = NoPage
  /\ pc[p] = "copy" /\ arg[p].call # "write" /\ pt[p][arg[p].v] # Absent =>
       Own(p, arg[p].v)

KInv == (\A p \in Procs : Call(p)) /\ Isolated

(* The types of what a fault does not change, and of the TLB.              *)
RestTypes ==
  /\ cu \in Procs \cup {NoProc} /\ alive \subseteq Procs
  /\ tlb \in [VPage -> Pte] /\ sig \subseteq Procs
  /\ pc \in [Procs -> {"user", "ret", "verify", "copy"}]
  /\ arg \in [Procs -> Arg]

LEMMA TypeParts ==
  ASSUME TypeOK
  PROVE  RestTypes /\ PtType /\ VbaseType /\ MemTypes
<1>1. DOMAIN Targets = {"read", "write", "fstat"}
  BY VmAssumption
<1>2. [call : {"none", "exec"} \cup DOMAIN Targets, v : VPage] = Arg
  BY Zenon, <1>1 DEF Arg
<1> QED
  BY Zenon, <1>2 DEF TypeOK, RestTypes, PtType, VbaseType, MemTypes

LEMMA TypeWhole ==
  ASSUME RestTypes', Map', VbaseType', MemTypes'
  PROVE  TypeOK'
<1>1. DOMAIN Targets = {"read", "write", "fstat"}
  BY VmAssumption
<1>2. [call : {"none", "exec"} \cup DOMAIN Targets, v : VPage] = Arg
  BY Zenon, <1>1 DEF Arg
<1> QED
  BY Zenon, <1>2 DEF TypeOK, RestTypes, PtType, VbaseType, MemTypes, Map

LEMMA MapSame ==
  ASSUME Map, UNCHANGED <<pt, pg_count>>
  PROVE  Map'
BY DEF Map, PtType, PteOK, Once, Alone, Own, PageCount, maps

LEMMA TlbFlushed ==
  ASSUME tlb' = Flushed
  PROVE  TlbSound' /\ tlb' \in [VPage -> Pte]
BY FlushedType DEF TlbSound

(* The processor sees the pte.                                             *)
LEMMA LookupIs ==
  ASSUME IInv, NEW p \in Procs, cu = p, pc[p] # "ret", NEW v \in VPage
  PROVE  /\ lookup(v) = pt[p][v] /\ p \in alive
         /\ tlb' = [tlb EXCEPT ![v] = lookup(v)] /\ pt' = pt /\ cu' = cu =>
              TlbSound' /\ tlb' \in [VPage -> Pte]
<1>1. cu # NoProc
  BY VmAssumption
<1>2. lookup(v) = pt[p][v] /\ p \in alive
  BY <1>1 DEF IInv, TlbSound, Running, lookup
<1>3. ASSUME tlb' = [tlb EXCEPT ![v] = lookup(v)], pt' = pt, cu' = cu
      PROVE  TlbSound' /\ tlb' \in [VPage -> Pte]
  <2>1. tlb \in [VPage -> Pte] /\ pt[p][v] \in Pte
    BY PteIs, TypeParts DEF IInv, RestTypes
  <2>2. tlb' = [tlb EXCEPT ![v] = pt[p][v]]
    BY <1>2, <1>3
  <2>3. tlb' \in [VPage -> Pte]
    BY <2>1, <2>2
  <2>4. \A u \in VPage : tlb'[u] # Absent => tlb'[u] = pt[p][u]
    <3>1. \A u \in VPage : tlb[u] # Absent => tlb[u] = pt[p][u]
      BY <1>1 DEF IInv, TlbSound
    <3> QED
      BY <2>1, <2>2, <3>1
  <2> QED
    BY <1>3, <2>3, <2>4 DEF TlbSound
<1> QED
  BY <1>2, <1>3

(* A process stores into a page it has to itself.                          *)
Stores(p, v, x) ==
  /\ mem' = [mem EXCEPT ![pt[p][v].off] = x]
  /\ want' = [want EXCEPT ![p][v] = x]

LEMMA StoreTypes ==
  ASSUME MemTypes, NEW p \in Procs, NEW v \in VPage, NEW x \in Value,
         Stores(p, v, x)
  PROVE  /\ MemTypes' /\ want'[p][v] = x
         /\ \A q \in Procs, u \in VPage : q # p \/ u # v =>
              want'[q][u] = want[q][u]
<1>1. /\ mem' = [mem EXCEPT ![pt[p][v].off] = x] /\ mem \in [Pages -> Value]
  BY DEF Stores, MemTypes
<1>2. want \in [Procs -> [VPage -> Value]]
  BY DEF MemTypes
<1>3. want' = [want EXCEPT ![p] = [want[p] EXCEPT ![v] = x]]
  BY <1>2 DEF Stores
<1>4. [want[p] EXCEPT ![v] = x] \in [VPage -> Value]
  BY <1>2
<1>5. want' \in [Procs -> [VPage -> Value]] /\ want'[p][v] = x
  BY <1>2, <1>3, <1>4
<1>6. mem' \in [Pages -> Value]
  BY Zenon, <1>1
<1>7. ASSUME NEW q \in Procs, NEW u \in VPage, q # p \/ u # v
      PROVE  want'[q][u] = want[q][u]
  BY <1>2, <1>3, <1>7
<1> QED
  BY <1>5, <1>6, <1>7 DEF MemTypes

LEMMA StoreIsolated ==
  ASSUME Map, MemTypes, NEW p \in Procs, NEW v \in VPage, NEW x \in Value,
         Stores(p, v, x), Own(p, v), pt[p][v] # Absent, pt' = pt,
         alive' = alive, alive \subseteq Procs, Isolated
  PROVE  Isolated'
<1> SUFFICES ASSUME NEW q \in alive, NEW u \in VPage, pt[q][u] # Absent
             PROVE  mem'[pt[q][u].off] = want'[q][u]
  BY DEF Isolated
<1>1. q \in Procs /\ pt[q][u].off \in Pages /\ pt[p][v].off \in Pages
  BY PteIs
<1>2. mem[pt[q][u].off] = want[q][u]
  BY DEF Isolated
<1>3. /\ want'[p][v] = x
      /\ \A r \in Procs, t \in VPage : r # p \/ t # v =>
           want'[r][t] = want[r][t]
  BY StoreTypes
<1>4. /\ mem'[pt[p][v].off] = x
      /\ \A h \in Pages \ {pt[p][v].off} : mem'[h] = mem[h]
  BY Zenon, <1>1 DEF Stores, MemTypes
<1>5. CASE q = p /\ u = v
  BY Zenon, <1>3, <1>4, <1>5
<1>6. CASE q # p \/ u # v
  <2>1. pt[q][u].off # pt[p][v].off
    BY Zenon, <1>1, <1>6 DEF Own
  <2> QED
    BY Zenon, <1>1, <1>2, <1>3, <1>4, <1>6, <2>1
<1> QED
  BY <1>5, <1>6
-----------------------------------------------------------------------------
(* One lemma per action.                                                   *)
LEMMA CallSame ==
  ASSUME NEW q \in Procs, pt' = pt, pc'[q] = pc[q], arg'[q] = arg[q], Call(q)
  PROVE  Call(q)'
BY DEF Call, Own

LEMMA UserReadStep ==
  ASSUME IInv, NEW v \in VPage, user_read(v)
  PROVE  IInv' /\ (KInv => KInv')
<1>1. /\ tlb' = [tlb EXCEPT ![v] = lookup(v)] /\ cu # NoProc
      /\ pc[cu] # "ret"
      /\ UNCHANGED <<cu, alive, pt, pg_count, v_base, sig, pc, arg, mem, want>>
  BY DEF user_read, user, at
<1>2. PICK p \in Procs : cu = p
  BY <1>1, TypeParts DEF IInv, RestTypes
<1>3. TlbSound' /\ tlb' \in [VPage -> Pte]
  BY Zenon, <1>1, <1>2, LookupIs
<1>4. Map'
  BY <1>1, MapSame DEF IInv
<1>5. RestTypes' /\ VbaseType' /\ MemTypes'
  BY <1>1, <1>3, TypeParts DEF IInv, RestTypes, VbaseType, MemTypes
<1>6. Running'
  BY <1>1 DEF IInv, Running
<1>7. IInv'
  BY Zenon, <1>3, <1>4, <1>5, <1>6, TypeWhole DEF IInv, Map
<1>8. KInv => KInv'
  BY <1>1 DEF KInv, Call, Own, Isolated
<1> QED
  BY <1>7, <1>8

LEMMA UserWriteStep ==
  ASSUME IInv, NEW v \in VPage, NEW x \in Value, user_write(v, x)
  PROVE  IInv' /\ (KInv => KInv')
<1>1. /\ tlb' = [tlb EXCEPT ![v] = lookup(v)] /\ cu # NoProc
      /\ pc[cu] # "ret" /\ lookup(v).w
      /\ mem' = [mem EXCEPT ![lookup(v).off] = x]
      /\ want' = [want EXCEPT ![cu][v] = x]
      /\ UNCHANGED <<cu, alive, pt, pg_count, v_base, sig, pc, arg>>
  BY DEF user_write, user, at
<1>2. PICK p \in Procs : cu = p
  BY <1>1, TypeParts DEF IInv, RestTypes
<1>3. TlbSound' /\ tlb' \in [VPage -> Pte] /\ lookup(v) = pt[p][v]
  BY Zenon, <1>1, <1>2, LookupIs
<1>4. Map' /\ Map
  BY <1>1, MapSame DEF IInv
<1>5. RestTypes' /\ VbaseType'
  BY <1>1, <1>3, TypeParts DEF IInv, RestTypes, VbaseType
<1>6. Running'
  BY <1>1 DEF IInv, Running
<1>7. MemTypes /\ alive \subseteq Procs
  BY TypeParts DEF IInv, RestTypes
<1>8. Stores(p, v, x)
  BY <1>1, <1>2, <1>3 DEF Stores
<1>9. MemTypes'
  BY <1>7, <1>8, StoreTypes
<1>10. IInv'
  BY Zenon, <1>3, <1>4, <1>5, <1>6, <1>9, TypeWhole DEF IInv
<1>11. Own(p, v) /\ pt[p][v] # Absent
  BY <1>1, <1>3, <1>4, FlushedType DEF Map, Alone
<1>12. Isolated => Isolated'
  BY Zenon, <1>1, <1>4, <1>7, <1>8, <1>11, StoreIsolated
<1>13. KInv => KInv'
  BY <1>1, <1>12 DEF KInv, Call, Own
<1> QED
  BY <1>10, <1>13

(* What do_pgfault(), vm_verify() and a fault in the copy have in common.  *)
LEMMA FixStep ==
  ASSUME IInv, NEW p \in Procs, cu = p, pc[p] # "ret", NEW v \in VPage,
         Map', MemTypes', VbaseType',
         (Fixed(p, v) /\ sig' = sig) \/ Faults(p),
         pc' \in [Procs -> {"user", "ret", "verify", "copy"}], arg' = arg,
         \A q \in Procs \ {p} : pc'[q] = pc[q], pc'[p] # "ret",
         UNCHANGED <<cu, alive>>
  PROVE  /\ IInv'
         /\ KInv => Isolated' /\ \A q \in Procs \ {p} : Call(q)'
<1>1. p \in alive
  BY LookupIs
<1>2. Map /\ RestTypes
  BY Zenon, TypeParts DEF IInv
<1>3. \A q \in Procs, u \in VPage : q # p \/ u # v => pt'[q][u] = pt[q][u]
  BY Zenon DEF Fixed, Faults
<1>4. TlbSound' /\ tlb' \in [VPage -> Pte]
  <2>1. CASE Fixed(p, v)
    BY Zenon, <2>1, TlbFlushed DEF Fixed
  <2>2. CASE Faults(p)
    <3>1. \A u \in VPage : tlb[u] # Absent => tlb[u] = pt[p][u]
      BY Zenon, VmAssumption DEF IInv, TlbSound
    <3> QED
      BY Zenon, <2>2, <3>1, <1>2 DEF Faults, TlbSound, RestTypes
  <2> QED
    BY Zenon, <2>1, <2>2
<1>5. RestTypes'
  <2>1. sig' \subseteq Procs
    BY Zenon, <1>2 DEF RestTypes, Faults
  <2> QED
    BY <1>2, <1>4, <2>1 DEF RestTypes
<1>6. Running'
  <2>1. cu' # NoProc => cu' \in alive' \/ pc'[cu'] = "ret"
    BY Zenon, <1>1
  <2>2. \A q \in Procs : pc'[q] = "ret" => q = cu'
    BY Zenon DEF IInv, Running
  <2>3. ASSUME NEW q \in Procs \ alive'
        PROVE  /\ \A u \in VPage : pt'[q][u].off = NoPage
               /\ pc'[q] \in {"user", "ret"}
    BY <1>1, <1>3, <2>3 DEF IInv, Running
  <2> QED
    BY <2>1, <2>2, <2>3 DEF Running
<1>7. IInv'
  BY Zenon, <1>4, <1>5, <1>6, TypeWhole DEF IInv
<1>8. ASSUME KInv, NEW q \in alive, NEW u \in VPage, pt'[q][u] # Absent
      PROVE  mem'[pt'[q][u].off] = want'[q][u]
  <2>1. q \in Procs /\ (pt[q][u] # Absent => mem[pt[q][u].off] = want[q][u])
    BY Zenon, <1>2, <1>8 DEF KInv, Isolated, RestTypes
  <2>2. CASE Faults(p)
    BY Zenon, <1>8, <2>1, <2>2 DEF Faults
  <2>3. CASE Fixed(p, v)
    <3>1. CASE q = p /\ u = v
      <4>1. (pt[p][v] = Absent \/ mem[pt[p][v].off] = want[p][v]) =>
              mem'[pt'[p][v].off] = want'[p][v]
        BY Zenon, <2>3 DEF Fixed
      <4> QED
        BY Zenon, <2>1, <3>1, <4>1
    <3>2. CASE q # p \/ u # v
      <4>1. /\ pt'[q][u] = pt[q][u] /\ want'[q][u] = want[q][u]
            /\ pt[q][u] # Absent => mem'[pt[q][u].off] = mem[pt[q][u].off]
        BY Zenon, <2>1, <2>3, <3>2 DEF Fixed
      <4> QED
        BY Zenon, <1>8, <2>1, <4>1
    <3> QED
      BY Zenon, <3>1, <3>2
  <2> QED
    BY Zenon, <2>2, <2>3
<1>9. ASSUME KInv, NEW q \in Procs \ {p}
      PROVE  Call(q)'
  <2>0. Call(q)
    BY <1>9 DEF KInv
  <2>1. CASE Faults(p)
    BY Zenon, <2>0, <2>1, CallSame DEF Faults
  <2>2. CASE Fixed(p, v)
    <3>1. \A u \in VPage : pt'[q][u] = pt[q][u]
      BY Zenon, <1>3
    <3>2. arg[q].v \in VPage
      BY Zenon, <1>2 DEF RestTypes, Arg
    <3>3. ASSUME Own(q, arg[q].v)
          PROVE  Own(q, arg[q].v)'
      <4> SUFFICES ASSUME NEW r \in Procs, NEW t \in VPage,
                          pt'[r][t].off = pt'[q][arg[q].v].off
                   PROVE  r = q /\ t = arg[q].v
        BY Zenon DEF Own
      <4>1. r # p \/ t # v
        BY Zenon, <2>2, <3>2 DEF Fixed
      <4>2. pt[r][t].off = pt[q][arg[q].v].off
        BY <1>3, <3>1, <3>2, <4>1
      <4> QED
        BY Zenon, <3>3, <4>2 DEF Own
    <3> QED
      BY Zenon, <2>0, <3>1, <3>2, <3>3 DEF Call
  <2> QED
    BY <2>1, <2>2
<1>10. KInv => Isolated'
  BY <1>8 DEF Isolated
<1> QED
  BY Zenon, <1>7, <1>9, <1>10

LEMMA PgfaultStep ==
  ASSUME IInv, NEW v \in VPage, NEW first \in BOOLEAN, do_pgfault(v, first)
  PROVE  IInv' /\ (KInv => KInv')
<1>1. /\ cu # NoProc /\ pc[cu] = "user"
      /\ IF lookup(v) = Absent THEN do_no_page(v, first)
         ELSE do_wp_page(v) /\ UNCHANGED v_base
      /\ UNCHANGED <<cu, alive, pc, arg>>
  BY DEF do_pgfault, user, at
<1>2. PICK p \in Procs : cu = p
  BY Zenon, <1>1, TypeParts DEF IInv, RestTypes
<1>3. lookup(v) = pt[p][v]
  BY <1>1, <1>2, LookupIs
<1>4. Map /\ MemTypes /\ VbaseType /\ RestTypes
  BY TypeParts DEF IInv
<1>5. /\ Map' /\ MemTypes' /\ VbaseType'
      /\ (Fixed(p, v) /\ sig' = sig) \/ Faults(p)
  <2>1. CASE pt[p][v] = Absent
    <3>1. pt[p][v].off = NoPage /\ do_no_page(v, first)
      BY <1>1, <1>3, <1>4, <2>1, PteIs
    <3> QED
      BY Zenon, <1>2, <1>4, <3>1, NoPageEffect
  <2>2. CASE pt[p][v] # Absent
    <3>1. pt[p][v].off \in Pages /\ do_wp_page(v) /\ v_base' = v_base
      BY Zenon, <1>1, <1>3, <1>4, <2>2, PteIs
    <3>2. /\ Map' /\ MemTypes'
          /\ (Fixed(p, v) /\ sig' = sig) \/ Faults(p)
      BY Zenon, <1>2, <1>4, <3>1, WpEffect
    <3> QED
      BY Zenon, <1>4, <3>1, <3>2 DEF VbaseType
  <2> QED
    BY <2>1, <2>2
<1>6. /\ IInv'
      /\ KInv => Isolated' /\ \A q \in Procs \ {p} : Call(q)'
  <2>1. pc' \in [Procs -> {"user", "ret", "verify", "copy"}]
    BY Zenon, <1>1, <1>4 DEF RestTypes
  <2> QED
    BY Zenon, <1>1, <1>2, <1>5, <2>1, FixStep
<1>7. Call(p)'
  BY <1>1, <1>2 DEF Call
<1> QED
  BY <1>6, <1>7 DEF KInv

LEMMA SwtchStep ==
  ASSUME IInv, NEW q \in Procs \cup {NoProc}, swtch(q)
  PROVE  IInv' /\ (KInv => KInv')
<1>1. /\ q \in alive \/ q = NoProc
      /\ cu' = q /\ tlb' = Flushed
      /\ pc' = [p \in Procs |-> IF pc[p] = "ret" THEN "user" ELSE pc[p]]
      /\ UNCHANGED <<alive, pt, pg_count, v_base, sig, arg, mem, want>>
  BY DEF swtch
<1>2. RestTypes /\ VbaseType /\ MemTypes
  BY TypeParts DEF IInv
<1>3. TlbSound' /\ tlb' \in [VPage -> Pte]
  BY <1>1, TlbFlushed
<1>4. Map'
  BY Zenon, <1>1, MapSame DEF IInv
<1>5. RestTypes' /\ VbaseType' /\ MemTypes'
  <2>1. pc' \in [Procs -> {"user", "ret", "verify", "copy"}]
    BY Zenon, <1>1, <1>2 DEF RestTypes
  <2> QED
    BY <1>1, <1>2, <1>3, <2>1 DEF RestTypes, VbaseType, MemTypes
<1>6. Running'
  <2>1. \A p \in Procs : pc'[p] # "ret"
    BY <1>1
  <2>2. \A p \in Procs \ alive : pc'[p] \in {"user", "ret"}
    BY <1>1 DEF IInv, Running
  <2> QED
    BY <1>1, <2>1, <2>2 DEF IInv, Running
<1>7. IInv'
  BY Zenon, <1>3, <1>4, <1>5, <1>6, TypeWhole DEF IInv
<1>8. KInv => KInv'
  <2>1. \A p \in Procs : pc'[p] \in {"verify", "copy"} => pc'[p] = pc[p]
    BY Zenon, <1>1
  <2> QED
    BY <1>1, <2>1 DEF KInv, Call, Own, Isolated
<1> QED
  BY <1>7, <1>8

LEMMA ForkStep ==
  ASSUME IInv, NEW q \in Procs, do_fork(q)
  PROVE  IInv' /\ (KInv => KInv')
<1>1. /\ cu # NoProc /\ pc[cu] = "user" /\ q \notin alive
      /\ vm_clone(q) /\ alive' = alive \cup {q}
      /\ pc' = [pc EXCEPT ![cu] = "ret"]
      /\ UNCHANGED <<cu, sig, arg>>
  BY DEF do_fork, user, at, goto
<1>2. RestTypes /\ PtType /\ VbaseType /\ MemTypes /\ Map
  BY TypeParts DEF IInv
<1>3. PICK p \in Procs : cu = p
  BY Zenon, <1>1, <1>2 DEF RestTypes
<1>4. p \in alive /\ p # q
  <2>1. 1 \in VPage
    BY VmAssumption DEF VPage
  <2> QED
    BY <1>1, <1>3, <2>1, LookupIs
<1>5. PtType' /\ Clones(p, q)
  <2>1. PICK ro : /\ ro = [v \in VPage |-> [pt[p][v] EXCEPT !.w = FALSE]]
                  /\ pt' = [pt EXCEPT ![q] = ro, ![p] = ro]
    BY Zenon, <1>1, <1>3 DEF vm_clone
  <2>2. ASSUME NEW v \in VPage
        PROVE  ro[v] \in Pte /\ ro[v].off = pt[p][v].off /\ ~ro[v].w
    <3>1. pt[p][v] \in Pte
      BY <1>2 DEF PtType
    <3>2. ro[v] = [pt[p][v] EXCEPT !.w = FALSE]
      BY <2>1
    <3> QED
      BY Zenon, <3>1, <3>2 DEF Pte
  <2>3. ro \in [VPage -> Pte]
    BY <2>1, <2>2
  <2>4. PtType'
    BY Zenon, <1>2, <2>1, <2>3 DEF PtType
  <2>5. pt'[p] = ro /\ pt'[q] = ro /\ \A r \in Procs \ {p, q} : pt'[r] = pt[r]
    BY Zenon, <1>2, <1>4, <2>1 DEF PtType
  <2> QED
    BY <2>2, <2>4, <2>5 DEF Clones
<1>6. \A v \in VPage : pt[q][v].off = NoPage
  BY <1>1 DEF IInv, Running
<1>7. Map'
  <2>1. pg_count' = [g \in Pages |->
           (pg_count[g] + Cardinality(ptes(p, g))) % 256]
    BY <1>1, <1>3 DEF vm_clone, ptes
  <2> QED
    BY <1>2, <1>4, <1>5, <1>6, <2>1, CloneMap
<1>8. /\ v_base' = [v_base EXCEPT ![q] = v_base[p]]
      /\ want' = [want EXCEPT ![q] = want[p]] /\ tlb' = tlb /\ mem' = mem
  BY <1>1, <1>3 DEF vm_clone
<1>9. MemTypes' /\ VbaseType'
  BY <1>2, <1>8 DEF MemTypes, VbaseType
<1>10. /\ pc' \in [Procs -> {"user", "ret", "verify", "copy"}]
       /\ pc'[p] = "ret" /\ \A r \in Procs \ {p} : pc'[r] = pc[r]
  BY Zenon, <1>1, <1>2, <1>3 DEF RestTypes
<1>11. RestTypes'
  BY Zenon, <1>1, <1>2, <1>8, <1>10 DEF RestTypes
<1>12. Running'
  <2>1. \A r \in Procs : pc'[r] = "ret" => r = cu'
    BY Zenon, <1>1, <1>3, <1>10 DEF IInv, Running
  <2>2. ASSUME NEW r \in Procs \ alive'
        PROVE  /\ \A u \in VPage : pt'[r][u].off = NoPage
               /\ pc'[r] \in {"user", "ret"}
    <3>1. r \in Procs \ alive /\ r \notin {p, q}
      BY Zenon, <1>1, <1>4
    <3> QED
      BY <1>5, <1>10, <3>1 DEF IInv, Running, Clones
  <2> QED
    BY Zenon, <1>1, <1>3, <1>10, <2>1, <2>2 DEF Running
<1>13. TlbSound'
  BY <1>1, <1>3, <1>10 DEF TlbSound
<1>14. IInv'
  BY Zenon, <1>7, <1>9, <1>11, <1>12, <1>13, TypeWhole DEF IInv
<1>15. ASSUME KInv, NEW r \in Procs
       PROVE  Call(r)'
  <2>1. CASE r \in {p, q}
    <3>1. pc'[r] \notin {"verify", "copy"}
      BY Zenon, <1>1, <1>4, <1>10, <2>1 DEF IInv, Running
    <3> QED
      BY <3>1 DEF Call
  <2>2. CASE r \notin {p, q}
    <3>1. Call(r) /\ pt'[r] = pt[r] /\ pc'[r] = pc[r] /\ arg'[r] = arg[r]
      BY Zenon, <1>1, <1>5, <1>10, <1>15, <2>2 DEF KInv, Clones
    <3>2. \A u \in VPage : Own(r, u) => Own(r, u)'
      BY <1>5, <2>2, <3>1 DEF Own, Clones
    <3>3. arg[r].v \in VPage
      BY <1>2 DEF RestTypes, Arg
    <3> QED
      BY Zenon, <3>1, <3>2, <3>3 DEF Call
  <2> QED
    BY Zenon, <2>1, <2>2
<1>16. ASSUME KInv, NEW r \in alive', NEW v \in VPage, pt'[r][v] # Absent
       PROVE  mem'[pt'[r][v].off] = want'[r][v]
  <2>0. r \in Procs /\ pt'[r][v].off # NoPage
    <3>1. r \in Procs
      BY <1>11, <1>16 DEF RestTypes
    <3>2. pt'[r][v] \in Pte /\ (pt'[r][v].off = NoPage => ~pt'[r][v].w)
      BY ZenonT(40), <1>7, <3>1 DEF Map, PtType, PteOK
    <3> QED
      BY <1>16, <3>1, <3>2, AbsentIs
  <2>1. \A x \in alive : pt[x][v] # Absent => mem[pt[x][v].off] = want[x][v]
    BY <1>16 DEF KInv, Isolated
  <2>2. CASE r \in {p, q}
    <3>1. pt'[r][v].off = pt[p][v].off /\ want'[r] = want[p]
      BY Zenon, <1>2, <1>4, <1>5, <1>8, <2>2 DEF Clones, MemTypes
    <3>2. pt[p][v] # Absent
      BY Zenon, <2>0, <3>1, FlushedType
    <3> QED
      BY Zenon, <1>4, <1>8, <2>1, <3>1, <3>2
  <2>3. CASE r \notin {p, q}
    <3>1. pt'[r] = pt[r] /\ want'[r] = want[r] /\ r \in alive
      BY Zenon, <1>1, <1>2, <1>5, <1>8, <1>16, <2>0, <2>3 DEF Clones, MemTypes
    <3> QED
      BY Zenon, <1>8, <1>16, <2>1, <3>1
  <2> QED
    BY <2>2, <2>3
<1> QED
  BY Zenon, <1>14, <1>15, <1>16 DEF KInv, Isolated

(* vm_clear() by the process that runs.                                    *)
LEMMA ClearEffect ==
  ASSUME IInv, NEW p \in Procs, cu = p, vm_clear, mem' = mem,
         alive' \subseteq alive
  PROVE  /\ Map' /\ MemTypes' /\ VbaseType' /\ Drops(p)
         /\ KInv => Isolated'
         /\ \A q \in Procs \ {p} :
              KInv /\ pc'[q] = pc[q] /\ arg'[q] = arg[q] => Call(q)'
<1>1. /\ pt_free
      /\ v_base' = [v_base EXCEPT ![p] = NV]
      /\ want' = [want EXCEPT ![p] = [v \in VPage |-> Fresh]]
  BY DEF vm_clear
<1>2. RestTypes /\ PtType /\ VbaseType /\ MemTypes /\ Map
  BY Zenon, TypeParts DEF IInv
<1>3. pt' = [pt EXCEPT ![p] = Flushed]
  BY Zenon, <1>1 DEF pt_free
<1>4. pg_count' = [g \in Pages |-> pg_count[g] - Cardinality(ptes(p, g))]
  BY <1>1 DEF pt_free, ptes
<1>5. PtType' /\ Drops(p)
  BY <1>2, <1>3, FlushedType DEF PtType, Drops
<1>6. Map'
  BY <1>2, <1>4, <1>5, FreeMap
<1>7. VbaseType'
  <2>1. NV \in Low .. NV
    BY VmAssumption
  <2> QED
    BY <1>1, <1>2, <2>1 DEF VbaseType
<1>8. MemTypes' /\ \A q \in Procs \ {p} : want'[q] = want[q]
  <2>1. [v \in VPage |-> Fresh] \in [VPage -> Value]
    BY Zenon, FreshValue
  <2> QED
    BY <1>1, <1>2, <2>1 DEF MemTypes
<1>9. KInv => Isolated'
  <2> SUFFICES ASSUME KInv, NEW q \in alive', NEW v \in VPage,
                      pt'[q][v] # Absent
               PROVE  mem'[pt'[q][v].off] = want'[q][v]
    BY DEF Isolated
  <2>1. q \in alive /\ q \in Procs
    BY <1>2 DEF RestTypes
  <2>2. q # p
    BY Zenon, <1>2, <1>3, FlushedType DEF PtType
  <2>3. pt'[q] = pt[q] /\ want'[q] = want[q]
    BY Zenon, <1>5, <1>8, <2>1, <2>2 DEF Drops
  <2> QED
    BY Zenon, <2>1, <2>3 DEF KInv, Isolated
<1>10. ASSUME NEW q \in Procs \ {p}, KInv, pc'[q] = pc[q], arg'[q] = arg[q]
       PROVE  Call(q)'
  <2>1. Call(q) /\ pt'[q] = pt[q]
    BY Zenon, <1>5, <1>10 DEF KInv, Drops
  <2>2. arg[q].v \in VPage
    BY Zenon, <1>2 DEF RestTypes, Arg
  <2>3. ASSUME NEW u \in VPage, Own(q, u), pt[q][u] # Absent
        PROVE  Own(q, u)'
    <3>1. pt[q][u].off # NoPage
      BY Zenon, <1>2, <2>3, PteIs
    <3> QED
      BY Zenon, <1>5, <2>1, <2>3, <3>1 DEF Own, Drops
  <2> QED
    BY Zenon, <1>10, <2>1, <2>2, <2>3 DEF Call
<1> QED
  BY Zenon, <1>5, <1>6, <1>7, <1>8, <1>9, <1>10

LEMMA ExitStep ==
  ASSUME IInv, do_exit
  PROVE  IInv' /\ (KInv => KInv')
<1>1. /\ cu # NoProc /\ pc[cu] = "user" /\ vm_clear
      /\ alive' = alive \ {cu} /\ sig' = sig \ {cu}
      /\ pc' = [pc EXCEPT ![cu] = "ret"]
      /\ UNCHANGED <<cu, tlb, arg, mem>>
  BY DEF do_exit, at, goto
<1>2. RestTypes
  BY TypeParts DEF IInv
<1>3. PICK p \in Procs : cu = p
  BY Zenon, <1>1, <1>2 DEF RestTypes
<1>4. /\ Map' /\ MemTypes' /\ VbaseType' /\ Drops(p)
      /\ KInv => Isolated'
      /\ \A q \in Procs \ {p} :
           KInv /\ pc'[q] = pc[q] /\ arg'[q] = arg[q] => Call(q)'
  <2>1. alive' \subseteq alive /\ mem' = mem /\ vm_clear
    BY <1>1
  <2> QED
    BY Zenon, <1>3, <2>1, ClearEffect
<1>5. /\ pc' \in [Procs -> {"user", "ret", "verify", "copy"}]
      /\ pc'[p] = "ret" /\ \A r \in Procs \ {p} : pc'[r] = pc[r]
  BY Zenon, <1>1, <1>2, <1>3 DEF RestTypes
<1>6. RestTypes'
  BY Zenon, <1>1, <1>2, <1>5 DEF RestTypes
<1>7. Running'
  <2>1. \A r \in Procs : pc'[r] = "ret" => r = cu'
    BY <1>1, <1>3, <1>5 DEF IInv, Running
  <2>2. ASSUME NEW r \in Procs \ alive'
        PROVE  /\ \A u \in VPage : pt'[r][u].off = NoPage
               /\ pc'[r] \in {"user", "ret"}
    <3>1. CASE r = p
      BY Zenon, <1>4, <1>5, <3>1 DEF Drops
    <3>2. CASE r # p
      <4>1. r \in Procs \ alive
        BY Zenon, <1>1, <1>3, <3>2
      <4> QED
        BY <1>4, <1>5, <3>2, <4>1 DEF IInv, Running, Drops
    <3> QED
      BY Zenon, <3>1, <3>2
  <2> QED
    BY Zenon, <1>1, <1>3, <1>5, <2>1, <2>2 DEF Running
<1>8. TlbSound'
  BY Zenon, <1>1, <1>3, <1>5 DEF TlbSound
<1>9. IInv'
  BY Zenon, <1>4, <1>6, <1>7, <1>8, TypeWhole DEF IInv
<1>10. Call(p)'
  BY Zenon, <1>5 DEF Call
<1> QED
  BY Zenon, <1>1, <1>4, <1>5, <1>9, <1>10 DEF KInv

LEMMA ExecStep ==
  ASSUME IInv, do_exec
  PROVE  IInv' /\ (KInv => KInv')
<1>1. /\ cu # NoProc /\ pc[cu] = "user" /\ vm_clear /\ tlb' = Flushed
      /\ pc' = [pc EXCEPT ![cu] = "verify"]
      /\ arg' = [arg EXCEPT ![cu] = [call |-> "exec", v |-> NV - 1]]
      /\ UNCHANGED <<cu, alive, sig, mem>>
  BY DEF do_exec, user, at, goto
<1>2. RestTypes
  BY TypeParts DEF IInv
<1>3. PICK p \in Procs : cu = p
  BY Zenon, <1>1, <1>2 DEF RestTypes
<1>4. /\ Map' /\ MemTypes' /\ VbaseType' /\ Drops(p)
      /\ KInv => Isolated'
      /\ \A q \in Procs \ {p} :
           KInv /\ pc'[q] = pc[q] /\ arg'[q] = arg[q] => Call(q)'
  <2>1. alive' \subseteq alive /\ mem' = mem /\ vm_clear
    BY Zenon, <1>1
  <2> QED
    BY Zenon, <1>3, <2>1, ClearEffect
<1>5. /\ pc' \in [Procs -> {"user", "ret", "verify", "copy"}]
      /\ pc'[p] = "verify" /\ \A r \in Procs \ {p} : pc'[r] = pc[r]
  BY <1>1, <1>2, <1>3 DEF RestTypes
<1>6. /\ arg' \in [Procs -> Arg] /\ arg'[p].call = "exec"
      /\ \A r \in Procs \ {p} : arg'[r] = arg[r]
  <2>1. NV - 1 \in VPage
    BY VmAssumption DEF VPage
  <2>2. PICK a \in Arg : a = [call |-> "exec", v |-> NV - 1]
    BY Zenon, <2>1 DEF Arg
  <2>3. a.call = "exec" /\ arg' = [arg EXCEPT ![p] = a]
    BY <1>1, <1>3, <2>2
  <2> QED
    BY <1>2, <2>3 DEF RestTypes
<1>7. TlbSound' /\ tlb' \in [VPage -> Pte]
  BY <1>1, TlbFlushed
<1>8. RestTypes'
  BY <1>1, <1>2, <1>5, <1>6, <1>7 DEF RestTypes
<1>9. Running'
  <2>0. p \in alive
    <3>1. 1 \in VPage
      BY VmAssumption DEF VPage
    <3> QED
      BY <1>1, <1>3, <3>1, LookupIs
  <2>1. \A r \in Procs : pc'[r] = "ret" => r = cu'
    BY Zenon, <1>1, <1>3, <1>5 DEF IInv, Running
  <2>2. ASSUME NEW r \in Procs \ alive'
        PROVE  /\ \A u \in VPage : pt'[r][u].off = NoPage
               /\ pc'[r] \in {"user", "ret"}
    <3>1. r \in Procs \ alive /\ r # p
      BY Zenon, <1>1, <2>0
    <3> QED
      BY <1>4, <1>5, <3>1 DEF IInv, Running, Drops
  <2> QED
    BY Zenon, <1>1, <1>3, <2>0, <2>1, <2>2 DEF Running
<1>10. IInv'
  BY Zenon, <1>4, <1>7, <1>8, <1>9, TypeWhole DEF IInv
<1>11. Call(p)'
  BY <1>4, <1>5, <1>6 DEF Call, Drops
<1> QED
  BY Zenon, <1>4, <1>5, <1>6, <1>10, <1>11 DEF KInv

LEMMA SyscallStep ==
  ASSUME IInv, NEW c \in DOMAIN Targets, NEW v \in VPage, syscall(c, v)
  PROVE  IInv' /\ (Verified /\ KInv => KInv')
<1>0. PICK l \in {"copy", "verify"} : l = IF c = "fstat" THEN "copy" ELSE "verify"
  BY Zenon
<1>1. /\ cu # NoProc /\ pc[cu] = "user" /\ v \in Targets[c]
      /\ arg' = [arg EXCEPT ![cu] = [call |-> c, v |-> v]]
      /\ pc' = [pc EXCEPT ![cu] = l]
      /\ UNCHANGED <<cu, alive, pt, tlb, pg_count, v_base, sig, mem, want>>
  BY <1>0 DEF syscall, user, at, goto
<1>2. RestTypes /\ VbaseType /\ MemTypes /\ c \in {"read", "write", "fstat"}
  BY Zenon, TypeParts, VmAssumption DEF IInv
<1>3. PICK p \in Procs : cu = p
  BY Zenon, <1>1, <1>2 DEF RestTypes
<1>4. /\ pc' \in [Procs -> {"user", "ret", "verify", "copy"}]
      /\ pc'[p] = l /\ \A r \in Procs \ {p} : pc'[r] = pc[r]
  BY Zenon, <1>1, <1>2, <1>3 DEF RestTypes
<1>5. /\ arg' \in [Procs -> Arg] /\ arg'[p].call = c /\ arg'[p].v = v
      /\ \A r \in Procs \ {p} : arg'[r] = arg[r]
  <2>1. PICK a \in Arg : a = [call |-> c, v |-> v]
    BY Zenon, <1>2 DEF Arg
  <2>2. a.call = c /\ a.v = v /\ arg' = [arg EXCEPT ![p] = a]
    BY <1>1, <1>3, <2>1
  <2> QED
    BY Zenon, <1>2, <2>2 DEF RestTypes
<1>6. RestTypes' /\ VbaseType' /\ MemTypes'
  BY Zenon, <1>1, <1>2, <1>4, <1>5 DEF RestTypes, VbaseType, MemTypes
<1>7. Map'
  BY Zenon, <1>1, MapSame DEF IInv
<1>8. p \in alive
  BY Zenon, <1>1, <1>3, LookupIs
<1>9. Running'
  BY SMTT(30), <1>1, <1>3, <1>4, <1>8 DEF IInv, Running
<1>10. TlbSound'
  BY Zenon, <1>1, <1>3 DEF IInv, TlbSound
<1>11. IInv'
  BY Zenon, <1>6, <1>7, <1>9, <1>10, TypeWhole DEF IInv
<1>12. ASSUME Verified, KInv
       PROVE  KInv'
  <2>1. c # "fstat" /\ l = "verify"
    BY Zenon, <1>0, <1>1, <1>12 DEF Verified
  <2>2. Call(p)'
    BY Zenon, <1>1, <1>2, <1>4, <1>5, <2>1 DEF Call
  <2>3. ASSUME NEW q \in Procs \ {p}
        PROVE  Call(q)'
    <3>1. Call(q) /\ pc'[q] = pc[q] /\ arg'[q] = arg[q] /\ pt' = pt
      BY Zenon, <1>1, <1>4, <1>5, <1>12 DEF KInv
    <3> QED
      BY Zenon, <3>1, CallSame
  <2>4. Isolated'
    BY Zenon, <1>1, <1>12 DEF KInv, Isolated
  <2> QED
    BY Zenon, <2>2, <2>3, <2>4 DEF KInv
<1> QED
  BY <1>11, <1>12

LEMMA VerifyStep ==
  ASSUME IInv, vm_verify
  PROVE  IInv' /\ (Verified /\ KInv => KInv')
<1>1. /\ cu # NoProc /\ pc[cu] = "verify"
      /\ pc' = [pc EXCEPT ![cu] = "copy"]
      /\ UNCHANGED <<cu, alive, arg>>
  BY DEF vm_verify, at, goto
<1>2. Map /\ RestTypes /\ VbaseType /\ MemTypes
  BY TypeParts DEF IInv
<1>3. PICK p \in Procs : cu = p
  BY <1>1, <1>2 DEF RestTypes
<1>4. PICK v \in VPage : v = arg[p].v
  BY Zenon, <1>2 DEF RestTypes, Arg
<1>5. \/ pt[p][v] = Absent /\ do_no_page(v, TRUE)
      \/ pt[p][v] # Absent /\ ~pt[p][v].w /\ do_wp_page(v) /\ v_base' = v_base
      \/ /\ pt[p][v].w
         /\ UNCHANGED <<pt, tlb, pg_count, sig, mem, want, v_base>>
  BY Zenon, <1>3, <1>4 DEF vm_verify
<1>6. /\ pc' \in [Procs -> {"user", "ret", "verify", "copy"}]
      /\ pc'[p] = "copy" /\ \A r \in Procs \ {p} : pc'[r] = pc[r]
  BY <1>1, <1>2, <1>3 DEF RestTypes
(* The page is p's own now, or is not there, or is text.                   *)
<1>7. CASE pt[p][v].w /\ UNCHANGED <<pt, tlb, pg_count, sig, mem, want, v_base>>
  <2>1. Map'
    BY <1>2, <1>7, MapSame
  <2>2. RestTypes' /\ VbaseType' /\ MemTypes'
    BY <1>1, <1>2, <1>6, <1>7 DEF RestTypes, VbaseType, MemTypes
  <2>3. p \in alive
    BY Zenon, <1>1, <1>3, LookupIs
  <2>4. Running'
    BY SMTT(30), <1>1, <1>3, <1>6, <1>7, <2>3 DEF IInv, Running
  <2>5. TlbSound'
    BY Zenon, <1>1, <1>3, <1>6, <1>7 DEF IInv, TlbSound
  <2>6. IInv'
    BY Zenon, <2>1, <2>2, <2>4, <2>5, TypeWhole DEF IInv
  <2>7. Own(p, v)'
    BY SMTT(30), <1>2, <1>7 DEF Map, Alone, Own
  <2>8. KInv => Call(p)'
    <3>1. KInv => Call(p)
      BY Zenon DEF KInv
    <3> QED
      BY Zenon, <1>1, <1>3, <1>4, <1>6, <2>7, <3>1 DEF Call
  <2>9. ASSUME KInv, NEW q \in Procs \ {p}
        PROVE  Call(q)'
    <3>1. Call(q) /\ pc'[q] = pc[q] /\ arg'[q] = arg[q] /\ pt' = pt
      BY Zenon, <1>1, <1>6, <1>7, <2>9 DEF KInv
    <3> QED
      BY Zenon, <3>1, CallSame
  <2>10. KInv => Isolated'
    BY Zenon, <1>1, <1>7 DEF KInv, Isolated
  <2> QED
    BY <2>6, <2>8, <2>9, <2>10 DEF KInv
<1>8. CASE ~(pt[p][v].w /\ UNCHANGED <<pt, tlb, pg_count, sig, mem, want, v_base>>)
  <2>1. /\ Map' /\ MemTypes' /\ VbaseType'
        /\ \/ Fixed(p, v) /\ sig' = sig
           \/ Faults(p) /\ (pt[p][v] = Absent \/ Area[v] = "text")
        /\ pt[p][v].off = NoPage \/ ~pt[p][v].w
    <3>1. CASE pt[p][v] = Absent /\ do_no_page(v, TRUE)
      <4>1. pt[p][v].off = NoPage
        BY <1>2, <3>1, PteIs
      <4> QED
        BY Zenon, <1>2, <1>3, <3>1, <4>1, NoPageEffect
    <3>2. CASE pt[p][v] # Absent /\ ~pt[p][v].w /\ do_wp_page(v) /\ v_base' = v_base
      <4>1. pt[p][v].off \in Pages
        BY Zenon, <1>2, <3>2, PteIs
      <4>2. /\ Map' /\ MemTypes'
            /\ \/ Fixed(p, v) /\ sig' = sig
               \/ Faults(p) /\ Area[v] = "text"
        BY Zenon, <1>2, <1>3, <3>2, <4>1, WpEffect
      <4> QED
        BY <1>2, <3>2, <4>2 DEF VbaseType
    <3> QED
      BY Zenon, <1>5, <1>8, <3>1, <3>2
  <2>2. /\ IInv'
        /\ KInv => Isolated' /\ \A q \in Procs \ {p} : Call(q)'
    <3>1. pc[p] # "ret" /\ pc'[p] # "ret"
      BY Zenon, <1>1, <1>3, <1>6
    <3> QED
      BY Zenon, <1>1, <1>3, <1>6, <2>1, <3>1, FixStep
  <2>3. ASSUME Verified, KInv
        PROVE  Call(p)'
    <3>1. /\ \/ arg[p].call = "exec" /\ \A u \in VPage : pt[p][u].off = NoPage
             \/ /\ arg[p].call \in {"read", "write", "fstat"}
                /\ v \in Targets[arg[p].call]
          /\ arg'[p] = arg[p]
      BY Zenon, <1>1, <1>3, <1>4, <2>3 DEF KInv, Call
    <3>2. pt'[p][v] # Absent /\ arg[p].call # "write" => Own(p, v)'
      <4>1. CASE Fixed(p, v)
        BY Zenon, <4>1 DEF Fixed, Own
      <4>2. CASE Faults(p) /\ pt[p][v] = Absent
        BY Zenon, <4>2 DEF Faults
      <4>3. CASE Faults(p) /\ Area[v] = "text" /\ pt[p][v] # Absent
        <5>1. arg[p].call # "exec"
          BY Zenon, <1>2, <3>1, <4>3, PteIs
        <5> QED
          BY Zenon, <2>3, <3>1, <4>3, <5>1 DEF Verified
      <4> QED
        BY Zenon, <2>1, <4>1, <4>2, <4>3
    <3> QED
      BY Zenon, <1>4, <1>6, <3>1, <3>2 DEF Call
  <2> QED
    BY Zenon, <2>2, <2>3 DEF KInv
<1> QED
  BY Zenon, <1>7, <1>8

LEMMA CopyFaultStep ==
  ASSUME IInv, copy_fault
  PROVE  IInv' /\ (KInv => KInv')
<1>1. /\ cu # NoProc /\ pc[cu] = "copy" /\ lookup(arg[cu].v) = Absent
      /\ do_no_page(arg[cu].v, TRUE)
      /\ UNCHANGED <<cu, alive, pc, arg>>
  BY Zenon DEF copy_fault, at
<1>2. Map /\ RestTypes /\ VbaseType /\ MemTypes
  BY TypeParts DEF IInv
<1>3. PICK p \in Procs : cu = p
  BY <1>1, <1>2 DEF RestTypes
<1>4. PICK v \in VPage : v = arg[p].v
  BY <1>2 DEF RestTypes, Arg
<1>5. pt[p][v] = Absent
  BY <1>1, <1>3, <1>4, LookupIs
<1>6. /\ Map' /\ MemTypes' /\ VbaseType'
      /\ (Fixed(p, v) /\ sig' = sig) \/ Faults(p)
  <2>1. pt[p][v].off = NoPage /\ do_no_page(v, TRUE)
    BY Zenon, <1>1, <1>3, <1>4, <1>5, FlushedType
  <2> QED
    BY Zenon, <1>2, <1>3, <2>1, NoPageEffect
<1>7. /\ IInv'
      /\ KInv => Isolated' /\ \A q \in Procs \ {p} : Call(q)'
  <2>1. pc' \in [Procs -> {"user", "ret", "verify", "copy"}]
    BY Zenon, <1>1, <1>2 DEF RestTypes
  <2> QED
    BY <1>1, <1>3, <1>6, <2>1, FixStep
<1>8. ASSUME KInv
      PROVE  Call(p)'
  <2>1. Call(p) /\ pc'[p] = "copy" /\ arg'[p] = arg[p] /\ pc[p] = "copy"
    BY Zenon, <1>1, <1>3, <1>8 DEF KInv
  <2>2. pt'[p][v] # Absent => Own(p, v)'
    BY <1>5, <1>6 DEF Fixed, Own, Faults
  <2> QED
    BY Zenon, <1>4, <2>1, <2>2 DEF Call
<1> QED
  BY Zenon, <1>7, <1>8 DEF KInv

LEMMA CopyStep ==
  ASSUME IInv, NEW x \in Value, copy(x)
  PROVE  IInv' /\ (KInv => KInv')
<1>1. /\ cu # NoProc /\ pc[cu] = "copy"
      /\ pc' = [pc EXCEPT ![cu] = "user"]
      /\ arg' = [arg EXCEPT ![cu] = NoArg]
      /\ UNCHANGED <<cu, alive, pt, pg_count, v_base, sig>>
  BY DEF copy, at, goto
<1>2. Map /\ RestTypes /\ VbaseType /\ MemTypes
  BY Zenon, TypeParts DEF IInv
<1>3. PICK p \in Procs : cu = p
  BY <1>1, <1>2 DEF RestTypes
<1>4. PICK v \in VPage : v = arg[p].v
  BY Zenon, <1>2 DEF RestTypes, Arg
<1>5. /\ lookup(v) # Absent /\ tlb' = [tlb EXCEPT ![v] = lookup(v)]
      /\ IF arg[p].call = "write" THEN UNCHANGED <<mem, want>>
         ELSE /\ mem' = [mem EXCEPT ![lookup(v).off] = x]
              /\ want' = [want EXCEPT ![p][v] = x]
  BY Zenon, <1>3, <1>4 DEF copy
<1>6. /\ lookup(v) = pt[p][v] /\ p \in alive
      /\ tlb' \in [VPage -> Pte]
      /\ TlbSound'
  BY Zenon, <1>1, <1>3, <1>5, LookupIs
<1>7. /\ pc' \in [Procs -> {"user", "ret", "verify", "copy"}]
      /\ pc'[p] = "user" /\ \A r \in Procs \ {p} : pc'[r] = pc[r]
  BY <1>1, <1>2, <1>3 DEF RestTypes
<1>8. arg' \in [Procs -> Arg] /\ \A r \in Procs \ {p} : arg'[r] = arg[r]
  <2>1. 1 \in VPage
    BY VmAssumption DEF VPage
  <2>2. NoArg \in Arg
    BY Zenon, <2>1 DEF NoArg, Arg
  <2> QED
    BY <1>1, <1>2, <1>3, <2>2 DEF RestTypes
<1>9. RestTypes' /\ VbaseType'
  BY Zenon, <1>1, <1>2, <1>6, <1>7, <1>8 DEF RestTypes, VbaseType
<1>10. Map'
  BY Zenon, <1>1, <1>2, MapSame
<1>11. Running'
  BY SMTT(30), <1>1, <1>3, <1>6, <1>7 DEF IInv, Running
<1>12. UNCHANGED <<mem, want>> \/ (arg[p].call # "write" /\ Stores(p, v, x))
  BY Zenon, <1>5, <1>6 DEF Stores
<1>13. MemTypes'
  BY Zenon, <1>2, <1>12, StoreTypes DEF MemTypes
<1>14. IInv'
  BY Zenon, <1>6, <1>9, <1>10, <1>11, <1>13, TypeWhole DEF IInv
<1>15. ASSUME KInv
       PROVE  Isolated'
  <2>1. CASE UNCHANGED <<mem, want>>
    BY Zenon, <1>1, <1>15, <2>1 DEF KInv, Isolated
  <2>2. CASE arg[p].call # "write" /\ Stores(p, v, x)
    <3>1. pt[p][v] # Absent /\ Own(p, v)
      BY Zenon, <1>1, <1>3, <1>4, <1>5, <1>6, <1>15, <2>2 DEF KInv, Call
    <3> QED
      BY Zenon, <1>1, <1>2, <1>15, <2>2, <3>1, StoreIsolated DEF RestTypes,
         KInv
  <2> QED
    BY Zenon, <1>12, <2>1, <2>2
<1>16. ASSUME KInv, NEW q \in Procs
       PROVE  Call(q)'
  <2>1. CASE q = p
    BY Zenon, <1>7, <2>1 DEF Call
  <2>2. CASE q # p
    BY <1>1, <1>7, <1>8, <1>16, <2>2, CallSame DEF KInv
  <2> QED
    BY Zenon, <2>1, <2>2
<1> QED
  BY Zenon, <1>14, <1>15, <1>16 DEF KInv
-----------------------------------------------------------------------------
LEMMA InitInv ==
  ASSUME Init
  PROVE  IInv /\ KInv
<1>1. /\ pt = [p \in Procs |-> Flushed] /\ tlb = Flushed
      /\ pg_count = [g \in Pages |-> 0]
      /\ v_base = [p \in Procs |-> NV] /\ sig = {}
      /\ pc = [p \in Procs |-> "user"] /\ arg = [p \in Procs |-> NoArg]
      /\ mem = [g \in Pages |-> Fresh]
      /\ want = [p \in Procs |-> [v \in VPage |-> Fresh]]
  BY DEF Init
<1>2. PICK p \in Procs : cu = p /\ alive = {p}
  BY DEF Init
<1>3. \A q \in Procs, v \in VPage : pt[q][v] = Absent
  BY <1>1, FlushedType
<1>4. 1 \in VPage /\ NV \in Low .. NV
  BY VmAssumption DEF VPage
<1>5. NoArg \in Arg
  BY <1>4 DEF NoArg, Arg
<1>6. Map
  <2>1. PtType /\ PteOK /\ Once /\ Alone
    BY Zenon, <1>1, <1>3, FlushedType DEF PtType, PteOK, Once, Alone
  <2>2. ASSUME NEW g \in Pages
        PROVE  pg_count[g] = Cardinality(maps(g))
    <3>1. maps(g) = {}
      BY <1>3, VmAssumption, FlushedType DEF maps
    <3> QED
      BY Zenon, <1>1, <3>1, FS_EmptySet
  <2>3. pg_count \in [Pages -> 0 .. 255]
    BY SMTT(30), <1>1
  <2> QED
    BY Zenon, <2>1, <2>2, <2>3 DEF Map, PageCount
<1>7. TypeOK
  <2>1. DOMAIN Targets = {"read", "write", "fstat"}
    BY VmAssumption
  <2>2. [call : {"none", "exec"} \cup DOMAIN Targets, v : VPage] = Arg
    BY Zenon, <2>1 DEF Arg
  <2>3. pg_count \in [Pages -> 0 .. 255]
    BY <1>1
  <2>4. arg \in [Procs -> Arg] /\ v_base \in [Procs -> Low .. NV]
    BY <1>1, <1>4, <1>5
  <2>5. mem \in [Pages -> Value] /\ want \in [Procs -> [VPage -> Value]]
    BY Zenon, <1>1, FreshValue
  <2>6. pt \in [Procs -> [VPage -> Pte]] /\ tlb \in [VPage -> Pte]
    BY Zenon, <1>1, FlushedType
  <2> QED
    BY Zenon, <1>1, <1>2, <2>2, <2>3, <2>4, <2>5, <2>6 DEF TypeOK
<1>8. Running /\ TlbSound
  BY Zenon, <1>1, <1>2, <1>3, FlushedType DEF Running, TlbSound
<1>9. KInv
  BY Zenon, <1>1, <1>2, <1>3 DEF KInv, Call, Isolated
<1> QED
  BY Zenon, <1>6, <1>7, <1>8, <1>9 DEF IInv

LEMMA NextInv ==
  ASSUME IInv, [Next]_vars
  PROVE  IInv' /\ (Verified /\ KInv => KInv')
<1>1. CASE \E v \in VPage : user_read(v)
  BY <1>1, UserReadStep
<1>2. CASE \E v \in VPage, first \in BOOLEAN : do_pgfault(v, first)
  BY <1>2, PgfaultStep
<1>3. CASE \E v \in VPage, x \in Value : user_write(v, x)
  BY <1>3, UserWriteStep
<1>4. CASE \E c \in DOMAIN Targets, v \in VPage : syscall(c, v)
  BY <1>4, SyscallStep
<1>5. CASE \E q \in Procs : do_fork(q)
  BY <1>5, ForkStep
<1>6. CASE \E q \in Procs \cup {NoProc} : swtch(q)
  BY <1>6, SwtchStep
<1>7. CASE do_exit \/ do_exec
  BY <1>7, ExitStep, ExecStep
<1>8. CASE vm_verify \/ copy_fault
  BY <1>8, VerifyStep, CopyFaultStep
<1>9. CASE \E x \in Value : copy(x)
  BY <1>9, CopyStep
<1>10. CASE UNCHANGED vars
  <2>1. Map'
    BY Zenon, <1>10, MapSame DEF IInv, vars
  <2>2. TypeOK' /\ Running' /\ TlbSound'
    BY Zenon, <1>10 DEF vars, IInv, TypeOK, Running, TlbSound
  <2>3. KInv => KInv'
    <3>1. UNCHANGED <<cu, alive, pt, sig, pc, arg, mem, want, v_base>>
      BY <1>10 DEF vars
    <3>2. (\A p \in Procs : Call(p)) => (\A p \in Procs : Call(p))'
      BY <3>1 DEF Call, Own
    <3>3. Isolated => Isolated'
      BY <3>1 DEF Isolated
    <3> QED
      BY <3>2, <3>3 DEF KInv
  <2> QED
    BY Zenon, <2>1, <2>2, <2>3 DEF IInv
<1> QED
  BY Zenon, <1>1, <1>2, <1>3, <1>4, <1>5, <1>6, <1>7, <1>8, <1>9, <1>10
     DEF Next, Kernel

(* fork(), exec(), exit() and the faults keep the page tables, the counts  *)
(* and the TLB in step: a process maps a page at most once, a page that may*)
(* be written has one pte, and every count is the number of ptes.          *)
THEOREM VmInvariant == Spec => []IInv
<1>1. Init => IInv
  BY InitInv
<1>2. IInv /\ [Next]_vars => IInv'
  BY NextInv
<1> QED
  BY <1>1, <1>2, PTL DEF Spec

(* The state of the address spaces is well typed; in particular the count  *)
(* of a page, an uchar that pt_copy() increments without a look at it,     *)
(* neither wraps nor goes below 0, for any number of processes below 256.  *)
THEOREM VmTypes == Spec => []TypeOK
<1>1. IInv => TypeOK
  BY DEF IInv
<1> QED
  BY <1>1, VmInvariant, PTL

(* Through fork, copy on write, exec and exit, pg_count is the number of   *)
(* pte's that refer to the page: pgfree() puts a page on the free list     *)
(* when its last user drops it, neither before nor never.                  *)
THEOREM PagesCounted == Spec => []PageCount
<1>1. IInv => PageCount
  BY DEF IInv, Map
<1> QED
  BY <1>1, VmInvariant, PTL

(* vm_clone() and pt_free() leave the TLB alone, and yet nobody uses a     *)
(* stale translation: the switch at the end of the system call flushes it. *)
THEOREM TlbNeverStale == Spec => []TlbSound
<1>1. IInv => TlbSound
  BY DEF IInv
<1> QED
  BY <1>1, VmInvariant, PTL

(* Where read() is given pages of data and fstat() is not used, no process *)
(* and no copy by the kernel changes what another process finds in its     *)
(* memory, with any number of processes, page frames and pages.            *)
THEOREM SpacesIsolated == Verified /\ Spec => []Isolated
<1> SUFFICES ASSUME Verified PROVE Spec => []Isolated
  OBVIOUS
<1>1. Init => IInv /\ KInv
  BY InitInv
<1>2. IInv /\ KInv /\ [Next]_vars => IInv' /\ KInv'
  BY NextInv
<1>3. KInv => Isolated
  BY DEF KInv
<1> QED
  BY <1>1, <1>2, <1>3, PTL DEF Spec
=============================================================================
