----------------------------- MODULE ListLemmas -----------------------------
(***************************************************************************)
(* What Append, Tail and unlinking do to a list that holds nothing twice:   *)
(* the kernel's queues are such lists, and the proofs about them reason    *)
(* with the set of the elements.                                           *)
(***************************************************************************)
EXTENDS Integers, Sequences, Functions, TLAPS
(* The elements of a list of buffers are buffers.                          *)
LEMMA RangeList == ASSUME NEW S, NEW s \in Seq(S) PROVE Range(s) \subseteq S
<1>1. \A i \in DOMAIN s : s[i] \in S
  OBVIOUS
<1> QED BY <1>1 DEF Range

(* Appending (brelse to the free list, hd_request to the I/O queue) adds   *)
(* one element, and leaves the head of a list that has one.                *)
LEMMA AppendList ==
  ASSUME NEW S, NEW s \in Seq(S), NEW x \in S
  PROVE  /\ Append(s, x) \in Seq(S) /\ Append(s, x) # <<>>
         /\ Range(Append(s, x)) = Range(s) \cup {x}
         /\ Head(Append(s, x)) = IF s = <<>> THEN x ELSE Head(s)
         /\ IsInjective(s) /\ x \notin Range(s) => IsInjective(Append(s, x))
<1> DEFINE t == Append(s, x)
           n == Len(s)
<1>1. /\ n \in Nat /\ DOMAIN s = 1..n
      /\ t \in Seq(S) /\ DOMAIN t = 1..(n + 1) /\ t # <<>>
      /\ t[n + 1] = x /\ \A i \in 1..n : t[i] = s[i]
  OBVIOUS
<1>2. Head(t) = IF s = <<>> THEN x ELSE Head(s)
  OBVIOUS
<1> HIDE DEF t, n
<1>3. ASSUME NEW y PROVE y \in Range(t) <=> y \in Range(s) \cup {x}
  BY <1>1 DEF Range
<1>4. IsInjective(s) /\ x \notin Range(s) => IsInjective(t)
  BY <1>1 DEF Range, IsInjective
<1> QED
  BY <1>1, <1>2, <1>3, <1>4 DEF t

(* Taking the head (getblk, do_hd_intr) removes exactly that element.      *)
LEMMA TailList ==
  ASSUME NEW S, NEW s \in Seq(S), s # <<>>, IsInjective(s)
  PROVE  /\ Head(s) \in S /\ Head(s) \in Range(s)
         /\ Tail(s) \in Seq(S) /\ IsInjective(Tail(s))
         /\ Range(Tail(s)) = Range(s) \ {Head(s)}
         /\ Tail(s) # <<>> => Head(Tail(s)) \in S /\ Head(Tail(s)) \in Range(Tail(s))
<1> DEFINE t == Tail(s)
           n == Len(s)
<1>1. /\ n \in Nat \ {0} /\ DOMAIN s = 1..n
      /\ Head(s) = s[1] /\ s[1] \in S
      /\ t \in Seq(S) /\ DOMAIN t = 1..(n - 1)
      /\ \A i \in 1..(n - 1) : t[i] = s[i + 1]
      /\ t # <<>> => Head(t) = t[1] /\ t[1] \in S /\ 1 \in 1..(n - 1)
  OBVIOUS
<1> HIDE DEF t, n
<1>2. IsInjective(t)
  <2>1. ASSUME NEW i \in 1..(n - 1), NEW j \in 1..(n - 1), t[i] = t[j] PROVE i = j
    <3>1. i + 1 \in DOMAIN s /\ j + 1 \in DOMAIN s /\ s[i + 1] = s[j + 1]
      BY <1>1, <2>1
    <3>2. i + 1 = j + 1
      BY <3>1 DEF IsInjective
    <3> QED BY <1>1, <3>2
  <2> QED BY <1>1, <2>1 DEF IsInjective
<1>3. ASSUME NEW y PROVE y \in Range(t) <=> y \in Range(s) \ {s[1]}
  <2>1. ASSUME y \in Range(t) PROVE y \in Range(s) \ {s[1]}
    <3>1. PICK i \in 1..(n - 1) : y = s[i + 1]
      BY <1>1, <2>1 DEF Range
    <3>2. i + 1 \in 1..n /\ i + 1 # 1
      BY <1>1
    <3>3. s[i + 1] \in Range(s)
      BY <1>1, <3>2 DEF Range
    <3>4. s[i + 1] # s[1]
      <4>1. i + 1 \in DOMAIN s /\ 1 \in DOMAIN s
        BY <1>1, <3>2
      <4> QED BY <3>2, <4>1 DEF IsInjective
    <3> QED BY <3>1, <3>3, <3>4
  <2>2. ASSUME y \in Range(s) \ {s[1]} PROVE y \in Range(t)
    <3>1. PICK i \in 1..n : y = s[i] /\ i # 1
      BY <1>1, <2>2 DEF Range
    <3>2. i - 1 \in 1..(n - 1) /\ (i - 1) + 1 = i
      BY <1>1, <3>1
    <3> QED BY Zenon, <1>1, <3>1, <3>2 DEF Range
  <2> QED BY <2>1, <2>2
<1>4. Head(s) \in Range(s)
  BY <1>1 DEF Range
<1>5. t # <<>> => Head(t) \in Range(t)
  BY <1>1 DEF Range
<1> QED
  BY <1>1, <1>2, <1>3, <1>4, <1>5 DEF t

(* Unlinking an element anywhere in the list (notavail) removes only it.   *)
LEMMA RemoveList ==
  ASSUME NEW S, NEW s \in Seq(S), NEW k \in 1..Len(s), IsInjective(s)
  PROVE  /\ SubSeq(s, 1, k - 1) \o SubSeq(s, k + 1, Len(s)) \in Seq(S)
         /\ IsInjective(SubSeq(s, 1, k - 1) \o SubSeq(s, k + 1, Len(s)))
         /\ Range(SubSeq(s, 1, k - 1) \o SubSeq(s, k + 1, Len(s))) = Range(s) \ {s[k]}
<1> DEFINE t == SubSeq(s, 1, k - 1) \o SubSeq(s, k + 1, Len(s))
           n == Len(s)
<1>1. n \in Nat \ {0} /\ DOMAIN s = 1..n /\ k \in 1..n
  OBVIOUS
<1>2. t \in Seq(S)
  OBVIOUS
<1>3. /\ DOMAIN t = 1..(n - 1)
      /\ \A i \in 1..(n - 1) : t[i] = IF i < k THEN s[i] ELSE s[i + 1]
  <2> DEFINE u == SubSeq(s, 1, k - 1)
             v == SubSeq(s, k + 1, n)
  <2>1. /\ u \in Seq(S) /\ Len(u) = k - 1
        /\ \A i \in 1..(k - 1) : u[i] = s[i]
    BY <1>1
  <2>2. /\ v \in Seq(S) /\ Len(v) = n - k
        /\ \A i \in 1..(n - k) : v[i] = s[i + k]
    <3>1. v \in Seq(S)
      BY <1>1
    <3>3. Len(v) = IF k + 1 <= n THEN n - (k + 1) + 1 ELSE 0
      BY <1>1
    <3>4. Len(v) = n - k
      <4> HIDE DEF n, v
      <4>1. k = n \/ k + 1 <= n
        BY <1>1
      <4> QED BY <1>1, <3>3, <4>1
    <3>2. ASSUME NEW i \in 1..(n - k) PROVE v[i] = s[i + k]
      <4>1. v[i] = s[(k + 1) + i - 1]
        BY <1>1
      <4>2. (k + 1) + i - 1 = i + k
        BY <1>1
      <4> QED BY <4>1, <4>2
    <3> QED BY <3>1, <3>2, <3>4
  <2>3. t = u \o v
    OBVIOUS
  <2> HIDE DEF t, n, u, v
  <2>4. DOMAIN t = 1..(n - 1)
    BY <1>1, <2>1, <2>2, <2>3
  <2>5. ASSUME NEW i \in 1..(n - 1) PROVE t[i] = IF i < k THEN s[i] ELSE s[i + 1]
    <3>1. CASE i < k
      BY <1>1, <2>1, <2>2, <2>3, <3>1
    <3>2. CASE i >= k
      <4>1. t[i] = v[i - (k - 1)] /\ i - (k - 1) \in 1..(n - k)
        BY <1>1, <2>1, <2>2, <2>3, <3>2
      <4>2. (i - (k - 1)) + k = i + 1
        BY <1>1
      <4> QED BY <1>1, <2>2, <3>2, <4>1, <4>2
    <3> QED BY <1>1, <3>1, <3>2
  <2> QED BY <2>4, <2>5
<1> HIDE DEF t, n
<1>4. IsInjective(t)
  <2> DEFINE d(i) == IF i < k THEN i ELSE i + 1
  <2>1. ASSUME NEW i \in 1..(n - 1), NEW j \in 1..(n - 1), t[i] = t[j] PROVE i = j
    <3>1. d(i) \in DOMAIN s /\ d(j) \in DOMAIN s
      BY <1>1
    <3>2. s[d(i)] = s[d(j)]
      BY <1>3, <2>1
    <3>3. d(i) = d(j)
      BY <3>1, <3>2 DEF IsInjective
    <3> QED BY <1>1, <3>3
  <2> QED BY <1>3, <2>1 DEF IsInjective
<1>5. ASSUME NEW y PROVE y \in Range(t) <=> y \in Range(s) \ {s[k]}
  <2>1. ASSUME y \in Range(t) PROVE y \in Range(s) \ {s[k]}
    <3>1. PICK i \in 1..(n - 1) : y = IF i < k THEN s[i] ELSE s[i + 1]
      BY <1>3, <2>1 DEF Range
    <3> QED BY <1>1, <3>1 DEF Range, IsInjective
  <2>2. ASSUME y \in Range(s) \ {s[k]} PROVE y \in Range(t)
    <3>1. PICK i \in 1..n : y = s[i] /\ i # k
      BY <1>1, <2>2 DEF Range
    <3>2. CASE i < k
      BY <1>1, <1>3, <3>1, <3>2 DEF Range
    <3>3. CASE i > k
      <4>1. i - 1 \in 1..(n - 1) /\ ~(i - 1 < k) /\ (i - 1) + 1 = i
        BY <1>1, <3>1, <3>3
      <4> QED BY <1>3, <3>1, <4>1 DEF Range
    <3> QED BY <1>1, <3>1, <3>2, <3>3
  <2> QED BY <2>1, <2>2
<1> QED
  BY <1>2, <1>4, <1>5 DEF t
=============================================================================
