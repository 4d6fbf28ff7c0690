--------------------------- MODULE HdQueueProofs ---------------------------
(***************************************************************************)
(* If the disk does not interrupt hd_request before lines 64 and 65, the   *)
(* ring of hd.c holds the requests in order, for any number of buffers,    *)
(* and the driver implements the abstract queue IoQueue.                   *)
(***************************************************************************)
EXTENDS HdQueue, ListLemmas

USE HdAssumption DEF PC, Node

(* The nodes of the ring are nodes, and no two of them are the same.       *)
LEMMA RingNodes ==
  ASSUME Inv
  PROVE  /\ Len(q) \in Nat /\ At(0) = Tab /\ At(Len(q) + 1) = Tab
         /\ \A i \in 0..(Len(q) + 1) : At(i) \in Node
         /\ \A i \in 1..Len(q) : At(i) = q[i] /\ At(i) \in Buf /\ At(i) \in Range(q)
         /\ \A i, j \in 0..Len(q) : At(i) = At(j) => i = j
<1>1. q \in Seq(Buf) /\ IsInjective(q)
  BY DEF Inv, TypeOK
<1>2. Len(q) \in Nat /\ DOMAIN q = 1..Len(q) /\ \A i \in 1..Len(q) : q[i] \in Buf
  BY <1>1
<1>3. \A i \in 1..Len(q) : At(i) = q[i] /\ At(i) \in Buf /\ At(i) \in Range(q)
  BY <1>2 DEF At, Range
<1>4. At(0) = Tab /\ At(Len(q) + 1) = Tab
  BY <1>2 DEF At
<1>5. \A i \in 0..(Len(q) + 1) : At(i) \in Node
  BY <1>2 DEF At
<1>6. ASSUME NEW i \in 0..Len(q), NEW j \in 0..Len(q), At(i) = At(j) PROVE i = j
  <2>1. CASE i = 0 \/ j = 0
    BY <1>2, <1>3, <1>4, <1>6, <2>1
  <2>2. CASE i \in 1..Len(q) /\ j \in 1..Len(q)
    BY <1>1, <1>2, <1>3, <1>6, <2>2 DEF IsInjective
  <2> QED BY <1>2, <2>1, <2>2
<1> QED
  BY <1>2, <1>3, <1>4, <1>5, <1>6

(* buf_init leaves an empty ring.                                          *)
LEMMA InitInv == Init => Inv
<1> SUFFICES ASSUME Init PROVE Inv
  OBVIOUS
<1>1. q = <<>> /\ Len(q) = 0 /\ IsInjective(q) /\ q \in Seq(Buf)
  BY DEF Init, IsInjective
<1>2. TypeOK
  BY Zenon, <1>1 DEF Init, TypeOK
<1>3. Linked
  BY <1>1 DEF Init, Linked, At
<1>4. ServesOldest /\ HalfLinked
  BY <1>1 DEF Init, ServesOldest, HalfLinked
<1> QED
  BY <1>1, <1>2, <1>3, <1>4 DEF Inv

(* line 62 touches only a buffer that is not in the ring.                  *)
LEMMA Step_hd_request == ASSUME NEW b \in Buf, Inv, hd_request(b) PROVE Inv'
<1> USE RingNodes DEF hd_request
<1>1. TypeOK' /\ IsInjective(q')
  BY DEF Inv, TypeOK
<1>2. Linked'
  <2>1. \A i \in 0..(Len(q) + 1) : At(i)' = At(i) /\ At(i) # b
    BY DEF At, Inv, TypeOK
  <2>2. \A i \in 0..Len(q) : av_prev[At(i)] = At(i + 1) /\ av_next[At(i + 1)] = At(i)
    BY DEF Inv, Linked
  <2> QED BY <2>1, <2>2 DEF Inv, TypeOK, Linked
<1>3. ServesOldest' /\ HalfLinked'
  BY DEF Inv, TypeOK, ServesOldest, HalfLinked
<1> QED
  BY <1>1, <1>2, <1>3 DEF Inv

(* line 63 too.                                                            *)
LEMMA Step_link_next == ASSUME Inv, link_next PROVE Inv'
<1> USE RingNodes DEF link_next
<1>1. TypeOK' /\ IsInjective(q')
  BY Zenon DEF Inv, TypeOK
<1>2. Linked'
  <2>1. bp \in Buf /\ \A i \in 0..(Len(q) + 1) : At(i)' = At(i) /\ At(i) # bp
    BY DEF At, Inv, TypeOK, HalfLinked
  <2>2. \A i \in 0..Len(q) : av_prev[At(i)] = At(i + 1) /\ av_next[At(i + 1)] = At(i)
    BY DEF Inv, Linked
  <2> QED BY <2>1, <2>2 DEF Inv, TypeOK, Linked
<1>3. ServesOldest' /\ HalfLinked'
  BY DEF Inv, TypeOK, ServesOldest, HalfLinked
<1> QED
  BY <1>1, <1>2, <1>3 DEF Inv

(* line 64: the newest node of the ring gets the new buffer behind it.     *)
LEMMA Step_link_back == ASSUME Inv, link_back PROVE Inv'
<1> USE RingNodes DEF link_back
<1>1. TypeOK' /\ IsInjective(q')
  BY DEF Inv, TypeOK, HalfLinked
<1>2. av_next[Tab] = At(Len(q)) /\ At(Len(q)) # bp /\ bp \in Buf
  BY DEF Inv, Linked, HalfLinked
<1>3. \A i : At(i)' = At(i)
  BY DEF At
<1>4. Linked'
  <2>1. \A i \in 0..Len(q) : av_prev[At(i)] = At(i + 1) /\ av_next[At(i + 1)] = At(i)
    BY DEF Inv, Linked
  <2>2. \A i \in 0..Len(q) : i # Len(q) => At(i) # At(Len(q))
    OBVIOUS
  <2> QED BY <1>2, <1>3, <2>1, <2>2 DEF Inv, TypeOK, Linked
<1>5. ServesOldest'
  BY DEF Inv, TypeOK, ServesOldest
<1>6. HalfLinked'
  BY <1>2, <1>3 DEF Inv, TypeOK, HalfLinked
<1> QED
  BY <1>1, <1>4, <1>5, <1>6 DEF Inv

(* line 65 publishes it at the front.                                      *)
LEMMA Step_link_front == ASSUME Inv, link_front PROVE Inv'
<1> USE RingNodes DEF link_front
<1>0. PICK n : n = Len(q)
  OBVIOUS
<1>1. /\ bp \in Buf /\ bp \notin Range(q) /\ av_prev[bp] = Tab
      /\ av_next[bp] = At(n) /\ av_prev[At(n)] = bp /\ av_next[Tab] = At(n)
  BY <1>0 DEF Inv, HalfLinked, Linked
<1>2. q' \in Seq(Buf) /\ IsInjective(q') /\ q' # <<>> /\ Head(q') = (IF q = <<>> THEN bp ELSE Head(q))
  BY <1>1, AppendList DEF Inv, TypeOK
<1>3. n \in Nat /\ Len(q') = n + 1 /\ q'[n + 1] = bp /\ \A i \in 1..n : q'[i] = q[i]
  BY <1>0, <1>1 DEF Inv, TypeOK
<1>4. TypeOK'
  BY <1>1, <1>2 DEF Inv, TypeOK
<1>5. /\ \A i \in 0..n : At(i)' = At(i)
      /\ At(n + 1)' = bp /\ At(n + 2)' = Tab
  BY <1>0, <1>3 DEF At
<1>6. Linked'
  <2> SUFFICES ASSUME NEW i \in 0..(n + 1)
               PROVE  av_prev'[At(i)'] = At(i + 1)' /\ av_next'[At(i + 1)'] = At(i)'
    BY <1>3 DEF Linked
  <2>1. CASE i = n + 1
    BY <1>0, <1>1, <1>3, <1>5, <2>1 DEF Inv, TypeOK
  <2>2. CASE i = n
    BY <1>0, <1>1, <1>3, <1>5, <2>2 DEF Inv, TypeOK
  <2>3. CASE i < n
    <3>1. i \in 0..n /\ i + 1 \in 1..n /\ i # n
      BY <1>3, <2>3
    <3>2. av_prev[At(i)] = At(i + 1) /\ av_next[At(i + 1)] = At(i) /\ At(i + 1) # Tab
      BY <1>0, <3>1 DEF Inv, Linked
    <3> QED BY <1>0, <1>3, <1>5, <3>1, <3>2 DEF Inv, TypeOK
  <2> QED BY <1>3, <2>1, <2>2, <2>3
<1>7. ServesOldest' /\ HalfLinked'
  BY <1>0, <1>2, <1>3 DEF Inv, TypeOK, ServesOldest, HalfLinked
<1> QED
  BY <1>2, <1>4, <1>6, <1>7 DEF Inv

(* lines 67-70 start the only request of an idle device.                   *)
LEMMA Step_start_if_idle == ASSUME Inv, start_if_idle PROVE Inv'
<1> USE RingNodes DEF start_if_idle, hd_start, ring
<1>1. av_prev[Tab] = At(1) /\ (av_next[Tab] = Tab <=> q = <<>>) /\ (q # <<>> => At(1) = q[1] /\ q[1] \in Buf)
  <2>1. av_prev[Tab] = At(1) /\ av_next[Tab] = At(Len(q))
    BY DEF Inv, Linked, start_if_idle
  <2>2. q = <<>> <=> Len(q) = 0
    BY DEF Inv, TypeOK
  <2> QED BY <2>1, <2>2
<1>2. TypeOK' /\ IsInjective(q')
  BY ZenonT(40), <1>1 DEF Inv, TypeOK
<1>3. \A i : At(i)' = At(i)
  BY DEF At
<1>4. Linked'
  BY <1>3 DEF Inv, Linked
<1>5. ServesOldest' /\ HalfLinked'
  BY <1>1 DEF Inv, TypeOK, ServesOldest, HalfLinked
<1> QED
  BY <1>2, <1>4, <1>5 DEF Inv

(* do_hd_intr takes the oldest request off both chains of links.           *)
LEMMA Step_do_hd_intr ==
  ASSUME Inv, do_hd_intr, pc \notin {"64", "65"}
  PROVE  Inv' /\ q # <<>> /\ last' = Head(q) /\ q' = Tail(q)
<1>0. PICK n : n = Len(q)
  BY Zenon
<1>1. /\ q # <<>> /\ n \in Nat \ {0} /\ Head(q) = q[1]
      /\ q[1] \in Buf /\ q[1] \in Range(q)
  BY <1>0 DEF do_hd_intr, Inv, TypeOK, ServesOldest, Range
<1>2. /\ \A i \in 0..n : av_prev[At(i)] = At(i + 1) /\ av_next[At(i + 1)] = At(i)
      /\ At(0) = Tab /\ At(n + 1) = Tab /\ At(1) = q[1] /\ At(2) \in Node
      /\ \A i \in 1..n : At(i) = q[i] /\ At(i) \in Buf
      /\ \A i, j \in 0..n : At(i) = At(j) => i = j
  BY <1>0, <1>1, RingNodes DEF Inv, Linked
<1>3. /\ av_prev[Tab] = q[1] /\ av_next[q[1]] = Tab /\ av_prev[q[1]] = At(2) /\ At(2) # q[1]
  <2>1. av_prev[Tab] = q[1] /\ av_next[q[1]] = Tab /\ av_prev[q[1]] = At(2)
    BY <1>1, <1>2
  <2>2. At(2) # q[1]
    BY <1>1, <1>2
  <2> QED BY <2>1, <2>2
<1>4. /\ av_next' = [av_next EXCEPT ![At(2)] = Tab]
      /\ av_prev' = [av_prev EXCEPT ![Tab] = At(2)]
      /\ last' = q[1] /\ q' = Tail(q) /\ UNCHANGED <<pc, bp>>
  BY Zenon, <1>1, <1>3 DEF do_hd_intr, unlink, Inv, TypeOK
<1>5. /\ q' \in Seq(Buf) /\ IsInjective(q') /\ Range(q') = Range(q) \ {q[1]}
  BY <1>1, <1>4, TailList DEF Inv, TypeOK
<1>6. Len(q') = n - 1 /\ \A i \in 1..(n - 1) : q'[i] = q[i + 1]
  BY <1>0, <1>1, <1>4 DEF Inv, TypeOK
<1>7. /\ \A i \in 1..n : At(i)' = At(i + 1)
      /\ At(0)' = Tab
  <2>1. ASSUME NEW i \in 1..n PROVE At(i)' = At(i + 1)
    <3>1. CASE i = n
      BY <1>0, <1>1, <1>6, <3>1 DEF At
    <3>2. CASE i \in 1..(n - 1)
      BY <1>0, <1>1, <1>6, <3>2 DEF At
    <3> QED BY <1>1, <3>1, <3>2
  <2>2. At(0)' = Tab
    BY DEF At
  <2> QED BY <2>1, <2>2
<1>8. Linked'
  <2> SUFFICES ASSUME NEW i \in 0..(n - 1)
               PROVE  av_prev'[At(i)'] = At(i + 1)' /\ av_next'[At(i + 1)'] = At(i)'
    BY <1>6 DEF Linked
  <2>1. CASE i = 0
    BY <1>1, <1>2, <1>4, <1>7, <2>1 DEF Inv, TypeOK
  <2>2. CASE i \in 1..(n - 1)
    <3>1. At(i)' = At(i + 1) /\ At(i + 1)' = At(i + 2)
      <4>1. i \in 1..n /\ i + 1 \in 1..n /\ (i + 1) + 1 = i + 2
        BY <1>1, <2>2
      <4> QED BY <1>7, <4>1
    <3>2. /\ av_prev[At(i + 1)] = At(i + 2) /\ av_next[At(i + 2)] = At(i + 1)
          /\ At(i + 1) \in Buf
      <4>1. i + 1 \in 1..n /\ (i + 1) + 1 = i + 2
        BY <1>1, <2>2
      <4> QED BY <1>1, <1>2, <4>1
    <3>3. At(i + 2) # At(2) /\ At(i + 2) \in Node
      <4>1. CASE i = n - 1
        BY <1>1, <1>2, <2>2, <4>1
      <4>2. CASE i < n - 1
        BY <1>1, <1>2, <2>2, <4>2
      <4> QED BY <1>1, <2>2, <4>1, <4>2
    <3> QED BY <1>4, <3>1, <3>2, <3>3 DEF Inv, TypeOK
  <2> QED BY <1>1, <2>1, <2>2
<1>9. /\ d_active' = (q' # <<>>) /\ (d_active' => cmd' = q'[1])
      /\ cmd' \in Buf \cup {NoBuf}
  <2>1. av_prev'[Tab] = At(2) /\ (av_next'[Tab] = Tab <=> At(n) = q[1])
    <3>1. av_next[Tab] = At(n)
      BY <1>1, <1>2
    <3>2. CASE n = 1
      BY <1>2, <1>4, <3>2 DEF Inv, TypeOK
    <3>3. CASE n # 1
      <4>1. At(2) # Tab /\ At(n) # q[1] /\ At(n) # Tab
        BY <1>1, <1>2, <3>3
      <4> QED BY <1>4, <3>1, <4>1 DEF Inv, TypeOK
    <3> QED BY <3>2, <3>3
  <2>2. CASE n = 1
    <3>1. q' = <<>> /\ av_next'[Tab] = Tab
      BY <1>2, <1>5, <1>6, <2>1, <2>2
    <3> QED BY Zenon, <3>1 DEF do_hd_intr, hd_start, Inv, TypeOK
  <2>3. CASE n # 1
    <3>1. av_next'[Tab] # Tab /\ q' # <<>> /\ q'[1] = q[2] /\ At(2) = q[2] /\ q[2] \in Buf
      <4>1. 2 \in 1..n /\ n \in 1..n /\ 1 \in 1..(n - 1)
        BY <1>1, <2>3
      <4>2. At(n) # q[1]
        BY <1>1, <1>2, <2>3
      <4> QED BY <1>2, <1>5, <1>6, <2>1, <4>1, <4>2
    <3> QED BY Zenon, <2>1, <3>1 DEF do_hd_intr, hd_start
  <2> QED BY <2>2, <2>3
<1>10. TypeOK'
  BY <1>1, <1>2, <1>4, <1>5, <1>9 DEF Inv, TypeOK
<1>11. ServesOldest'
  BY Zenon, <1>9 DEF ServesOldest
<1>12. HalfLinked'
  BY <1>1, <1>4, <1>5 DEF HalfLinked, do_hd_intr, Inv, TypeOK, HalfLinked
<1> QED
  BY <1>1, <1>4, <1>5, <1>8, <1>10, <1>11, <1>12 DEF Inv

(* Every statement of hd_request and every interrupt preserves it.         *)
LEMMA NextInv == ASSUME IntrAt \cap {"64", "65"} = {} PROVE Inv /\ [Next]_vars => Inv'
<1> SUFFICES ASSUME Inv, [Next]_vars PROVE Inv'
  OBVIOUS
<1>1. CASE do_hd_intr
  BY <1>1, Step_do_hd_intr DEF do_hd_intr
<1>2. ASSUME NEW b \in Buf, hd_request(b) PROVE Inv'
  BY <1>2, Step_hd_request
<1>3. CASE Link
  BY <1>3, Step_link_next, Step_link_back, Step_link_front, Step_start_if_idle DEF Link
<1>4. CASE UNCHANGED vars
  BY <1>4 DEF vars, ring, Inv, TypeOK, Linked, At, ServesOldest, HalfLinked
<1> QED
  BY <1>1, <1>2, <1>3, <1>4 DEF Next

(* The ring is never broken and the disk works on the oldest request.      *)
THEOREM RingSafety ==
  ASSUME IntrAt \cap {"64", "65"} = {} PROVE Spec => []Inv
  BY InitInv, NextInv, PTL DEF Spec

(* The driver completes the requests once each and in order.               *)
THEOREM ImplementsIoQueue ==
  ASSUME IntrAt \cap {"64", "65"} = {} PROVE Spec => IoQueueSafe
<1>1. Init => IQ!Init
  BY DEF Init, IQ!Init
<1>2. Inv /\ [Next]_vars => [IQ!Next]_<<q, last>>
  <2> SUFFICES ASSUME Inv, [Next]_vars PROVE [IQ!Next]_<<q, last>>
    OBVIOUS
  <2>1. CASE do_hd_intr
    <3>1. pc \notin {"64", "65"}
      BY <2>1 DEF do_hd_intr
    <3>2. q # <<>> /\ last' = Head(q) /\ q' = Tail(q)
      BY <2>1, <3>1, Step_do_hd_intr
    <3> QED BY <3>2 DEF IQ!Next, IQ!Complete
  <2>2. ASSUME NEW b \in Buf, hd_request(b) PROVE UNCHANGED <<q, last>>
    BY <2>2 DEF hd_request
  <2>3. CASE link_next \/ link_back \/ start_if_idle
    BY Zenon, <2>3 DEF link_next, link_back, start_if_idle
  <2>4. CASE link_front
    <3>1. bp \in Buf /\ bp \notin Range(q)
      BY <2>4 DEF link_front, Inv, HalfLinked
    <3>2. IQ!Request(bp)
      BY <2>4, <3>1 DEF link_front, IQ!Request, IQ!Range, Range
    <3> QED BY <3>1, <3>2 DEF IQ!Next
  <2>5. CASE UNCHANGED vars
    BY <2>5 DEF vars
  <2> QED BY <2>1, <2>2, <2>3, <2>4, <2>5 DEF Next, Link
<1> QED
  BY <1>1, <1>2, RingSafety, PTL DEF Spec, IoQueueSafe, IQ!Safe
=============================================================================
