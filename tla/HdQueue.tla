------------------------------ MODULE HdQueue ------------------------------
(***************************************************************************)
(* The request queue of the disk driver (src/blk/hd.c), pointer by         *)
(* pointer: a ring through av_next and av_prev whose head is hdtab.        *)
(* hd_request links a buffer in at the front with interrupts enabled, one  *)
(* statement at a time; do_hd_intr takes the buffer at the back off.       *)
(*                                                                         *)
(* The kernel is not preemptive, so one process at a time is in            *)
(* hd_request; the buffer cache never requests a buffer that is queued     *)
(* (BufCache!QueueIsWaitedFor).                                            *)
(***************************************************************************)
EXTENDS Naturals, Sequences, Functions

CONSTANTS
  Buf,
  Tab,           \* &hdtab, the head of the ring
  NoBuf,
  IntrAt         \* the places of hd_request at which the interrupt is taken

(* Where the processor is: outside hd_request, or about to execute the     *)
(* line of hd.c of that number.                                            *)
PC == {"idle", "63", "64", "65", "67"}

ASSUME HdAssumption ==
  /\ Tab \notin Buf /\ NoBuf \notin Buf
  /\ IntrAt \subseteq PC /\ "idle" \in IntrAt

VARIABLES
  av_next, av_prev,
  d_active,      \* hdtab.d_active
  cmd,           \* the buffer the controller works on
  pc,
  bp,            \* hd_request's argument
  q,             \* history: the requests not completed, oldest first
  last           \* history: the buffer completed last

ring == <<av_next, av_prev>>
vars == <<ring, d_active, cmd, pc, bp, q, last>>

Node == Buf \cup {Tab}

(* buf_init: hdtab's ring is empty.  The links of a buffer are whatever    *)
(* the free list left in them.                                             *)
Init ==
  /\ av_next \in {f \in [Node -> Node] : f[Tab] = Tab}
  /\ av_prev \in {f \in [Node -> Node] : f[Tab] = Tab}
  /\ d_active = FALSE
  /\ cmd = NoBuf
  /\ pc = "idle"
  /\ bp = NoBuf
  /\ q = <<>>
  /\ last = NoBuf
-----------------------------------------------------------------------------
(* hd_start on the ring nxt, prv: nothing if it is empty (d_active stays   *)
(* what it was, idle), else the buffer at the back.                        *)
hd_start(nxt, prv, idle) ==
  IF nxt[Tab] = Tab
  THEN d_active' = idle /\ UNCHANGED cmd
  ELSE d_active' = TRUE /\ cmd' = prv[Tab]

(* line 62: bp->av_prev = &hdtab.                                          *)
hd_request(b) ==
  /\ pc = "idle" /\ b \notin Range(q)
  /\ bp' = b
  /\ av_prev' = [av_prev EXCEPT ![b] = Tab]
  /\ pc' = "63"
  /\ UNCHANGED <<av_next, d_active, cmd, q, last>>

(* line 63: bp->av_next = hdtab.av_next.                                   *)
link_next ==
  /\ pc = "63"
  /\ av_next' = [av_next EXCEPT ![bp] = av_next[Tab]]
  /\ pc' = "64"
  /\ UNCHANGED <<av_prev, d_active, cmd, bp, q, last>>

(* line 64: hdtab.av_next->av_prev = bp.                                   *)
link_back ==
  /\ pc = "64"
  /\ av_prev' = [av_prev EXCEPT ![av_next[Tab]] = bp]
  /\ pc' = "65"
  /\ UNCHANGED <<av_next, d_active, cmd, bp, q, last>>

(* line 65: hdtab.av_next = bp.  The request is in the ring.               *)
link_front ==
  /\ pc = "65"
  /\ av_next' = [av_next EXCEPT ![Tab] = bp]
  /\ q' = Append(q, bp)
  /\ pc' = "67"
  /\ UNCHANGED <<av_prev, d_active, cmd, bp, last>>

(* MUTANT: nobody starts an idle device.                                   *)
start_if_idle_never ==
  /\ pc = "67"
  /\ pc' = "idle"
  /\ UNCHANGED <<ring, d_active, cmd, bp, q, last>>

(* lines 67-70: if the device is not busy, hd_start().                     *)
start_if_idle ==
  /\ pc = "67"
  /\ IF d_active THEN UNCHANGED <<d_active, cmd>>
                 ELSE hd_start(av_next, av_prev, FALSE)
  /\ pc' = "idle"
  /\ UNCHANGED <<ring, bp, q, last>>

(* MUTANT: only one of the two links is repaired.                          *)
unlink_half(b) ==
  /\ av_next' = [av_next EXCEPT ![av_prev[b]] = av_next[b]]
  /\ UNCHANGED av_prev

(* bp->av_prev->av_next = bp->av_next; bp->av_next->av_prev = bp->av_prev. *)
unlink(b) ==
  /\ av_next' = [av_next EXCEPT ![av_prev[b]] = av_next[b]]
  /\ av_prev' = [av_prev EXCEPT ![av_next'[b]] = av_prev[b]]

(* do_hd_intr: the buffer at the back is done; start the next one.         *)
do_hd_intr ==
  /\ d_active /\ pc \in IntrAt
  /\ LET b == av_prev[Tab]
     IN /\ unlink(b)
        /\ last' = b
        /\ q' = IF q = <<>> THEN q ELSE Tail(q)
        /\ hd_start(av_next', av_prev', FALSE)
  /\ UNCHANGED <<pc, bp>>
-----------------------------------------------------------------------------
Link == link_next \/ link_back \/ link_front \/ start_if_idle

Next == do_hd_intr \/ Link \/ \E b \in Buf : hd_request(b)

Spec == Init /\ [][Next]_vars

(* The controller completes the command it was given; the processor goes   *)
(* on executing hd_request.  Nobody is bound to make a request.            *)
FairSpec == Spec /\ WF_vars(do_hd_intr) /\ WF_vars(Link)
-----------------------------------------------------------------------------
TypeOK ==
  /\ av_next \in [Node -> Node]
  /\ av_prev \in [Node -> Node]
  /\ d_active \in BOOLEAN
  /\ cmd \in Buf \cup {NoBuf}
  /\ pc \in PC
  /\ bp \in Buf \cup {NoBuf}
  /\ q \in Seq(Buf)
  /\ last \in Buf \cup {NoBuf}

(* Node i of the ring: hdtab at 0 and at Len(q) + 1, the requests between. *)
At(i) == IF i \in 1..Len(q) THEN q[i] ELSE Tab

(* The ring holds the requests in the order in which they were made,       *)
(* forwards and backwards, whenever hd_request is not between the two      *)
(* statements that publish the new buffer.                                 *)
Linked ==
  \A i \in 0..Len(q) :
    /\ pc # "65" \/ i # Len(q) => av_prev[At(i)] = At(i + 1)
    /\ av_next[At(i + 1)] = At(i)

(* The disk works on the oldest request, and on nothing that is not in the *)
(* queue: "get and remove the tail from the waiting list".                 *)
ServesOldest ==
  /\ d_active => q # <<>> /\ cmd = q[1]
  /\ pc # "67" /\ q # <<>> => d_active

(* Half-way through hd_request the new buffer is not in the queue, and its *)
(* links are the ones the rest of the statements need.                     *)
HalfLinked ==
  /\ pc \in {"63", "64", "65"} => bp \in Buf /\ bp \notin Range(q) /\ av_prev[bp] = Tab
  /\ pc \in {"64", "65"} => av_next[bp] = av_next[Tab]
  /\ pc = "65" => av_prev[At(Len(q))] = bp

(* The inductive invariant, if no interrupt comes at lines 64 and 65.      *)
Inv == TypeOK /\ IsInjective(q) /\ Linked /\ ServesOldest /\ HalfLinked

(* The driver is the queue that the buffer cache believes in: requests are *)
(* completed once each, in order, and all of them.                         *)
IQ == INSTANCE IoQueue WITH queue <- q, served <- last
IoQueueSafe == IQ!Safe
IoQueueSpec == IQ!Spec

=============================================================================
