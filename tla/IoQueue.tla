------------------------------ MODULE IoQueue ------------------------------
(***************************************************************************)
(* What the disk driver promises the buffer cache: a queue of requests,    *)
(* completed one by one in the order in which they were made.              *)
(***************************************************************************)
EXTENDS Naturals, Sequences, Functions

CONSTANTS Buf, NoBuf

VARIABLES
  queue,         \* the requests not yet completed, oldest first
  served         \* the request completed last

Init == queue = <<>> /\ served = NoBuf

Request(b) ==
  /\ b \notin Range(queue)
  /\ queue' = Append(queue, b)
  /\ UNCHANGED served

Complete ==
  /\ queue # <<>>
  /\ served' = Head(queue)
  /\ queue' = Tail(queue)

Next == Complete \/ \E b \in Buf : Request(b)

Safe == Init /\ [][Next]_<<queue, served>>

Spec == Safe /\ WF_<<queue, served>>(Complete)
=============================================================================
