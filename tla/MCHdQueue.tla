----------------------------- MODULE MCHdQueue -----------------------------
(* HdQueue for TLC; the configuration chooses where interrupts come.       *)
EXTENDS HdQueue

=============================================================================
