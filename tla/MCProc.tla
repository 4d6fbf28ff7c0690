------------------------------- MODULE MCProc -------------------------------
(***************************************************************************)
(* Proc for TLC.  The size of proc[] and the processes that are sent       *)
(* SIGINT are chosen in the configuration.                                 *)
(***************************************************************************)
EXTENDS Proc

Second == {2}
OnInit == {1}

(* wait() and waitpid(3, 0, WNOHANG).                                      *)
Some == {AnyChild, [pid |-> 3, nohang |-> TRUE]}
=============================================================================
