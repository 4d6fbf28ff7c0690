------------------------------ MODULE MCSignal ------------------------------
(***************************************************************************)
(* Signal for TLC: processes of one user, each its own group; signal 17 is *)
(* SIGCHLD, which the default action leaves unharmed.                      *)
(***************************************************************************)
EXTENDS Signal

Group == [p \in Pids |-> p]
User == [p \in Pids |-> 5]
Masked == {[handler |-> "func", oneshot |-> FALSE, nomask |-> FALSE,
            mask |-> {}]}
One == {2, -2}
=============================================================================
