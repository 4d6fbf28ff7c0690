---------------------------- MODULE MCInodeCache ----------------------------
(***************************************************************************)
(* InodeCache for TLC.  The processes are model values.                    *)
(***************************************************************************)
EXTENDS InodeCache, TLC

First == {1}
Both == {1, 2}
AllCalls == {"open", "creat", "unlink", "close", "dup", "read"}
Perms == Permutations(Procs)
=============================================================================
