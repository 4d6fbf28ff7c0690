------------------------------- MODULE MCAlloc -------------------------------
(***************************************************************************)
(* Alloc for TLC: two processes with a file each, on a device with a few   *)
(* blocks behind ZONE0.                                                    *)
(***************************************************************************)
EXTENDS Alloc

Perms == Permutations(Procs)
=============================================================================
