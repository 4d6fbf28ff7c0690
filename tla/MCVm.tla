-------------------------------- MODULE MCVm --------------------------------
(***************************************************************************)
(* Vm for TLC: programs of a few pages, and the pages they pass to the     *)
(* system calls.                                                           *)
(***************************************************************************)
EXTENDS Vm, TLC

Full == <<"text", "data", "gap", "gap", "gap">>
Bits == {0, 1}

DataCalls == [c \in {"read", "write", "fstat"} |->
                CASE c = "read" -> {2, 3} [] c = "write" -> {2} [] c = "fstat" -> {}]

Perms == Permutations(Procs) \cup Permutations(Pages)
=============================================================================
