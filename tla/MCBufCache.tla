----------------------------- MODULE MCBufCache -----------------------------
(* Model-checking instances of BufCache.                                   *)
EXTENDS BufCache, TLC

Symmetry == Permutations(Proc) \cup Permutations(Buf)
=============================================================================
