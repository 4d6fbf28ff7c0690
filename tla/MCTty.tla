-------------------------------- MODULE MCTty --------------------------------
(***************************************************************************)
(* Tty for TLC.                                                            *)
(***************************************************************************)
EXTENDS Tty

Typed == {"a", NL, CERASE, TAB, CINTR}
Lengths == {1, 2}
Out == {<<"x", "y">>}
=============================================================================
