-------------------------------- MODULE MCDir --------------------------------
(***************************************************************************)
(* Dir for TLC: the root with a directory d and a file a.                  *)
(***************************************************************************)
EXTENDS Dir, TLC

Perms == Permutations(Procs)

OneDir == "d" :> 2
FileA == "a" :> 4
Zeros == Empty

Do(o, f) == [op |-> o, path |-> f, to |-> <<>>]
Link(f, t) == [op |-> "link", path |-> f, to |-> t]

(* Names of one file come and go, files are created and removed, a file is *)
(* used as a directory, and a directory is to be removed or linked.        *)
MixCalls == {Link(<<"a">>, <<"d", "b">>), Link(<<"d", "b">>, <<"a">>),
             Do("unlink", <<"a">>), Do("unlink", <<"d", "b">>),
             Do("open", <<"d", "b">>), Do("creat", <<"d", "b">>),
             Do("mknod", <<"d", "c">>), Do("unlink", <<"d", "c">>),
             Do("unlink", <<"a", "b">>), Do("unlink", <<"d">>),
             Link(<<"d">>, <<"d", "a">>)}
=============================================================================
