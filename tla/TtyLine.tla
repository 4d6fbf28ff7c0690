------------------------------ MODULE TtyLine ------------------------------
(***************************************************************************)
(* What a terminal promises to a program that reads from it: the           *)
(* characters come in the order in which they were typed, once each, but   *)
(* for those that were erased.                                             *)
(***************************************************************************)
EXTENDS Sequences, Integers

CONSTANTS
  QBUFSIZ,         \* "the limit of each line input"
  Text             \* what one key adds

VARIABLES
  line,            \* typed, and not yet read
  got              \* what the present read() has

vars == <<line, got>>

Init == line = <<>> /\ got = <<>>

(* What the line has no room for is lost.                                  *)
Type ==
  /\ \E s \in Text :
       line' = SubSeq(line \o s, 1, IF Len(line \o s) < QBUFSIZ THEN Len(line \o s)
                                   ELSE QBUFSIZ)
  /\ UNCHANGED got
Erase ==
  /\ line # <<>> /\ line' = SubSeq(line, 1, Len(line) - 1)
  /\ UNCHANGED got
Open == line' = <<>> /\ UNCHANGED got
Read == got' = <<>> /\ UNCHANGED line
Take == line # <<>> /\ got' = Append(got, Head(line)) /\ line' = Tail(line)

Next == Type \/ Erase \/ Open \/ Read \/ Take
Spec == Init /\ [][Next]_vars
=============================================================================
