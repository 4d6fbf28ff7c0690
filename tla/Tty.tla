--------------------------------- MODULE Tty ---------------------------------
(***************************************************************************)
(* The terminal (src/chr/tty.c, the end of chr/keybd.c): its queues, the   *)
(* line discipline of the keyboard interrupt, and a process that opens,    *)
(* reads and writes.                                                       *)
(*                                                                         *)
(* The interrupt is one step; it may come between any two steps of the     *)
(* process, which are single statements where it matters (q_count++ is a   *)
(* load and a store, as no -O is given to the compiler).  Interrupts do    *)
(* not nest.  rawq is left out: tty_input() puts the key into it and       *)
(* tty_canon() takes it out at once.  No code sets TTY_RAW or clears       *)
(* TTY_ECHO.  The keyboard never gives CEOF: the switch for ctrl in        *)
(* do_keybd_intr() falls through to CQUIT, which is the number of CINTR.   *)
(***************************************************************************)
EXTENDS Integers, Sequences, SequencesExt

CONSTANTS
  QBUFSIZ,
  Keys,            \* what is typed
  Cnt,             \* the lengths that read() is called with
  Texts            \* what write() is called with

NL == "nl"         \* the keys with a meaning
CERASE == "erase"
CINTR == "intr"
CEOF == "eof"
TAB == "tab"
SPACE == "space"

ASSUME TtyAssumption == QBUFSIZ \in Nat \ {0} /\ Cnt \subseteq Nat

VARIABLES
  canq, outq,      \* [q_start, q_end, q_count, q_char]
  pc, op,
  cnt,             \* what is left to be read
  buf,             \* what has been read, or is to be written
  reg,             \* q_count, loaded
  r,               \* what read() has returned
  ended,           \* the keys that end a line since tty_read() tested
  hit,             \* history: what a key came in the middle of
  sent, shown      \* history: the output, forgotten when all is shown

vars == <<canq, outq, pc, op, cnt, buf, reg, r, ended, hit, sent, shown>>

(* "read", "write": called.  "sleep": the test said so.  "asleep".         *)
(* "getq": before a getq(); "take", "load": in it, before q_start and      *)
(* before q_count change; "store": q_count is loaded.  "putq", "end",      *)
(* "add", "inc": the same for putq().                                      *)
PC == {"user", "read", "sleep", "asleep", "getq", "take", "load", "store",
       "putq", "end", "add", "inc"}
Inside == {"take", "load", "store", "end", "add", "inc"}

Empty == [q_start |-> 0, q_end |-> 0, q_count |-> 0,
          q_char |-> [i \in 0 .. QBUFSIZ - 1 |-> NL]]

Init ==
  /\ canq = Empty /\ outq = Empty
  /\ pc = "user" /\ op = "none" /\ cnt = 0 /\ buf = <<>> /\ reg = 0
  /\ r = 0 /\ ended = {} /\ hit = {} /\ sent = <<>> /\ shown = <<>>
-----------------------------------------------------------------------------
next(i) == (i + 1) % QBUFSIZ

putq(Q, ch) ==
  IF Q.q_count = QBUFSIZ THEN Q
  ELSE [Q EXCEPT !.q_char[Q.q_end] = ch, !.q_end = next(@), !.q_count = @ + 1]

(* A place that is not in use holds NL here: nothing reads it while the    *)
(* queue is whole.                                                         *)
used(Q) ==
  [Q EXCEPT !.q_char = [i \in 0 .. QBUFSIZ - 1 |->
     IF (i - Q.q_start + QBUFSIZ) % QBUFSIZ < Q.q_count THEN Q.q_char[i] ELSE NL]]

(* MUTANT: the first character is erased.                                  *)
eraseq_first(Q) ==
  IF Q.q_count = 0 THEN Q
  ELSE [Q EXCEPT !.q_start = next(@), !.q_count = @ - 1]

eraseq(Q) ==
  IF Q.q_count = 0 THEN Q
  ELSE used([Q EXCEPT !.q_end = (@ - 1 + QBUFSIZ) % QBUFSIZ, !.q_count = @ - 1])

(* What n calls of getq() return.                                          *)
first(Q, n) == [i \in 1 .. n |-> Q.q_char[(Q.q_start + i - 1) % QBUFSIZ]]
contents(Q) == first(Q, Q.q_count)

(* The characters of s, and the spaces of a tab.                           *)
putall(Q, s) == FoldLeft(putq, Q, s)
spaces(n) == [i \in 1 .. n |-> SPACE]

(* MUTANT: the end of a line is not put in, only taken out.                *)
tty_canon_nl(Q, ch, n) ==
  CASE ch = TAB -> putall(Q, spaces(n))
    [] ch = CERASE -> eraseq(Q)
    [] ch = NL -> Q
    [] OTHER -> putq(Q, ch)

(* tty_canon(); n is what the column leaves of a tab.                      *)
tty_canon(Q, ch, n) ==
  CASE ch = TAB -> putall(Q, spaces(n))
    [] ch = CERASE -> eraseq(Q)
    [] OTHER -> putq(Q, ch)

(* tty_output().                                                           *)
tty_output(Q, ch, n) == IF ch = TAB THEN putall(Q, spaces(n)) ELSE putq(Q, ch)
text(ch, n) == IF ch = TAB THEN spaces(n) ELSE <<ch>>

(* The history when s is sent and t shown.                                 *)
history(s, t) ==
  IF s = t THEN sent' = <<>> /\ shown' = <<>> ELSE sent' = s /\ shown' = t

(* Whether a key is echoed: an erase only if there is something to erase.  *)
echoes(ch) == ch = CERASE => canq.q_count # 0

(* MUTANT: the end of a line wakes nobody.                                 *)
woken_intr(ch) == ch = CINTR

(* Whether who sleeps is woken, by wakeup() or by the signal.              *)
woken(ch) == ch \in {NL, CEOF, CINTR}

(* Behaviours are followed until a queue is spoilt.                        *)
Whole == hit \cap {"canq", "outq"} = {}
at(l) == Whole /\ pc = l

(* What a key that comes now spoils: the queue that the process is about   *)
(* to change, the sleep that it has decided on, a full output.             *)
spoils(ch, n) ==
  (IF op = "read" /\ pc \in Inside THEN {"canq"} ELSE {})
    \cup (IF /\ echoes(ch)
             /\ \/ op = "write" /\ pc \in Inside
                \/ outq.q_count + n > QBUFSIZ
          THEN {"outq"} ELSE {})
    \cup (IF pc = "sleep" /\ woken(ch) THEN {"sleep"} ELSE {})

(* tty_input(): echo with tty_output() and tty_start(), which empties the  *)
(* queue whatever the process is about to do with it.                      *)
tty_input(ch, n) ==
  /\ Whole
  /\ ch # TAB => n = 1
  /\ hit' = hit \cup spoils(ch, n)
  /\ LET can == tty_canon(canq, ch, n) IN
     canq' = IF ch \in {NL, CEOF} THEN eraseq(can) ELSE can
  /\ IF echoes(ch)
     THEN LET out == tty_output(outq, ch, n) IN
          /\ outq' = used([out EXCEPT !.q_start = (@ + out.q_count) % QBUFSIZ,
                                      !.q_count = 0])
          /\ history(sent \o text(ch, n), shown \o contents(out))
     ELSE UNCHANGED <<outq, sent, shown>>
  /\ pc' = IF pc = "asleep" /\ woken(ch) THEN "getq" ELSE pc
  /\ ended' = IF op = "read" /\ pc # "read" THEN ended \cup ({NL, CEOF} \cap {ch})
              ELSE ended
  /\ UNCHANGED <<op, cnt, buf, reg, r>>
-----------------------------------------------------------------------------
(* tty_open(): the counts are reset, the positions are not: what was       *)
(* typed ahead leaves the queue out of step.                               *)
tty_open ==
  /\ at("user")
  /\ canq' = [canq EXCEPT !.q_count = 0]
  /\ outq' = [outq EXCEPT !.q_count = 0]
  /\ hit' = IF canq.q_count = 0 THEN hit ELSE hit \cup {"canq"}
  /\ UNCHANGED <<pc, op, cnt, buf, reg, r, ended, sent, shown>>

do_read(n) ==
  /\ at("user")
  /\ pc' = "read" /\ op' = "read" /\ cnt' = n /\ r' = 0
  /\ UNCHANGED <<canq, outq, buf, reg, ended, hit, sent, shown>>

(* tty_read(): one test, and one sleep.                                    *)
tty_read ==
  /\ at("read")
  /\ pc' = IF canq.q_count < cnt THEN "sleep" ELSE "getq"
  /\ UNCHANGED <<canq, outq, op, cnt, buf, reg, r, ended, hit, sent, shown>>

sleep ==
  /\ at("sleep") /\ pc' = "asleep"
  /\ UNCHANGED <<canq, outq, op, cnt, buf, reg, r, ended, hit, sent, shown>>

(* The queue of getq(), and how to change it.                              *)
q == IF op = "read" THEN canq ELSE outq
setq(new) == IF op = "read" THEN canq' = new /\ UNCHANGED outq
             ELSE outq' = new /\ UNCHANGED canq

(* The end of a call: tty_read() returns i + 1.                            *)
ret(n) ==
  /\ pc' = "user" /\ op' = "none" /\ cnt' = 0 /\ buf' = <<>>
  /\ r' = n /\ ended' = {} /\ hit' = hit \ {"sleep"}
  /\ UNCHANGED <<canq, outq, reg, sent, shown>>

(* getq() of tty_read() or tty_start().                                    *)
getq ==
  /\ at("getq")
  /\ IF q.q_count = 0 \/ (op = "read" /\ cnt = 0)
     THEN ret(IF op = "read" THEN Len(buf) + 1 ELSE 0)
     ELSE /\ pc' = "take"
          /\ UNCHANGED <<canq, outq, op, cnt, buf, reg, r, ended, hit, sent, shown>>

(* The character, and q_start.  putc() comes a little later.               *)
getq_char ==
  /\ at("take") /\ pc' = "load"
  /\ setq([q EXCEPT !.q_start = next(@), !.q_char[q.q_start] = NL])
  /\ IF op = "read"
     THEN /\ buf' = Append(buf, q.q_char[q.q_start]) /\ cnt' = cnt - 1
          /\ UNCHANGED <<sent, shown>>
     ELSE /\ shown' = Append(shown, q.q_char[q.q_start])
          /\ UNCHANGED <<cnt, buf, sent>>
  /\ UNCHANGED <<op, reg, r, ended, hit>>

getq_load ==
  /\ at("load") /\ pc' = "store" /\ reg' = q.q_count
  /\ UNCHANGED <<canq, outq, op, cnt, buf, r, ended, hit, sent, shown>>

getq_store ==
  /\ at("store") /\ pc' = "getq" /\ reg' = 0
  /\ setq([q EXCEPT !.q_count = reg - 1])
  /\ UNCHANGED <<op, cnt, buf, r, ended, hit>>
  /\ IF op = "write" THEN history(sent, shown) ELSE UNCHANGED <<sent, shown>>

(* tty_write(): putq() for each character, then tty_start().               *)
tty_write(s) ==
  /\ at("user") /\ pc' = "putq" /\ op' = "write" /\ buf' = s
  /\ UNCHANGED <<canq, outq, cnt, reg, r, ended, hit, sent, shown>>

putq_char ==
  /\ at("putq")
  /\ IF buf = <<>> THEN pc' = "getq" /\ UNCHANGED <<outq, buf, hit, sent>>
     ELSE /\ buf' = Tail(buf)
          /\ IF outq.q_count = QBUFSIZ
             THEN hit' = hit \cup {"outq"} /\ UNCHANGED <<pc, outq>>
             ELSE /\ outq' = [outq EXCEPT !.q_char[outq.q_end] = Head(buf)]
                  /\ pc' = "end" /\ UNCHANGED hit
          /\ sent' = Append(sent, Head(buf))
  /\ UNCHANGED <<canq, op, cnt, reg, r, ended, shown>>

putq_end ==
  /\ at("end") /\ pc' = "add"
  /\ outq' = [outq EXCEPT !.q_end = next(@)]
  /\ UNCHANGED <<canq, op, cnt, buf, reg, r, ended, hit, sent, shown>>

putq_load ==
  /\ at("add") /\ pc' = "inc" /\ reg' = outq.q_count
  /\ UNCHANGED <<canq, outq, op, cnt, buf, r, ended, hit, sent, shown>>

(* MUTANT: the character is not counted.                                   *)
putq_store_same ==
  /\ at("inc") /\ pc' = "putq" /\ reg' = 0
  /\ outq' = [outq EXCEPT !.q_count = reg]
  /\ UNCHANGED <<canq, op, cnt, buf, r, ended, hit, sent, shown>>

putq_store ==
  /\ at("inc") /\ pc' = "putq" /\ reg' = 0
  /\ outq' = [outq EXCEPT !.q_count = reg + 1]
  /\ UNCHANGED <<canq, op, cnt, buf, r, ended, hit, sent, shown>>

Step ==
  \/ tty_read \/ sleep \/ getq \/ getq_char \/ getq_load \/ getq_store
  \/ putq_char \/ putq_end \/ putq_load \/ putq_store

Next ==
  \/ \E ch \in Keys, n \in 1 .. 4 : tty_input(ch, n)
  \/ tty_open
  \/ \E n \in Cnt : do_read(n)
  \/ \E s \in Texts : tty_write(s)
  \/ Step

Spec == Init /\ [][Next]_vars

(* The process goes on when it does not sleep.                             *)
LiveSpec == Spec /\ WF_vars(Step)
-----------------------------------------------------------------------------
TypeOK ==
  /\ \A Q \in {canq, outq} :
       Q \in [q_start : 0 .. QBUFSIZ - 1, q_end : 0 .. QBUFSIZ - 1,
              q_count : 0 .. QBUFSIZ, q_char : [0 .. QBUFSIZ - 1 -> STRING]]
  /\ pc \in PC /\ op \in {"none", "read", "write"}
  /\ cnt \in Nat /\ reg \in 0 .. QBUFSIZ /\ r \in Nat
  /\ ended \subseteq {NL, CEOF} /\ hit \subseteq {"canq", "outq", "sleep"}

(* tty_read() gets what was typed, in order and once: the ring and the     *)
(* line discipline implement TtyLine.  Between "load" and "store" q_count  *)
(* still counts the character that was taken.                              *)
Line == INSTANCE TtyLine WITH
  line <- first(canq, IF op = "read" /\ pc \in {"load", "store"}
                      THEN canq.q_count - 1 ELSE canq.q_count),
  got <- IF op = "read" THEN buf ELSE <<>>,
  Text <- {<<k>> : k \in Keys} \cup {spaces(n) : n \in 1 .. 4}
LineSpec == Line!Init /\ [][Whole' => Line!Next]_(Line!vars)

(* The end of a line takes nothing away from it.                           *)
LineKept ==
  [][ended' # ended /\ ended' # {} /\ canq.q_count < QBUFSIZ /\ "canq" \notin hit =>
       contents(canq') = contents(canq)]_vars

(* What is written and echoed is shown, in the order in which it was sent. *)
Shown ==
  "outq" \notin hit /\ (op = "read" \/ pc \notin Inside) =>
    shown \o contents(outq) = sent

(* A read() that has found too little returns when a line ends.            *)
LineRead == op = "read" /\ ended # {} /\ "sleep" \notin hit ~> op # "read" \/ ~Whole

=============================================================================
