------------------------------- MODULE Signal -------------------------------
(***************************************************************************)
(* Signals (src/kern/signal.c, sys4.c): kill to processes and groups,      *)
(* signal, sigaction, the handlers in user mode and sigreturn.  Proc has   *)
(* the races between a signal and sleep() and exit(); here processes       *)
(* neither come nor are waited for, and nobody else runs between the two   *)
(* looks for signals that sleep() takes: the kernel is not preemptive.     *)
(*                                                                         *)
(* p_sig and the masks are sets of signal numbers.  Number 0 stands for    *)
(* bit 31: the shift by n - 1 of kill(pid, 0) is one by 31 bits on the     *)
(* x86, and issig() looks at that bit first.                               *)
(***************************************************************************)
EXTENDS Integers, FiniteSetsExt, Sequences

CONSTANTS
  Pids, Pgrp, Euid,   \* the processes, their groups and users
  Sigs,               \* the signals that programs use, 0 for the null one
  Targets,            \* the pids that programs pass to kill()
  Actions,            \* what they pass to sigaction()
  Catching,           \* the processes that call signal() and sigaction()
  MaxDepth            \* bound on the signals that a process has and handles

SIGKILL == 9
SIGCHLD == 17
SIGCONT == 18

Action == [handler : {"DFL", "IGN", "func"}, oneshot : BOOLEAN,
           nomask : BOOLEAN, mask : SUBSET (1 .. 31)]
Default == [handler |-> "DFL", oneshot |-> FALSE, nomask |-> FALSE,
            mask |-> {}]

ASSUME SignalAssumption ==
  /\ Pids \subseteq Nat \ {0} /\ Sigs \subseteq 0 .. 31 /\ Targets \subseteq Int
  /\ Pgrp \in [Pids -> Nat] /\ Euid \in [Pids -> Nat]
  /\ Actions \subseteq Action
  /\ Catching \subseteq Pids
  /\ MaxDepth \in Nat

VARIABLES
  p_sig, p_sigact, p_sigmask,
  frames,             \* the masks that usigsav() pushed on the user's stack
  base,               \* what is blocked when the program starts (history)
  swait,              \* the processes whose p_stat is SWAIT
  spent,              \* both looks of their sleep() found a signal (history)
  pc                  \* "user", "trap", "mark" and "wait" (in pause()),
                      \* "stop" (switched from, at the end of a trap), "zomb"

vars == <<p_sig, p_sigact, p_sigmask, frames, base, swait, spent, pc>>

Init ==
  /\ p_sig = [p \in Pids |-> {}]
  /\ p_sigact = [p \in Pids |-> [n \in Sigs |-> Default]]
  /\ p_sigmask = [p \in Pids |-> {}]
  /\ frames = [p \in Pids |-> <<>>]
  /\ base = [p \in Pids |-> {}]
  /\ swait = {} /\ spent = {}
  /\ pc = [p \in Pids |-> "user"]

(* p is the process that runs, and it is at l: one that swtch() would not  *)
(* come back to has not called it yet.                                     *)
at(p, l) ==
  /\ pc[p] = l
  /\ \A q \in Pids \ {p} :
       pc[q] # "mark" /\ (pc[q] \in {"user", "trap"} => q \notin swait)
goto(p, l) == pc' = [pc EXCEPT ![p] = l]
suser(p) == Euid[p] = 0
(* sa_handler of a signal; that of 0, p_sigact[-1], is where p_sigmask is. *)
handler(p, n) ==
  IF n # 0 THEN p_sigact[p][n].handler
  ELSE IF p_sigmask[p] = {1} THEN "IGN" ELSE "DFL"
-----------------------------------------------------------------------------
(* sigsend() from p to q: allowed, and not ignored.                        *)
sigsend(p, q, n) ==
  /\ Euid[p] = Euid[q] \/ suser(p)
  /\ ~(handler(q, n) = "IGN" /\ n # SIGKILL)

(* do_kill(): the processes that the signal goes to; group 0 - that of     *)
(* the caller - is looked for by the caller's pid.                         *)
do_kill(p, pid) ==
  CASE pid > 0 -> {pid} \cap Pids
    [] pid = 0 -> {q \in Pids : Pgrp[q] = p}
    [] pid = -1 -> Pids
    [] OTHER -> {q \in Pids : Pgrp[q] = -pid}

(* kill(): who waits gets up; pause() then returns by a trap.       *)
sys_kill(p, pid, n) ==
  /\ at(p, "user")
  /\ LET hit == {q \in do_kill(p, pid) : sigsend(p, q, n)}
     IN /\ \A q \in hit :
             Cardinality(p_sig[q] \cup {n}) + Len(frames[q]) <= MaxDepth
        /\ p_sig' = [q \in Pids |-> IF q \in hit THEN p_sig[q] \cup {n}
                                                ELSE p_sig[q]]
        /\ pc' = [q \in Pids |->
             IF q = p \/ (q \in hit /\ pc[q] = "wait") THEN "trap"
             ELSE IF q \in hit /\ pc[q] = "stop" THEN "user" ELSE pc[q]]
        /\ swait' = swait \ hit /\ spent' = spent \ hit
  /\ UNCHANGED <<p_sigact, p_sigmask, frames, base>>

(* MUTANT: SIGKILL can be caught and ignored.                              *)
settable_any(n) == n >= 1
settable(n) == n >= 1 /\ n # SIGKILL

(* signal(): one shot, no mask, and nothing is blocked any more.           *)
do_signal(p, n, h) ==
  /\ at(p, "user") /\ p \in Catching /\ settable(n)
  /\ p_sigact' = [p_sigact EXCEPT ![p][n] =
       [handler |-> h, oneshot |-> TRUE, nomask |-> TRUE, mask |-> {}]]
  /\ p_sigmask' = [p_sigmask EXCEPT ![p] = {}]
  /\ goto(p, "trap")
  /\ UNCHANGED <<p_sig, frames, base, swait, spent>>

do_sigaction(p, n, sa) ==
  /\ at(p, "user") /\ p \in Catching /\ settable(n)
  /\ p_sigact' = [p_sigact EXCEPT ![p][n] = [sa EXCEPT !.mask = @ \cup {n}]]
  /\ goto(p, "trap")
  /\ UNCHANGED <<p_sig, p_sigmask, frames, base, swait, spent>>

(* do_exec() forgets the handlers, and the stack with their frames goes;   *)
(* what is blocked - in a handler, by its mask - stays blocked.            *)
exec(p) ==
  /\ at(p, "user")
  /\ p_sigact' = [p_sigact EXCEPT ![p] = [n \in Sigs |-> Default]]
  /\ frames' = [frames EXCEPT ![p] = <<>>]
  /\ base' = [base EXCEPT ![p] = p_sigmask[p]]
  /\ goto(p, "trap")
  /\ UNCHANGED <<p_sig, p_sigmask, swait, spent>>

(* sys_sigreturn(): the mask is as it was.                                 *)
sys_sigreturn(p) ==
  /\ at(p, "user") /\ frames[p] # <<>>
  /\ p_sigmask' = [p_sigmask EXCEPT ![p] = Head(frames[p])]
  /\ frames' = [frames EXCEPT ![p] = Tail(@)]
  /\ goto(p, "trap")
  /\ UNCHANGED <<p_sig, p_sigact, base, swait, spent>>
-----------------------------------------------------------------------------
(* The signal that issig() comes to.                                       *)
first(p) == Min(p_sig[p])

ignored(p) ==
  /\ p_sig[p] # {} /\ first(p) # SIGKILL
  /\ handler(p, first(p)) = "IGN"

(* issig() returns the signal: it is neither ignored nor blocked.          *)
issig(p) ==
  /\ p_sig[p] # {} /\ first(p) # 0 /\ ~ignored(p)
  /\ first(p) \notin p_sigmask[p] \/ first(p) = SIGKILL

(* issig() drops a signal that came to be ignored, and returns 0.          *)
drop(p) ==
  p_sig' = [p_sig EXCEPT ![p] = IF ignored(p) THEN @ \ {first(p)} ELSE @]

(* MUTANT: the mask that usigsav() saves is the one of the handler.        *)
psig_late(p, n, sa, back) ==
  /\ p_sig' = [p_sig EXCEPT ![p] = @ \ {n}]
  /\ IF sa.handler # "DFL"
     THEN LET mask == p_sigmask[p] \cup IF sa.nomask THEN {} ELSE sa.mask IN
          /\ frames' = [frames EXCEPT ![p] = <<mask>> \o @]
          /\ p_sigmask' = [p_sigmask EXCEPT ![p] = mask]
          /\ p_sigact' = [p_sigact EXCEPT ![p][n].handler =
               IF sa.oneshot THEN "DFL" ELSE @]
          /\ goto(p, "user")
     ELSE /\ goto(p, IF n \in {SIGCHLD, SIGCONT} THEN back ELSE "zomb")
          /\ UNCHANGED <<frames, p_sigmask, p_sigact>>

(* psig(): the handler is entered with its mask, or the default action.    *)
psig(p, n, sa, back) ==
  /\ p_sig' = [p_sig EXCEPT ![p] = @ \ {n}]
  /\ IF sa.handler # "DFL"
     THEN /\ frames' = [frames EXCEPT ![p] = <<p_sigmask[p]>> \o @]
          /\ p_sigmask' = [p_sigmask EXCEPT ![p] =
               @ \cup IF sa.nomask THEN {} ELSE sa.mask]
          /\ p_sigact' = [p_sigact EXCEPT ![p][n].handler =
               IF sa.oneshot THEN "DFL" ELSE @]
          /\ goto(p, "user")
     ELSE /\ goto(p, IF n \in {SIGCHLD, SIGCONT} THEN back ELSE "zomb")
          /\ UNCHANGED <<frames, p_sigmask, p_sigact>>

(* if (issig()) psig();                                                    *)
take(p, back) ==
  IF issig(p)
  THEN psig(p, first(p), p_sigact[p][first(p)], back)
  ELSE drop(p) /\ goto(p, back) /\ UNCHANGED <<frames, p_sigmask, p_sigact>>

(* hwint_common(), on the way back to user mode: a process that is not     *)
(* SRUN - it went to a handler out of sleep() - is switched from for good. *)
trap(p) ==
  /\ at(p, "trap")
  /\ take(p, IF p \in swait THEN "stop" ELSE "user")
  /\ UNCHANGED <<base, swait, spent>>

(* sys_pause(): sleep() looks for signals first ...                        *)
sys_pause(p) ==
  /\ at(p, "user")
  /\ take(p, "mark")
  /\ spent' = IF p_sig'[p] # p_sig[p] THEN spent \cup {p} ELSE spent \ {p}
  /\ UNCHANGED <<base, swait>>

(* MUTANT: there is no second look.                                        *)
sleep_mark_blind(p) ==
  /\ at(p, "mark") /\ goto(p, "wait")
  /\ swait' = swait \cup {p} /\ spent' = spent \ {p}
  /\ UNCHANGED <<p_sig, p_sigact, p_sigmask, frames, base>>

(* ... and once more when it is marked SWAIT; a handler runs so marked.    *)
sleep_mark(p) ==
  /\ at(p, "mark")
  /\ swait' = swait \cup {p}
  /\ take(p, "wait")
  /\ spent' = IF p_sig'[p] # p_sig[p] THEN spent ELSE spent \ {p}
  /\ UNCHANGED base

(* The timer interrupts the program.                                       *)
tick(p) ==
  /\ at(p, "user")
  /\ goto(p, "trap")
  /\ UNCHANGED <<p_sig, p_sigact, p_sigmask, frames, base, swait, spent>>

Next ==
  \E p \in Pids :
    \/ \E pid \in Targets, n \in Sigs : sys_kill(p, pid, n)
    \/ \E n \in Sigs, h \in {"DFL", "IGN", "func"} : do_signal(p, n, h)
    \/ \E n \in Sigs, sa \in Actions : do_sigaction(p, n, sa)
    \/ exec(p) \/ sys_sigreturn(p) \/ sys_pause(p) \/ sleep_mark(p)
    \/ trap(p) \/ tick(p)

Spec == Init /\ [][Next]_vars

(* The timer ticks, whatever the programs do, and traps and sleep() go on  *)
(* when their process gets the CPU, as it does again and again.            *)
LiveSpec ==
  Spec /\ \A p \in Pids : /\ SF_vars(trap(p)) /\ SF_vars(tick(p))
                          /\ WF_vars(sleep_mark(p))
-----------------------------------------------------------------------------
TypeOK ==
  /\ p_sig \in [Pids -> SUBSET Sigs]
  /\ p_sigact \in [Pids -> [Sigs -> Action]]
  /\ p_sigmask \in [Pids -> SUBSET (1 .. 31)]
  /\ frames \in [Pids -> Seq(SUBSET (1 .. 31))]
  /\ base \in [Pids -> SUBSET (1 .. 31)]
  /\ swait \subseteq Pids /\ spent \subseteq Pids
  /\ pc \in [Pids -> {"user", "trap", "mark", "wait", "stop", "zomb"}]

(* When no handler is active nothing is blocked but what the program was   *)
(* started with: however handlers nest, whatever they install and wherever *)
(* a signal comes, sigreturn() brings back the mask.                       *)
MaskRestored ==
  \A p \in Pids : frames[p] = <<>> => p_sigmask[p] \subseteq base[p]

(* Nobody sleeps in pause() with a signal that would end it, unless both   *)
(* looks of sleep() came to another one, ignored or without effect.        *)
PauseSeesSignal ==
  \A p \in Pids : pc[p] = "wait" /\ p \notin spent => ~issig(p)

(* SIGKILL terminates the process, whatever it ignores, blocks or handles  *)
(* and although it sleeps in pause(), unless it also has a signal with a   *)
(* lower number - issig() comes to that first, and stops there if it is    *)
(* blocked - or two of those have used up the looks of sleep().            *)
KillKills ==
  \A p \in Pids : SIGKILL \in p_sig[p] ~>
    \/ pc[p] = "zomb"
    \/ \E n \in p_sig[p] : n < SIGKILL
    \/ pc[p] = "wait" /\ p \in spent
=============================================================================
