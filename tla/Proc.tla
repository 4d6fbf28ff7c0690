-------------------------------- MODULE Proc --------------------------------
(***************************************************************************)
(* The life of a process (src/kern/fork.c, exit.c, wait.c, sched.c and the *)
(* parts of signal.c and trap.c they use): fork, exit, waitpid, pause,     *)
(* sleep and wakeup, and the signals that end a sleep or a process.        *)
(*                                                                         *)
(* The kernel is not preemptive: a process gives the processor away only   *)
(* in sleep() and on the way back to user mode, so each action is what a   *)
(* process does up to the next place where another process, or the         *)
(* keyboard interrupt that sends SIGINT, can come between.                 *)
(*                                                                         *)
(* Every signal has its default action here: SIGCHLD is discarded and      *)
(* SIGINT stands for all those that terminate.  cu is NoProc while swtch() *)
(* looks for a process; process 0 only runs that loop.                     *)
(***************************************************************************)
EXTENDS Integers

CONSTANTS
  NPROC,         \* the size of proc[]
  MaxProc,       \* bound: no fork with this many processes or more
  Killable,      \* the processes that kill() and the keyboard send SIGINT
  Waits,         \* the arguments programs call waitpid() with
  Garbage,       \* what the page of a new struct proc has for p_chan
  NoChan,        \* p_chan = 0
  Pause, Io      \* channels: &sys_pause, and those of the file system

SIGINT == 2
SIGCHLD == 17

Pid == 0 .. NPROC - 1
NoProc == -1
Chan == Pid \cup {NoChan, Pause, Io}   \* n stands for (uint)proc[n]

NoArg == [pid |-> 0, nohang |-> FALSE]
AnyChild == [pid |-> -1, nohang |-> FALSE]
WaitArg == [pid : (Pid \ {0}) \cup {-1}, nohang : BOOLEAN]

ASSUME ProcAssumption ==
  /\ NPROC \in Nat /\ NPROC > 2
  /\ MaxProc \in Nat
  /\ Killable \subseteq Pid /\ Garbage \subseteq Chan
  /\ Waits \subseteq WaitArg /\ AnyChild \in Waits
  /\ NoChan \notin Int /\ Pause \notin Int /\ Io \notin Int
  /\ NoChan # Pause /\ NoChan # Io /\ Pause # Io

VARIABLES
  p_stat,        \* "free" for a NULL proc[n]
  p_ppid, p_chan, p_sig,
  pc,            \* where the process is, see PC
  ret,           \* where its do_exit() returns to
  arg,           \* the pid and WNOHANG of its waitpid()
  cu

vars == <<p_stat, p_ppid, p_chan, p_sig, pc, ret, arg, cu>>

(* "user": in user mode.  "trap": at the signal check of hwint_common,     *)
(* "swtch": at its swtch().  "scan": at _repeat of do_waitpid.             *)
(* "check", "mark", "recheck", "asleep": at lines 25, 27, 32 and 34 of     *)
(* sleep().  "close", "clear": at lines 28 and 40 of do_exit; "closed" and *)
(* "cleared": after a sleep there.  "panic": in panic(), for ever.         *)
PC == {"user", "trap", "swtch", "scan", "check", "mark", "recheck", "asleep",
       "close", "closed", "clear", "cleared", "panic"}

live(n) == p_stat[n] # "free"

(* kmain and init(): process 0 and init are there, init in user mode.      *)
Init ==
  /\ p_stat = [n \in Pid |-> IF n \in {0, 1} THEN "SRUN" ELSE "free"]
  /\ p_ppid = [n \in Pid |-> 0]
  /\ p_chan = [n \in Pid |-> NoChan]
  /\ p_sig = [n \in Pid |-> {}]
  /\ pc = [n \in Pid |-> "user"]
  /\ ret = [n \in Pid |-> "user"]
  /\ arg = [n \in Pid |-> NoArg]
  /\ cu = NoProc

(* Process n goes on at the place l.                                       *)
goto(n, l) == pc' = [pc EXCEPT ![n] = l]
-----------------------------------------------------------------------------
(* swtch(): any process that is SRUN; the priorities are left out.         *)
swtch(n) ==
  /\ cu = NoProc
  /\ n # 0 /\ p_stat[n] = "SRUN"
  /\ cu' = n
  /\ UNCHANGED <<p_stat, p_ppid, p_chan, p_sig, pc, ret, arg>>

(* sigsend(): nothing (EINVAL) for process 0 or a free slot, else the      *)
(* signal is pending, and a process in an interruptible sleep gets up.     *)
sigsend(n, sig) ==
  IF n = 0 \/ ~live(n)
  THEN UNCHANGED <<p_stat, p_chan, p_sig>>
  ELSE /\ p_sig' = [p_sig EXCEPT ![n] = @ \cup {sig}]
       /\ IF p_stat[n] = "SWAIT"
          THEN /\ p_stat' = [p_stat EXCEPT ![n] = "SRUN"]
               /\ p_chan' = [p_chan EXCEPT ![n] = NoChan]
          ELSE UNCHANGED <<p_stat, p_chan>>

(* issig(): the pending signal with the smallest number, 0 if none.        *)
issig(n) ==
  IF SIGINT \in p_sig[n] THEN SIGINT
  ELSE IF SIGCHLD \in p_sig[n] THEN SIGCHLD ELSE 0

(* The call of do_exit(): the status, the handlers, and on to the files.   *)
do_exit(n, back) ==
  /\ goto(n, "close")
  /\ ret' = [ret EXCEPT ![n] = back]

(* psig(): takes the signal issig() found, by default; control goes on at  *)
(* back when it returns, after do_exit() as well.                          *)
psig(n, back) ==
  /\ p_sig' = [p_sig EXCEPT ![n] = @ \ {issig(n)}]
  /\ IF issig(n) = SIGINT
     THEN do_exit(n, back)
     ELSE goto(n, back) /\ UNCHANGED ret

(* if (issig()) psig();                                                    *)
take_signal(n, back) ==
  IF issig(n) # 0
  THEN psig(n, back)
  ELSE goto(n, back) /\ UNCHANGED <<p_sig, ret>>
-----------------------------------------------------------------------------
(* kspawn() and do_fork(): the lowest free slot; the pending signals are   *)
(* inherited, p_chan is whatever the page held.  The child starts at       *)
(* _hwint_ret and so in user mode.                                         *)
do_fork(n, c, chan) ==
  /\ cu = n /\ pc[n] = "user"
  /\ c < MaxProc
  /\ ~live(c) /\ \A m \in 0 .. c - 1 : live(m)
  /\ p_stat' = [p_stat EXCEPT ![c] = "SRUN"]
  /\ p_ppid' = [p_ppid EXCEPT ![c] = n]
  /\ p_chan' = [p_chan EXCEPT ![c] = chan]
  /\ p_sig' = [p_sig EXCEPT ![c] = p_sig[n]]
  /\ goto(n, "trap")
  /\ UNCHANGED <<ret, arg, cu>>

(* kspawn() when proc[] is full: find_pid() is 0 and the kernel panics.    *)
fork_panic(n) ==
  /\ cu = n /\ pc[n] = "user"
  /\ \A m \in Pid : live(m)
  /\ goto(n, "panic")
  /\ UNCHANGED <<p_stat, p_ppid, p_chan, p_sig, ret, arg, cu>>

(* sys__exit().  init (usr/init.c) forks and waits, and never calls it.    *)
sys__exit(n) ==
  /\ cu = n /\ pc[n] = "user" /\ n # 1
  /\ do_exit(n, "trap")
  /\ UNCHANGED <<p_stat, p_ppid, p_chan, p_sig, arg, cu>>

(* do_close(), iput() or vm_clear() in do_exit() waits for the disk or for *)
(* an inode: sleep(.., PRIBIO or PINOD), which no signal interrupts.       *)
(* Several such sleeps in a row are one long sleep.                        *)
exit_sleep(n) ==
  /\ cu = n /\ pc[n] \in {"close", "clear"}
  /\ p_stat' = [p_stat EXCEPT ![n] = "SSLEEP"]
  /\ p_chan' = [p_chan EXCEPT ![n] = Io]
  /\ goto(n, IF pc[n] = "close" THEN "closed" ELSE "cleared")
  /\ cu' = NoProc
  /\ UNCHANGED <<p_ppid, p_sig, ret, arg>>

(* The disk interrupt, or another process, ends such a sleep.              *)
io_wakeup(n) ==
  /\ p_stat[n] = "SSLEEP"
  /\ p_stat' = [p_stat EXCEPT ![n] = "SRUN"]
  /\ p_chan' = [p_chan EXCEPT ![n] = NoChan]
  /\ UNCHANGED <<p_ppid, p_sig, pc, ret, arg, cu>>

(* do_exit() with the files closed: SIGCHLD for the parent.                *)
exit_tell(n) ==
  /\ cu = n /\ pc[n] \in {"close", "closed"}
  /\ sigsend(p_ppid[n], SIGCHLD)
  /\ goto(n, "clear")
  /\ UNCHANGED <<p_ppid, ret, arg, cu>>

(* MUTANT: the children keep their parent.                                 *)
heirs_none(n) == {}

(* The children that do_exit() gives to init.                              *)
heirs(n) == {m \in Pid \ {0, n} : live(m) /\ p_ppid[m] = n}

(* MUTANT: the parent is not woken, SIGCHLD having done that.              *)
told_init(n) == {1}

(* MUTANT: nobody is woken.                                                *)
told_none(n) == {}

(* The channels do_exit() wakes: its parent's, and init's.                 *)
told(n) == {p_ppid[n], 1}

(* MUTANT: p_chan is left as it is.                                        *)
exit_zombie_keepchan(n) ==
  /\ cu = n /\ pc[n] \in {"clear", "cleared"}
  /\ p_ppid' = [m \in Pid |-> IF m \in heirs(n) THEN 1 ELSE p_ppid[m]]
  /\ LET woken(m) == m # n /\ live(m) /\ p_chan[m] \in told(n)
     IN /\ p_stat' = [m \in Pid |->
             IF m = n THEN "SZOMB" ELSE IF woken(m) THEN "SRUN" ELSE p_stat[m]]
        /\ p_chan' = [m \in Pid |-> IF woken(m) THEN NoChan ELSE p_chan[m]]
  /\ goto(n, ret[n])
  /\ ret' = [ret EXCEPT ![n] = "user"]
  /\ UNCHANGED <<p_sig, arg, cu>>

(* The end of do_exit(), in one piece: a zombie that waits for nothing,    *)
(* its children given to init, and the wakeups.                            *)
exit_zombie(n) ==
  /\ cu = n /\ pc[n] \in {"clear", "cleared"}
  /\ p_ppid' = [m \in Pid |-> IF m \in heirs(n) THEN 1 ELSE p_ppid[m]]
  /\ LET woken(m) == m # n /\ live(m) /\ p_chan[m] \in told(n)
     IN /\ p_stat' = [m \in Pid |->
             IF m = n THEN "SZOMB" ELSE IF woken(m) THEN "SRUN" ELSE p_stat[m]]
        /\ p_chan' = [m \in Pid |->
             IF m = n \/ woken(m) THEN NoChan ELSE p_chan[m]]
  /\ goto(n, ret[n])
  /\ ret' = [ret EXCEPT ![n] = "user"]
  /\ UNCHANGED <<p_sig, arg, cu>>
-----------------------------------------------------------------------------
(* sys_waitpid() and sys_wait(): pid and options.  init waits for any.     *)
sys_waitpid(n, a) ==
  /\ cu = n /\ pc[n] = "user"
  /\ n = 1 => a = AnyChild
  /\ arg' = [arg EXCEPT ![n] = a]
  /\ goto(n, "scan")
  /\ UNCHANGED <<p_stat, p_ppid, p_chan, p_sig, ret, cu>>

(* The zombies do_waitpid(n's arguments) looks for.                        *)
zombies(n) ==
  {m \in Pid \ {0, n} : /\ p_stat[m] = "SZOMB" /\ p_ppid[m] = n
                        /\ arg[n].pid \in {-1, m}}


(* do_waitpid() finds a zombie: the first one's slot is freed.             *)
waitpid_reap(n) ==
  /\ cu = n /\ pc[n] = "scan"
  /\ \E m \in zombies(n) :
       /\ \A k \in zombies(n) : m <= k
       /\ p_stat' = [p_stat EXCEPT ![m] = "free"]
       /\ p_ppid' = [p_ppid EXCEPT ![m] = 0]
       /\ p_sig' = [p_sig EXCEPT ![m] = {}]
       /\ pc' = [pc EXCEPT ![m] = "user", ![n] = "trap"]
       /\ arg' = [arg EXCEPT ![m] = NoArg, ![n] = NoArg]
  /\ UNCHANGED <<p_chan, ret, cu>>

(* do_waitpid() finds none: 0 with WNOHANG, else sleep((uint)cu, PWAIT).   *)
(* A process without children sleeps too.                                  *)
waitpid_none(n) ==
  /\ cu = n /\ pc[n] = "scan"
  /\ zombies(n) = {}
  /\ IF arg[n].nohang
     THEN goto(n, "trap") /\ arg' = [arg EXCEPT ![n] = NoArg]
     ELSE goto(n, "check") /\ UNCHANGED arg
  /\ UNCHANGED <<p_stat, p_ppid, p_chan, p_sig, ret, cu>>

(* sys_pause(): sleep((uint)&sys_pause, PWAIT).                            *)
sys_pause(n) ==
  /\ cu = n /\ pc[n] = "user" /\ n # 1
  /\ goto(n, "check")
  /\ UNCHANGED <<p_stat, p_ppid, p_chan, p_sig, ret, arg, cu>>
-----------------------------------------------------------------------------
(* sleep() with pri >= 0, lines 25-26.                                     *)
sleep_check(n) ==
  /\ cu = n /\ pc[n] = "check"
  /\ take_signal(n, "mark")
  /\ UNCHANGED <<p_stat, p_ppid, p_chan, arg, cu>>

(* Lines 27-31, with interrupts off.                                       *)
sleep_mark(n) ==
  /\ cu = n /\ pc[n] = "mark"
  /\ p_chan' = [p_chan EXCEPT ![n] = IF arg[n] = NoArg THEN Pause ELSE n]
  /\ p_stat' = [p_stat EXCEPT ![n] = "SWAIT"]
  /\ goto(n, "recheck")
  /\ UNCHANGED <<p_ppid, p_sig, ret, arg, cu>>

(* Lines 32-33.                                                            *)
sleep_recheck(n) ==
  /\ cu = n /\ pc[n] = "recheck"
  /\ take_signal(n, "asleep")
  /\ UNCHANGED <<p_stat, p_ppid, p_chan, arg, cu>>

(* Line 34.  When sleep() returns, do_waitpid() scans again and            *)
(* sys_pause() returns.                                                    *)
sleep_swtch(n) ==
  /\ cu = n /\ pc[n] = "asleep"
  /\ goto(n, IF arg[n] = NoArg THEN "trap" ELSE "scan")
  /\ cu' = NoProc
  /\ UNCHANGED <<p_stat, p_ppid, p_chan, p_sig, ret, arg>>

(* A timer interrupt or any other system call, in user mode.               *)
trap(n) ==
  /\ cu = n /\ pc[n] = "user"
  /\ goto(n, "trap")
  /\ UNCHANGED <<p_stat, p_ppid, p_chan, p_sig, ret, arg, cu>>

(* hwint_common on the way to user mode: a zombie takes no signal.         *)
trap_signal(n) ==
  /\ cu = n /\ pc[n] = "trap"
  /\ IF p_stat[n] # "SZOMB"
     THEN take_signal(n, "swtch")
     ELSE goto(n, "swtch") /\ UNCHANGED <<p_sig, ret>>
  /\ UNCHANGED <<p_stat, p_ppid, p_chan, arg, cu>>

(* Its swtch(); process n is in user mode when it is chosen again.         *)
trap_swtch(n) ==
  /\ cu = n /\ pc[n] = "swtch"
  /\ goto(n, "user")
  /\ cu' = NoProc
  /\ UNCHANGED <<p_stat, p_ppid, p_chan, p_sig, ret, arg>>

(* sys_kill() with pid > 0.                                                *)
do_kill(n, m) ==
  /\ cu = n /\ pc[n] = "user" /\ n # 1
  /\ sigsend(m, SIGINT)
  /\ goto(n, "trap")
  /\ UNCHANGED <<p_ppid, ret, arg, cu>>

(* The keyboard interrupt, in any place where interrupts are on: tty_input *)
(* sends SIGINT to the processes of a group (one at a time here).          *)
tty_intr(m) ==
  /\ sigsend(m, SIGINT)
  /\ UNCHANGED <<p_ppid, pc, ret, arg, cu>>
-----------------------------------------------------------------------------
(* What process n does on the processor.                                   *)
Kernel(n) ==
  \/ exit_tell(n) \/ exit_zombie(n)
  \/ waitpid_reap(n) \/ waitpid_none(n)
  \/ sleep_check(n) \/ sleep_mark(n) \/ sleep_recheck(n) \/ sleep_swtch(n)
  \/ trap_signal(n) \/ trap_swtch(n)

User(n) ==
  \/ \E c \in Pid, chan \in Garbage : do_fork(n, c, chan)
  \/ fork_panic(n)
  \/ sys__exit(n)
  \/ \E a \in Waits : sys_waitpid(n, a)
  \/ sys_pause(n)
  \/ trap(n)
  \/ \E m \in Killable : do_kill(n, m)

Next ==
  \/ \E n \in Pid : swtch(n) \/ Kernel(n) \/ User(n) \/ exit_sleep(n)
  \/ \E n \in Pid : io_wakeup(n)
  \/ \E m \in Killable : tty_intr(m)

Spec == Init /\ [][Next]_vars

(* The scheduler and the disk are fair, the timer interrupts user mode, a  *)
(* process in the kernel goes on, and init calls wait() again and again    *)
(* (usr/init.c).                                                           *)
Fairness ==
  /\ \A n \in Pid \ {0} : SF_vars(swtch(n))
  /\ \A n \in Pid \ {0} : WF_vars(io_wakeup(n))
  /\ WF_vars(\E n \in Pid : Kernel(n) \/ trap(n))
  /\ SF_vars(sys_waitpid(1, AnyChild))

FairSpec == Spec /\ Fairness
-----------------------------------------------------------------------------
TypeOK ==
  /\ p_stat \in [Pid -> {"free", "SRUN", "SWAIT", "SSLEEP", "SZOMB"}]
  /\ p_ppid \in [Pid -> Pid]
  /\ p_chan \in [Pid -> Chan]
  /\ p_sig \in [Pid -> SUBSET {SIGINT, SIGCHLD}]
  /\ pc \in [Pid -> PC]
  /\ ret \in [Pid -> {"user", "trap", "swtch", "mark", "asleep"}]
  /\ arg \in [Pid -> WaitArg \cup {NoArg}]
  /\ cu \in (Pid \ {0}) \cup {NoProc}

(* The parent of a process is there: do_exit() never calls wakeup() with   *)
(* a NULL proc[p_ppid], which would make every process with p_chan = 0     *)
(* runnable, the zombies included.                                         *)
ParentExists == live(1) /\ \A n \in Pid : live(n) => live(p_ppid[n])

(* Nobody is left with a parent that will not wait: the parent of a        *)
(* process is init or has not become a zombie.                             *)
OrphansToInit ==
  \A n \in Pid : live(n) /\ p_stat[p_ppid[n]] = "SZOMB" => p_ppid[n] = 1

(* Who is on the processor: only the process itself leaves the places      *)
(* between which it does not call swtch(), and a process that is marked    *)
(* SWAIT is in sleep(), or in an exit that began there.                    *)
OnProcessor ==
  \A n \in Pid :
    /\ cu = n => p_stat[n] \in {"SRUN", "SWAIT", "SZOMB"}
    /\ pc[n] \in {"check", "mark", "recheck", "asleep", "swtch", "close",
                  "clear", "panic"} => cu = n
    /\ cu = n /\ p_stat[n] = "SWAIT"
         => pc[n] \in {"recheck", "asleep", "close", "clear"}

(* A zombie waits for nothing, and has only to give the processor away or  *)
(* to go on in sleep().                                                    *)
ZombieAtRest ==
  \A n \in Pid : p_stat[n] = "SZOMB" =>
    /\ p_chan[n] = NoChan
    /\ cu = n => pc[n] \in {"trap", "swtch", "mark", "asleep"}

(* do_exit() has somewhere to return to.                                   *)
Exiting(n) == pc[n] \in {"close", "closed", "clear", "cleared"}
ExitReturns ==
  \A n \in Pid : Exiting(n) => ret[n] \in {"trap", "swtch", "mark", "asleep"}

(* Process 0 is always runnable, it and init have process 0 for parent,    *)
(* and nobody else has; nobody is its own parent.                          *)
Family ==
  /\ p_stat[0] = "SRUN" /\ p_chan[0] = NoChan /\ p_ppid[0] = 0
  /\ p_ppid[1] = 0
  /\ \A n \in Pid \ {0, 1} : live(n) => p_ppid[n] \notin {0, n}

(* The process tree is sound: everything above, which the steps of all     *)
(* processes preserve together.                                            *)
Inv ==
  TypeOK /\ OnProcessor /\ ZombieAtRest /\ ExitReturns /\ Family
  /\ ParentExists /\ OrphansToInit

(* No exit is missed: while a process sleeps in do_waitpid() there is no   *)
(* zombie that it waits for.                                               *)
NoMissedZombie ==
  \A n \in Pid : p_stat[n] = "SWAIT" /\ p_chan[n] = n => zombies(n) = {}

(* What makes NoMissedZombie inductive when init is not killed: from the   *)
(* scan of do_waitpid() to the swtch() of sleep() nobody else exits, and   *)
(* outside of it there are no arguments of do_waitpid().                   *)
Waiting(n) == pc[n] \in {"check", "mark", "recheck", "asleep"}
WaitInv ==
  /\ SIGINT \notin p_sig[1] /\ ~Exiting(1)
  /\ \A n \in Pid : Waiting(n) => zombies(n) = {}
  /\ \A n \in Pid :
       pc[n] \in {"user", "trap", "swtch"}
         \/ (Exiting(n) /\ ret[n] \in {"trap", "swtch"}) => arg[n] = NoArg
  /\ NoMissedZombie

(* A zombie remains one until its parent frees it: do_exit() is to         *)
(* "terminate the currenct proccess into ZOMBIE".  One that do_exit() made *)
(* of a process at line 26 of sleep() does not: it returns there, and      *)
(* line 30 makes it SWAIT.                                                 *)
Returned(n) == pc[n] = "mark" \/ (pc[n] = "close" /\ ret[n] = "mark")
ZombieStays ==
  \A n \in Pid :
    p_stat[n] = "SZOMB" /\ ~Returned(n) => p_stat'[n] \in {"SZOMB", "free"}
ZombieIsFinal == [][ZombieStays]_vars

(* No process is made after some time.  do_waitpid() frees the zombie with *)
(* the lowest number, so while low numbers are used again and again a      *)
(* zombie with a high one may stay.                                        *)
Quiet == <>[][\A n \in Pid : p_stat[n] = "free" => p_stat'[n] = "free"]_vars

(* Zombies do not pile up: every child of init that exits, and every       *)
(* zombie or exiting process a parent left behind, is freed by init's      *)
(* wait() once the forks cease, unless the kernel has panicked.            *)
InitReaps ==
  Quiet => \A n \in Pid \ {0, 1} :
    (p_ppid[n] = 1 /\ (pc[n] = "close" \/ p_stat[n] = "SZOMB") /\ ~Returned(n))
      ~> p_stat[n] = "free" \/ \E m \in Pid : pc[m] = "panic"
=============================================================================
