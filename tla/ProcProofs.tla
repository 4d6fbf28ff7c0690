---------------------------- MODULE ProcProofs ----------------------------
(***************************************************************************)
(* The process tree is sound whatever is forked, killed or waited for;     *)
(* no exit is missed by a parent in do_waitpid() as long as init is not    *)
(* killed; and a zombie that sleep() does not take up again remains one.   *)
(***************************************************************************)
EXTENDS Proc, TLAPS

(* What the proofs need to know about process numbers and channels.        *)
LEMMA Numbers ==
  /\ 0 \in Pid /\ 1 \in Pid /\ NoProc \notin Pid
  /\ Pid \subseteq Chan /\ {NoChan, Pause, Io} \subseteq Chan
  /\ NoChan \notin Pid /\ Pause \notin Pid /\ Io \notin Pid
  /\ Killable \subseteq Pid /\ Garbage \subseteq Chan
  /\ Waits \subseteq WaitArg
BY ProcAssumption DEF Pid, NoProc, Chan

(* sigsend() makes the signal pending and at most ends a sleep.            *)
LEMMA SigsendEffect ==
  ASSUME Inv, NEW m \in Pid, NEW sig \in {SIGINT, SIGCHLD}, sigsend(m, sig)
  PROVE /\ p_sig' \in [Pid -> SUBSET {SIGINT, SIGCHLD}]
        /\ p_stat' \in [Pid -> {"free", "SRUN", "SWAIT", "SSLEEP", "SZOMB"}]
        /\ p_chan' \in [Pid -> Chan]
        /\ \A k \in Pid : p_sig'[k] \subseteq p_sig[k] \cup {sig}
        /\ \A k \in Pid \ {m} : p_sig'[k] = p_sig[k]
        /\ \A k \in Pid :
             \/ p_stat'[k] = p_stat[k] /\ p_chan'[k] = p_chan[k]
             \/ /\ k # 0 /\ p_stat[k] = "SWAIT" /\ p_stat'[k] = "SRUN"
                /\ p_chan'[k] = NoChan
BY Numbers DEF Inv, TypeOK, sigsend, live

(* if (issig()) psig(): control goes on, or do_exit() is called because of *)
(* a pending SIGINT.                                                       *)
LEMMA TakeSignalEffect ==
  ASSUME Inv, NEW n \in Pid, NEW back \in {"mark", "asleep", "swtch"},
         take_signal(n, back)
  PROVE /\ p_sig' \in [Pid -> SUBSET {SIGINT, SIGCHLD}]
        /\ \A k \in Pid : p_sig'[k] \subseteq p_sig[k]
        /\ \/ pc' = [pc EXCEPT ![n] = back] /\ ret' = ret
           \/ /\ SIGINT \in p_sig[n]
              /\ pc' = [pc EXCEPT ![n] = "close"]
              /\ ret' = [ret EXCEPT ![n] = back]
BY DEF Inv, TypeOK, take_signal, psig, do_exit, goto, issig

(* A step that leaves the parents as they are, frees and makes no process  *)
(* and makes no zombie leaves the tree sound.                              *)
LEMMA TreeStays ==
  ASSUME Inv, p_ppid' = p_ppid, p_chan'[0] = p_chan[0],
         \A m \in Pid : \/ p_stat'[m] = p_stat[m]
                        \/ /\ m # 0 /\ p_stat[m] # "free"
                           /\ p_stat'[m] \in {"SRUN", "SWAIT", "SSLEEP"}
  PROVE Family' /\ ParentExists' /\ OrphansToInit'
BY Numbers DEF Inv, TypeOK, Family, ParentExists, OrphansToInit, live
-----------------------------------------------------------------------------
(* The inductive invariant holds when init starts.                         *)
LEMMA InitInv == Init => Inv
BY Numbers DEF Init, Inv, TypeOK, PC, OnProcessor, ZombieAtRest, ExitReturns,
  Exiting, Family, ParentExists, OrphansToInit, live

(* A process that is SRUN gets the processor.                              *)
LEMMA Step_swtch == ASSUME NEW n \in Pid, Inv, swtch(n) PROVE Inv'
<1>1. Family' /\ ParentExists' /\ OrphansToInit'
  BY TreeStays DEF swtch
<1>2. TypeOK' /\ OnProcessor' /\ ZombieAtRest' /\ ExitReturns'
  BY Numbers DEF Inv, TypeOK, PC, OnProcessor, ZombieAtRest, ExitReturns,
    Exiting, swtch
<1> QED BY <1>1, <1>2 DEF Inv

(* do_waitpid() finds nothing.                                             *)
LEMMA Step_waitpid_none == ASSUME NEW n \in Pid, Inv, waitpid_none(n) PROVE Inv'
<1>1. Family' /\ ParentExists' /\ OrphansToInit'
  BY TreeStays DEF waitpid_none
<1>2. TypeOK' /\ OnProcessor' /\ ZombieAtRest' /\ ExitReturns'
  BY Numbers DEF Inv, TypeOK, PC, OnProcessor, ZombieAtRest, ExitReturns,
    Exiting, waitpid_none, goto, zombies
<1> QED BY <1>1, <1>2 DEF Inv

(* The first signal check of sleep().                                      *)
LEMMA Step_sleep_check == ASSUME NEW n \in Pid, Inv, sleep_check(n) PROVE Inv'
<1>1. Family' /\ ParentExists' /\ OrphansToInit'
  BY TreeStays DEF sleep_check
<1>2. TypeOK' /\ OnProcessor' /\ ZombieAtRest' /\ ExitReturns'
  BY Numbers, TakeSignalEffect DEF Inv, TypeOK, PC, OnProcessor,
    ZombieAtRest, ExitReturns, Exiting, sleep_check
<1> QED BY <1>1, <1>2 DEF Inv

(* The second signal check of sleep().                                     *)
LEMMA Step_sleep_recheck ==
  ASSUME NEW n \in Pid, Inv, sleep_recheck(n) PROVE Inv'
<1>1. Family' /\ ParentExists' /\ OrphansToInit'
  BY TreeStays DEF sleep_recheck
<1>2. TypeOK' /\ OnProcessor' /\ ZombieAtRest' /\ ExitReturns'
  BY SMTT(30), Numbers, TakeSignalEffect DEF Inv, TypeOK, PC, OnProcessor,
    ZombieAtRest, ExitReturns, Exiting, sleep_recheck
<1> QED BY <1>1, <1>2 DEF Inv

(* sleep() gives the processor away.                                       *)
LEMMA Step_sleep_swtch == ASSUME NEW n \in Pid, Inv, sleep_swtch(n) PROVE Inv'
<1>1. Family' /\ ParentExists' /\ OrphansToInit'
  BY TreeStays DEF sleep_swtch
<1>2. TypeOK' /\ OnProcessor' /\ ZombieAtRest' /\ ExitReturns'
  BY Numbers DEF Inv, TypeOK, PC, OnProcessor, ZombieAtRest, ExitReturns,
    Exiting, sleep_swtch, goto
<1> QED BY <1>1, <1>2 DEF Inv

(* The signal check on the way to user mode.                               *)
LEMMA Step_trap_signal == ASSUME NEW n \in Pid, Inv, trap_signal(n) PROVE Inv'
<1>1. Family' /\ ParentExists' /\ OrphansToInit'
  BY TreeStays DEF trap_signal
<1>2. TypeOK' /\ OnProcessor' /\ ZombieAtRest' /\ ExitReturns'
  BY Numbers, TakeSignalEffect DEF Inv, TypeOK, PC, OnProcessor,
    ZombieAtRest, ExitReturns, Exiting, trap_signal, goto
<1> QED BY <1>1, <1>2 DEF Inv

(* The swtch() on the way to user mode.                                    *)
LEMMA Step_trap_swtch == ASSUME NEW n \in Pid, Inv, trap_swtch(n) PROVE Inv'
<1>1. Family' /\ ParentExists' /\ OrphansToInit'
  BY TreeStays DEF trap_swtch
<1>2. TypeOK' /\ OnProcessor' /\ ZombieAtRest' /\ ExitReturns'
  BY Numbers DEF Inv, TypeOK, PC, OnProcessor, ZombieAtRest, ExitReturns,
    Exiting, trap_swtch, goto
<1> QED BY <1>1, <1>2 DEF Inv

(* kspawn() panics.                                                        *)
LEMMA Step_fork_panic == ASSUME NEW n \in Pid, Inv, fork_panic(n) PROVE Inv'
<1>1. Family' /\ ParentExists' /\ OrphansToInit'
  BY TreeStays DEF fork_panic
<1>2. TypeOK' /\ OnProcessor' /\ ZombieAtRest' /\ ExitReturns'
  BY Numbers DEF Inv, TypeOK, PC, OnProcessor, ZombieAtRest, ExitReturns,
    Exiting, fork_panic, goto
<1> QED BY <1>1, <1>2 DEF Inv

(* _exit() is called.                                                      *)
LEMMA Step_sys__exit == ASSUME NEW n \in Pid, Inv, sys__exit(n) PROVE Inv'
<1>1. Family' /\ ParentExists' /\ OrphansToInit'
  BY TreeStays DEF sys__exit
<1>2. TypeOK' /\ OnProcessor' /\ ZombieAtRest' /\ ExitReturns'
  BY Numbers DEF Inv, TypeOK, PC, OnProcessor, ZombieAtRest, ExitReturns,
    Exiting, sys__exit, goto, do_exit
<1> QED BY <1>1, <1>2 DEF Inv

(* pause() is called.                                                      *)
LEMMA Step_sys_pause == ASSUME NEW n \in Pid, Inv, sys_pause(n) PROVE Inv'
<1>1. Family' /\ ParentExists' /\ OrphansToInit'
  BY TreeStays DEF sys_pause
<1>2. TypeOK' /\ OnProcessor' /\ ZombieAtRest' /\ ExitReturns'
  BY Numbers DEF Inv, TypeOK, PC, OnProcessor, ZombieAtRest, ExitReturns,
    Exiting, sys_pause, goto
<1> QED BY <1>1, <1>2 DEF Inv

(* User mode is interrupted.                                               *)
LEMMA Step_trap == ASSUME NEW n \in Pid, Inv, trap(n) PROVE Inv'
<1>1. Family' /\ ParentExists' /\ OrphansToInit'
  BY TreeStays DEF trap
<1>2. TypeOK' /\ OnProcessor' /\ ZombieAtRest' /\ ExitReturns'
  BY Numbers DEF Inv, TypeOK, PC, OnProcessor, ZombieAtRest, ExitReturns,
    Exiting, trap, goto
<1> QED BY <1>1, <1>2 DEF Inv

(* waitpid() is called.                                                    *)
LEMMA Step_sys_waitpid ==
  ASSUME NEW n \in Pid, NEW a \in Waits, Inv, sys_waitpid(n, a) PROVE Inv'
<1>1. Family' /\ ParentExists' /\ OrphansToInit'
  BY TreeStays DEF sys_waitpid
<1>2. TypeOK' /\ OnProcessor' /\ ZombieAtRest' /\ ExitReturns'
  BY Numbers DEF Inv, TypeOK, PC, OnProcessor, ZombieAtRest, ExitReturns,
    Exiting, sys_waitpid, goto
<1> QED BY <1>1, <1>2 DEF Inv

(* do_exit() sends SIGCHLD, which may end a sleep.                         *)
LEMMA Step_exit_tell == ASSUME NEW n \in Pid, Inv, exit_tell(n) PROVE Inv'
<1>1. p_ppid[n] \in Pid /\ 0 \in Pid
  BY Numbers DEF Inv, TypeOK
<1>2. Family' /\ ParentExists' /\ OrphansToInit'
  BY Zenon, <1>1, SigsendEffect, TreeStays DEF exit_tell
<1>3. TypeOK' /\ OnProcessor' /\ ZombieAtRest' /\ ExitReturns'
  BY <1>1, Numbers, SigsendEffect DEF Inv, TypeOK, PC, OnProcessor,
    ZombieAtRest, ExitReturns, Exiting, exit_tell, goto
<1> QED BY <1>2, <1>3 DEF Inv

(* kill() sends SIGINT, which may end a sleep.                             *)
LEMMA Step_do_kill ==
  ASSUME NEW n \in Pid, NEW m \in Killable, Inv, do_kill(n, m) PROVE Inv'
<1>1. m \in Pid /\ 0 \in Pid
  BY Numbers DEF Inv, TypeOK
<1>2. Family' /\ ParentExists' /\ OrphansToInit'
  BY Zenon, <1>1, SigsendEffect, TreeStays DEF do_kill
<1>3. TypeOK' /\ OnProcessor' /\ ZombieAtRest' /\ ExitReturns'
  BY <1>1, Numbers, SigsendEffect DEF Inv, TypeOK, PC, OnProcessor,
    ZombieAtRest, ExitReturns, Exiting, do_kill, goto
<1> QED BY <1>2, <1>3 DEF Inv

(* The keyboard sends SIGINT, which may end a sleep.                       *)
LEMMA Step_tty_intr == ASSUME NEW m \in Killable, Inv, tty_intr(m) PROVE Inv'
<1>1. m \in Pid /\ 0 \in Pid
  BY Zenon, Numbers DEF Inv, TypeOK
<1>2. Family' /\ ParentExists' /\ OrphansToInit'
  BY Zenon, <1>1, SigsendEffect, TreeStays DEF tty_intr
<1>3. TypeOK' /\ OnProcessor' /\ ZombieAtRest' /\ ExitReturns'
  BY <1>1, Numbers, SigsendEffect DEF Inv, TypeOK, PC, OnProcessor,
    ZombieAtRest, ExitReturns, Exiting, tty_intr
<1> QED BY <1>2, <1>3 DEF Inv

(* sleep() marks its caller SWAIT; a zombie may be the caller.             *)
LEMMA Step_sleep_mark == ASSUME NEW n \in Pid, Inv, sleep_mark(n) PROVE Inv'
<1>1. n # 0 /\ p_stat[n] # "free"
  BY Numbers DEF Inv, TypeOK, OnProcessor, Family, sleep_mark
<1>2. Family' /\ ParentExists' /\ OrphansToInit'
  BY Zenon, <1>1, Numbers, TreeStays DEF Inv, TypeOK, sleep_mark
<1>3. TypeOK' /\ OnProcessor' /\ ZombieAtRest' /\ ExitReturns'
  BY <1>1, Numbers DEF Inv, TypeOK, PC, OnProcessor, ZombieAtRest,
    ExitReturns, Exiting, sleep_mark, goto
<1> QED BY <1>2, <1>3 DEF Inv

(* do_exit() sleeps.                                                       *)
LEMMA Step_exit_sleep == ASSUME NEW n \in Pid, Inv, exit_sleep(n) PROVE Inv'
<1>1. n # 0 /\ p_stat[n] # "free"
  BY Numbers DEF Inv, TypeOK, OnProcessor, Family, exit_sleep
<1>2. Family' /\ ParentExists' /\ OrphansToInit'
  BY <1>1, Numbers, TreeStays DEF Inv, TypeOK, exit_sleep
<1>3. TypeOK' /\ OnProcessor' /\ ZombieAtRest' /\ ExitReturns'
  BY <1>1, Numbers DEF Inv, TypeOK, PC, OnProcessor, ZombieAtRest,
    ExitReturns, Exiting, exit_sleep, goto
<1> QED BY <1>2, <1>3 DEF Inv

(* An uninterruptible sleep ends.                                          *)
LEMMA Step_io_wakeup == ASSUME NEW n \in Pid, Inv, io_wakeup(n) PROVE Inv'
<1>1. n # 0 /\ p_stat[n] # "free"
  BY Numbers DEF Inv, TypeOK, OnProcessor, Family, io_wakeup
<1>2. Family' /\ ParentExists' /\ OrphansToInit'
  BY <1>1, Numbers, TreeStays DEF Inv, TypeOK, io_wakeup
<1>3. TypeOK' /\ OnProcessor' /\ ZombieAtRest' /\ ExitReturns'
  BY <1>1, Numbers DEF Inv, TypeOK, PC, OnProcessor, ZombieAtRest,
    ExitReturns, Exiting, io_wakeup
<1> QED BY <1>2, <1>3 DEF Inv

(* A child in a free slot: nobody has it for parent, and it is not init.   *)
LEMMA Step_do_fork ==
  ASSUME NEW n \in Pid, NEW c \in Pid, NEW chan \in Garbage, Inv,
         do_fork(n, c, chan)
  PROVE Inv'
<1>1. /\ n # 0 /\ live(n) /\ p_stat[n] # "SZOMB"
      /\ c \notin {0, 1, n} /\ ~live(c)
  BY Numbers DEF Inv, TypeOK, OnProcessor, ZombieAtRest, Family,
    ParentExists, live,
    do_fork
<1>2. Family' /\ ParentExists' /\ OrphansToInit'
  BY SMTT(30), <1>1, Numbers DEF Inv, TypeOK, Family, ParentExists,
     OrphansToInit,
    live, do_fork
<1>3. TypeOK' /\ OnProcessor' /\ ZombieAtRest' /\ ExitReturns'
  BY <1>1, Numbers DEF Inv, TypeOK, PC, OnProcessor, ZombieAtRest,
    ExitReturns, Exiting, live, do_fork, goto
<1> QED BY <1>2, <1>3 DEF Inv

(* The zombie that is freed has no children, by OrphansToInit.             *)
LEMMA Step_waitpid_reap == ASSUME NEW n \in Pid, Inv, waitpid_reap(n) PROVE Inv'
<1>1. PICK m \in zombies(n) :
        /\ p_stat' = [p_stat EXCEPT ![m] = "free"]
        /\ p_ppid' = [p_ppid EXCEPT ![m] = 0]
        /\ p_sig' = [p_sig EXCEPT ![m] = {}]
        /\ pc' = [pc EXCEPT ![m] = "user", ![n] = "trap"]
        /\ arg' = [arg EXCEPT ![m] = NoArg, ![n] = NoArg]
  BY Zenon DEF waitpid_reap
<1>2. /\ m \in Pid \ {0, 1, n} /\ p_stat[m] = "SZOMB" /\ live(n)
      /\ n # 0 /\ cu = n /\ pc[n] = "scan"
      /\ p_chan' = p_chan /\ ret' = ret /\ cu' = cu
  BY <1>1, Numbers DEF Inv, TypeOK, OnProcessor, Family, zombies,
    waitpid_reap, live
<1>3. \A k \in Pid : live(k) => p_ppid[k] # m
  BY <1>2 DEF Inv, OrphansToInit
<1>4. Family' /\ ParentExists' /\ OrphansToInit'
  BY SMTT(30), <1>1, <1>2, <1>3, Numbers
  DEF Inv, TypeOK, Family, ParentExists, OrphansToInit, live
<1>5. TypeOK' /\ OnProcessor' /\ ZombieAtRest' /\ ExitReturns'
  BY <1>1, <1>2, Numbers DEF Inv, TypeOK, PC, OnProcessor, ZombieAtRest,
    ExitReturns, Exiting
<1> QED BY <1>4, <1>5 DEF Inv

(* A zombie whose children now have init for parent.                       *)
LEMMA Step_exit_zombie == ASSUME NEW n \in Pid, Inv, exit_zombie(n) PROVE Inv'
<1>1. /\ n # 0 /\ live(n) /\ cu = n /\ cu' = cu
      /\ p_sig' = p_sig /\ arg' = arg
      /\ ret[n] \in {"trap", "swtch", "mark", "asleep"}
      /\ pc' = [pc EXCEPT ![n] = ret[n]] /\ ret' = [ret EXCEPT ![n] = "user"]
  BY Numbers DEF Inv, TypeOK, OnProcessor, ExitReturns, Exiting, live,
    exit_zombie, goto
<1>2. /\ p_stat' \in [Pid -> {"free", "SRUN", "SWAIT", "SSLEEP", "SZOMB"}]
      /\ p_chan' \in [Pid -> Chan]
      /\ p_stat'[n] = "SZOMB" /\ p_chan'[n] = NoChan
      /\ \A m \in Pid \ {n} :
           \/ p_stat'[m] = p_stat[m] /\ p_chan'[m] = p_chan[m]
           \/ /\ live(m) /\ p_chan[m] \in Pid
              /\ p_stat'[m] = "SRUN" /\ p_chan'[m] = NoChan
  BY Numbers DEF Inv, TypeOK, exit_zombie, told, live
<1>3. /\ p_ppid' \in [Pid -> Pid]
      /\ \A m \in Pid : p_ppid'[m] \in {p_ppid[m], 1}
      /\ \A m \in Pid \ {0, n} : live(m) => p_ppid'[m] # n \/ n = 1
      /\ \A m \in Pid : p_ppid'[m] = p_ppid[m] \/ (live(m) /\ m # 0 /\
        p_ppid[m] = n)
  BY Zenon, Numbers DEF Inv, TypeOK, exit_zombie, heirs
<1>4. Family' /\ ParentExists' /\ OrphansToInit'
  BY <1>1, <1>2, <1>3, Numbers
  DEF Inv, TypeOK, Family, ParentExists, OrphansToInit, live
<1>5. TypeOK'
  BY Zenon, <1>1, <1>2, <1>3 DEF Inv, TypeOK, PC
<1>6. OnProcessor'
  BY <1>1, <1>2 DEF Inv, TypeOK, PC, OnProcessor
<1>7. ZombieAtRest'
  BY <1>1, <1>2, Numbers DEF Inv, TypeOK, ZombieAtRest
<1>8. ExitReturns'
  BY <1>1 DEF Inv, TypeOK, ExitReturns, Exiting
<1> QED BY <1>4, <1>5, <1>6, <1>7, <1>8 DEF Inv

(* Every step of every process preserves the invariant.                    *)
LEMMA NextInv == Inv /\ [Next]_vars => Inv'
<1> SUFFICES ASSUME Inv, [Next]_vars PROVE Inv'
  OBVIOUS
<1>1. ASSUME NEW n \in Pid, swtch(n) \/ exit_sleep(n) \/ io_wakeup(n) PROVE Inv'
  BY <1>1, Step_swtch, Step_exit_sleep, Step_io_wakeup
<1>2. ASSUME NEW n \in Pid, Kernel(n) PROVE Inv'
  BY <1>2, Step_exit_tell, Step_exit_zombie, Step_waitpid_reap,
    Step_waitpid_none,
    Step_sleep_check, Step_sleep_mark, Step_sleep_recheck, Step_sleep_swtch,
    Step_trap_signal, Step_trap_swtch DEF Kernel
<1>3. ASSUME NEW n \in Pid, User(n) PROVE Inv'
  BY <1>3, Step_do_fork, Step_fork_panic, Step_sys__exit, Step_sys_waitpid,
    Step_sys_pause, Step_trap, Step_do_kill DEF User
<1>4. ASSUME NEW m \in Killable, tty_intr(m) PROVE Inv'
  BY Zenon, <1>4, Step_tty_intr
<1>5. CASE UNCHANGED vars
  BY <1>5 DEF vars, Inv, TypeOK, OnProcessor, ZombieAtRest, ExitReturns,
    Exiting,
    Family, ParentExists, OrphansToInit, live
<1> QED BY <1>1, <1>2, <1>3, <1>4, <1>5 DEF Next

(* The process tree is sound in every behaviour, with any number of        *)
(* processes, any signals and any value in an uninitialised p_chan.        *)
THEOREM ProcSafety == Spec => []Inv
BY InitInv, NextInv, PTL DEF Spec

(* proc[p_ppid] is never NULL, so the wakeup() at the end of do_exit() is  *)
(* never on channel 0; in particular init is never freed.                  *)
THEOREM ParentNeverNull == Spec => []ParentExists
BY ProcSafety, PTL DEF Inv

(* Every variable keeps its type: in particular cu is never process 0.     *)
THEOREM ProcTypes == Spec => []TypeOK
BY ProcSafety, PTL DEF Inv

(* Nobody keeps a zombie for parent: do_exit() leaves no child behind that *)
(* only a zombie could wait for.                                           *)
THEOREM NoOrphans == Spec => []OrphansToInit
BY ProcSafety, PTL DEF Inv
-----------------------------------------------------------------------------
(* Who sleeps in do_waitpid() has no zombie to wait for.  The steps that   *)
(* make no zombie, change no arguments of do_waitpid() and mark nobody     *)
(* SWAIT but who has just looked for zombies.                              *)
LEMMA Wait_quiet ==
  ASSUME 1 \notin Killable, NEW n \in Pid, Inv, WaitInv
  PROVE (\/ swtch(n) \/ exit_sleep(n) \/ io_wakeup(n) \/ exit_tell(n)
         \/ waitpid_none(n) \/ sleep_check(n) \/ sleep_mark(n)
         \/ sleep_recheck(n) \/ sleep_swtch(n) \/ trap_signal(n)
         \/ trap_swtch(n) \/ fork_panic(n) \/ sys__exit(n)
         \/ sys_pause(n) \/ trap(n)
         \/ \E m \in Killable : do_kill(n, m) \/ tty_intr(m)) => WaitInv'
<1> USE Numbers DEF Inv, TypeOK, OnProcessor, WaitInv, Waiting, Exiting,
          NoMissedZombie, zombies, NoArg
<1>1. ASSUME swtch(n) PROVE WaitInv'
  BY SMTT(30), <1>1 DEF swtch
<1>2. ASSUME exit_sleep(n) PROVE WaitInv'
  <2>1. \A k \in Pid : zombies(k)' \subseteq zombies(k)
    BY SMTT(30), <1>2 DEF exit_sleep
  <2> HIDE DEF zombies
  <2> QED BY SMTT(30), <1>2, <2>1 DEF exit_sleep, goto
<1>3. ASSUME io_wakeup(n) PROVE WaitInv'
  BY <1>3 DEF io_wakeup
<1>4. ASSUME exit_tell(n) PROVE WaitInv'
  <2>1. \A k \in Pid : zombies(k)' = zombies(k)
    BY SMTT(30), <1>4, SigsendEffect DEF exit_tell, SIGINT, SIGCHLD
  <2> HIDE DEF zombies
  <2> QED BY SMTT(30), <1>4, <2>1, SigsendEffect DEF exit_tell, goto, SIGINT, SIGCHLD
<1>5. ASSUME waitpid_none(n) PROVE WaitInv'
  <2>1. \A k \in Pid : zombies(k)' \subseteq zombies(k)
    BY SMTT(30), <1>5 DEF waitpid_none
  <2> HIDE DEF zombies
  <2>2. CASE arg[n].nohang
    BY <1>5, <2>1, <2>2 DEF waitpid_none, goto
  <2>3. CASE ~arg[n].nohang
    BY SMTT(30), <1>5, <2>1, <2>3 DEF waitpid_none, goto
  <2> QED BY Zenon, <2>2, <2>3
<1>6. ASSUME sleep_check(n) PROVE WaitInv'
  <2>1. \A k \in Pid : zombies(k)' = zombies(k)
    BY <1>6 DEF sleep_check
  <2> HIDE DEF zombies
  <2> QED BY SMTT(30), <1>6, <2>1, TakeSignalEffect DEF sleep_check
<1>7. ASSUME sleep_mark(n) PROVE WaitInv'
  <2>1. \A k \in Pid : zombies(k)' \subseteq zombies(k)
    BY SMTT(30), <1>7 DEF sleep_mark
  <2> HIDE DEF zombies
  <2> QED BY SMTT(30), <1>7, <2>1 DEF sleep_mark, goto
<1>8. ASSUME sleep_recheck(n) PROVE WaitInv'
  <2>1. \A k \in Pid : zombies(k)' = zombies(k)
    BY Zenon, <1>8 DEF sleep_recheck
  <2> HIDE DEF zombies
  <2> QED BY SMTT(30), <1>8, <2>1, TakeSignalEffect DEF sleep_recheck
<1>9. ASSUME sleep_swtch(n) PROVE WaitInv'
  BY SMTT(30), <1>9 DEF sleep_swtch, goto
<1>10. ASSUME trap_signal(n) PROVE WaitInv'
  <2>1. \A k \in Pid : zombies(k)' = zombies(k)
    BY SMTT(30), <1>10 DEF trap_signal
  <2> HIDE DEF zombies
  <2> QED BY SMTT(30), <1>10, <2>1, TakeSignalEffect DEF trap_signal, goto
<1>11. ASSUME trap_swtch(n) PROVE WaitInv'
  BY SMTT(30), <1>11 DEF trap_swtch, goto
<1>12. ASSUME fork_panic(n) PROVE WaitInv'
  BY SMTT(30), <1>12 DEF fork_panic, goto
<1>13. ASSUME sys__exit(n) PROVE WaitInv'
  BY SMTT(30), <1>13 DEF sys__exit, goto, do_exit
<1>14. ASSUME sys_pause(n) PROVE WaitInv'
  BY SMTT(30), <1>14 DEF sys_pause, goto
<1>15. ASSUME trap(n) PROVE WaitInv'
  BY SMTT(30), <1>15 DEF trap, goto
<1>16. ASSUME NEW m \in Killable, do_kill(n, m) PROVE WaitInv'
  <2>1. \A k \in Pid : zombies(k)' = zombies(k)
    BY SMTT(30), <1>16, SigsendEffect DEF do_kill, SIGINT, SIGCHLD
  <2> HIDE DEF zombies
  <2> QED BY SMTT(30), <1>16, <2>1, SigsendEffect DEF do_kill, goto
<1>17. ASSUME NEW m \in Killable, tty_intr(m) PROVE WaitInv'
  <2>1. \A k \in Pid : zombies(k)' = zombies(k)
    BY SMTT(30), <1>17, SigsendEffect DEF tty_intr, SIGINT, SIGCHLD
  <2> HIDE DEF zombies
  <2> QED BY SMTT(30), <1>17, <2>1, SigsendEffect DEF tty_intr
<1> QED
  BY Zenon, <1>1, <1>2, <1>3, <1>4, <1>5, <1>6, <1>7, <1>8,
     <1>9, <1>10, <1>11, <1>12, <1>13, <1>14, <1>15, <1>16, <1>17

(* Freeing a zombie takes it from its parent only.                         *)
LEMMA Wait_waitpid_reap ==
  ASSUME NEW n \in Pid, Inv, WaitInv, waitpid_reap(n) PROVE WaitInv'
<1>1. PICK m \in zombies(n) :
        /\ p_stat' = [p_stat EXCEPT ![m] = "free"]
        /\ p_ppid' = [p_ppid EXCEPT ![m] = 0]
        /\ p_sig' = [p_sig EXCEPT ![m] = {}]
        /\ pc' = [pc EXCEPT ![m] = "user", ![n] = "trap"]
        /\ arg' = [arg EXCEPT ![m] = NoArg, ![n] = NoArg]
  BY Zenon DEF waitpid_reap
<1>2. /\ m \in Pid /\ m # n /\ n # 0 /\ cu = n /\ pc[n] = "scan"
      /\ p_chan' = p_chan /\ ret' = ret
  BY <1>1, Numbers DEF Inv, TypeOK, zombies, waitpid_reap
<1>3. \A k \in Pid \ {m, n} : zombies(k)' \subseteq zombies(k)
  <2>1. \A k \in Pid \ {m, n} : arg'[k] = arg[k]
    BY <1>1, <1>2 DEF Inv, TypeOK
  <2>2. \A j \in Pid : p_stat'[j] = "SZOMB" =>
          p_stat[j] = "SZOMB" /\ p_ppid'[j] = p_ppid[j]
    BY Zenon, <1>1, <1>2 DEF Inv, TypeOK
  <2> QED BY <2>1, <2>2 DEF zombies
<1>4. p_stat'[m] = "free" /\ p_stat[n] # "SWAIT" /\ p_stat'[n] = p_stat[n]
  BY Zenon, <1>1, <1>2 DEF Inv, TypeOK, OnProcessor
<1>5. NoMissedZombie'
  BY SMTT(30), <1>1, <1>2, <1>3, <1>4 DEF Inv, TypeOK, WaitInv, NoMissedZombie
<1> QED BY <1>1, <1>2, <1>3, <1>5, Numbers
  DEF Inv, TypeOK, WaitInv, Waiting, Exiting

(* The child is no zombie.                                                 *)
LEMMA Wait_do_fork ==
  ASSUME NEW n \in Pid, NEW c \in Pid, NEW chan \in Garbage, Inv, WaitInv,
    do_fork(n, c, chan) PROVE WaitInv'
<1>1. c # 1 /\ c # n /\ cu = n /\ pc[n] = "user"
  BY Numbers DEF Inv, TypeOK, OnProcessor, ParentExists, live, do_fork
<1>2. \A k \in Pid : zombies(k)' \subseteq zombies(k)
  BY DEF Inv, TypeOK, zombies, do_fork
<1>3. NoMissedZombie'
  BY <1>2 DEF Inv, TypeOK, WaitInv, NoMissedZombie, do_fork
<1> QED BY SMTT(30), <1>1, <1>2, <1>3, Numbers
  DEF Inv, TypeOK, WaitInv, Waiting, Exiting, do_fork, goto

(* The caller is awake.                                                    *)
LEMMA Wait_sys_waitpid ==
  ASSUME NEW n \in Pid, NEW a \in Waits, Inv, WaitInv, sys_waitpid(n, a)
    PROVE WaitInv'
<1>1. cu = n /\ pc[n] = "user" /\ p_stat[n] # "SWAIT"
  BY DEF Inv, TypeOK, OnProcessor, sys_waitpid
<1>2. \A k \in Pid \ {n} : zombies(k)' = zombies(k)
  BY SMTT(30) DEF Inv, TypeOK, zombies, sys_waitpid
<1>3. NoMissedZombie'
  BY <1>1, <1>2 DEF WaitInv, NoMissedZombie, sys_waitpid
<1> QED BY Zenon, <1>1, <1>2, <1>3, Numbers
  DEF Inv, TypeOK, WaitInv, Waiting, Exiting, sys_waitpid, goto

(* The parent and init, the only ones who get a new zombie, are woken.     *)
LEMMA Wait_exit_zombie ==
  ASSUME NEW n \in Pid, Inv, WaitInv, exit_zombie(n) PROVE WaitInv'
<1>1. /\ n # 1 /\ cu = n /\ p_sig' = p_sig /\ arg' = arg
      /\ pc' = [pc EXCEPT ![n] = ret[n]] /\ ret' = [ret EXCEPT ![n] = "user"]
      /\ ret[n] \in {"trap", "swtch", "mark", "asleep"}
  BY Zenon, Numbers
  DEF WaitInv, Inv, ExitReturns, Exiting, exit_zombie, goto
<1>2. /\ p_ppid' = [m \in Pid |-> IF m \in heirs(n) THEN 1 ELSE p_ppid[m]]
      /\ p_stat'[n] = "SZOMB" /\ p_chan'[n] = NoChan
      /\ \A m \in Pid \ {n} :
           \/ /\ p_stat'[m] = p_stat[m] /\ p_chan'[m] = p_chan[m]
              /\ live(m) => p_chan[m] \notin {p_ppid[n], 1}
           \/ p_stat'[m] = "SRUN" /\ p_chan'[m] = NoChan
  BY DEF Inv, TypeOK, exit_zombie, told
<1>3. zombies(n)' = {}
  BY Zenon, <1>1, <1>2, Numbers DEF Inv, TypeOK, zombies, heirs, live
<1>4. \A k \in Pid : Waiting(k)' => zombies(k)' = {}
  BY Zenon, <1>1, <1>3 DEF Inv, TypeOK, OnProcessor, Waiting
<1>5. ASSUME NEW k \in Pid, p_stat'[k] = "SWAIT", p_chan'[k] = k
      PROVE zombies(k)' = {}
  <2>1. k # n /\ k # 1 /\ k # p_ppid[n] /\ zombies(k) = {}
    BY Zenon, <1>2, <1>5, Numbers DEF WaitInv, NoMissedZombie, live
  <2> QED BY <1>1, <1>2, <2>1 DEF Inv, TypeOK, zombies, heirs
<1>6. NoMissedZombie'
  BY <1>5 DEF NoMissedZombie
<1>7. SIGINT \notin p_sig'[1] /\ ~Exiting(1)'
  BY <1>1, Numbers DEF Inv, TypeOK, WaitInv, Exiting
<1>8. \A k \in Pid : pc'[k] \in {"user", "trap", "swtch"}
                      \/ (Exiting(k)' /\ ret'[k] \in {"trap", "swtch"})
                    => arg'[k] = NoArg
  BY <1>1 DEF Inv, TypeOK, WaitInv, Exiting, exit_zombie
<1> QED BY SMTT(30), <1>4, <1>6, <1>7, <1>8 DEF WaitInv

(* Every step preserves what a waiting process relies on.                  *)
LEMMA NextWaitInv ==
  ASSUME 1 \notin Killable, Inv, WaitInv, [Next]_vars PROVE WaitInv'
<1>1. CASE UNCHANGED vars
  BY <1>1 DEF vars, WaitInv, Waiting, Exiting, NoMissedZombie, zombies
<1>2. ASSUME NEW n \in Pid, Kernel(n) \/ User(n) PROVE WaitInv'
  BY <1>2, Wait_quiet, Wait_waitpid_reap, Wait_do_fork, Wait_sys_waitpid,
    Wait_exit_zombie DEF Kernel, User
<1> QED BY Zenon, <1>1, <1>2, Wait_quiet, Numbers DEF Next

(* No exit is missed: a process that sleeps in do_waitpid() has no zombie  *)
(* among the children it waits for, as long as init is not sent a signal   *)
(* that kills it.                                                          *)
THEOREM NoExitMissed == ASSUME 1 \notin Killable PROVE Spec => []NoMissedZombie
<1>1. Init => WaitInv
  BY Numbers DEF Init, WaitInv, Waiting, Exiting, NoMissedZombie, zombies
<1>2. Inv /\ WaitInv /\ [Next]_vars => WaitInv'
  BY Zenon, NextWaitInv
<1> QED BY <1>1, <1>2, ProcSafety, PTL DEF Spec, WaitInv
-----------------------------------------------------------------------------
(* No step but that of line 30 of sleep() changes p_stat of a zombie that  *)
(* its parent does not free.                                               *)
LEMMA NextZombie == ASSUME Inv, [Next]_vars PROVE [ZombieStays]_vars
<1> USE Numbers DEF Inv, TypeOK, OnProcessor, ZombieAtRest, ZombieStays, Returned
<1>1. ASSUME UNCHANGED p_stat PROVE ZombieStays
  BY Zenon, <1>1
<1>2. ASSUME NEW n \in Pid, exit_sleep(n) PROVE ZombieStays
  BY SMTT(30), <1>2 DEF exit_sleep
<1>3. ASSUME NEW n \in Pid, io_wakeup(n) PROVE ZombieStays
  BY SMTT(30), <1>3 DEF io_wakeup
<1>4. ASSUME NEW m \in Pid, NEW sig \in {SIGINT, SIGCHLD}, sigsend(m, sig)
      PROVE ZombieStays
  BY SMTT(30), <1>4, SigsendEffect
<1>5. ASSUME NEW n \in Pid, exit_tell(n) PROVE ZombieStays
  BY Zenon, <1>4, <1>5 DEF exit_tell
<1>6. ASSUME NEW n \in Pid, exit_zombie(n) PROVE ZombieStays
  BY SMTT(30), <1>6 DEF exit_zombie, told
<1>7. ASSUME NEW n \in Pid, waitpid_reap(n) PROVE ZombieStays
  BY SMTT(30), <1>7 DEF waitpid_reap
<1>8. ASSUME NEW n \in Pid, sleep_mark(n) PROVE ZombieStays
  BY SMTT(30), <1>8 DEF sleep_mark
<1>9. ASSUME NEW n \in Pid, NEW c \in Pid, NEW chan \in Garbage,
             do_fork(n, c, chan)
      PROVE ZombieStays
  BY SMTT(30), <1>9 DEF do_fork, live
<1>10. ASSUME NEW n \in Pid, NEW m \in Killable, do_kill(n, m) PROVE ZombieStays
  BY Zenon, <1>4, <1>10 DEF do_kill
<1>11. ASSUME NEW m \in Killable, tty_intr(m) PROVE ZombieStays
  BY Zenon, <1>4, <1>11 DEF tty_intr
<1> HIDE DEF Inv, TypeOK, OnProcessor, ZombieAtRest, ZombieStays, Returned
<1>12. ASSUME NEW n \in Pid, Kernel(n) PROVE ZombieStays
  BY Zenon, <1>12, <1>1, <1>5, <1>6, <1>7, <1>8
    DEF Kernel, waitpid_none, sleep_check, sleep_recheck, sleep_swtch,
      trap_signal, trap_swtch
<1>13. ASSUME NEW n \in Pid, User(n) PROVE ZombieStays
  BY <1>13, <1>1, <1>9, <1>10
    DEF User, fork_panic, sys__exit, sys_waitpid, sys_pause, trap
<1>14. ASSUME NEW n \in Pid, swtch(n) PROVE ZombieStays
  BY <1>14, <1>1 DEF swtch
<1> QED BY Zenon, <1>2, <1>3, <1>11, <1>12, <1>13, <1>14 DEF Next

(* A zombie remains a zombie until its parent frees it, whoever is killed: *)
(* do_exit() returns to hwint_common or to the end of sleep(), which give  *)
(* the processor away for good, and no wakeup reaches it.  The one way     *)
(* back is line 30 of sleep().                                             *)
THEOREM ZombieFinal == Spec => ZombieIsFinal
<1>1. Inv /\ [Next]_vars => [ZombieStays]_vars
  BY NextZombie
<1> QED BY <1>1, ProcSafety, PTL DEF Spec, ZombieIsFinal
=============================================================================
