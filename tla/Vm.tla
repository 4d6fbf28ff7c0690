--------------------------------- MODULE Vm ---------------------------------
(***************************************************************************)
(* Address spaces (src/mm/pm.c, pte.c, vm.c, pgfault.c) with the parts of  *)
(* fork, exec, exit and of the system calls that touch user memory.        *)
(*                                                                         *)
(* Pages are numbered 1 .. NV from the bottom of the user's land, NV being *)
(* the one at VM_STACK; Area says which vma of the program a page belongs  *)
(* to.  A page holds one value.  want is a history variable: what a        *)
(* process stored in a page last, or found in it when it got it.  Nobody   *)
(* but the process looks at a page while it is read from the file, so      *)
(* do_no_page() is one step.  Page tables, which are not shared, and their *)
(* pages are left out.  The model stops where pgalloc() panics.            *)
(***************************************************************************)
EXTENDS Integers, FiniteSets

CONSTANTS
  Procs, Pages,  \* processes, page frames
  NoProc,        \* process 0, which has no user's land
  NoPage,        \* in a pte with PTE_P off
  NV,            \* pages of the user's land
  Area,          \* [1 .. NV -> {"text", "data", "bss", "gap"}]
  Value,         \* contents of a page
  Low,           \* bound: no stack grows below this page
  Targets        \* [{"read", "write", "fstat"} -> SUBSET (1 .. NV)]: the pages
                 \* that programs pass to read(), write() and fstat()

VPage == 1 .. NV
Kind == {"text", "data", "bss", "gap"}

ASSUME VmAssumption ==
  /\ NV \in Nat \ {0, 1} /\ Low \in 0 .. NV /\ Area \in [VPage -> Kind]
  /\ Targets \in [{"read", "write", "fstat"} -> SUBSET VPage]
  /\ NoProc \notin Procs /\ NoPage \notin Pages /\ Value # {}
  /\ IsFiniteSet(Procs) /\ Cardinality(Procs) < 256   \* NPROC is 64

VARIABLES
  cu, alive,
  pt,            \* the pte's: pt_off and PTE_W; NoPage when PTE_P is off
  tlb,           \* what the processor remembers of them
  pg_count,
  v_base,        \* the lowest page of vm_stack
  sig,           \* the processes with SIGSEGV pending
  pc, arg,       \* where a process is in the kernel, the call and the page
  mem, want

vars == <<cu, alive, pt, tlb, pg_count, v_base, sig, pc, arg, mem, want>>

Pte == [off : Pages \cup {NoPage}, w : BOOLEAN]
Absent == [off |-> NoPage, w |-> FALSE]
Flushed == [v \in VPage |-> Absent]
NoArg == [call |-> "none", v |-> 1]
(* What a file and a page that is zeroed hold.                             *)
Fresh == CHOOSE x \in Value : TRUE

Init ==
  /\ \E p \in Procs : cu = p /\ alive = {p}
  /\ pt = [p \in Procs |-> Flushed]
  /\ tlb = Flushed
  /\ pg_count = [g \in Pages |-> 0]
  /\ v_base = [p \in Procs |-> NV]
  /\ sig = {}
  /\ pc = [p \in Procs |-> "user"] /\ arg = [p \in Procs |-> NoArg]
  /\ mem = [g \in Pages |-> Fresh]
  /\ want = [p \in Procs |-> [v \in VPage |-> Fresh]]

at(l) == cu # NoProc /\ pc[cu] = l
goto(l) == pc' = [pc EXCEPT ![cu] = l]
user == at("user") /\ cu \notin sig
pgfreelist == {g \in Pages : pg_count[g] = 0}

(* The counts after pgalloc() has taken g off the free list.               *)
pgalloc(count, g) == [count EXCEPT ![g] = 1]
-----------------------------------------------------------------------------
(* pgattach() of a new page, which flushes the TLB; clear says whether the *)
(* caller clears or fills it.                                              *)
pgattach(v, clear, w) ==
  \E g \in pgfreelist :
    /\ pg_count' = pgalloc(pg_count, g)
    /\ pt' = [pt EXCEPT ![cu][v] = [off |-> g, w |-> w]]
    /\ tlb' = Flushed
    /\ mem' = [mem EXCEPT ![g] = IF clear THEN Fresh ELSE @]
    /\ want' = [want EXCEPT ![cu][v] = IF clear THEN Fresh ELSE mem[g]]
    /\ UNCHANGED sig

(* SIGSEGV, and nothing else.                                              *)
segv == sig' = sig \cup {cu} /\ UNCHANGED <<pt, tlb, pg_count, mem, want>>

(* find_vma(): the stack, or an area of the program.                       *)
find_vma(v) == IF v >= v_base[cu] THEN "bss" ELSE Area[v]

(* do_no_page(), at the first byte of page v or behind: the stack grows by *)
(* a page that is not cleared; other pages are cleared or read.  Line 53   *)
(* takes PTE_W from what is not VMA_RDONLY.                                *)
do_no_page(v, first) ==
  IF v_base[cu] - v = 1 \/ (v_base[cu] = v /\ first)
  THEN /\ v_base[cu] > Low
       /\ pgattach(v, FALSE, TRUE)
       /\ v_base' = [v_base EXCEPT ![cu] = @ - 1]
  ELSE /\ CASE find_vma(v) = "gap" -> segv
            [] find_vma(v) = "bss" -> pgattach(v, TRUE, TRUE)
            [] find_vma(v) = "text" -> pgattach(v, TRUE, TRUE)
            [] find_vma(v) = "data" -> pgattach(v, TRUE, FALSE)
       /\ UNCHANGED v_base

(* do_wp_page(): copy on write.                                            *)
do_wp_page(v) ==
  LET g == pt[cu][v].off
  IN \/ /\ find_vma(v) = "text"
        /\ segv
     \/ /\ find_vma(v) # "text" /\ pg_count[g] > 1
        /\ \E n \in pgfreelist :
             /\ pg_count' = pgalloc([pg_count EXCEPT ![g] = @ - 1], n)
             /\ pt' = [pt EXCEPT ![cu][v] = [off |-> n, w |-> TRUE]]
             /\ mem' = [mem EXCEPT ![n] = mem[g]]
        /\ tlb' = Flushed
        /\ UNCHANGED <<sig, want>>
     \/ /\ find_vma(v) # "text" /\ pg_count[g] = 1
        /\ pt' = [pt EXCEPT ![cu][v].w = TRUE]
        /\ tlb' = Flushed
        /\ UNCHANGED <<sig, want, pg_count, mem>>
-----------------------------------------------------------------------------
(* The processor, in user mode: a page it remembers, or looks up.          *)
lookup(v) == IF tlb[v] # Absent THEN tlb[v] ELSE pt[cu][v]

user_read(v) ==
  /\ user /\ lookup(v) # Absent
  /\ tlb' = [tlb EXCEPT ![v] = lookup(v)]
  /\ UNCHANGED <<cu, alive, pt, pg_count, v_base, sig, pc, arg, mem, want>>

user_write(v, x) ==
  /\ user /\ lookup(v).w
  /\ tlb' = [tlb EXCEPT ![v] = lookup(v)]
  /\ mem' = [mem EXCEPT ![lookup(v).off] = x]
  /\ want' = [want EXCEPT ![cu][v] = x]
  /\ UNCHANGED <<cu, alive, pt, pg_count, v_base, sig, pc, arg>>

(* do_pgfault(): the page is not there, or is written and may not be.      *)
do_pgfault(v, first) ==
  /\ user /\ ~lookup(v).w
  /\ IF lookup(v) = Absent
     THEN do_no_page(v, first)
     ELSE do_wp_page(v) /\ UNCHANGED v_base
  /\ UNCHANGED <<cu, alive, pc, arg>>

(* swtch() to another process, which flushes the TLB: after a system call  *)
(* or an interrupt, or in one that sleeps before it copies.                *)
swtch(q) ==
  /\ cu # NoProc => pc[cu] \in {"user", "ret", "copy"}
  /\ q # cu
  /\ q \in alive \/ (q = NoProc /\ alive = {})
  /\ cu' = q /\ tlb' = Flushed
  /\ pc' = [p \in Procs |-> IF pc[p] = "ret" THEN "user" ELSE pc[p]]
  /\ UNCHANGED <<alive, pt, pg_count, v_base, sig, arg, mem, want>>
-----------------------------------------------------------------------------
(* vm_clone() and pt_copy(): both page tables lose PTE_W, the TLB stays;   *)
(* pg_count is an uchar.                                                   *)
vm_clone(q) ==
  /\ LET ro == [v \in VPage |-> [pt[cu][v] EXCEPT !.w = FALSE]]
     IN pt' = [pt EXCEPT ![q] = ro, ![cu] = ro]
  /\ pg_count' = [g \in Pages |->
       (pg_count[g] + Cardinality({v \in VPage : pt[cu][v].off = g})) % 256]
  /\ v_base' = [v_base EXCEPT ![q] = v_base[cu]]
  /\ want' = [want EXCEPT ![q] = want[cu]]
  /\ UNCHANGED <<tlb, mem>>

(* MUTANT: the parent goes on.                                             *)
do_fork_stay(q) ==
  /\ user /\ q \in Procs \ alive
  /\ vm_clone(q)
  /\ alive' = alive \cup {q}
  /\ UNCHANGED <<cu, sig, pc, arg>>

(* fork(): the child has a better priority than its parent, so that        *)
(* swtch() at the end of the system call takes another process.            *)
do_fork(q) ==
  /\ user /\ q \in Procs \ alive
  /\ vm_clone(q)
  /\ alive' = alive \cup {q}
  /\ goto("ret")
  /\ UNCHANGED <<cu, sig, arg>>

(* MUTANT: pages that are shared are not given back.                       *)
pt_free_own ==
  /\ pg_count' = [g \in Pages |->
       IF pg_count[g] = 1 /\ \E v \in VPage : pt[cu][v].off = g
       THEN 0 ELSE pg_count[g]]
  /\ pt' = [pt EXCEPT ![cu] = Flushed]

(* pt_free(): pgfree() of every page that is there.                        *)
pt_free ==
  /\ pg_count' = [g \in Pages |->
       pg_count[g] - Cardinality({v \in VPage : pt[cu][v].off = g})]
  /\ pt' = [pt EXCEPT ![cu] = Flushed]

(* vm_clear(): no area, hence nothing to find in it.                       *)
vm_clear ==
  /\ pt_free
  /\ v_base' = [v_base EXCEPT ![cu] = NV]
  /\ want' = [want EXCEPT ![cu] = [v \in VPage |-> Fresh]]

(* do_exit(), called or by SIGSEGV; the processor has the page directory   *)
(* until it switches.                                                      *)
do_exit ==
  /\ at("user")
  /\ vm_clear
  /\ alive' = alive \ {cu}
  /\ sig' = sig \ {cu}
  /\ goto("ret")
  /\ UNCHANGED <<cu, tlb, arg, mem>>

(* do_exec(): the new page tables are built by find_pte(), which flushes   *)
(* the TLB; the arguments take the first page of the stack.                *)
do_exec ==
  /\ user
  /\ vm_clear
  /\ tlb' = Flushed
  /\ goto("verify")
  /\ arg' = [arg EXCEPT ![cu] = [call |-> "exec", v |-> NV - 1]]
  /\ UNCHANGED <<cu, alive, sig, mem>>

(* read() stores into the page, write() only reads it; fstat() stores      *)
(* without vm_verify().                                                    *)
syscall(c, v) ==
  /\ user /\ v \in Targets[c]
  /\ arg' = [arg EXCEPT ![cu] = [call |-> c, v |-> v]]
  /\ goto(IF c = "fstat" THEN "copy" ELSE "verify")
  /\ UNCHANGED <<cu, alive, pt, tlb, pg_count, v_base, sig, mem, want>>

(* MUTANT: a page that is there passes.                                    *)
vm_verify_present ==
  /\ at("verify")
  /\ goto("copy")
  /\ LET v == arg[cu].v IN
     IF pt[cu][v] = Absent
     THEN do_no_page(v, TRUE)
     ELSE UNCHANGED <<pt, tlb, pg_count, sig, mem, want, v_base>>
  /\ UNCHANGED <<cu, alive, arg>>

(* vm_verify(): what the faults would do; it does not look at the result.  *)
vm_verify ==
  /\ at("verify")
  /\ goto("copy")
  /\ LET v == arg[cu].v IN
     \/ /\ pt[cu][v] = Absent
        /\ do_no_page(v, TRUE)
     \/ /\ pt[cu][v] # Absent /\ ~pt[cu][v].w
        /\ do_wp_page(v)
        /\ UNCHANGED v_base
     \/ /\ pt[cu][v].w
        /\ UNCHANGED <<pt, tlb, pg_count, sig, mem, want, v_base>>
  /\ UNCHANGED <<cu, alive, arg>>

(* The kernel copies.  In ring 0 the processor ignores PTE_W.              *)
copy(x) ==
  /\ at("copy")
  /\ LET v == arg[cu].v IN
     /\ lookup(v) # Absent
     /\ tlb' = [tlb EXCEPT ![v] = lookup(v)]
     /\ IF arg[cu].call = "write"
        THEN UNCHANGED <<mem, want>>
        ELSE /\ mem' = [mem EXCEPT ![lookup(v).off] = x]
             /\ want' = [want EXCEPT ![cu][v] = x]
  /\ goto("user") /\ arg' = [arg EXCEPT ![cu] = NoArg]
  /\ UNCHANGED <<cu, alive, pt, pg_count, v_base, sig>>

(* A page that is not there faults in ring 0 too; after SIGSEGV the        *)
(* instruction is executed again.                                          *)
copy_fault ==
  /\ at("copy") /\ lookup(arg[cu].v) = Absent
  /\ do_no_page(arg[cu].v, TRUE)
  /\ UNCHANGED <<cu, alive, pc, arg>>

Kernel == vm_verify \/ (\E x \in Value : copy(x)) \/ copy_fault

Next ==
  \/ \E v \in VPage : user_read(v)
  \/ \E v \in VPage, first \in BOOLEAN : do_pgfault(v, first)
  \/ \E v \in VPage, x \in Value : user_write(v, x)
  \/ \E c \in DOMAIN Targets, v \in VPage : syscall(c, v)
  \/ \E q \in Procs : do_fork(q)
  \/ \E q \in Procs \cup {NoProc} : swtch(q)
  \/ do_exit \/ do_exec \/ Kernel

Spec == Init /\ [][Next]_vars

-----------------------------------------------------------------------------
TypeOK ==
  /\ cu \in Procs \cup {NoProc} /\ alive \subseteq Procs
  /\ pt \in [Procs -> [VPage -> Pte]] /\ tlb \in [VPage -> Pte]
  /\ pg_count \in [Pages -> 0 .. 255]
  /\ v_base \in [Procs -> Low .. NV]
  /\ sig \subseteq Procs
  /\ pc \in [Procs -> {"user", "ret", "verify", "copy"}]
  /\ arg \in [Procs -> [call : {"none", "exec"} \cup DOMAIN Targets,
                         v : VPage]]
  /\ mem \in [Pages -> Value] /\ want \in [Procs -> [VPage -> Value]]

maps(g) == {m \in Procs \X VPage : pt[m[1]][m[2]].off = g}

(* A page's count is the number of pte's that refer to it, after any       *)
(* number of forks, copies and exits: no page is lost, none is free while  *)
(* in use.                                                                 *)
PageCount == \A g \in Pages : pg_count[g] = Cardinality(maps(g))

(* A process finds in its pages what it put there, and no other process's  *)
(* stores: copy on write keeps address spaces apart.                       *)
Isolated ==
  \A p \in alive, v \in VPage :
    pt[p][v] # Absent => mem[pt[p][v].off] = want[p][v]

(* Whenever a process or the kernel uses its memory, the processor         *)
(* remembers what the pte's say: not a right that fork() took away, nor a  *)
(* page that exec() or exit() gave back.                                   *)
TlbSound ==
  (cu # NoProc /\ pc[cu] # "ret") =>
    \A v \in VPage : tlb[v] # Absent => tlb[v] = pt[cu][v]

=============================================================================
