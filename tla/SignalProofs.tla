---------------------------- MODULE SignalProofs ----------------------------
(***************************************************************************)
(* The safety of the signal model, for any processes, signals and actions. *)
(*                                                                         *)
(* That a mask comes back needs to know what the oldest frame holds, and   *)
(* that nobody sleeps on a signal needs to know what the first look of     *)
(* sleep() leaves for the second: IInv adds the two.                       *)
(***************************************************************************)
EXTENDS Signal, WellFoundedInduction, TLAPS

(* The mask that the last sigreturn() will bring back is one without a     *)
(* handler's.                                                              *)
FramesOK(p) ==
  /\ frames[p] = <<>> => p_sigmask[p] \subseteq base[p]
  /\ frames[p] # <<>> => frames[p][Len(frames[p])] \subseteq base[p]

(* A first look that finds no signal leaves none for the second, nor that  *)
(* for the sleep.                                                          *)
LooksOK(p) ==
  /\ pc[p] = "mark" /\ p \notin spent => ~issig(p) /\ ~ignored(p)
  /\ pc[p] = "wait" /\ p \notin spent => ~issig(p)

IInv == TypeOK /\ \A p \in Pids : FramesOK(p) /\ LooksOK(p)
-----------------------------------------------------------------------------
(* A set of signals has a lowest one: issig(), which counts up from 0,     *)
(* comes to a signal that is in p_sig.                                     *)
LEMMA MinInSet ==
  ASSUME NEW S \in SUBSET Nat, S # {}
  PROVE  Min(S) \in S
<1> DEFINE R == OpToRel(<, Nat)
<1>1. IsWellFoundedOn(R, Nat)
  BY NatLessThanWellFounded
<1>2. ASSUME NEW a \in Nat, NEW b \in Nat, a < b
      PROVE  <<a, b>> \in R
  BY <1>2 DEF OpToRel
<1> HIDE DEF R
<1>3. PICK x \in S : \A y \in S : ~(<<y, x>> \in R)
  BY Zenon, <1>1, WFMin
<1>4. ASSUME NEW y \in S
      PROVE  x <= y
  <2>1. x \in Nat /\ y \in Nat
    OBVIOUS
  <2>2. ~(y < x)
    BY Zenon, <1>2, <1>3, <2>1
  <2> QED
    BY <2>1, <2>2
<1> QED
  BY Zenon, <1>3, <1>4 DEF Min

LEMMA FirstIsPending ==
  ASSUME TypeOK, NEW p \in Pids, p_sig[p] # {}
  PROVE  first(p) \in p_sig[p]
<1>1. p_sig[p] \in SUBSET Sigs
  BY DEF TypeOK
<1>2. Sigs \subseteq Nat
  BY SignalAssumption
<1> QED
  BY <1>1, <1>2, MinInSet DEF first

(* What issig() and psig() find depends on the process' own variables.     *)
LEMMA IssigFrame ==
  ASSUME NEW p \in Pids, p_sig'[p] = p_sig[p],
         p_sigact'[p] = p_sigact[p], p_sigmask'[p] = p_sigmask[p]
  PROVE  issig(p)' = issig(p) /\ ignored(p)' = ignored(p)
BY DEF issig, ignored, handler, first

(* A process that a step leaves alone keeps its part of the invariant.     *)
LEMMA OthersKeep ==
  ASSUME NEW p \in Pids, FramesOK(p), LooksOK(p),
         p_sig'[p] = p_sig[p], p_sigact'[p] = p_sigact[p],
         p_sigmask'[p] = p_sigmask[p], frames'[p] = frames[p],
         base'[p] = base[p], pc'[p] = pc[p], p \in spent' <=> p \in spent
  PROVE  FramesOK(p)' /\ LooksOK(p)'
<1>1. FramesOK(p)'
  BY DEF FramesOK
<1>2. LooksOK(p)'
  BY IssigFrame DEF LooksOK
<1> QED
  BY <1>1, <1>2

(* A process that is neither in sleep() nor awake from it is free of the   *)
(* second part.                                                            *)
LEMMA LooksFree ==
  ASSUME NEW p \in Pids, pc'[p] # "mark", pc'[p] # "wait"
  PROVE  LooksOK(p)'
BY DEF LooksOK
-----------------------------------------------------------------------------
Label == {"user", "trap", "mark", "wait", "stop", "zomb"}

(* issig() and psig(): whatever they do is done to p alone, a handler's    *)
(* frame goes on the stack with the mask that is in force, and a look that *)
(* takes nothing out of p_sig has found nothing.                           *)
LEMMA TakeEffect ==
  ASSUME TypeOK, NEW p \in Pids, NEW back \in Label, FramesOK(p),
         base' = base, take(p, back)
  PROVE  /\ p_sig' \in [Pids -> SUBSET Sigs]
         /\ p_sigact' \in [Pids -> [Sigs -> Action]]
         /\ p_sigmask' \in [Pids -> SUBSET (1 .. 31)]
         /\ frames' \in [Pids -> Seq(SUBSET (1 .. 31))]
         /\ pc' \in [Pids -> Label]
         /\ \A q \in Pids \ {p} :
              /\ p_sig'[q] = p_sig[q] /\ p_sigact'[q] = p_sigact[q]
              /\ p_sigmask'[q] = p_sigmask[q] /\ frames'[q] = frames[q]
              /\ pc'[q] = pc[q]
         /\ pc'[p] \in {back, "user", "zomb"}
         /\ FramesOK(p)'
         /\ p_sig'[p] = p_sig[p] =>
              /\ ~issig(p) /\ ~ignored(p)
              /\ p_sigact'[p] = p_sigact[p] /\ p_sigmask'[p] = p_sigmask[p]
<1> DEFINE n == first(p)
           sa == p_sigact[p][n]
<1>1. CASE issig(p)
  <2>1. n \in p_sig[p] /\ n \in Sigs
    BY Zenon, <1>1, FirstIsPending DEF issig, TypeOK
  <2>2. sa \in Action
    BY <2>1 DEF TypeOK
  <2>3. psig(p, n, sa, back)
    BY <1>1 DEF take
  <2> HIDE DEF n, sa
  <2>4. p_sig' = [p_sig EXCEPT ![p] = @ \ {n}]
    BY <2>3 DEF psig
  <2>5. /\ p_sig' \in [Pids -> SUBSET Sigs]
        /\ p_sig'[p] # p_sig[p]
        /\ \A q \in Pids \ {p} : p_sig'[q] = p_sig[q]
    BY <2>1, <2>4 DEF TypeOK
  <2>6. CASE sa.handler # "DFL"
    <3>1. /\ frames' = [frames EXCEPT ![p] = <<p_sigmask[p]>> \o @]
          /\ p_sigmask' = [p_sigmask EXCEPT ![p] =
                 @ \cup IF sa.nomask THEN {} ELSE sa.mask]
          /\ p_sigact' = [p_sigact EXCEPT ![p][n].handler =
                 IF sa.oneshot THEN "DFL" ELSE @]
          /\ pc' = [pc EXCEPT ![p] = "user"]
      BY <2>3, <2>6 DEF psig, goto
    <3>2. /\ p_sigmask' \in [Pids -> SUBSET (1 .. 31)]
          /\ \A q \in Pids \ {p} : p_sigmask'[q] = p_sigmask[q]
      <4>1. sa.mask \in SUBSET (1 .. 31)
        BY <2>2 DEF Action
      <4> QED
        BY Zenon, <3>1, <4>1 DEF TypeOK
    <3>3. /\ p_sigact' \in [Pids -> [Sigs -> Action]]
          /\ \A q \in Pids \ {p} : p_sigact'[q] = p_sigact[q]
      <4>1. [sa EXCEPT !.handler = IF sa.oneshot THEN "DFL" ELSE @] \in Action
        BY <2>2 DEF Action
      <4>2. p_sigact' = [p_sigact EXCEPT ![p] = [@ EXCEPT ![n] =
              [sa EXCEPT !.handler = IF sa.oneshot THEN "DFL" ELSE @]]]
        BY <2>1, <3>1 DEF TypeOK, sa
      <4> QED
        BY <2>1, <4>1, <4>2 DEF TypeOK
    <3>4. /\ frames' \in [Pids -> Seq(SUBSET (1 .. 31))]
          /\ frames'[p] # <<>>
          /\ frames'[p][Len(frames'[p])] =
               IF frames[p] = <<>> THEN p_sigmask[p]
               ELSE frames[p][Len(frames[p])]
          /\ \A q \in Pids \ {p} : frames'[q] = frames[q]
      <4>1. /\ frames[p] \in Seq(SUBSET (1 .. 31))
            /\ p_sigmask[p] \in SUBSET (1 .. 31)
        BY DEF TypeOK
      <4>2. frames'[p] = <<p_sigmask[p]>> \o frames[p]
        BY <3>1 DEF TypeOK
      <4>3. /\ frames'[p] \in Seq(SUBSET (1 .. 31))
            /\ Len(frames'[p]) = Len(frames[p]) + 1
            /\ frames'[p][1] = p_sigmask[p]
            /\ \A i \in 1 .. Len(frames[p]) :
                 frames'[p][i + 1] = frames[p][i]
        BY <4>1, <4>2
      <4>4. frames[p] = <<>> <=> Len(frames[p]) = 0
        BY <4>1
      <4>5. frames'[p] # <<>>
        BY <4>1, <4>3
      <4>6. frames'[p][Len(frames'[p])] =
              IF frames[p] = <<>> THEN p_sigmask[p]
              ELSE frames[p][Len(frames[p])]
        BY <4>1, <4>3, <4>4
      <4> QED
        BY <3>1, <4>3, <4>5, <4>6 DEF TypeOK
    <3>5. FramesOK(p)'
      BY <3>4 DEF FramesOK
    <3>6. /\ pc' \in [Pids -> Label] /\ pc'[p] = "user"
          /\ \A q \in Pids \ {p} : pc'[q] = pc[q]
      BY <3>1 DEF TypeOK, Label
    <3> QED
      BY Zenon, <2>5, <3>2, <3>3, <3>4, <3>5, <3>6
  <2>7. CASE sa.handler = "DFL"
    <3>1. /\ pc' = [pc EXCEPT ![p] =
                     IF n \in {SIGCHLD, SIGCONT} THEN back ELSE "zomb"]
          /\ UNCHANGED <<frames, p_sigmask, p_sigact>>
      BY <2>3, <2>7 DEF psig, goto
    <3>2. FramesOK(p)'
      BY <3>1 DEF FramesOK
    <3>3. /\ pc' \in [Pids -> Label] /\ pc'[p] \in {back, "zomb"}
          /\ \A q \in Pids \ {p} : pc'[q] = pc[q]
      BY <3>1 DEF TypeOK, Label
    <3> QED
      BY Zenon, <2>5, <3>1, <3>2, <3>3 DEF TypeOK
  <2> QED
    BY Zenon, <2>6, <2>7
<1>2. CASE ~issig(p)
  <2>1. /\ p_sig' = [p_sig EXCEPT ![p] =
               IF ignored(p) THEN @ \ {first(p)} ELSE @]
        /\ pc' = [pc EXCEPT ![p] = back]
        /\ UNCHANGED <<frames, p_sigmask, p_sigact>>
    BY <1>2 DEF take, drop, goto
  <2>2. p_sig' \in [Pids -> SUBSET Sigs]
    BY <2>1 DEF TypeOK
  <2>3. p_sig'[p] = p_sig[p] => ~ignored(p)
    <3>1. SUFFICES ASSUME ignored(p)
                   PROVE  p_sig'[p] # p_sig[p]
      OBVIOUS
    <3>2. first(p) \in p_sig[p]
      BY <3>1, FirstIsPending DEF ignored
    <3> QED
      BY <2>1, <3>1, <3>2 DEF TypeOK
  <2>4. FramesOK(p)'
    BY <2>1 DEF FramesOK
  <2>5. /\ pc' \in [Pids -> Label] /\ pc'[p] = back
        /\ \A q \in Pids \ {p} : pc'[q] = pc[q] /\ p_sig'[q] = p_sig[q]
    BY <2>1 DEF TypeOK, Label
  <2> QED
    BY Zenon, <1>2, <2>1, <2>2, <2>3, <2>4, <2>5 DEF TypeOK
<1> QED
  BY Zenon, <1>1, <1>2
-----------------------------------------------------------------------------
LEMMA InitIInv == Init => IInv
<1> SUFFICES ASSUME Init
             PROVE  IInv
  OBVIOUS
<1>1. Default \in Action
  BY DEF Default, Action
<1>2. TypeOK
  BY <1>1 DEF Init, TypeOK
<1>3. \A p \in Pids : FramesOK(p) /\ LooksOK(p)
  BY DEF Init, FramesOK, LooksOK
<1> QED
  BY <1>2, <1>3 DEF IInv

(* The system calls that neither send nor look for a signal, and the timer *)
(* tick: they end in a trap and change the caller's variables only.        *)
LEMMA CallStep ==
  ASSUME IInv, NEW p \in Pids, TypeOK', pc' = [pc EXCEPT ![p] = "trap"],
         p_sig' = p_sig, spent' = spent, FramesOK(p)',
         \A q \in Pids \ {p} :
           /\ p_sigact'[q] = p_sigact[q] /\ p_sigmask'[q] = p_sigmask[q]
           /\ frames'[q] = frames[q] /\ base'[q] = base[q]
  PROVE  IInv'
<1>1. ASSUME NEW q \in Pids \ {p}
      PROVE  FramesOK(q)' /\ LooksOK(q)'
  <2>1. pc'[q] = pc[q]
    BY DEF IInv, TypeOK
  <2> QED
    BY <2>1, OthersKeep DEF IInv
<1>2. LooksOK(p)'
  <2>1. pc'[p] = "trap"
    BY DEF IInv, TypeOK
  <2> QED
    BY <2>1, LooksFree
<1> QED
  BY <1>1, <1>2 DEF IInv

LEMMA KillStep ==
  ASSUME IInv, NEW p \in Pids, NEW pid \in Targets, NEW n \in Sigs,
         sys_kill(p, pid, n)
  PROVE  IInv'
<1> DEFINE hit == {q \in do_kill(p, pid) : sigsend(p, q, n)}
<1> HIDE DEF hit
<1>1. /\ p_sig' = [q \in Pids |-> IF q \in hit THEN p_sig[q] \cup {n}
                                              ELSE p_sig[q]]
      /\ pc' = [q \in Pids |->
           IF q = p \/ (q \in hit /\ pc[q] = "wait") THEN "trap"
           ELSE IF q \in hit /\ pc[q] = "stop" THEN "user" ELSE pc[q]]
      /\ swait' = swait \ hit /\ spent' = spent \ hit
      /\ pc[p] = "user"
      /\ \A q \in Pids \ {p} : pc[q] # "mark"
      /\ UNCHANGED <<p_sigact, p_sigmask, frames, base>>
  BY DEF sys_kill, at, hit
<1>2. TypeOK'
  BY Zenon, <1>1 DEF IInv, TypeOK
<1>3. ASSUME NEW q \in Pids
      PROVE  FramesOK(q)'
  BY <1>1 DEF IInv, FramesOK
<1>4. ASSUME NEW q \in Pids
      PROVE  LooksOK(q)'
  <2>1. CASE q \in hit \/ q = p
    <3>1. pc'[q] # "mark" /\ pc'[q] # "wait"
      BY <1>1, <2>1
    <3> QED
      BY <3>1, LooksFree
  <2>2. CASE q \notin hit /\ q # p
    BY Zenon, <1>1, <2>2, OthersKeep DEF IInv
  <2> QED
    BY <2>1, <2>2
<1> QED
  BY <1>2, <1>3, <1>4 DEF IInv

LEMMA SignalStep ==
  ASSUME IInv, NEW p \in Pids, NEW n \in Sigs, NEW h \in {"DFL", "IGN", "func"},
         do_signal(p, n, h)
  PROVE  IInv'
<1> DEFINE sa == [handler |-> h, oneshot |-> TRUE, nomask |-> TRUE, mask |-> {}]
<1>1. sa \in Action
  BY DEF Action
<1> HIDE DEF sa
<1>2. /\ p_sigact' = [p_sigact EXCEPT ![p] = [@ EXCEPT ![n] = sa]]
      /\ p_sigmask' = [p_sigmask EXCEPT ![p] = {}]
      /\ pc' = [pc EXCEPT ![p] = "trap"]
      /\ UNCHANGED <<p_sig, frames, base, swait, spent>>
  BY DEF do_signal, goto, sa
<1>3. TypeOK'
  BY Zenon, <1>1, <1>2 DEF IInv, TypeOK
<1>4. FramesOK(p)'
  BY <1>2 DEF IInv, FramesOK, TypeOK
<1>5. \A q \in Pids \ {p} : /\ p_sigact'[q] = p_sigact[q]
                            /\ p_sigmask'[q] = p_sigmask[q]
  BY <1>2 DEF IInv, TypeOK
<1> QED
  BY Zenon, <1>2, <1>3, <1>4, <1>5, CallStep

LEMMA SigactionStep ==
  ASSUME IInv, NEW p \in Pids, NEW n \in Sigs, NEW sa \in Actions,
         do_sigaction(p, n, sa)
  PROVE  IInv'
<1> DEFINE new == [sa EXCEPT !.mask = @ \cup {n}]
<1>1. n \in 1 .. 31
  BY SignalAssumption DEF do_sigaction, settable
<1>2. new \in Action
  BY <1>1, SignalAssumption DEF Action
<1> HIDE DEF new
<1>3. /\ p_sigact' = [p_sigact EXCEPT ![p] = [@ EXCEPT ![n] = new]]
      /\ pc' = [pc EXCEPT ![p] = "trap"]
      /\ UNCHANGED <<p_sig, p_sigmask, frames, base, swait, spent>>
  BY DEF do_sigaction, goto, new
<1>4. TypeOK'
  BY Zenon, <1>2, <1>3 DEF IInv, TypeOK
<1>5. FramesOK(p)'
  BY <1>3 DEF IInv, FramesOK
<1>6. \A q \in Pids \ {p} : p_sigact'[q] = p_sigact[q]
  BY <1>3 DEF IInv, TypeOK
<1> QED
  BY Zenon, <1>3, <1>4, <1>5, <1>6, CallStep

LEMMA ExecStep ==
  ASSUME IInv, NEW p \in Pids, exec(p)
  PROVE  IInv'
<1>1. /\ p_sigact' = [p_sigact EXCEPT ![p] = [n \in Sigs |-> Default]]
      /\ frames' = [frames EXCEPT ![p] = <<>>]
      /\ base' = [base EXCEPT ![p] = p_sigmask[p]]
      /\ pc' = [pc EXCEPT ![p] = "trap"]
      /\ UNCHANGED <<p_sig, p_sigmask, swait, spent>>
  BY DEF exec, goto
<1>2. Default \in Action
  BY DEF Default, Action
<1>3. TypeOK'
  <2>1. [n \in Sigs |-> Default] \in [Sigs -> Action]
    BY <1>2
  <2>2. <<>> \in Seq(SUBSET (1 .. 31))
    OBVIOUS
  <2>3. p_sigmask[p] \in SUBSET (1 .. 31)
    BY Zenon DEF IInv, TypeOK
  <2> QED
    BY Zenon, <1>1, <2>1, <2>2, <2>3 DEF IInv, TypeOK
<1>4. FramesOK(p)'
  BY <1>1 DEF IInv, FramesOK, TypeOK
<1>5. \A q \in Pids \ {p} : /\ p_sigact'[q] = p_sigact[q]
                            /\ frames'[q] = frames[q] /\ base'[q] = base[q]
  BY <1>1 DEF IInv, TypeOK
<1> QED
  BY Zenon, <1>1, <1>3, <1>4, <1>5, CallStep

(* sigreturn() takes the frame at the head; the oldest one stays the last. *)
LEMMA PopFrame ==
  ASSUME NEW S, NEW s \in Seq(S), s # <<>>
  PROVE  /\ Head(s) \in S /\ Tail(s) \in Seq(S)
         /\ Tail(s) = <<>> => Head(s) = s[Len(s)]
         /\ Tail(s) # <<>> => Tail(s)[Len(Tail(s))] = s[Len(s)]
<1>1. Len(s) \in Nat \ {0}
  OBVIOUS
<1>2. Head(s) = s[1] /\ Head(s) \in S
  BY <1>1
<1>3. /\ Tail(s) \in Seq(S) /\ Len(Tail(s)) = Len(s) - 1
      /\ \A i \in 1 .. Len(s) - 1 : Tail(s)[i] = s[i + 1]
  BY <1>1
<1>4. Tail(s) = <<>> <=> Len(s) = 1
  <2>1. ASSUME NEW t \in Seq(S)
        PROVE  t = <<>> <=> Len(t) = 0
    OBVIOUS
  <2>2. Tail(s) = <<>> <=> Len(Tail(s)) = 0
    BY Zenon, <1>3, <2>1
  <2> QED
    BY <1>1, <1>3, <2>2
<1> QED
  BY <1>1, <1>2, <1>3, <1>4

LEMMA SigreturnStep ==
  ASSUME IInv, NEW p \in Pids, sys_sigreturn(p)
  PROVE  IInv'
<1>1. /\ frames[p] # <<>>
      /\ p_sigmask' = [p_sigmask EXCEPT ![p] = Head(frames[p])]
      /\ frames' = [frames EXCEPT ![p] = Tail(@)]
      /\ pc' = [pc EXCEPT ![p] = "trap"]
      /\ UNCHANGED <<p_sig, p_sigact, base, swait, spent>>
  BY DEF sys_sigreturn, goto
<1>2. frames[p] \in Seq(SUBSET (1 .. 31))
  BY DEF IInv, TypeOK
<1>3. /\ Head(frames[p]) \in SUBSET (1 .. 31)
      /\ Tail(frames[p]) \in Seq(SUBSET (1 .. 31))
  BY Zenon, <1>1, <1>2, PopFrame
<1>4. TypeOK'
  BY Zenon, <1>1, <1>3 DEF IInv, TypeOK
<1>5. FramesOK(p)'
  <2>1. /\ p_sigmask'[p] = Head(frames[p]) /\ frames'[p] = Tail(frames[p])
        /\ base'[p] = base[p]
    BY <1>1 DEF IInv, TypeOK
  <2>2. frames[p][Len(frames[p])] \subseteq base[p]
    BY <1>1 DEF IInv, FramesOK
  <2>3. /\ Tail(frames[p]) = <<>> => Head(frames[p]) = frames[p][Len(frames[p])]
        /\ Tail(frames[p]) # <<>> =>
             Tail(frames[p])[Len(Tail(frames[p]))] = frames[p][Len(frames[p])]
    BY <1>1, <1>2, PopFrame
  <2> QED
    BY <2>1, <2>2, <2>3 DEF FramesOK
<1>6. \A q \in Pids \ {p} : /\ p_sigmask'[q] = p_sigmask[q]
                            /\ frames'[q] = frames[q]
  BY <1>1 DEF IInv, TypeOK
<1> QED
  BY Zenon, <1>1, <1>4, <1>5, <1>6, CallStep

LEMMA TickStep ==
  ASSUME IInv, NEW p \in Pids, tick(p)
  PROVE  IInv'
<1>1. /\ pc' = [pc EXCEPT ![p] = "trap"]
      /\ UNCHANGED <<p_sig, p_sigact, p_sigmask, frames, base, swait, spent>>
  BY DEF tick, goto
<1>2. TypeOK'
  BY Zenon, <1>1 DEF IInv, TypeOK
<1>3. FramesOK(p)'
  BY <1>1 DEF IInv, FramesOK
<1> QED
  BY Zenon, <1>1, <1>2, <1>3, CallStep

(* The steps that look for signals.                                        *)
LEMMA TakeStep ==
  ASSUME IInv, NEW p \in Pids, NEW back \in Label, take(p, back),
         base' = base, swait' \subseteq Pids, spent' \subseteq Pids,
         \A q \in Pids \ {p} : q \in spent' <=> q \in spent,
         LooksOK(p)'
  PROVE  IInv'
<1>1. TypeOK /\ FramesOK(p)
  BY DEF IInv
<1>2. TypeOK'
  BY Zenon, <1>1, TakeEffect DEF TypeOK, Label
<1>3. ASSUME NEW q \in Pids \ {p}
      PROVE  FramesOK(q)' /\ LooksOK(q)'
  BY <1>1, TakeEffect, OthersKeep DEF IInv
<1>4. FramesOK(p)'
  BY <1>1, TakeEffect
<1> QED
  BY <1>2, <1>3, <1>4 DEF IInv

LEMMA TrapStep ==
  ASSUME IInv, NEW p \in Pids, trap(p)
  PROVE  IInv'
<1>1. PICK back \in {"stop", "user"} : take(p, back)
  BY DEF trap
<1>2. back \in Label
  BY DEF Label
<1>3. UNCHANGED <<base, swait, spent>>
  BY DEF trap
<1>4. LooksOK(p)'
  <2>1. pc'[p] \in {back, "user", "zomb"}
    BY <1>1, <1>2, <1>3, TakeEffect DEF IInv
  <2> QED
    BY <2>1, LooksFree
<1>5. swait' \subseteq Pids /\ spent' \subseteq Pids
  BY <1>3 DEF IInv, TypeOK
<1> QED
  BY <1>1, <1>2, <1>3, <1>4, <1>5, TakeStep

LEMMA PauseStep ==
  ASSUME IInv, NEW p \in Pids, sys_pause(p)
  PROVE  IInv'
<1>1. /\ take(p, "mark") /\ base' = base /\ swait' = swait
      /\ spent' = IF p_sig'[p] # p_sig[p] THEN spent \cup {p} ELSE spent \ {p}
  BY DEF sys_pause
<1>2. "mark" \in Label
  BY DEF Label
<1>3. LooksOK(p)'
  <2>1. CASE p_sig'[p] = p_sig[p]
    <3>1. ~issig(p) /\ ~ignored(p) /\ p_sigact'[p] = p_sigact[p]
          /\ p_sigmask'[p] = p_sigmask[p]
      BY <1>1, <1>2, <2>1, TakeEffect DEF IInv
    <3> QED
      BY Zenon, <2>1, <3>1, IssigFrame DEF LooksOK
  <2>2. CASE p_sig'[p] # p_sig[p]
    BY <1>1, <2>2 DEF LooksOK
  <2> QED
    BY <2>1, <2>2
<1>4. swait' \subseteq Pids /\ spent' \subseteq Pids
  BY <1>1 DEF IInv, TypeOK
<1> QED
  BY <1>1, <1>2, <1>3, <1>4, TakeStep

LEMMA MarkStep ==
  ASSUME IInv, NEW p \in Pids, sleep_mark(p)
  PROVE  IInv'
<1>1. /\ take(p, "wait") /\ base' = base /\ swait' = swait \cup {p}
      /\ spent' = IF p_sig'[p] # p_sig[p] THEN spent ELSE spent \ {p}
      /\ pc[p] = "mark"
  BY DEF sleep_mark, at
<1>2. "wait" \in Label
  BY DEF Label
<1>3. LooksOK(p)'
  <2>1. CASE p_sig'[p] = p_sig[p]
    <3>1. ~issig(p) /\ ~ignored(p) /\ p_sigact'[p] = p_sigact[p]
          /\ p_sigmask'[p] = p_sigmask[p]
      BY <1>1, <1>2, <2>1, TakeEffect DEF IInv
    <3> QED
      BY <2>1, <3>1, IssigFrame DEF LooksOK
  <2>2. CASE p_sig'[p] # p_sig[p]
    <3>1. p \in spent
      <4>1. SUFFICES ASSUME p \notin spent
                     PROVE  FALSE
        OBVIOUS
      <4>2. ~issig(p) /\ ~ignored(p)
        BY <1>1, <4>1 DEF IInv, LooksOK
      <4>3. p_sig' = p_sig
        BY <1>1, <4>2 DEF take, drop, IInv, TypeOK
      <4> QED
        BY <2>2, <4>3
    <3> QED
      BY <1>1, <2>2, <3>1 DEF LooksOK
  <2> QED
    BY Zenon, <2>1, <2>2
<1>4. swait' \subseteq Pids /\ spent' \subseteq Pids
  BY <1>1 DEF IInv, TypeOK
<1> QED
  BY <1>1, <1>2, <1>3, <1>4, TakeStep

LEMMA NextIInv == IInv /\ [Next]_vars => IInv'
<1> SUFFICES ASSUME IInv, [Next]_vars
             PROVE  IInv'
  OBVIOUS
<1>1. CASE Next
  <2>1. PICK p \in Pids :
          \/ \E pid \in Targets, n \in Sigs : sys_kill(p, pid, n)
          \/ \E n \in Sigs, h \in {"DFL", "IGN", "func"} : do_signal(p, n, h)
          \/ \E n \in Sigs, sa \in Actions : do_sigaction(p, n, sa)
          \/ exec(p) \/ sys_sigreturn(p) \/ sys_pause(p) \/ sleep_mark(p)
          \/ trap(p) \/ tick(p)
    BY <1>1 DEF Next
  <2> QED
    BY <2>1, KillStep, SignalStep, SigactionStep, ExecStep, SigreturnStep,
       PauseStep, MarkStep, TrapStep, TickStep
<1>2. CASE UNCHANGED vars
  <2>1. TypeOK'
    BY Zenon, <1>2 DEF vars, IInv, TypeOK
  <2>2. ASSUME NEW p \in Pids
        PROVE  FramesOK(p)' /\ LooksOK(p)'
    BY <1>2, OthersKeep DEF vars, IInv
  <2> QED
    BY <2>1, <2>2 DEF IInv
<1> QED
  BY <1>1, <1>2
-----------------------------------------------------------------------------
(* The variables of the signal model keep their types; in particular only  *)
(* real signals are ever blocked, however handlers and their masks nest.   *)
THEOREM SignalTypes == Spec => []TypeOK
<1>1. IInv => TypeOK
  BY DEF IInv
<1> QED
  BY <1>1, InitIInv, NextIInv, PTL DEF Spec

(* psig(), sigreturn(), signal() and exec(): when no handler is active     *)
(* nothing is blocked but what the program was started with.               *)
THEOREM MasksComeBack == Spec => []MaskRestored
<1>1. IInv => MaskRestored
  BY DEF IInv, FramesOK, MaskRestored
<1> QED
  BY <1>1, InitIInv, NextIInv, PTL DEF Spec

(* sleep() and sigsend(): nobody sleeps in pause() on a signal that issig()*)
(* would return, unless both looks came to another one.                    *)
THEOREM PauseSafe == Spec => []PauseSeesSignal
<1>1. IInv => PauseSeesSignal
  BY DEF IInv, LooksOK, PauseSeesSignal
<1> QED
  BY <1>1, InitIInv, NextIInv, PTL DEF Spec
=============================================================================
