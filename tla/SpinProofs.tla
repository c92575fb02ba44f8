---- MODULE SpinProofs ----
(***************************************************************************)
(* Spinlocks, interrupts and the hand-over of ptable.lock are sound for    *)
(* any number of CPUs and processes.                                       *)
(*                                                                         *)
(* SpinInv gives every context a place in a program, from which what it    *)
(* has still to do follows, and the locks that it holds; it is inductive.  *)
(* What a CPU's ncli, IF and intena are is told by the place of the        *)
(* context that it runs; a context that no CPU runs was left in swtch, or  *)
(* is new, and expects ptable.lock alone; a lock is taken exactly when it  *)
(* belongs to one of the running contexts.                                 *)
(***************************************************************************)
EXTENDS Spinlock, TLAPS

USE SMTT(30)

(***************************************************************************)
(* Spinlocks.  A context is at a place of a program: pos operations of the *)
(* program done, the last of them perhaps only up to a stage, and, in a    *)
(* handler, the place at which the handler's own program came in between.  *)
(***************************************************************************)
SpinSpec == SpinInit /\ [][SpinNext]_spinVars

forkret == <<<<"release", "P">>>>
turn == forkret \o scheduler            \* the scheduler's loop, from swtch on
\* What is left of a program after i operations.
Drop(s, i) == [n \in 1..(Len(s) - i) |-> s[n + i]]

Handlers == {"tick", "idle"}
Bases == {"call", "forkret", "turn"}
Names == Handlers \cup Bases
YieldTick == <<<<"acquire", "L">>, <<"crit", "L">>, <<"acquire", "P">>, <<"wakeup">>,
               <<"release", "P">>, <<"release", "L">>, <<"acquire", "P">>, <<"ready">>,
               <<"sched">>, <<"release", "P">>, <<"iret">>>>
IdleTick == <<<<"acquire", "L">>, <<"crit", "L">>, <<"acquire", "P">>, <<"wakeup">>,
              <<"release", "P">>, <<"release", "L">>, <<"iret">>>>
Call == <<<<"work">>, <<"acquire", "L">>, <<"crit", "L">>, <<"acquire", "P">>, <<"release", "L">>,
          <<"sleeping">>, <<"sched">>, <<"release", "P">>, <<"acquire", "L">>, <<"crit", "L">>,
          <<"release", "L">>, <<"work">>>>
Turn == <<<<"release", "P">>, <<"sti">>, <<"acquire", "P">>, <<"pick">>, <<"release", "P">>>>
Code(n) == CASE n = "tick" -> YieldTick
             [] n = "idle" -> IdleTick
             [] n = "call" -> Call
             [] n = "forkret" -> forkret
             [] n = "turn" -> Turn
Size(n) == CASE n = "tick" -> 11 [] n = "idle" -> 7 [] n = "call" -> 12
             [] n = "forkret" -> 1 [] n = "turn" -> 5

\* The locks that a program holds after i operations.
InL(n, i) == \/ n = "call" /\ i \in {2, 3, 4, 9, 10}
             \/ n \in Handlers /\ i \in 1..5
InP(n, i) == \/ n = "call" /\ i \in 4..7
             \/ n = "forkret" /\ i = 0
             \/ n = "turn" /\ i \in {0, 3, 4}
             \/ n \in Handlers /\ i \in {3, 4}
             \/ n = "tick" /\ i \in 7..9
Holds(n, i) == {l \in Locks : (l = "L" /\ InL(n, i)) \/ (l = "P" /\ InP(n, i))}
One(l, h) == IF l \in h THEN 1 ELSE 0
Depth(h) == One("L", h) + One("P", h)

Stages == {"no", "xchg", "own", "disown", "unlock", "popcli", "resume"}
Place == [n : Names, i : 0..12, m : Stages, l : Locks, q : Bases, j : 0..12]
\* The rest of an operation at a stage.
Micro(n, m, l) == CASE m = "no" -> <<>>
                    [] m = "xchg" -> <<<<"xchg", l>>>>
                    [] m = "own" -> <<<<"own", l>>>>
                    [] m = "disown" -> <<<<"disown", l>>, <<"unlock", l>>, <<"popcli">>>>
                    [] m = "unlock" -> <<<<"unlock", l>>, <<"popcli">>>>
                    [] m = "popcli" -> <<<<"popcli">>>>
                    [] m = "resume" -> <<<<"resume", n = "call">>>>
After(n, i, q, j) == Drop(Code(n), i) \o (IF n \in Handlers THEN Drop(Code(q), j) ELSE <<>>)
Rest(a) == Micro(a.n, a.m, a.l) \o After(a.n, a.i, a.q, a.j)

\* A place that context x can be at.
Own(x) == IF x \in Cpus THEN {"turn", "idle"} ELSE {"call", "forkret", "tick"}
Fits(a) == CASE a.m = "no" -> a.n \in Handlers => a.i < Size(a.n)
             [] a.m \in {"xchg", "own"} -> a.i > 0 /\ Code(a.n)[a.i] = <<"acquire", a.l>>
             [] a.m \in {"disown", "unlock", "popcli"} -> a.i > 0 /\ Code(a.n)[a.i] = <<"release", a.l>>
             [] a.m = "resume" -> a.i > 0 /\ Code(a.n)[a.i] = <<"sched">>
At(x, a) == /\ a \in Place /\ a.n \in Own(x) /\ a.i \in 0..Size(a.n) /\ Fits(a)
            /\ a.n = "turn" => a.i < 4
            /\ a.n \in Handlers => a.q \in Own(x) /\ a.j \in 0..Size(a.q) /\ Holds(a.q, a.j) = {}
                                   /\ (a.q = "turn" => a.j < 4)

Held(a) == CASE a.m = "xchg" -> Holds(a.n, a.i) \ {a.l}
             [] a.m \in {"disown", "unlock"} -> Holds(a.n, a.i) \cup {a.l}
             [] OTHER -> Holds(a.n, a.i)
Owned(a) == IF a.m \in {"own", "unlock"} THEN Held(a) \ {a.l} ELSE Held(a)
Nesting(a) == Depth(Holds(a.n, a.i)) + (IF a.m \in {"disown", "unlock", "popcli"} THEN 1 ELSE 0)

\* What a CPU that runs a context at place a must be like.
Suits(r, a) ==
    /\ r.ncli = Nesting(a)
    /\ r.ie = TRUE => r.ncli = 0 /\ a.n \in Bases
    /\ r.ie = FALSE => r.ncli > 0 \/ a.n \in Handlers \/ (a.n = "turn" /\ a.i = 1)
    /\ r.ncli > 0 /\ a.m # "resume" =>
          /\ a.n \in Handlers => r.intena = FALSE
          /\ a.n \in Bases => r.intena = TRUE \/ (a.n = "turn" /\ a.i \in {0, 1})
\* A process is RUNNING, except on its way to the scheduler.
Leaving(a) == a.m = "no" /\ ((a.n = "call" /\ a.i = 6) \/ (a.n = "tick" /\ a.i = 8))
\* A context that has been left in swtch, or a new process.
Left(x, a) == IF x \in Cpus THEN a.n = "turn" /\ a.i = 0 /\ a.m = "no"
              ELSE a.m = "resume" \/ (a.n = "forkret" /\ a.i = 0 /\ a.m = "no")

CpuRec(c) == [ie : BOOLEAN, ncli : Nat, intena : BOOLEAN, run : Tasks \cup {c}]
CodeInv(at) == \A x \in Contexts : At(x, at[x]) /\ k[x] = Rest(at[x])
CpuInv(at) == \A c \in Cpus :
    /\ cpu[c] \in CpuRec(c)
    /\ Suits(cpu[c], at[cpu[c].run])
OneInv == \A c, d \in Cpus : cpu[c].run = cpu[d].run => c = d
LeftInv(at) == \A x \in Contexts : (\A c \in Cpus : cpu[c].run # x) => Left(x, at[x])
StInv(at) == /\ st \in [Tasks -> {"RUNNABLE", "RUNNING", "SLEEPING"}]
             /\ \A c \in Cpus : cpu[c].run \in Tasks =>
                   (st[cpu[c].run] # "RUNNING" <=> Leaving(at[cpu[c].run]))
LockInv(at) == \A l \in Locks :
    /\ locked[l] = TRUE => \E c \in Cpus : l \in Held(at[cpu[c].run])
    /\ locked[l] = FALSE => \A c \in Cpus : l \notin Held(at[cpu[c].run])
    /\ \A c, d \in Cpus : l \in Held(at[cpu[c].run]) /\ l \in Held(at[cpu[d].run]) => c = d
    /\ \A c \in Cpus : lkcpu[l] = c <=> l \in Owned(at[cpu[c].run])
Good(at) == /\ locked \in [Locks -> BOOLEAN] /\ lkcpu \in [Locks -> Cpus \cup {NoCpu}]
            /\ cpu = [c \in Cpus |-> cpu[c]] /\ k = [x \in Contexts |-> k[x]]
            /\ CodeInv(at) /\ CpuInv(at) /\ OneInv /\ LeftInv(at) /\ StInv(at) /\ LockInv(at)
SpinInv == /\ fault = "no" /\ \E at \in [Contexts -> Place] : Good(at)

Verbs == {"acquire", "xchg", "own", "release", "disown", "unlock", "popcli", "sched", "resume",
          "pick", "sti", "iret", "sleeping", "ready", "wakeup", "work", "crit"}
OpSet == {<<v>> : v \in Verbs} \cup (Verbs \X Locks) \cup {<<"resume", TRUE>>, <<"resume", FALSE>>}
\* Sequences of the same length with the same elements are the same.
LEMMA SeqsAgree ==
  ASSUME NEW S, NEW s \in Seq(S), NEW t \in Seq(S), Len(s) = Len(t), \A i \in 1..Len(s) : s[i] = t[i]
  PROVE  s = t
OBVIOUS

\* Sequences of operations.
LEMMA ConsSeq ==
  ASSUME NEW S, NEW e \in S, NEW s \in Seq(S)
  PROVE  /\ <<e>> \o s \in Seq(S) /\ <<e>> \o s # <<>>
         /\ Head(<<e>> \o s) = e /\ Tail(<<e>> \o s) = s
OBVIOUS

LEMMA NilSeq ==
  ASSUME NEW S, NEW s \in Seq(S)
  PROVE  <<>> \o s = s /\ s \o <<>> = s
OBVIOUS

LEMMA AssocSeq ==
  ASSUME NEW S, NEW r \in Seq(S), NEW s \in Seq(S), NEW t \in Seq(S)
  PROVE  (r \o s) \o t = r \o (s \o t)
OBVIOUS

LEMMA JoinSeq ==
  ASSUME NEW S, NEW s \in Seq(S), NEW t \in Seq(S)
  PROVE  s \o t \in Seq(S)
OBVIOUS

LEMMA DropSeq ==
  ASSUME NEW S, NEW s \in Seq(S), NEW i \in 0..Len(s)
  PROVE  /\ Drop(s, i) \in Seq(S) /\ Len(Drop(s, i)) = Len(s) - i
         /\ i < Len(s) => s[i + 1] \in S /\ Drop(s, i) = <<s[i + 1]>> \o Drop(s, i + 1)
         /\ i = Len(s) => Drop(s, i) = <<>>
         /\ i = 0 => Drop(s, i) = s
<1>1. Drop(s, i) \in Seq(S) /\ Len(Drop(s, i)) = Len(s) - i
  BY DEF Drop
<1>2. ASSUME i < Len(s)
      PROVE  s[i + 1] \in S /\ Drop(s, i) = <<s[i + 1]>> \o Drop(s, i + 1)
  <2>1. /\ Drop(s, i + 1) \in Seq(S) /\ Len(Drop(s, i + 1)) = Len(s) - (i + 1)
        /\ s[i + 1] \in S
    BY <1>2 DEF Drop
  <2>2. <<s[i + 1]>> \o Drop(s, i + 1) \in Seq(S) /\ Len(<<s[i + 1]>> \o Drop(s, i + 1)) = Len(s) - i
    BY <2>1
  <2>3. \A m \in 1..(Len(s) - i) : Drop(s, i)[m] = (<<s[i + 1]>> \o Drop(s, i + 1))[m]
    BY <2>1 DEF Drop
  <2> QED
    BY <1>1, <2>1, <2>2, <2>3, SeqsAgree, Zenon
<1>3. ASSUME i = Len(s)
      PROVE  Drop(s, i) = <<>>
  BY <1>1, <1>3
<1>4. ASSUME i = 0
      PROVE  Drop(s, i) = s
  BY <1>1, <1>4, SeqsAgree DEF Drop
<1> QED
  BY <1>1, <1>2, <1>3, <1>4

\* Every program is a sequence of operations of its size.
LEMMA CodeTypes ==
  /\ Call \in Seq(OpSet) /\ Len(Call) = 12
  /\ YieldTick \in Seq(OpSet) /\ Len(YieldTick) = 11
  /\ IdleTick \in Seq(OpSet) /\ Len(IdleTick) = 7
  /\ forkret \in Seq(OpSet) /\ Len(forkret) = 1
  /\ Turn \in Seq(OpSet) /\ Len(Turn) = 5
<1>1. Call \in Seq(OpSet) /\ Len(Call) = 12
  BY DEF Call, OpSet, Verbs, Locks
<1>2. YieldTick \in Seq(OpSet) /\ Len(YieldTick) = 11
  BY DEF YieldTick, OpSet, Verbs, Locks
<1>3. IdleTick \in Seq(OpSet) /\ Len(IdleTick) = 7
  BY DEF IdleTick, OpSet, Verbs, Locks
<1>4. forkret \in Seq(OpSet) /\ Len(forkret) = 1
  BY DEF forkret, OpSet, Verbs, Locks
<1>5. Turn \in Seq(OpSet) /\ Len(Turn) = 5
  BY DEF Turn, OpSet, Verbs, Locks
<1> QED
  BY <1>1, <1>2, <1>3, <1>4, <1>5

\* The programs, written out: a system call, the scheduler's loop from swtch
\* on, and the timer's handler in a process and in a scheduler.
LEMMA CodeParts ==
  /\ syscall = Call
  /\ turn = Turn
  /\ \A x : x \in Tasks => handler(x) = YieldTick
  /\ \A x : x \notin Tasks => handler(x) = IdleTick
<1>1. syscall = Call
  <2>1. syscall \in Seq(OpSet) /\ Len(syscall) = 12
    BY DEF syscall, sleep, OpSet, Verbs, Locks
  <2>2. \A i \in 1..12 : syscall[i] = Call[i]
    BY DEF syscall, sleep, Call
  <2> QED
    BY <2>1, <2>2, CodeTypes, SeqsAgree, Zenon
<1>2. turn = Turn
  <2>1. turn \in Seq(OpSet) /\ Len(turn) = 5
    BY DEF turn, forkret, scheduler, OpSet, Verbs, Locks
  <2>2. \A i \in 1..5 : turn[i] = Turn[i]
    BY DEF turn, forkret, scheduler, Turn
  <2> QED
    BY <2>1, <2>2, CodeTypes, SeqsAgree, Zenon
<1>3. ASSUME NEW x \in Tasks
      PROVE  handler(x) = YieldTick
  <2>1. handler(x) \in Seq(OpSet) /\ Len(handler(x)) = 11
    BY DEF handler, yield, OpSet, Verbs, Locks
  <2>2. \A i \in 1..11 : handler(x)[i] = YieldTick[i]
    BY DEF handler, yield, YieldTick
  <2> QED
    BY <2>1, <2>2, CodeTypes, SeqsAgree, ZenonT(60)
<1>4. ASSUME NEW x, x \notin Tasks
      PROVE  handler(x) = IdleTick
  <2>1. handler(x) \in Seq(OpSet) /\ Len(handler(x)) = 7
    BY <1>4 DEF handler, OpSet, Verbs, Locks
  <2>2. \A i \in 1..7 : handler(x)[i] = IdleTick[i]
    BY <1>4 DEF handler, IdleTick
  <2> QED
    BY <2>1, <2>2, CodeTypes, SeqsAgree, ZenonT(60)
<1> QED
  BY <1>1, <1>2, <1>3, <1>4

LEMMA CodeSeq ==
  ASSUME NEW n \in Names
  PROVE  /\ Code(n) \in Seq(OpSet) /\ Len(Code(n)) = Size(n) /\ Size(n) \in 1..12
<1>1. CASE n = "tick"
  BY <1>1, CodeTypes DEF Code, Size
<1>2. CASE n = "idle"
  BY <1>2, CodeTypes DEF Code, Size
<1>3. CASE n = "call"
  BY <1>3, CodeTypes DEF Code, Size
<1>4. CASE n = "forkret"
  BY <1>4, CodeTypes DEF Code, Size
<1>5. CASE n = "turn"
  BY <1>5, CodeTypes DEF Code, Size
<1> QED
  BY <1>1, <1>2, <1>3, <1>4, <1>5 DEF Names, Handlers, Bases

\* The operation after the first i of a program.
Next1(n, i) == Code(n)[i + 1]
\* What an operation does to the locks that its program holds.
Follows(n, i) ==
  LET o == Next1(n, i)
      h == Holds(n, i)
      g == Holds(n, i + 1)
  IN  CASE o[1] = "acquire" -> /\ o[2] \in Locks /\ o = <<"acquire", o[2]>>
                               /\ o[2] \notin h /\ g = h \cup {o[2]}
                               /\ o[2] = "L" => h = {}
        [] o[1] = "release" -> /\ o[2] \in Locks /\ o = <<"release", o[2]>>
                               /\ o[2] \in h /\ g = h \ {o[2]}
        [] o[1] = "sched" -> /\ o = <<"sched">> /\ h = {"P"} /\ g = {"P"}
                             /\ \/ n = "call" /\ i = 6
                                \/ n = "tick" /\ i = 8
        [] o[1] = "pick" -> n = "turn" /\ i = 3
        [] o[1] = "sti" -> n = "turn" /\ i = 1 /\ h = {} /\ g = {}
        [] o[1] = "iret" -> n \in Handlers /\ i + 1 = Size(n) /\ h = {}
        [] o[1] = "sleeping" -> n = "call" /\ i = 5 /\ g = h /\ h = {"P"}
        [] o[1] = "ready" -> n = "tick" /\ i = 7 /\ g = h /\ h = {"P"}
        [] o[1] = "wakeup" -> n \in Handlers /\ i = 3 /\ g = h /\ "P" \in h
        [] o[1] = "work" -> n = "call" /\ i \in {0, 11} /\ g = h /\ h = {}
        [] o[1] = "crit" -> o = <<"crit", "L">> /\ n # "turn" /\ g = h /\ "L" \in h /\ (n = "call" => i # 5)
        [] OTHER -> FALSE
MidOp(n, i) == /\ n \in Handlers /\ Next1(n, i)[1] # "iret" => i + 1 < Size(n)
               /\ n = "turn" /\ Next1(n, i)[1] # "pick" => i # 3
               /\ n = "turn" /\ Next1(n, i)[1] = "acquire" => i = 2
               /\ n = "turn" /\ Next1(n, i)[1] = "release" => i \in {0, 4}
               /\ Next1(n, i)[1] \in {"acquire", "release", "crit"} => ~(n = "call" /\ i \in {5, 6})
                                                                   /\ ~(n = "tick" /\ i \in {7, 8})

\* Every program takes and gives back its locks in order: never a lock it
\* has, L only when it has none, and it switches with P alone.
LEMMA Discipline ==
  ASSUME NEW n \in Names, NEW i \in 0..(Size(n) - 1)
  PROVE  Follows(n, i) /\ MidOp(n, i)
<1>1. CASE n = "tick"
  BY <1>1 DEF Follows, MidOp, Next1, Code, Size, YieldTick, Holds, InL, InP, Handlers, Locks
<1>2. CASE n = "idle"
  BY <1>2 DEF Follows, MidOp, Next1, Code, Size, IdleTick, Holds, InL, InP, Handlers, Locks
<1>3. CASE n = "call"
  BY <1>3 DEF Follows, MidOp, Next1, Code, Size, Call, Holds, InL, InP, Handlers, Locks
<1>4. CASE n = "forkret"
  BY <1>4 DEF Follows, MidOp, Next1, Code, Size, forkret, Holds, InL, InP, Handlers, Locks
<1>5. CASE n = "turn"
  BY <1>5 DEF Follows, MidOp, Next1, Code, Size, Turn, Holds, InL, InP, Handlers, Locks
<1> QED
  BY <1>1, <1>2, <1>3, <1>4, <1>5 DEF Names, Handlers, Bases

\* No process is on its way to the scheduler at position i.
Stays(n, i) == ~(n = "call" /\ i = 6) /\ ~(n = "tick" /\ i = 8)

LEMMA AcquireOp ==
  ASSUME NEW n \in Names, NEW i \in 0..(Size(n) - 1), NEW l,
         Next1(n, i)[1] = "acquire", Next1(n, i)[2] = l
  PROVE  /\ l \in Locks /\ Next1(n, i) = <<"acquire", l>> /\ l \notin Holds(n, i)
         /\ Holds(n, i + 1) = Holds(n, i) \cup {l} /\ (l = "L" => Holds(n, i) = {})
         /\ n \in Handlers => i + 1 < Size(n)
         /\ n = "turn" => i = 2
         /\ Stays(n, i) /\ Stays(n, i + 1)
BY Discipline DEF Follows, MidOp, Stays

LEMMA ReleaseOp ==
  ASSUME NEW n \in Names, NEW i \in 0..(Size(n) - 1), NEW l,
         Next1(n, i)[1] = "release", Next1(n, i)[2] = l
  PROVE  /\ l \in Locks /\ Next1(n, i) = <<"release", l>> /\ l \in Holds(n, i)
         /\ Holds(n, i + 1) = Holds(n, i) \ {l}
         /\ n \in Handlers => i + 1 < Size(n)
         /\ n = "turn" => i \in {0, 4}
         /\ Stays(n, i) /\ Stays(n, i + 1)
BY Discipline DEF Follows, MidOp, Stays

LEMMA SchedOp ==
  ASSUME NEW n \in Names, NEW i \in 0..(Size(n) - 1), Next1(n, i)[1] = "sched"
  PROVE  /\ Next1(n, i) = <<"sched">> /\ Holds(n, i) = {"P"} /\ Holds(n, i + 1) = {"P"}
         /\ n \in Handlers => i + 1 < Size(n)
         /\ \/ n = "call" /\ i = 6
            \/ n = "tick" /\ i = 8
BY Discipline DEF Follows, MidOp

(***************************************************************************)
(* What comes next at a place.                                             *)
(***************************************************************************)
LEMMA AfterSeq ==
  ASSUME NEW n \in Names, NEW i \in 0..Size(n), NEW q \in Bases, NEW j \in 0..Size(q)
  PROVE  /\ After(n, i, q, j) \in Seq(OpSet)
         /\ i < Size(n) => /\ Next1(n, i) \in OpSet
                           /\ After(n, i, q, j) = <<Next1(n, i)>> \o After(n, i + 1, q, j)
         /\ i = Size(n) /\ n \in Handlers => After(n, i, q, j) = Drop(Code(q), j)
         /\ i = Size(n) /\ n \in Bases => After(n, i, q, j) = <<>>
<1> DEFINE B == IF n \in Handlers THEN Drop(Code(q), j) ELSE <<>>
<1>0. q \in Names
  BY DEF Names
<1>1. B \in Seq(OpSet)
  <2>1. Drop(Code(q), j) \in Seq(OpSet)
    <3>1. Code(q) \in Seq(OpSet) /\ j \in 0..Len(Code(q))
      BY <1>0, CodeSeq
    <3> QED
      BY <3>1, DropSeq, Zenon
  <2> QED
    BY <2>1
<1>20. Code(n) \in Seq(OpSet) /\ i \in 0..Len(Code(n)) /\ Len(Code(n)) = Size(n)
  BY CodeSeq
<1>2. Drop(Code(n), i) \in Seq(OpSet)
  BY <1>20, DropSeq, Zenon
<1>3. After(n, i, q, j) = Drop(Code(n), i) \o B
  BY DEF After
<1>4. After(n, i, q, j) \in Seq(OpSet)
  BY <1>1, <1>2, <1>3, JoinSeq, Zenon
<1>5. ASSUME i < Size(n)
      PROVE  /\ Next1(n, i) \in OpSet
             /\ After(n, i, q, j) = <<Next1(n, i)>> \o After(n, i + 1, q, j)
  <2>1. Next1(n, i) \in OpSet /\ Drop(Code(n), i) = <<Next1(n, i)>> \o Drop(Code(n), i + 1)
    <3>1. i < Len(Code(n))
      BY <1>5, <1>20
    <3> QED
      BY <1>20, <3>1, DropSeq, ZenonT(60) DEF Next1
  <2>2. Drop(Code(n), i + 1) \in Seq(OpSet) /\ <<Next1(n, i)>> \in Seq(OpSet)
    <3>1. i + 1 \in 0..Len(Code(n)) /\ Code(n) \in Seq(OpSet)
      BY <1>5, CodeSeq
    <3>2. Drop(Code(n), i + 1) \in Seq(OpSet)
      BY <3>1, DropSeq, Zenon
    <3> QED
      BY <2>1, <3>2
  <2>3. After(n, i + 1, q, j) = Drop(Code(n), i + 1) \o B
    BY DEF After
  <2> QED
    <3> DEFINE o == <<Next1(n, i)>>
               d == Drop(Code(n), i + 1)
    <3>1. (o \o d) \o B = o \o (d \o B)
      <4>1. o \in Seq(OpSet) /\ d \in Seq(OpSet) /\ B \in Seq(OpSet)
        BY <1>1, <2>2, Zenon
      <4> HIDE DEF o, d, B
      <4> QED
        BY <4>1
    <3> QED
      BY <1>3, <2>1, <2>3, <3>1, Zenon
<1>6. ASSUME i = Size(n)
      PROVE  After(n, i, q, j) = B
  <2>1. Drop(Code(n), i) = <<>>
    <3>1. i = Len(Code(n))
      BY <1>6, <1>20
    <3> QED
      <4>1. Drop(Code(n), i) \in Seq(OpSet) /\ Len(Drop(Code(n), i)) = Len(Code(n)) - i
        BY <1>20, DropSeq, Zenon
      <4> QED
        BY <1>20, <3>1, <4>1
  <2> QED
    BY <1>1, <1>3, <2>1, NilSeq, Zenon
<1> HIDE DEF B
<1>7. (n \in Handlers => B = Drop(Code(q), j)) /\ (n \in Bases => B = <<>>)
  BY DEF B, Handlers, Bases
<1> QED
  BY <1>4, <1>5, <1>6, <1>7

\* At place a the next operation is o, and s is what comes after it.
Ahead(a, o, s) == Rest(a) # <<>> /\ Head(Rest(a)) = o /\ Tail(Rest(a)) = s
Here(a) == After(a.n, a.i, a.q, a.j)

\* What the remaining operations of a place begin with, and go on with.
LEMMA PlaceAhead ==
  ASSUME NEW x, NEW a, At(x, a)
  PROVE  /\ Rest(a) \in Seq(OpSet)
         /\ a.m = "no" /\ a.i < Size(a.n) => Ahead(a, Next1(a.n, a.i), After(a.n, a.i + 1, a.q, a.j))
         /\ a.m = "no" /\ a.i = Size(a.n) => Rest(a) = <<>> /\ a.n \in Bases
         /\ a.m = "xchg" => Ahead(a, <<"xchg", a.l>>, Here(a))
         /\ a.m = "own" => Ahead(a, <<"own", a.l>>, Here(a))
         /\ a.m = "disown" => Ahead(a, <<"disown", a.l>>, <<<<"unlock", a.l>>, <<"popcli">>>> \o Here(a))
         /\ a.m = "unlock" => Ahead(a, <<"unlock", a.l>>, <<<<"popcli">>>> \o Here(a))
         /\ a.m = "popcli" => Ahead(a, <<"popcli">>, Here(a))
         /\ a.m = "resume" => Ahead(a, <<"resume", a.n = "call">>, Here(a))
<1>1. a \in Place /\ a.n \in Names /\ a.i \in 0..Size(a.n) /\ a.q \in Bases /\ a.l \in Locks
  BY DEF At, Place
<1>2. PICK j \in 0..Size(a.q) : After(a.n, a.i, a.q, a.j) = After(a.n, a.i, a.q, j)
                             /\ After(a.n, a.i + 1, a.q, a.j) = After(a.n, a.i + 1, a.q, j)
  <2>1. CASE a.n \in Handlers
    BY <2>1 DEF At
  <2>2. CASE a.n \notin Handlers
    <3>1. 0 \in 0..Size(a.q)
      BY <1>1, CodeSeq DEF Names
    <3> QED
      BY <2>2, <3>1, Zenon DEF After
  <2> QED
    BY <2>1, <2>2
<1> DEFINE H == After(a.n, a.i, a.q, j)
<1>3. /\ H \in Seq(OpSet)
      /\ a.i < Size(a.n) => /\ Next1(a.n, a.i) \in OpSet
                            /\ H = <<Next1(a.n, a.i)>> \o After(a.n, a.i + 1, a.q, j)
      /\ a.i = Size(a.n) /\ a.n \in Bases => H = <<>>
  BY <1>1, <1>2, AfterSeq, ZenonT(60)
<1>4. Rest(a) = Micro(a.n, a.m, a.l) \o H
  BY <1>2 DEF Rest
<1>5. a.i + 1 \in 0..Size(a.n) => After(a.n, a.i + 1, a.q, j) \in Seq(OpSet)
  BY <1>1, <1>2, AfterSeq, Zenon
<1> HIDE DEF H
<1>50. ASSUME NEW o \in OpSet, NEW t \in Seq(OpSet), Rest(a) = <<o>> \o t
       PROVE  Rest(a) \in Seq(OpSet) /\ Ahead(a, o, t)
  BY <1>50, ConsSeq DEF Ahead
<1>6. CASE a.m = "no"
  <2>1. Rest(a) = H
    BY <1>3, <1>4, <1>6, NilSeq, Zenon DEF Micro
  <2>2. a.i < Size(a.n) => Ahead(a, Next1(a.n, a.i), After(a.n, a.i + 1, a.q, a.j))
    <3>1. ASSUME a.i < Size(a.n)
          PROVE  After(a.n, a.i + 1, a.q, j) \in Seq(OpSet)
      <4>1. a.i + 1 \in 0..Size(a.n)
        BY <1>1, <3>1, CodeSeq
      <4> QED
        BY <1>5, <4>1
    <3> QED
      <4> SUFFICES ASSUME a.i < Size(a.n)
                   PROVE  Ahead(a, Next1(a.n, a.i), After(a.n, a.i + 1, a.q, j))
        BY <1>2, Zenon
      <4> DEFINE o == Next1(a.n, a.i)
                 t == After(a.n, a.i + 1, a.q, j)
      <4>1. o \in OpSet /\ t \in Seq(OpSet) /\ Rest(a) = <<o>> \o t
        BY <1>3, <2>1, <3>1, Zenon
      <4> HIDE DEF o, t
      <4>2. Ahead(a, o, t)
        BY <4>1 DEF Ahead
      <4> QED
        BY <4>2, Zenon DEF o, t
  <2>3. a.i = Size(a.n) => Rest(a) = <<>> /\ a.n \in Bases
    BY <1>1, <1>3, <1>6, <2>1 DEF At, Fits, Names
  <2> QED
    BY <1>3, <1>6, <2>1, <2>2, <2>3
<1>7. ASSUME NEW o \in OpSet, Micro(a.n, a.m, a.l) = <<o>>
      PROVE  Rest(a) \in Seq(OpSet) /\ Ahead(a, o, Here(a))
  BY <1>2, <1>3, <1>4, <1>7, ConsSeq DEF Ahead, Here, H
<1>8. ASSUME NEW m \in Stages
      PROVE  <<m, a.l>> \in OpSet \/ m \notin {"xchg", "own", "unlock", "disown"}
  BY <1>1, Zenon DEF OpSet, Verbs
<1>9. <<"popcli">> \in OpSet /\ <<"resume", a.n = "call">> \in OpSet
  BY Zenon DEF OpSet, Verbs
<1>10. CASE a.m = "xchg"
  BY <1>7, <1>8, <1>10 DEF Micro, Stages
<1>11. CASE a.m = "own"
  BY <1>7, <1>8, <1>11 DEF Micro, Stages
<1>12. CASE a.m = "popcli"
  BY <1>7, <1>9, <1>12 DEF Micro
<1>13. CASE a.m = "resume"
  BY <1>7, <1>9, <1>13 DEF Micro
<1>14. CASE a.m = "unlock"
  <2>1. Micro(a.n, a.m, a.l) = <<<<"unlock", a.l>>, <<"popcli">>>>
    BY <1>14 DEF Micro
  <2>2. <<"unlock", a.l>> \in OpSet
    BY <1>8 DEF Stages
  <2>3. /\ <<<<"popcli">>>> \o H \in Seq(OpSet)
        /\ Micro(a.n, a.m, a.l) \o H = <<<<"unlock", a.l>>>> \o (<<<<"popcli">>>> \o H)
    <3> DEFINE u == <<"unlock", a.l>>
               p == <<"popcli">>
    <3> HIDE DEF u, p
    <3> SUFFICES <<p>> \o H \in Seq(OpSet) /\ <<u, p>> \o H = <<u>> \o (<<p>> \o H)
      BY <2>1 DEF u, p
    <3> QED
      BY <1>3, <1>9, <2>2 DEF u, p
  <2> QED
    <3>1. Here(a) = H
      BY <1>2 DEF Here, H
    <3>2. Rest(a) \in Seq(OpSet) /\ Ahead(a, <<"unlock", a.l>>, <<<<"popcli">>>> \o H)
      BY <1>4, <1>50, <2>2, <2>3, Zenon
    <3> QED
      BY <1>14, <3>1, <3>2, Zenon
<1>15. CASE a.m = "disown"
  <2>1. Micro(a.n, a.m, a.l) = <<<<"disown", a.l>>, <<"unlock", a.l>>, <<"popcli">>>>
    BY <1>15 DEF Micro
  <2>2. <<"unlock", a.l>> \in OpSet /\ <<"disown", a.l>> \in OpSet
    BY <1>8 DEF Stages
  <2>3. /\ <<<<"unlock", a.l>>, <<"popcli">>>> \o H \in Seq(OpSet)
        /\ Micro(a.n, a.m, a.l) \o H = <<<<"disown", a.l>>>> \o (<<<<"unlock", a.l>>, <<"popcli">>>> \o H)
    <3> DEFINE d == <<"disown", a.l>>
               u == <<"unlock", a.l>>
               p == <<"popcli">>
    <3> HIDE DEF d, u, p
    <3> SUFFICES <<u, p>> \o H \in Seq(OpSet) /\ <<d, u, p>> \o H = <<d>> \o (<<u, p>> \o H)
      BY <2>1, Zenon DEF d, u, p
    <3>1. d \in OpSet /\ u \in OpSet /\ p \in OpSet
      BY <1>9, <2>2, Zenon DEF d, u, p
    <3> QED
      BY <1>3, <3>1
  <2> QED
    <3>1. Here(a) = H
      BY <1>2 DEF Here, H
    <3>2. /\ Rest(a) \in Seq(OpSet)
          /\ Ahead(a, <<"disown", a.l>>, <<<<"unlock", a.l>>, <<"popcli">>>> \o H)
      BY <1>4, <1>50, <2>2, <2>3, Zenon
    <3> QED
      BY <1>15, <3>1, <3>2, Zenon
<1> QED
  BY <1>1, <1>6, <1>10, <1>11, <1>12, <1>13, <1>14, <1>15 DEF Place, Stages

(***************************************************************************)
(* The places of all contexts, and how one CPU's step moves them.          *)
(***************************************************************************)
\* The context that CPU c runs is at a place that fits its remaining operations.
LEMMA Where ==
  ASSUME NEW at, Good(at), NEW c \in Cpus
  PROVE  /\ cpu[c].run \in Contexts /\ At(cpu[c].run, at[cpu[c].run])
         /\ k[cpu[c].run] = Rest(at[cpu[c].run])
         /\ cpu[c] \in CpuRec(c) /\ Suits(cpu[c], at[cpu[c].run])
<1>1. cpu[c] \in CpuRec(c) /\ Suits(cpu[c], at[cpu[c].run])
  BY Zenon DEF Good, CpuInv
<1>2. cpu[c].run \in Contexts
  BY <1>1 DEF CpuRec, Contexts
<1> QED
  BY <1>1, <1>2, Zenon DEF Good, CodeInv

\* The operation of a place: its stage's, its program's next, or user code.
Doing(a) == IF a.m = "no"
            THEN IF a.i = Size(a.n) THEN <<"user">> ELSE Next1(a.n, a.i)
            ELSE IF a.m = "popcli" THEN <<"popcli">>
            ELSE IF a.m = "resume" THEN <<"resume", a.n = "call">>
            ELSE <<a.m, a.l>>

\* The operation that a CPU does next is that of its context's place.
LEMMA OpIs ==
  ASSUME NEW at, Good(at), NEW c \in Cpus
  PROVE  Op(c) = Doing(at[cpu[c].run])
<1> DEFINE a == at[cpu[c].run]
<1>1. At(cpu[c].run, a) /\ k[cpu[c].run] = Rest(a)
  BY Where, Zenon
<1>2. Op(c) = IF Rest(a) = <<>> THEN <<"user">> ELSE Head(Rest(a))
  BY <1>1, ZenonT(60) DEF Op, Run
<1>3. a.m \in Stages /\ a.i \in 0..Size(a.n) /\ a.n \in Names
  BY <1>1 DEF At, Place
<1>4. a.i < Size(a.n) \/ a.i = Size(a.n)
  BY <1>3, CodeSeq
<1> HIDE DEF a
<1>5. CASE a.m = "no"
  <2>1. CASE a.i < Size(a.n)
    <3>1. a.i # Size(a.n)
      BY <1>3, <2>1, CodeSeq
    <3> QED
      BY <1>1, <1>2, <1>5, <2>1, <3>1, PlaceAhead, Zenon DEF Doing, Ahead, a
  <2>2. CASE a.i = Size(a.n)
    BY <1>1, <1>2, <1>5, <2>2, PlaceAhead, Zenon DEF Doing, a
  <2> QED
    BY <1>4, <2>1, <2>2
<1>6. CASE a.m = "xchg"
  BY <1>1, <1>2, <1>6, PlaceAhead, Zenon DEF Doing, Ahead, a
<1>7. CASE a.m = "own"
  BY <1>1, <1>2, <1>7, PlaceAhead, Zenon DEF Doing, Ahead, a
<1>8. CASE a.m = "disown"
  BY <1>1, <1>2, <1>8, PlaceAhead, Zenon DEF Doing, Ahead, a
<1>9. CASE a.m = "unlock"
  BY <1>1, <1>2, <1>9, PlaceAhead, Zenon DEF Doing, Ahead, a
<1>10. CASE a.m = "popcli"
  BY <1>1, <1>2, <1>10, PlaceAhead, Zenon DEF Doing, Ahead, a
<1>11. CASE a.m = "resume"
  BY <1>1, <1>2, <1>11, PlaceAhead, Zenon DEF Doing, Ahead, a
<1> QED
  BY <1>3, <1>5, <1>6, <1>7, <1>8, <1>9, <1>10, <1>11, Zenon DEF Stages

\* Which place an operation's name belongs to.
LEMMA VerbAt ==
  ASSUME NEW x, NEW a, At(x, a)
  PROVE  /\ Doing(a)[1] \in {"xchg", "own", "disown", "unlock"} =>
               a.m = Doing(a)[1] /\ Doing(a)[2] = a.l
         /\ Doing(a)[1] \in {"popcli", "resume"} => a.m = Doing(a)[1]
         /\ Doing(a)[1] \in {"acquire", "release", "sched", "pick", "sti", "iret", "sleeping",
                             "ready", "wakeup", "work", "crit"} =>
               /\ a.m = "no" /\ a.i \in 0..(Size(a.n) - 1) /\ a.n \in Names
               /\ Doing(a) = Next1(a.n, a.i)
         /\ Doing(a)[1] = "user" => a.m = "no" /\ a.i = Size(a.n) /\ a.n \in {"call", "forkret"}
<1>1. a.m \in Stages /\ a.i \in 0..Size(a.n) /\ a.n \in Names /\ Size(a.n) \in 1..12
  BY CodeSeq DEF At, Place
<1>2. CASE a.m = "no" /\ a.i = Size(a.n)
  <2>1. Doing(a) = <<"user">>
    BY <1>2 DEF Doing
  <2>2. a.n \in {"call", "forkret"}
    <3>1. a.n \in Handlers => a.i < Size(a.n)
      BY <1>2, Zenon DEF At, Fits
    <3>2. a.n = "turn" => a.i < 4 /\ Size(a.n) = 5
      BY DEF At, Size
    <3> QED
      BY <1>1, <1>2, <3>1, <3>2 DEF Names, Bases
  <2> QED
    BY <1>2, <2>1, <2>2
<1>3. CASE a.m = "no" /\ a.i # Size(a.n)
  <2>1. a.i \in 0..(Size(a.n) - 1)
    BY <1>1, <1>3
  <2>2. Doing(a) = Next1(a.n, a.i)
    BY <1>3 DEF Doing
  <2>3. Follows(a.n, a.i)
    BY <1>1, <2>1, Discipline
  <2>4. Next1(a.n, a.i)[1] \in {"acquire", "release", "sched", "pick", "sti", "iret", "sleeping",
                             "ready", "wakeup", "work", "crit"}
    BY <2>3 DEF Follows
  <2> QED
    BY <1>1, <1>3, <2>1, <2>2, <2>4
<1>4. CASE a.m # "no"
  BY <1>1, <1>4 DEF Doing, Stages
<1> QED
  BY <1>2, <1>3, <1>4

\* What a step of CPU c leaves of each lock: as it is, taken, or given back, and
\* the same for the lock's cpu.
LockMove(c, a, b) == \A l \in Locks :
    /\ \/ (l \in Held(b) <=> l \in Held(a)) /\ locked'[l] = locked[l]
       \/ l \in Held(b) /\ locked[l] = FALSE /\ locked'[l] = TRUE
       \/ l \notin Held(b) /\ l \in Held(a) /\ locked'[l] = FALSE
    /\ \/ (l \in Owned(b) <=> l \in Owned(a)) /\ lkcpu'[l] = lkcpu[l]
       \/ l \in Owned(b) /\ l \in Held(a) /\ lkcpu'[l] = c
       \/ l \notin Owned(b) /\ l \in Owned(a) /\ lkcpu'[l] = NoCpu
LockTypes == locked \in [Locks -> BOOLEAN] /\ lkcpu \in [Locks -> Cpus \cup {NoCpu}]

\* CPU c, running x, becomes r, and x comes to place b.
Moves(at, c, x, b, r) ==
    /\ x = cpu[c].run /\ At(x, b)
    /\ k' = [k EXCEPT ![x] = Rest(b)]
    /\ cpu' = [cpu EXCEPT ![c] = r]
    /\ r \in CpuRec(c)
    /\ LockTypes'
StMove(c) == /\ st' \in [Tasks -> {"RUNNABLE", "RUNNING", "SLEEPING"}]
             /\ \A t \in Tasks : (\E d \in Cpus : d # c /\ cpu[d].run = t) =>
                                    (st'[t] # "RUNNING" <=> st[t] # "RUNNING")

LEMMA OwnedHeld ==
  ASSUME NEW a
  PROVE  Owned(a) \subseteq Held(a)
BY Zenon DEF Owned

\* A step after which the same context runs on, at place b.
LEMMA Move ==
  ASSUME NEW at \in [Contexts -> Place], Good(at), NEW c \in Cpus, NEW x, NEW b, NEW r,
         Moves(at, c, x, b, r), r.run = x, Suits(r, b),
         StMove(c), x \in Tasks => (st'[x] # "RUNNING" <=> Leaving(b)),
         LockMove(c, at[x], b)
  PROVE  [at EXCEPT ![x] = b] \in [Contexts -> Place] /\ Good([at EXCEPT ![x] = b])'
<1> DEFINE bt == [at EXCEPT ![x] = b]
<1>1. x \in Contexts /\ b \in Place
  BY Where DEF Moves, At
<1>2. /\ bt \in [Contexts -> Place] /\ bt[x] = b
      /\ \A y \in Contexts : y # x => bt[y] = at[y]
  BY <1>1
<1>3. cpu = [d \in Cpus |-> cpu[d]] /\ k = [y \in Contexts |-> k[y]]
  BY DEF Good
<1>4. /\ cpu' = [d \in Cpus |-> cpu'[d]] /\ k' = [y \in Contexts |-> k'[y]]
      /\ cpu'[c] = r /\ k'[x] = Rest(b)
      /\ \A d \in Cpus : d # c => cpu'[d] = cpu[d]
      /\ \A y \in Contexts : y # x => k'[y] = k[y]
  BY <1>1, <1>3 DEF Moves
<1>5. \A d \in Cpus : /\ cpu'[d].run = cpu[d].run /\ cpu[d].run \in Contexts
                      /\ d # c => cpu[d].run # x /\ bt[cpu[d].run] = at[cpu[d].run]
                      /\ d = c => bt[cpu[d].run] = b
  <2> TAKE d \in Cpus
  <2>1. cpu[d].run \in Contexts /\ x = cpu[c].run
    BY Where DEF Moves
  <2>2. cpu'[d].run = cpu[d].run
    BY <1>4, <2>1
  <2>3. d # c => cpu[d].run # x
    BY <2>1, Zenon DEF Good, OneInv
  <2> HIDE DEF bt
  <2> QED
    BY <1>2, <2>1, <2>2, <2>3, Zenon
<1> HIDE DEF bt
<1>6. CodeInv(bt)'
  BY <1>1, <1>2, <1>4 DEF CodeInv, Good, Moves
<1>7. CpuInv(bt)'
  BY <1>4, <1>5 DEF CpuInv, Good, Moves
<1>8. OneInv'
  BY <1>5 DEF OneInv, Good
<1>9. LeftInv(bt)'
  <2> SUFFICES ASSUME NEW y \in Contexts, \A d \in Cpus : cpu'[d].run # y
               PROVE  Left(y, bt[y])
    BY DEF LeftInv
  <2>1. \A d \in Cpus : cpu[d].run # y
    BY <1>5
  <2>2. y # x
    BY <2>1 DEF Moves
  <2> QED
    BY <1>2, <2>1, <2>2 DEF LeftInv, Good
<1>10. StInv(bt)'
  <2> SUFFICES ASSUME NEW d \in Cpus, cpu'[d].run \in Tasks
               PROVE  st'[cpu'[d].run] # "RUNNING" <=> Leaving(bt[cpu'[d].run])
    BY DEF StInv, StMove
  <2>1. CASE d = c
    BY <1>5, <2>1 DEF Moves
  <2>2. CASE d # c
    <3> DEFINE t == cpu[d].run
    <3>1. t \in Tasks /\ cpu'[d].run = t /\ bt[cpu'[d].run] = at[t]
      BY <1>5, <2>2, Zenon
    <3>2. st'[t] # "RUNNING" <=> st[t] # "RUNNING"
      BY <2>2, <3>1, Zenon DEF StMove
    <3>3. st[t] # "RUNNING" <=> Leaving(at[t])
      BY <3>1, ZenonT(60) DEF StInv, Good
    <3> QED
      BY <3>1, <3>2, <3>3, Zenon
  <2> QED
    BY <2>1, <2>2
<1>11. LockInv(bt)'
  <2> SUFFICES ASSUME NEW l \in Locks
               PROVE  /\ locked'[l] = TRUE => \E d \in Cpus : l \in Held(bt[cpu'[d].run])
                      /\ locked'[l] = FALSE => \A d \in Cpus : l \notin Held(bt[cpu'[d].run])
                      /\ \A d, e \in Cpus : l \in Held(bt[cpu'[d].run]) /\ l \in Held(bt[cpu'[e].run]) => d = e
                      /\ \A d \in Cpus : lkcpu'[l] = d <=> l \in Owned(bt[cpu'[d].run])
    BY Zenon DEF LockInv
  <2> DEFINE H == [d \in Cpus |-> Held(at[cpu[d].run])]
             G == [d \in Cpus |-> Owned(at[cpu[d].run])]
             HH == [d \in Cpus |-> Held(bt[cpu'[d].run])]
             GG == [d \in Cpus |-> Owned(bt[cpu'[d].run])]
  <2>1. /\ locked[l] = TRUE => \E d \in Cpus : l \in H[d]
        /\ locked[l] = FALSE => \A d \in Cpus : l \notin H[d]
        /\ \A d, e \in Cpus : l \in H[d] /\ l \in H[e] => d = e
        /\ \A d \in Cpus : lkcpu[l] = d <=> l \in G[d]
        /\ locked[l] \in BOOLEAN /\ locked'[l] \in BOOLEAN
    BY DEF Good, LockInv, Moves, LockTypes
  <2>2. \A d \in Cpus : d # c => HH[d] = H[d] /\ GG[d] = G[d]
    BY <1>5, Zenon
  <2>3. /\ \/ (l \in HH[c] <=> l \in H[c]) /\ locked'[l] = locked[l]
           \/ l \in HH[c] /\ locked[l] = FALSE /\ locked'[l] = TRUE
           \/ l \notin HH[c] /\ l \in H[c] /\ locked'[l] = FALSE
        /\ \/ (l \in GG[c] <=> l \in G[c]) /\ lkcpu'[l] = lkcpu[l]
           \/ l \in GG[c] /\ l \in H[c] /\ lkcpu'[l] = c
           \/ l \notin GG[c] /\ l \in G[c] /\ lkcpu'[l] = NoCpu
    <3>1. HH[c] = Held(b) /\ GG[c] = Owned(b) /\ H[c] = Held(at[x]) /\ G[c] = Owned(at[x])
      BY <1>5, Zenon DEF Moves
    <3> QED
      BY <3>1, Zenon DEF LockMove
  <2>4. \A d \in Cpus : G[d] \subseteq H[d]
    BY OwnedHeld, Zenon
  <2> SUFFICES /\ locked'[l] = TRUE => \E d \in Cpus : l \in HH[d]
               /\ locked'[l] = FALSE => \A d \in Cpus : l \notin HH[d]
               /\ \A d, e \in Cpus : l \in HH[d] /\ l \in HH[e] => d = e
               /\ \A d \in Cpus : lkcpu'[l] = d <=> l \in GG[d]
    BY Zenon
  <2> HIDE DEF H, G, HH, GG
  <2>5. NoCpu \notin Cpus
    BY SpinAssumption
  <2>6. /\ locked'[l] = TRUE => \E d \in Cpus : l \in HH[d]
        /\ locked'[l] = FALSE => \A d \in Cpus : l \notin HH[d]
    BY <2>1, <2>2, <2>3
  <2>7. \A d, e \in Cpus : l \in HH[d] /\ l \in HH[e] => d = e
    BY <2>1, <2>2, <2>3
  <2>8. \A d \in Cpus : lkcpu'[l] = d <=> l \in GG[d]
    BY <2>1, <2>2, <2>3, <2>4, <2>5
  <2> QED
    BY <2>6, <2>7, <2>8
<1> QED
  BY <1>2, <1>4, <1>6, <1>7, <1>8, <1>9, <1>10, <1>11, ZenonT(60) DEF Good, Moves, LockTypes, bt

\* y can go on where x is left at place b, on a CPU that becomes r.
GoesOn(at, x, y, b, r) ==
    /\ y \in Contexts /\ r.run = y /\ y # x /\ \A d \in Cpus : cpu[d].run # y
    /\ Left(x, b) /\ Suits(r, at[y])
    /\ y \in Tasks => (st'[y] # "RUNNING" <=> Leaving(at[y]))
    /\ locked' = locked /\ lkcpu' = lkcpu
    /\ Held(at[y]) = Held(at[x]) /\ Owned(at[y]) = Owned(at[x])

\* swtch: CPU c leaves x at place b and goes on with y where that was left.
LEMMA Switch ==
  ASSUME NEW at \in [Contexts -> Place], Good(at), NEW c \in Cpus, NEW x, NEW b, NEW r, NEW y,
         Moves(at, c, x, b, r), GoesOn(at, x, y, b, r), StMove(c)
  PROVE  [at EXCEPT ![x] = b] \in [Contexts -> Place] /\ Good([at EXCEPT ![x] = b])'
<1> DEFINE bt == [at EXCEPT ![x] = b]
<1>0. /\ y \in Contexts /\ r.run = y /\ y # x /\ \A d \in Cpus : cpu[d].run # y
      /\ Left(x, b) /\ Suits(r, at[y])
      /\ y \in Tasks => (st'[y] # "RUNNING" <=> Leaving(at[y]))
      /\ locked' = locked /\ lkcpu' = lkcpu
      /\ Held(at[y]) = Held(at[x]) /\ Owned(at[y]) = Owned(at[x])
  BY ZenonT(60) DEF GoesOn
<1>1. x \in Contexts /\ b \in Place /\ x = cpu[c].run
  BY Where DEF Moves, At
<1>2. /\ bt \in [Contexts -> Place] /\ bt[x] = b
      /\ \A z \in Contexts : z # x => bt[z] = at[z]
  BY <1>1
<1>3. cpu = [d \in Cpus |-> cpu[d]] /\ k = [z \in Contexts |-> k[z]]
  BY DEF Good
<1>4. /\ cpu' = [d \in Cpus |-> cpu'[d]] /\ k' = [z \in Contexts |-> k'[z]]
      /\ cpu'[c] = r /\ k'[x] = Rest(b)
      /\ \A d \in Cpus : d # c => cpu'[d] = cpu[d]
      /\ \A z \in Contexts : z # x => k'[z] = k[z]
  BY <1>1, <1>3 DEF Moves
<1> HIDE DEF bt
<1>5. ASSUME NEW d \in Cpus
      PROVE  /\ d # c => /\ cpu'[d].run = cpu[d].run /\ cpu[d].run \in Contexts
                         /\ cpu[d].run # x /\ bt[cpu[d].run] = at[cpu[d].run]
             /\ d = c => cpu'[d].run = y /\ bt[y] = at[y]
  <2>1. cpu[d].run \in Contexts
    BY Where
  <2>2. d # c => cpu[d].run # x
    BY <1>1, Zenon DEF Good, OneInv
  <2> QED
    BY <1>0, <1>2, <1>4, <2>1, <2>2, ZenonT(60)
<1>6. CodeInv(bt)'
  BY <1>1, <1>2, <1>4 DEF CodeInv, Good, Moves
<1>7. CpuInv(bt)'
  <2> SUFFICES ASSUME NEW d \in Cpus
               PROVE  cpu'[d] \in CpuRec(d) /\ Suits(cpu'[d], bt[cpu'[d].run])
    BY Zenon DEF CpuInv
  <2>1. CASE d = c
    BY <1>0, <1>4, <1>5, <2>1, Zenon DEF Moves
  <2>2. CASE d # c
    <3>1. cpu[d] \in CpuRec(d) /\ Suits(cpu[d], at[cpu[d].run])
      BY Zenon DEF Good, CpuInv
    <3>2. cpu'[d] = cpu[d] /\ bt[cpu[d].run] = at[cpu[d].run]
      BY <1>4, <1>5, <2>2
    <3> QED
      BY <3>1, <3>2, Zenon
  <2> QED
    BY <2>1, <2>2
<1>8. OneInv'
  <2> SUFFICES ASSUME NEW d \in Cpus, NEW e \in Cpus, cpu'[d].run = cpu'[e].run, d # e
               PROVE  FALSE
    BY Zenon DEF OneInv
  <2>1. CASE d # c /\ e # c
    BY <1>5, <2>1 DEF Good, OneInv
  <2>2. CASE d = c \/ e = c
    BY <1>0, <1>5, <2>2
  <2> QED
    BY <2>1, <2>2
<1>9. LeftInv(bt)'
  <2> SUFFICES ASSUME NEW z \in Contexts, \A d \in Cpus : cpu'[d].run # z
               PROVE  Left(z, bt[z])
    BY DEF LeftInv
  <2>1. CASE z = x
    BY <1>0, <1>2, <2>1, Zenon
  <2>2. CASE z # x
    <3>1. \A d \in Cpus : cpu[d].run # z
      BY <1>0, <1>1, <1>5, <2>2, Zenon
    <3> QED
      BY <1>2, <2>2, <3>1, Zenon DEF LeftInv, Good
  <2> QED
    BY <2>1, <2>2
<1>10. StInv(bt)'
  <2> SUFFICES ASSUME NEW d \in Cpus, cpu'[d].run \in Tasks
               PROVE  st'[cpu'[d].run] # "RUNNING" <=> Leaving(bt[cpu'[d].run])
    BY DEF StInv, StMove
  <2>1. CASE d = c
    BY <1>0, <1>5, <2>1, Zenon
  <2>2. CASE d # c
    <3> DEFINE t == cpu[d].run
    <3>1. t \in Tasks /\ cpu'[d].run = t /\ bt[cpu'[d].run] = at[t]
      BY <1>5, <2>2, Zenon
    <3>2. st'[t] # "RUNNING" <=> st[t] # "RUNNING"
      BY <2>2, <3>1, Zenon DEF StMove
    <3>3. st[t] # "RUNNING" <=> Leaving(at[t])
      BY <3>1, Zenon DEF StInv, Good
    <3> QED
      BY <3>1, <3>2, <3>3, Zenon
  <2> QED
    BY <2>1, <2>2
<1>11. LockInv(bt)'
  <2>1. ASSUME NEW d \in Cpus
        PROVE  /\ Held(bt[cpu'[d].run]) = Held(at[cpu[d].run])
               /\ Owned(bt[cpu'[d].run]) = Owned(at[cpu[d].run])
    BY <1>0, <1>1, <1>5, Zenon
  <2>2. LockInv(at)
    BY DEF Good
  <2> QED
    BY <1>0, <2>1, <2>2, ZenonT(60) DEF LockInv
<1> QED
  BY <1>2, <1>4, <1>6, <1>7, <1>8, <1>9, <1>10, <1>11, Zenon DEF Good, Moves, LockTypes, bt

(***************************************************************************)
(* Locks and CPUs at a place.                                              *)
(***************************************************************************)
LEMMA PushRec ==
  ASSUME NEW c, NEW r \in CpuRec(c)
  PROVE  /\ pushcli(r) \in CpuRec(c)
         /\ pushcli(r).ie = FALSE /\ pushcli(r).ncli = r.ncli + 1 /\ pushcli(r).run = r.run
         /\ r.ncli = 0 => pushcli(r).intena = r.ie
         /\ r.ncli # 0 => pushcli(r).intena = r.intena
<1>1. r.ie \in BOOLEAN /\ r.intena \in BOOLEAN /\ r.ncli \in Nat /\ r.ncli + 1 \in Nat
  BY DEF CpuRec
<1> DEFINE g == IF r.ncli = 0 THEN r.ie ELSE r.intena
<1>2. g \in BOOLEAN
  BY <1>1, Zenon
<1>3. pushcli(r) = [r EXCEPT !.ie = FALSE, !.intena = g, !.ncli = r.ncli + 1]
  BY Zenon DEF pushcli
<1>4. (r.ncli = 0 => g = r.ie) /\ (r.ncli # 0 => g = r.intena)
  BY Zenon
<1> HIDE DEF g
<1>5. LET s == [r EXCEPT !.ie = FALSE, !.intena = g, !.ncli = r.ncli + 1]
      IN  s \in CpuRec(c) /\ s.ie = FALSE /\ s.intena = g /\ s.ncli = r.ncli + 1 /\ s.run = r.run
  BY <1>1, <1>2, Zenon DEF CpuRec
<1> QED
  BY <1>3, <1>4, <1>5, Zenon

LEMMA PopRec ==
  ASSUME NEW c, NEW r \in CpuRec(c), r.ncli # 0
  PROVE  /\ popcli(r) \in CpuRec(c)
         /\ popcli(r).ncli = r.ncli - 1 /\ popcli(r).run = r.run /\ popcli(r).intena = r.intena
         /\ r.ncli = 1 => popcli(r).ie = r.intena
         /\ r.ncli # 1 => popcli(r).ie = FALSE
<1>1. r.intena \in BOOLEAN /\ r.ncli - 1 \in Nat
  BY DEF CpuRec
<1> DEFINE f == (r.ncli = 1 /\ r.intena)
<1>2. f \in BOOLEAN /\ (r.ncli = 1 => f = r.intena) /\ (r.ncli # 1 => f = FALSE)
  BY <1>1, Zenon
<1>3. popcli(r) = [r EXCEPT !.ncli = r.ncli - 1, !.ie = f]
  BY Zenon DEF popcli
<1> HIDE DEF f
<1>4. LET s == [r EXCEPT !.ncli = r.ncli - 1, !.ie = f]
      IN  s \in CpuRec(c) /\ s.ie = f /\ s.intena = r.intena /\ s.ncli = r.ncli - 1 /\ s.run = r.run
  BY <1>1, <1>2, Zenon DEF CpuRec
<1> QED
  BY <1>2, <1>3, <1>4, Zenon

\* What swtch, sti and an interrupt change of a CPU.
RunOn(r, y) == [r EXCEPT !.run = y]

LEMMA RunRec ==
  ASSUME NEW c, NEW r \in CpuRec(c), NEW y, y \in Tasks \/ y = c
  PROVE  /\ RunOn(r, y) \in CpuRec(c) /\ RunOn(r, y).run = y /\ RunOn(r, y).ncli = r.ncli
         /\ RunOn(r, y).ie = r.ie /\ RunOn(r, y).intena = r.intena
BY Zenon DEF CpuRec, RunOn

SetFlag(r, f) == [r EXCEPT !.ie = f]

LEMMA FlagRec ==
  ASSUME NEW c, NEW r \in CpuRec(c), NEW f \in BOOLEAN
  PROVE  /\ SetFlag(r, f) \in CpuRec(c) /\ SetFlag(r, f).run = r.run /\ SetFlag(r, f).ncli = r.ncli
         /\ SetFlag(r, f).ie = f /\ SetFlag(r, f).intena = r.intena
BY Zenon DEF CpuRec, SetFlag

LEMMA IntenaRec ==
  ASSUME NEW c, NEW r \in CpuRec(c), NEW f \in BOOLEAN
  PROVE  /\ Resumed(r, f) \in CpuRec(c) /\ Resumed(r, f).run = r.run
         /\ Resumed(r, f).ncli = r.ncli /\ Resumed(r, f).ie = r.ie
         /\ Resumed(r, f).intena = f
BY Zenon DEF CpuRec, Resumed

\* Another place of the same program.
Goto(a, i, m, l) == [n |-> a.n, i |-> i, m |-> m, l |-> l, q |-> a.q, j |-> a.j]

LEMMA GotoAt ==
  ASSUME NEW x, NEW a, At(x, a), NEW i \in 0..Size(a.n), NEW m \in Stages, NEW l \in Locks,
         a.n = "turn" => i < 4, Fits(Goto(a, i, m, l))
  PROVE  At(x, Goto(a, i, m, l))
<1>1. /\ a.n \in Names /\ a.q \in Bases /\ a.j \in 0..12 /\ i \in 0..12
  BY CodeSeq DEF At, Place
<1>2. Goto(a, i, m, l) \in Place
  BY <1>1, Zenon DEF Goto, Place
<1> QED
  BY <1>2, Zenon DEF At, Goto

LEMMA GotoFields ==
  ASSUME NEW a, NEW i, NEW m, NEW l
  PROVE  /\ Goto(a, i, m, l).n = a.n /\ Goto(a, i, m, l).i = i /\ Goto(a, i, m, l).m = m
         /\ Goto(a, i, m, l).l = l
BY DEF Goto

LEMMA GotoRest ==
  ASSUME NEW a, NEW i, NEW m, NEW l
  PROVE  Rest(Goto(a, i, m, l)) = Micro(a.n, m, l) \o After(a.n, i, a.q, a.j)
BY DEF Rest, Goto

\* What a stage says about the operation that has been begun.
LEMMA StageAt ==
  ASSUME NEW x, NEW a, At(x, a)
  PROVE  /\ a.m # "no" => a.i > 0 /\ (a.n \in Handlers => a.i < Size(a.n))
         /\ a.m \in {"xchg", "own"} => /\ a.l \in Holds(a.n, a.i) /\ (a.n = "turn" => a.i = 3)
         /\ a.m \in {"disown", "unlock", "popcli"} =>
               /\ a.l \notin Holds(a.n, a.i) /\ (a.n = "turn" => a.i = 1)
         /\ a.m = "resume" => /\ Holds(a.n, a.i) = {"P"}
                              /\ \/ a.n = "call" /\ a.i = 7
                                 \/ a.n = "tick" /\ a.i = 9
         /\ a.m \notin {"no", "resume"} => ~Leaving(Goto(a, a.i, "no", a.l))
<1>1. a.m \in Stages /\ a.i \in 0..Size(a.n) /\ a.n \in Names /\ Size(a.n) \in 1..12 /\ a.l \in Locks
  BY CodeSeq DEF At, Place
<1>2. CASE a.m = "no"
  BY <1>2
<1>3. CASE a.m # "no"
  <2> DEFINE i == a.i - 1
  <2>1. /\ a.i > 0
        /\ a.m \in {"xchg", "own"} => Code(a.n)[a.i] = <<"acquire", a.l>>
        /\ a.m \in {"disown", "unlock", "popcli"} => Code(a.n)[a.i] = <<"release", a.l>>
        /\ a.m = "resume" => Code(a.n)[a.i] = <<"sched">>
    BY <1>1, <1>3, Zenon DEF At, Fits, Stages
  <2>2. i \in 0..(Size(a.n) - 1) /\ i + 1 = a.i
    BY <1>1, <2>1
  <2>3. Next1(a.n, i) = Code(a.n)[a.i]
    BY <2>2 DEF Next1
  <2>31. a.n = "turn" => a.i < 4
    BY DEF At
  <2> HIDE DEF i
  <2>4. CASE a.m \in {"xchg", "own"}
    <3>1. /\ Next1(a.n, i) = <<"acquire", a.l>> /\ Next1(a.n, i)[1] = "acquire"
          /\ Next1(a.n, i)[2] = a.l
      BY <2>1, <2>3, <2>4
    <3>2. /\ Holds(a.n, a.i) = Holds(a.n, i) \cup {a.l}
          /\ a.n \in Handlers => a.i < Size(a.n)
          /\ a.n = "turn" => i = 2
          /\ Stays(a.n, a.i)
      BY <1>1, <2>2, <3>1, AcquireOp
    <3> QED
      BY <2>1, <2>2, <2>4, <3>2 DEF Stays, Leaving, Goto
  <2>5. CASE a.m \in {"disown", "unlock", "popcli"}
    <3>1. /\ Next1(a.n, i) = <<"release", a.l>> /\ Next1(a.n, i)[1] = "release"
          /\ Next1(a.n, i)[2] = a.l
      BY <2>1, <2>3, <2>5
    <3>2. /\ Holds(a.n, a.i) = Holds(a.n, i) \ {a.l}
          /\ a.n \in Handlers => a.i < Size(a.n)
          /\ a.n = "turn" => i \in {0, 4}
          /\ Stays(a.n, a.i)
      BY <1>1, <2>2, <3>1, ReleaseOp
    <3> QED
      BY <2>1, <2>2, <2>31, <2>5, <3>2 DEF Stays, Leaving, Goto
  <2>6. CASE a.m = "resume"
    <3>1. Next1(a.n, i)[1] = "sched"
      BY <2>1, <2>3, <2>6
    <3>2. /\ Holds(a.n, a.i) = {"P"}
          /\ a.n \in Handlers => a.i < Size(a.n)
          /\ \/ a.n = "call" /\ i = 6
             \/ a.n = "tick" /\ i = 8
      BY <1>1, <2>2, <3>1, SchedOp
    <3> QED
      BY <2>1, <2>2, <2>6, <3>2
  <2> QED
    BY <1>1, <1>3, <2>4, <2>5, <2>6 DEF Stages
<1> QED
  BY <1>2, <1>3

LEMMA Depths ==
  ASSUME NEW h \in SUBSET Locks, NEW l \in Locks
  PROVE  /\ Depth(h) \in Nat /\ (Depth(h) = 0 <=> h = {}) /\ Depth({"P"}) = 1 /\ Depth({}) = 0
         /\ l \notin h => Depth(h \cup {l}) = Depth(h) + 1
         /\ l \in h => Depth(h \ {l}) = Depth(h) - 1
BY DEF Depth, One, Locks

\* A step after which the same process runs on, and no process changes its state.
LEMMA Act ==
  ASSUME NEW at \in [Contexts -> Place], Good(at), NEW c \in Cpus, NEW b, NEW r, NEW ops,
         At(cpu[c].run, b), Then(c, ops), ops \o Tail(Rest(at[cpu[c].run])) = Rest(b),
         cpu' = [cpu EXCEPT ![c] = r], r \in CpuRec(c), r.run = cpu[c].run, Suits(r, b),
         st' = st, ~Leaving(at[cpu[c].run]), ~Leaving(b),
         LockTypes', LockMove(c, at[cpu[c].run], b), fault' = "no"
  PROVE  SpinInv'
<1>0. PICK x : x = cpu[c].run
  OBVIOUS
<1>1. x \in Contexts /\ k[x] = Rest(at[x])
  BY <1>0, Where, Zenon
<1>2. k' = [k EXCEPT ![x] = Rest(b)]
  <2>1. k' = [k EXCEPT ![x] = ops \o Tail(k[x])]
    BY <1>0, Zenon DEF Then, Run
  <2> QED
    BY <1>1, <2>1, <1>0, Zenon
<1>3. Moves(at, c, x, b, r)
  BY <1>0, <1>2, ZenonT(60) DEF Moves
<1>4. StMove(c)
  BY DEF StMove, Good, StInv
<1>5. x \in Tasks => (st'[x] # "RUNNING" <=> Leaving(b))
  <2>1. x \in Tasks => (st[x] # "RUNNING" <=> Leaving(at[x]))
    BY <1>0, Zenon DEF Good, StInv
  <2> QED
    BY <1>0, <2>1, Zenon
<1>6. Suits(r, b) /\ r.run = x /\ LockMove(c, at[x], b)
  BY <1>0, Zenon
<1>7. [at EXCEPT ![x] = b] \in [Contexts -> Place] /\ Good([at EXCEPT ![x] = b])'
  BY <1>3, <1>4, <1>5, <1>6, Move, Zenon
<1> QED
  BY <1>7, ZenonT(60) DEF SpinInv

LEMMA SameLocks ==
  ASSUME NEW at, Good(at), NEW c, NEW a, NEW b, UNCHANGED <<locked, lkcpu>>,
         Held(b) = Held(a), Owned(b) = Owned(a)
  PROVE  LockTypes' /\ LockMove(c, a, b)
BY Zenon DEF LockTypes, LockMove, Good

\* What is known of a place at which operation o of a program comes next.
LEMMA OpAt ==
  ASSUME NEW at, Good(at), NEW c \in Cpus, NEW v,
         v \in {"acquire", "release", "sched", "pick", "sti", "iret", "sleeping", "ready", "wakeup",
                "work", "crit"}, Op(c)[1] = v
  PROVE  LET x == cpu[c].run
             a == at[x]
         IN  /\ At(x, a) /\ x \in Contexts /\ cpu[c] \in CpuRec(c) /\ Suits(cpu[c], a)
             /\ a.m = "no" /\ a.n \in Names /\ a.i \in 0..(Size(a.n) - 1) /\ Size(a.n) \in 1..12
             /\ Op(c) = Next1(a.n, a.i) /\ Follows(a.n, a.i) /\ MidOp(a.n, a.i)
             /\ a.n = "turn" => a.i < 4
             /\ a.l \in Locks /\ a.i + 1 \in 0..Size(a.n)
             /\ Tail(Rest(a)) = After(a.n, a.i + 1, a.q, a.j)
             /\ Held(a) = Holds(a.n, a.i) /\ Owned(a) = Holds(a.n, a.i)
             /\ Nesting(a) = Depth(Holds(a.n, a.i)) + 0
<1> DEFINE x == cpu[c].run
           a == at[x]
<1>1. At(x, a) /\ x \in Contexts /\ cpu[c] \in CpuRec(c) /\ Suits(cpu[c], a)
  BY Where, Zenon
<1>2. Op(c) = Doing(a)
  BY OpIs, Zenon
<1> HIDE DEF x, a
<1>3. a.m = "no" /\ a.n \in Names /\ a.i \in 0..(Size(a.n) - 1) /\ Doing(a) = Next1(a.n, a.i)
  BY <1>1, <1>2, VerbAt, Zenon
<1>4. Follows(a.n, a.i) /\ MidOp(a.n, a.i)
  BY <1>3, Discipline, Zenon
<1>5. /\ Size(a.n) \in 1..12 /\ a.l \in Locks /\ a.i + 1 \in 0..Size(a.n) /\ a.i < Size(a.n)
      /\ a.n = "turn" => a.i < 4
  BY <1>1, <1>3, CodeSeq DEF At, Place
<1>6. Tail(Rest(a)) = After(a.n, a.i + 1, a.q, a.j)
  BY <1>1, <1>3, <1>5, PlaceAhead, Zenon DEF Ahead
<1>7. /\ Held(a) = Holds(a.n, a.i) /\ Owned(a) = Holds(a.n, a.i)
      /\ Nesting(a) = Depth(Holds(a.n, a.i)) + 0
  BY <1>3 DEF Held, Owned, Nesting
<1> QED
  BY <1>1, <1>2, <1>3, <1>4, <1>5, <1>6, <1>7, Zenon DEF x, a

\* The same for a place at a stage of acquire, release or sched.
LEMMA StageOp ==
  ASSUME NEW at, Good(at), NEW c \in Cpus, NEW v,
         v \in {"xchg", "own", "disown", "unlock", "popcli", "resume"}, Op(c)[1] = v
  PROVE  LET x == cpu[c].run
             a == at[x]
         IN  /\ At(x, a) /\ x \in Contexts /\ cpu[c] \in CpuRec(c) /\ Suits(cpu[c], a)
             /\ a.m = v /\ a.n \in Names /\ a.i \in 0..Size(a.n) /\ a.l \in Locks
             /\ v \in {"xchg", "own", "disown", "unlock"} => Op(c)[2] = a.l
             /\ a.n = "turn" => a.i < 4
             /\ a.n \in Handlers => a.i < Size(a.n)
             /\ ~Leaving(a)
<1> DEFINE x == cpu[c].run
           a == at[x]
<1>1. At(x, a) /\ x \in Contexts /\ cpu[c] \in CpuRec(c) /\ Suits(cpu[c], a)
  BY Where, Zenon
<1>2. Op(c) = Doing(a)
  BY OpIs, Zenon
<1> HIDE DEF x, a
<1>3. a.m = v /\ (v \in {"xchg", "own", "disown", "unlock"} => Op(c)[2] = a.l)
  BY <1>1, <1>2, VerbAt
<1>4. a.n \in Names /\ a.i \in 0..Size(a.n) /\ a.l \in Locks /\ (a.n = "turn" => a.i < 4)
  BY <1>1 DEF At, Place
<1>5. a.m # "no"
  BY <1>3
<1>6. a.n \in Handlers => a.i < Size(a.n)
  BY <1>1, <1>5, StageAt, Zenon
<1>7. ~Leaving(a)
  BY <1>5, Zenon DEF Leaving
<1> QED
  BY <1>1, <1>2, <1>3, <1>4, <1>6, <1>7, Zenon DEF x, a

LEMMA HoldsLocks ==
  ASSUME NEW n, NEW i
  PROVE  Holds(n, i) \in SUBSET Locks
BY DEF Holds

\* A lock's fields, as seen from the CPU.
LEMMA LockAt ==
  ASSUME NEW at, Good(at), NEW c \in Cpus, NEW l \in Locks
  PROVE  /\ lkcpu[l] = c <=> l \in Owned(at[cpu[c].run])
         /\ l \in Held(at[cpu[c].run]) => locked[l] = TRUE
<1>1. /\ lkcpu[l] = c <=> l \in Owned(at[cpu[c].run])
      /\ locked[l] = FALSE => l \notin Held(at[cpu[c].run])
  BY Zenon DEF Good, LockInv
<1>2. locked[l] \in BOOLEAN
  BY DEF Good
<1> QED
  BY <1>1, <1>2, Zenon

LEMMA OwnerHolds ==
  ASSUME NEW at, Good(at), NEW c \in Cpus, NEW l \in Locks, l \in Owned(at[cpu[c].run])
  PROVE  holding(c, l)
<1>1. l \in Held(at[cpu[c].run])
  BY OwnedHeld
<1>2. lkcpu[l] = c
  BY Zenon DEF Good, LockInv
<1>3. locked[l] = TRUE
  BY <1>1, LockAt, Zenon
<1> QED
  BY <1>2, <1>3, Zenon DEF holding

\* acquire: no program takes a lock that its CPU holds, so it does not panic.
LEMMA StepAcquire ==
  ASSUME SpinInv, NEW c \in Cpus, acquire(c)
  PROVE  SpinInv'
<1>1. PICK at \in [Contexts -> Place] : Good(at)
  BY DEF SpinInv
<1>2. PICK a : a = at[cpu[c].run]
  OBVIOUS
<1>3. PICK l : l = Op(c)[2]
  OBVIOUS
<1>4. PICK r : r = cpu[c]
  OBVIOUS
<1>5. Op(c)[1] = "acquire" /\ fault = "no"
  BY DEF acquire, On
<1>6. /\ At(cpu[c].run, a) /\ r \in CpuRec(c) /\ Suits(r, a)
      /\ a.m = "no" /\ a.n \in Names /\ a.i \in 0..(Size(a.n) - 1) /\ a.i + 1 \in 0..Size(a.n)
      /\ Op(c) = Next1(a.n, a.i)
  BY <1>1, <1>2, <1>4, <1>5, OpAt, Zenon
<1>61. Tail(Rest(a)) = After(a.n, a.i + 1, a.q, a.j)
  BY <1>1, <1>2, <1>5, OpAt, Zenon
<1>62. /\ Held(a) = Holds(a.n, a.i) /\ Owned(a) = Holds(a.n, a.i)
       /\ Nesting(a) = Depth(Holds(a.n, a.i)) + 0
  BY <1>1, <1>2, <1>5, OpAt, ZenonT(60)
<1>7. /\ l \in Locks /\ Next1(a.n, a.i) = <<"acquire", l>> /\ l \notin Holds(a.n, a.i)
      /\ Holds(a.n, a.i + 1) = Holds(a.n, a.i) \cup {l}
      /\ a.n \in Handlers => a.i + 1 < Size(a.n)
      /\ a.n = "turn" => a.i = 2
      /\ Stays(a.n, a.i)
  <2>1. Next1(a.n, a.i)[1] = "acquire" /\ Next1(a.n, a.i)[2] = l
    BY <1>3, <1>5, <1>6, Zenon
  <2> QED
    BY <1>6, <2>1, AcquireOp
<1>8. ~holding(c, l)
  <2>1. l \in Locks /\ l \notin Owned(a)
    BY <1>62, <1>7, Zenon
  <2> QED
    BY <1>1, <1>2, <2>1, LockAt, Zenon DEF holding
<1>9. /\ cpu' = [cpu EXCEPT ![c] = pushcli(r)] /\ Then(c, <<<<"xchg", l>>>>)
      /\ UNCHANGED <<locked, lkcpu>> /\ st' = st /\ fault' = "no"
  BY <1>3, <1>4, <1>5, <1>8, Zenon DEF acquire
<1>10. PICK b : b = Goto(a, a.i + 1, "xchg", l)
  OBVIOUS
<1>11. b.n = a.n /\ b.i = a.i + 1 /\ b.m = "xchg" /\ b.l = l
  BY <1>10, GotoFields
<1>12. At(cpu[c].run, b)
  <2>1. Fits(b)
    BY <1>6, <1>7, <1>11 DEF Fits, Next1
  <2>2. a.n = "turn" => a.i + 1 < 4
    BY <1>7
  <2> QED
    BY <1>6, <1>7, <1>10, <2>1, <2>2, GotoAt DEF Stages
<1>13. <<<<"xchg", l>>>> \o Tail(Rest(at[cpu[c].run])) = Rest(b)
  <2>1. Micro(a.n, "xchg", l) = <<<<"xchg", l>>>>
    BY DEF Micro
  <2>2. Rest(b) = <<<<"xchg", l>>>> \o After(a.n, a.i + 1, a.q, a.j)
    BY <1>10, <2>1, GotoRest, ZenonT(60)
  <2> QED
    BY <1>2, <1>61, <2>2, Zenon
<1>14. /\ Held(b) = Held(a) /\ Owned(b) = Owned(a)
       /\ Nesting(b) = Nesting(a) + 1
  <2>1. Held(b) = Holds(a.n, a.i) /\ Owned(b) = Holds(a.n, a.i)
    BY <1>7, <1>11 DEF Held, Owned
  <2>2. Nesting(b) = Depth(Holds(a.n, a.i + 1)) + 0
    BY <1>11 DEF Nesting
  <2>3. Depth(Holds(a.n, a.i + 1)) = Depth(Holds(a.n, a.i)) + 1 /\ Depth(Holds(a.n, a.i)) \in Nat
    <3>1. Holds(a.n, a.i) \in SUBSET Locks
      BY HoldsLocks, ZenonT(60)
    <3> QED
      BY <1>7, <3>1, Depths
  <2> QED
    BY <1>62, <2>1, <2>2, <2>3
<1>15. Suits(pushcli(r), b)
  <2>1. /\ pushcli(r).ie = FALSE /\ pushcli(r).ncli = r.ncli + 1
        /\ r.ncli = 0 => pushcli(r).intena = r.ie
        /\ r.ncli # 0 => pushcli(r).intena = r.intena
    BY <1>6, PushRec, Zenon
  <2>2. r.ncli \in Nat /\ r.ie \in BOOLEAN
    BY <1>6 DEF CpuRec
  <2>3. a.n \in Handlers => a.n \notin Bases
    BY DEF Handlers, Bases
  <2> QED
    BY <1>6, <1>7, <1>11, <1>14, <2>1, <2>2, <2>3 DEF Suits
<1>16. pushcli(r) \in CpuRec(c) /\ pushcli(r).run = cpu[c].run
  BY <1>4, <1>6, PushRec, ZenonT(60)
<1>17. ~Leaving(a) /\ ~Leaving(b)
  BY <1>7, <1>11 DEF Leaving, Stays
<1>18. LockTypes' /\ LockMove(c, at[cpu[c].run], b)
  BY <1>1, <1>2, <1>9, <1>14, SameLocks, ZenonT(60)
<1> QED
  BY <1>1, <1>2, <1>9, <1>12, <1>13, <1>15, <1>16, <1>17, <1>18, Act, ZenonT(60)

\* The next stage of an operation that has been begun.
LEMMA StageNext ==
  ASSUME NEW x, NEW a, At(x, a), NEW m, NEW ops,
         \/ a.m = "xchg" /\ m = "own" /\ ops = <<<<"own", a.l>>>>
         \/ a.m \in {"own", "popcli", "resume"} /\ m = "no" /\ ops = <<>>
         \/ a.m = "disown" /\ m = "unlock" /\ ops = <<>>
         \/ a.m = "unlock" /\ m = "popcli" /\ ops = <<>>
  PROVE  /\ At(x, Goto(a, a.i, m, a.l)) /\ ~Leaving(Goto(a, a.i, m, a.l))
         /\ ops \o Tail(Rest(a)) = Rest(Goto(a, a.i, m, a.l))
<1>1. PICK b : b = Goto(a, a.i, m, a.l)
  OBVIOUS
<1>2. b.n = a.n /\ b.i = a.i /\ b.m = m /\ b.l = a.l
  BY <1>1, GotoFields
<1>3. /\ a.i \in 0..Size(a.n) /\ a.l \in Locks /\ m \in Stages /\ (a.n = "turn" => a.i < 4)
  BY DEF At, Place, Stages
<1>4. a.n \in Handlers => a.i < Size(a.n)
  BY StageAt, Zenon
<1>5. Fits(b)
  <2>1. CASE m = "no"
    BY <1>2, <1>4, <2>1, Zenon DEF Fits
  <2>2. CASE m = "own"
    BY <1>2, <2>2, Zenon DEF At, Fits
  <2>3. CASE m \in {"unlock", "popcli"}
    BY <1>2, <2>3, ZenonT(60) DEF At, Fits
  <2> QED
    BY <2>1, <2>2, <2>3
<1>6. At(x, b)
  BY <1>1, <1>3, <1>5, GotoAt
<1>7. ~Leaving(b)
  <2>1. CASE a.m = "resume"
    <3>1. \/ a.n = "call" /\ a.i = 7
          \/ a.n = "tick" /\ a.i = 9
      BY <2>1, StageAt, Zenon
    <3> QED
      BY <1>2, <3>1 DEF Leaving
  <2>2. CASE a.m = "own" \/ a.m = "popcli"
    <3>1. m = "no" /\ ~Leaving(Goto(a, a.i, "no", a.l))
      BY <2>2, StageAt
    <3> QED
      BY <1>1, <3>1, ZenonT(60)
  <2>3. CASE m # "no"
    BY <1>2, <2>3 DEF Leaving
  <2> QED
    BY <2>1, <2>2, <2>3
<1>8. ops \o Tail(Rest(a)) = Rest(b)
  <2>1. Rest(b) = Micro(a.n, m, a.l) \o Here(a) /\ Rest(b) \in Seq(OpSet)
    <3>1. Rest(b) = Micro(a.n, m, a.l) \o Here(a)
      BY <1>1, GotoRest DEF Here
    <3> QED
      BY <1>6, <3>1, PlaceAhead, ZenonT(60)
  <2>2. CASE m \in {"no", "own"}
    <3>1. Tail(Rest(a)) = Here(a)
      BY <2>2, PlaceAhead, Zenon DEF Ahead
    <3>2. ops = Micro(a.n, m, a.l)
      BY <2>2 DEF Micro
    <3> QED
      BY <2>1, <3>1, <3>2, Zenon
  <2>3. CASE m \in {"unlock", "popcli"}
    <3>1. Tail(Rest(a)) = Micro(a.n, m, a.l) \o Here(a)
      BY <2>3, PlaceAhead DEF Ahead, Micro
    <3>2. ops = <<>>
      BY <2>3
    <3> QED
      BY <2>1, <3>1, <3>2, NilSeq, ZenonT(60)
  <2> QED
    BY <2>2, <2>3
<1> QED
  BY <1>1, <1>6, <1>7, <1>8, Zenon

\* The locks held and owned, and the nesting, at each stage of an operation.
LEMMA HeldIs ==
  ASSUME NEW a
  PROVE  LET h == Holds(a.n, a.i)
         IN  /\ a.m \in {"no", "popcli", "resume"} => Held(a) = h /\ Owned(a) = h
             /\ a.m = "xchg" => Held(a) = h \ {a.l} /\ Owned(a) = h \ {a.l}
             /\ a.m = "own" => Held(a) = h /\ Owned(a) = h \ {a.l}
             /\ a.m = "disown" => Held(a) = h \cup {a.l} /\ Owned(a) = h \cup {a.l}
             /\ a.m = "unlock" => Held(a) = h \cup {a.l} /\ Owned(a) = (h \cup {a.l}) \ {a.l}
             /\ a.m \in {"no", "xchg", "own", "resume"} => Nesting(a) = Depth(h) + 0
             /\ a.m \in {"disown", "unlock", "popcli"} => Nesting(a) = Depth(h) + 1
BY DEF Held, Owned, Nesting

LEMMA SameCpu ==
  ASSUME NEW at, Good(at), NEW c \in Cpus
  PROVE  cpu = [cpu EXCEPT ![c] = cpu[c]]
<1>1. cpu = [d \in Cpus |-> cpu[d]]
  BY DEF Good
<1> QED
  BY <1>1, Zenon

\* acquire's xchg.
LEMMA StepXchg ==
  ASSUME SpinInv, NEW c \in Cpus, acquire_xchg(c)
  PROVE  SpinInv'
<1>1. PICK at \in [Contexts -> Place] : Good(at)
  BY DEF SpinInv
<1>2. PICK a : a = at[cpu[c].run]
  OBVIOUS
<1>3. Op(c)[1] = "xchg" /\ fault = "no"
  BY DEF acquire_xchg, On
<1>4. /\ At(cpu[c].run, a) /\ cpu[c] \in CpuRec(c) /\ Suits(cpu[c], a)
      /\ a.m = "xchg" /\ a.l \in Locks /\ Op(c)[2] = a.l /\ ~Leaving(a)
  BY <1>1, <1>2, <1>3, StageOp, Zenon
<1>5. /\ ~locked[a.l] /\ locked' = [locked EXCEPT ![a.l] = TRUE] /\ Then(c, <<<<"own", a.l>>>>)
      /\ UNCHANGED <<lkcpu, cpu, st, fault>>
  BY <1>4, Zenon DEF acquire_xchg, Taken
<1>6. PICK b : b = Goto(a, a.i, "own", a.l)
  OBVIOUS
<1>7. b.n = a.n /\ b.i = a.i /\ b.m = "own" /\ b.l = a.l
  BY <1>6, GotoFields
<1>8. At(cpu[c].run, b) /\ ~Leaving(b) /\ <<<<"own", a.l>>>> \o Tail(Rest(a)) = Rest(b)
  BY <1>4, <1>6, StageNext, ZenonT(60)
<1>9. /\ Held(b) = Held(a) \cup {a.l} /\ Owned(b) = Owned(a) /\ Nesting(b) = Nesting(a)
  <2>1. a.l \in Holds(a.n, a.i)
    BY <1>4, StageAt
  <2>2. PICK h : h = Holds(a.n, a.i)
    OBVIOUS
  <2>3. /\ Held(a) = h \ {a.l} /\ Owned(a) = h \ {a.l} /\ Nesting(a) = Depth(h) + 0
        /\ Held(b) = h /\ Owned(b) = h \ {a.l} /\ Nesting(b) = Depth(h) + 0
    BY <1>4, <1>7, <2>2, HeldIs, ZenonT(60)
  <2> QED
    BY <2>1, <2>2, <2>3, ZenonT(60)
<1>10. Suits(cpu[c], b)
  BY <1>4, <1>7, <1>9 DEF Suits
<1>11. LockTypes' /\ LockMove(c, a, b)
  <2>1. locked \in [Locks -> BOOLEAN] /\ lkcpu \in [Locks -> Cpus \cup {NoCpu}]
    BY <1>1 DEF Good
  <2>2. LockTypes'
    BY <1>4, <1>5, <2>1 DEF LockTypes
  <2>3. LockMove(c, a, b)
    BY <1>4, <1>5, <1>9, <2>1, Zenon DEF LockMove
  <2> QED
    BY <2>2, <2>3
<1>12. cpu' = [cpu EXCEPT ![c] = cpu[c]]
  BY <1>1, <1>5, SameCpu, Zenon
<1> QED
  BY <1>1, <1>2, <1>3, <1>4, <1>5, <1>8, <1>10, <1>11, <1>12, Act, ZenonT(60)

\* acquire: lk->cpu.
LEMMA StepOwn ==
  ASSUME SpinInv, NEW c \in Cpus, acquire_cpu(c)
  PROVE  SpinInv'
<1>1. PICK at \in [Contexts -> Place] : Good(at)
  BY DEF SpinInv
<1>2. PICK a : a = at[cpu[c].run]
  OBVIOUS
<1>3. Op(c)[1] = "own" /\ fault = "no"
  BY DEF acquire_cpu, On
<1>4. /\ At(cpu[c].run, a) /\ cpu[c] \in CpuRec(c) /\ Suits(cpu[c], a)
      /\ a.m = "own" /\ a.l \in Locks /\ Op(c)[2] = a.l /\ ~Leaving(a)
  BY <1>1, <1>2, <1>3, StageOp, Zenon
<1>5. /\ lkcpu' = [lkcpu EXCEPT ![a.l] = c] /\ Then(c, <<>>)
      /\ UNCHANGED <<locked, cpu, st, fault>>
  BY <1>4, Zenon DEF acquire_cpu
<1>6. PICK b : b = Goto(a, a.i, "no", a.l)
  OBVIOUS
<1>7. b.n = a.n /\ b.i = a.i /\ b.m = "no" /\ b.l = a.l
  BY <1>6, GotoFields
<1>8. At(cpu[c].run, b) /\ ~Leaving(b) /\ <<>> \o Tail(Rest(a)) = Rest(b)
  BY <1>4, <1>6, StageNext, ZenonT(60)
<1>9. /\ Held(b) = Held(a) /\ Owned(b) = Owned(a) \cup {a.l} /\ a.l \in Held(a)
      /\ Nesting(b) = Nesting(a)
  <2>1. a.l \in Holds(a.n, a.i)
    BY <1>4, StageAt
  <2> QED
    BY <1>4, <1>7, <2>1, HeldIs
<1>10. Suits(cpu[c], b)
  BY <1>4, <1>7, <1>9 DEF Suits
<1>11. LockTypes' /\ LockMove(c, a, b)
  <2>1. locked \in [Locks -> BOOLEAN] /\ lkcpu \in [Locks -> Cpus \cup {NoCpu}]
    BY <1>1 DEF Good
  <2>2. LockTypes'
    BY <1>4, <1>5, <2>1 DEF LockTypes
  <2>3. LockMove(c, a, b)
    BY <1>4, <1>5, <1>9, <2>1, Zenon DEF LockMove
  <2> QED
    BY <2>2, <2>3
<1>12. cpu' = [cpu EXCEPT ![c] = cpu[c]]
  BY <1>1, <1>5, SameCpu, Zenon
<1> QED
  BY <1>1, <1>2, <1>3, <1>4, <1>5, <1>8, <1>10, <1>11, <1>12, Act, ZenonT(60)

\* release: lk->cpu.
LEMMA StepDisown ==
  ASSUME SpinInv, NEW c \in Cpus, release_cpu(c)
  PROVE  SpinInv'
<1>1. PICK at \in [Contexts -> Place] : Good(at)
  BY DEF SpinInv
<1>2. PICK a : a = at[cpu[c].run]
  OBVIOUS
<1>3. Op(c)[1] = "disown" /\ fault = "no"
  BY DEF release_cpu, On
<1>4. /\ At(cpu[c].run, a) /\ cpu[c] \in CpuRec(c) /\ Suits(cpu[c], a)
      /\ a.m = "disown" /\ a.l \in Locks /\ Op(c)[2] = a.l /\ ~Leaving(a)
  BY <1>1, <1>2, <1>3, StageOp, Zenon
<1>5. /\ lkcpu' = [lkcpu EXCEPT ![a.l] = NoCpu] /\ Then(c, <<>>)
      /\ UNCHANGED <<locked, cpu, st, fault>>
  BY <1>4, Zenon DEF release_cpu
<1>6. PICK b : b = Goto(a, a.i, "unlock", a.l)
  OBVIOUS
<1>7. b.n = a.n /\ b.i = a.i /\ b.m = "unlock" /\ b.l = a.l
  BY <1>6, GotoFields
<1>8. At(cpu[c].run, b) /\ ~Leaving(b) /\ <<>> \o Tail(Rest(a)) = Rest(b)
  BY <1>4, <1>6, StageNext, ZenonT(60)
<1>9. /\ Held(b) = Held(a) /\ Owned(b) = Owned(a) \ {a.l} /\ a.l \in Owned(a)
      /\ Nesting(b) = Nesting(a)
  <2>1. a.l \notin Holds(a.n, a.i)
    BY <1>4, StageAt
  <2> QED
    BY <1>4, <1>7, <2>1, HeldIs
<1>10. Suits(cpu[c], b)
  BY <1>4, <1>7, <1>9 DEF Suits
<1>11. LockTypes' /\ LockMove(c, a, b)
  <2>1. locked \in [Locks -> BOOLEAN] /\ lkcpu \in [Locks -> Cpus \cup {NoCpu}]
    BY <1>1 DEF Good
  <2>2. LockTypes'
    BY <1>4, <1>5, <2>1 DEF LockTypes
  <2>3. LockMove(c, a, b)
    BY <1>4, <1>5, <1>9, <2>1, Zenon DEF LockMove
  <2> QED
    BY <2>2, <2>3
<1>12. cpu' = [cpu EXCEPT ![c] = cpu[c]]
  BY <1>1, <1>5, SameCpu, Zenon
<1> QED
  BY <1>1, <1>2, <1>3, <1>4, <1>5, <1>8, <1>10, <1>11, <1>12, Act, ZenonT(60)

\* release: lk->locked.
LEMMA StepUnlock ==
  ASSUME SpinInv, NEW c \in Cpus, release_locked(c)
  PROVE  SpinInv'
<1>1. PICK at \in [Contexts -> Place] : Good(at)
  BY DEF SpinInv
<1>2. PICK a : a = at[cpu[c].run]
  OBVIOUS
<1>3. Op(c)[1] = "unlock" /\ fault = "no"
  BY DEF release_locked, On
<1>4. /\ At(cpu[c].run, a) /\ cpu[c] \in CpuRec(c) /\ Suits(cpu[c], a)
      /\ a.m = "unlock" /\ a.l \in Locks /\ Op(c)[2] = a.l /\ ~Leaving(a)
  BY <1>1, <1>2, <1>3, StageOp, Zenon
<1>5. /\ locked' = [locked EXCEPT ![a.l] = FALSE] /\ Then(c, <<>>)
      /\ UNCHANGED <<lkcpu, cpu, st, fault>>
  BY <1>4, Zenon DEF release_locked
<1>6. PICK b : b = Goto(a, a.i, "popcli", a.l)
  OBVIOUS
<1>7. b.n = a.n /\ b.i = a.i /\ b.m = "popcli" /\ b.l = a.l
  BY <1>6, GotoFields
<1>8. At(cpu[c].run, b) /\ ~Leaving(b) /\ <<>> \o Tail(Rest(a)) = Rest(b)
  BY <1>4, <1>6, StageNext, ZenonT(60)
<1>9. /\ Held(b) = Held(a) \ {a.l} /\ Owned(b) = Owned(a) /\ a.l \in Held(a)
      /\ Nesting(b) = Nesting(a)
  <2>1. a.l \notin Holds(a.n, a.i)
    BY <1>4, StageAt
  <2> QED
    <3> DEFINE h == Holds(a.n, a.i)
    <3>1. /\ Held(a) = h \cup {a.l} /\ Owned(a) = (h \cup {a.l}) \ {a.l}
          /\ Nesting(a) = Depth(h) + 1
      BY <1>4, HeldIs, ZenonT(60)
    <3>2. Held(b) = h /\ Owned(b) = h /\ Nesting(b) = Depth(h) + 1
      BY <1>7, HeldIs
    <3> HIDE DEF h
    <3> QED
      BY <2>1, <3>1, <3>2 DEF h
<1>10. Suits(cpu[c], b)
  BY <1>4, <1>7, <1>9 DEF Suits
<1>11. LockTypes' /\ LockMove(c, a, b)
  <2>1. locked \in [Locks -> BOOLEAN] /\ lkcpu \in [Locks -> Cpus \cup {NoCpu}]
    BY <1>1 DEF Good
  <2>2. LockTypes'
    BY <1>4, <1>5, <2>1 DEF LockTypes
  <2>3. LockMove(c, a, b)
    BY <1>4, <1>5, <1>9, <2>1, Zenon DEF LockMove
  <2> QED
    BY <2>2, <2>3
<1>12. cpu' = [cpu EXCEPT ![c] = cpu[c]]
  BY <1>1, <1>5, SameCpu, Zenon
<1> QED
  BY <1>1, <1>2, <1>3, <1>4, <1>5, <1>8, <1>10, <1>11, <1>12, Act, ZenonT(60)

\* popcli: interrupts are off and ncli is not 0, so it does not panic; intena
\* is what the context found when it took its first lock.
LEMMA StepPopcli ==
  ASSUME SpinInv, NEW c \in Cpus, release_popcli(c)
  PROVE  SpinInv'
<1>1. PICK at \in [Contexts -> Place] : Good(at)
  BY DEF SpinInv
<1>2. PICK a : a = at[cpu[c].run]
  OBVIOUS
<1>3. PICK r : r = cpu[c]
  OBVIOUS
<1>4. Op(c)[1] = "popcli" /\ fault = "no"
  BY DEF release_popcli, On
<1>5. /\ At(cpu[c].run, a) /\ r \in CpuRec(c) /\ Suits(r, a)
      /\ a.m = "popcli" /\ a.l \in Locks /\ ~Leaving(a)
  BY <1>1, <1>2, <1>3, <1>4, StageOp, ZenonT(60)
<1>6. PICK b : b = Goto(a, a.i, "no", a.l)
  OBVIOUS
<1>7. b.n = a.n /\ b.i = a.i /\ b.m = "no" /\ b.l = a.l
  BY <1>6, GotoFields
<1>8. At(cpu[c].run, b) /\ ~Leaving(b) /\ <<>> \o Tail(Rest(a)) = Rest(b)
  BY <1>5, <1>6, StageNext, ZenonT(60)
<1>9. Held(b) = Held(a) /\ Owned(b) = Owned(a) /\ Nesting(a) = Nesting(b) + 1 /\ Nesting(b) \in Nat
  <2>1. Depth(Holds(a.n, a.i)) \in Nat
    BY <1>5, HoldsLocks, Depths, ZenonT(60)
  <2> QED
    BY <1>5, <1>7, <2>1, HeldIs
<1>10. /\ r.ncli = Nesting(b) + 1 /\ r.ie = FALSE /\ r.ncli # 0
  <2>1. r.ie \in BOOLEAN
    BY <1>5 DEF CpuRec
  <2> QED
    BY <1>5, <1>9, <2>1 DEF Suits
<1>11. /\ cpu' = [cpu EXCEPT ![c] = popcli(r)] /\ Then(c, <<>>) /\ UNCHANGED <<locked, lkcpu, st, fault>>
  BY <1>3, <1>10, Zenon DEF release_popcli
<1>12. /\ popcli(r) \in CpuRec(c)
       /\ popcli(r).ncli = r.ncli - 1 /\ popcli(r).run = r.run /\ popcli(r).intena = r.intena
       /\ r.ncli = 1 => popcli(r).ie = r.intena
       /\ r.ncli # 1 => popcli(r).ie = FALSE
  BY <1>5, <1>10, PopRec, ZenonT(60)
<1>13. Suits(popcli(r), b)
  <2>1. /\ a.n = "turn" => a.i = 1
        /\ a.n \in Handlers \cup Bases
    BY <1>5, StageAt DEF At, Place, Names
  <2>2. /\ a.n \in Handlers => r.intena = FALSE
        /\ a.n \in Bases => r.intena = TRUE \/ (a.n = "turn" /\ a.i \in {0, 1})
    BY <1>5, <1>9, <1>10 DEF Suits
  <2>3. r.ncli = 1 <=> Nesting(b) = 0
    BY <1>9, <1>10
  <2>4. popcli(r).ncli = Nesting(b)
    BY <1>9, <1>10, <1>12
  <2> QED
    BY <1>7, <1>9, <1>12, <2>1, <2>2, <2>3, <2>4 DEF Suits
<1>14. LockTypes' /\ LockMove(c, a, b)
  BY <1>1, <1>9, <1>11, SameLocks, Zenon
<1> QED
  BY <1>1, <1>2, <1>3, <1>4, <1>5, <1>8, <1>11, <1>12, <1>13, <1>14, Act, ZenonT(60)

\* sched, after swtch: intena is again what the process had saved.
LEMMA StepResume ==
  ASSUME SpinInv, NEW c \in Cpus, sched_resume(c)
  PROVE  SpinInv'
<1>1. PICK at \in [Contexts -> Place] : Good(at)
  BY DEF SpinInv
<1>2. PICK a : a = at[cpu[c].run]
  OBVIOUS
<1>3. PICK r : r = cpu[c]
  OBVIOUS
<1>4. Op(c)[1] = "resume" /\ fault = "no"
  BY DEF sched_resume, On
<1>5. /\ At(cpu[c].run, a) /\ r \in CpuRec(c) /\ Suits(r, a)
      /\ a.m = "resume" /\ a.l \in Locks /\ ~Leaving(a)
  BY <1>1, <1>2, <1>3, <1>4, StageOp, Zenon
<1>50. Op(c) = <<"resume", a.n = "call">>
  BY <1>1, <1>2, <1>5, OpIs, ZenonT(60) DEF Doing
<1>6. PICK b : b = Goto(a, a.i, "no", a.l)
  OBVIOUS
<1>7. b.n = a.n /\ b.i = a.i /\ b.m = "no" /\ b.l = a.l
  BY <1>6, GotoFields
<1>8. At(cpu[c].run, b) /\ ~Leaving(b) /\ <<>> \o Tail(Rest(a)) = Rest(b)
  BY <1>5, <1>6, StageNext, ZenonT(60)
<1>9. Held(b) = Held(a) /\ Owned(b) = Owned(a) /\ Nesting(a) = Nesting(b)
  BY <1>5, <1>7, HeldIs
<1>10. PICK f \in BOOLEAN : f = (a.n = "call")
  BY Zenon
<1>11. /\ cpu' = [cpu EXCEPT ![c] = Resumed(r, f)] /\ Then(c, <<>>) /\ UNCHANGED <<locked, lkcpu, st, fault>>
  <2>1. Op(c)[2] = f
    <3>1. Op(c) = <<"resume", f>>
      BY <1>10, <1>50, Zenon
    <3> QED
      BY <3>1
  <2> QED
    BY <1>3, <2>1, Zenon DEF sched_resume
<1>12. /\ Resumed(r, f) \in CpuRec(c) /\ Resumed(r, f).run = r.run
       /\ Resumed(r, f).ncli = r.ncli /\ Resumed(r, f).ie = r.ie
       /\ Resumed(r, f).intena = f
  BY <1>5, IntenaRec, ZenonT(60)
<1>13. Suits(Resumed(r, f), b)
  <2>1. a.n = "call" \/ a.n = "tick"
    BY <1>5, StageAt
  <2>2. (a.n \in Handlers => f = FALSE) /\ (a.n \in Bases => f = TRUE)
    <3>1. (a.n = "call" => f = TRUE) /\ (a.n # "call" => f = FALSE)
      BY <1>10, Zenon
    <3>2. (a.n \in Handlers => a.n # "call") /\ (a.n \in Bases => a.n = "call")
      BY <2>1 DEF Handlers, Bases
    <3> QED
      BY <3>1, <3>2, Zenon
  <2> QED
    BY <1>5, <1>7, <1>9, <1>12, <2>2 DEF Suits
<1>14. LockTypes' /\ LockMove(c, a, b)
  BY <1>1, <1>9, <1>11, SameLocks, Zenon
<1> QED
  BY <1>1, <1>2, <1>3, <1>4, <1>5, <1>8, <1>11, <1>12, <1>13, <1>14, Act, ZenonT(60)

\* The first stage of the next operation.
LEMMA OpNext ==
  ASSUME NEW x, NEW a, At(x, a), a.m = "no", NEW m \in Stages, NEW l \in Locks,
         a.i \in 0..(Size(a.n) - 1), a.n = "turn" => a.i < 3, Fits(Goto(a, a.i + 1, m, l))
  PROVE  /\ At(x, Goto(a, a.i + 1, m, l))
         /\ Micro(a.n, m, l) \o Tail(Rest(a)) = Rest(Goto(a, a.i + 1, m, l))
<1>1. a.n \in Names /\ Size(a.n) \in 1..12
  BY CodeSeq DEF At, Place
<1>2. a.i + 1 \in 0..Size(a.n) /\ a.i < Size(a.n) /\ (a.n = "turn" => a.i + 1 < 4)
  BY <1>1
<1>3. At(x, Goto(a, a.i + 1, m, l))
  BY <1>2, GotoAt, Zenon
<1>4. Tail(Rest(a)) = After(a.n, a.i + 1, a.q, a.j)
  BY <1>2, PlaceAhead, Zenon DEF Ahead
<1> QED
  BY <1>3, <1>4, GotoRest, ZenonT(60)

\* release: the CPU holds the lock, so it does not panic.
LEMMA StepRelease ==
  ASSUME SpinInv, NEW c \in Cpus, release(c)
  PROVE  SpinInv'
<1>1. PICK at \in [Contexts -> Place] : Good(at)
  BY DEF SpinInv
<1>2. PICK a : a = at[cpu[c].run]
  OBVIOUS
<1>3. PICK l : l = Op(c)[2]
  OBVIOUS
<1>4. PICK r : r = cpu[c]
  OBVIOUS
<1>5. Op(c)[1] = "release" /\ fault = "no"
  BY DEF release, On
<1>6. /\ At(cpu[c].run, a) /\ r \in CpuRec(c) /\ Suits(r, a)
      /\ a.m = "no" /\ a.n \in Names /\ a.i \in 0..(Size(a.n) - 1) /\ a.i + 1 \in 0..Size(a.n)
      /\ Op(c) = Next1(a.n, a.i) /\ (a.n = "turn" => a.i < 4)
  BY <1>1, <1>2, <1>4, <1>5, OpAt, ZenonT(60)
<1>7. /\ l \in Locks /\ Next1(a.n, a.i) = <<"release", l>> /\ l \in Holds(a.n, a.i)
      /\ Holds(a.n, a.i + 1) = Holds(a.n, a.i) \ {l}
      /\ a.n \in Handlers => a.i + 1 < Size(a.n)
      /\ a.n = "turn" => a.i \in {0, 4}
      /\ Stays(a.n, a.i)
  <2>1. Next1(a.n, a.i)[1] = "release" /\ Next1(a.n, a.i)[2] = l
    BY <1>3, <1>5, <1>6, Zenon
  <2> QED
    BY <1>6, <2>1, ReleaseOp
<1>8. holding(c, l)
  <2>1. l \in Owned(a)
    BY <1>6, <1>7, HeldIs
  <2>2. l \in Locks /\ l \in Owned(at[cpu[c].run])
    BY <1>2, <1>7, <2>1, Zenon
  <2> QED
    BY <1>1, <2>2, OwnerHolds, ZenonT(60)
<1>9. /\ Then(c, Micro(a.n, "disown", l))
      /\ UNCHANGED <<locked, lkcpu, cpu, st>> /\ fault' = "no"
  <2>1. Then(c, <<<<ReleaseOrder[1], l>>, <<ReleaseOrder[2], l>>, <<"popcli">>>>)
    BY <1>3, <1>8, Zenon DEF release
  <2>2. <<<<ReleaseOrder[1], l>>, <<ReleaseOrder[2], l>>, <<"popcli">>>> = Micro(a.n, "disown", l)
    BY DEF Micro, ReleaseOrder
  <2>3. UNCHANGED <<locked, lkcpu, cpu, st>> /\ fault' = "no"
    BY <1>3, <1>5, <1>8, ZenonT(60) DEF release
  <2> QED
    BY <2>1, <2>2, <2>3, Zenon
<1>10. PICK b : b = Goto(a, a.i + 1, "disown", l)
  OBVIOUS
<1>11. b.n = a.n /\ b.i = a.i + 1 /\ b.m = "disown" /\ b.l = l
  BY <1>10, GotoFields
<1>12. /\ At(cpu[c].run, b)
       /\ Micro(a.n, "disown", l) \o Tail(Rest(a)) = Rest(b)
  <2>1. Fits(b)
    BY <1>6, <1>7, <1>11 DEF Fits, Next1
  <2>2. (a.n = "turn" => a.i < 3) /\ "disown" \in Stages
    BY <1>6, <1>7 DEF Stages
  <2> QED
    BY <1>6, <1>7, <1>10, <2>1, <2>2, OpNext, ZenonT(60)
<1>14. Held(b) = Held(a) /\ Owned(b) = Owned(a) /\ Nesting(b) = Nesting(a) /\ Nesting(a) # 0
  <2>1. /\ Held(a) = Holds(a.n, a.i) /\ Owned(a) = Holds(a.n, a.i)
        /\ Nesting(a) = Depth(Holds(a.n, a.i)) + 0
    BY <1>6, HeldIs
  <2>2. /\ Held(b) = Holds(a.n, a.i + 1) \cup {l} /\ Owned(b) = Holds(a.n, a.i + 1) \cup {l}
        /\ Nesting(b) = Depth(Holds(a.n, a.i + 1)) + 1
    BY <1>11, HeldIs
  <2>3. /\ Depth(Holds(a.n, a.i + 1)) = Depth(Holds(a.n, a.i)) - 1
        /\ Depth(Holds(a.n, a.i)) \in Nat /\ Depth(Holds(a.n, a.i + 1)) \in Nat
    <3>1. Holds(a.n, a.i) \in SUBSET Locks /\ Holds(a.n, a.i + 1) \in SUBSET Locks
      BY HoldsLocks, Zenon
    <3>2. l \in Locks /\ l \in Holds(a.n, a.i)
      BY <1>7
    <3>3. /\ Depth(Holds(a.n, a.i) \ {l}) = Depth(Holds(a.n, a.i)) - 1
          /\ Depth(Holds(a.n, a.i)) \in Nat /\ Depth(Holds(a.n, a.i + 1)) \in Nat
      BY <3>1, <3>2, Depths, ZenonT(60)
    <3> QED
      BY <1>7, <3>3, ZenonT(60)
  <2>4. Holds(a.n, a.i + 1) \cup {l} = Holds(a.n, a.i)
    BY <1>7
  <2> QED
    BY <2>1, <2>2, <2>3, <2>4
<1>15. Suits(r, b)
  BY <1>6, <1>7, <1>11, <1>14 DEF Suits
<1>17. ~Leaving(a) /\ ~Leaving(b)
  BY <1>7, <1>11 DEF Leaving, Stays
<1>18. LockTypes' /\ LockMove(c, a, b)
  BY <1>1, <1>9, <1>14, SameLocks, ZenonT(60)
<1>19. cpu' = [cpu EXCEPT ![c] = r]
  BY <1>1, <1>4, <1>9, SameCpu, Zenon
<1> QED
  BY <1>1, <1>2, <1>4, <1>6, <1>9, <1>12, <1>15, <1>17, <1>18, <1>19, Act, ZenonT(60)

\* The scheduler's context while its CPU runs a process.
LEMMA WhileAway ==
  ASSUME NEW at, Good(at), NEW c \in Cpus, cpu[c].run # c
  PROVE  /\ \A d \in Cpus : cpu[d].run # c
         /\ at[c].n = "turn" /\ at[c].i = 0 /\ at[c].m = "no"
<1>1. ASSUME NEW d \in Cpus
      PROVE  cpu[d].run # c
  <2>1. cpu[d].run \in Tasks \cup {d}
    BY Where DEF CpuRec
  <2> QED
    BY <2>1, SpinAssumption
<1>2. c \in Contexts
  BY DEF Contexts
<1> QED
  BY <1>1, <1>2, Zenon DEF Good, LeftInv, Left

\* The locks held where contexts begin, switch and return.
LEMMA HoldsAt ==
  /\ Holds("turn", 0) = {"P"} /\ Holds("turn", 3) = {"P"} /\ Holds("forkret", 0) = {"P"}
  /\ Holds("call", 0) = {} /\ Holds("call", 12) = {} /\ Holds("forkret", 1) = {}
  /\ Holds("tick", 0) = {} /\ Holds("idle", 0) = {}
BY DEF Holds, InL, InP, Locks, Handlers

\* sched: ptable.lock is the only lock held, so it does not panic; the
\* scheduler goes on with the lock.
LEMMA StepSched ==
  ASSUME SpinInv, NEW c \in Cpus, sched(c)
  PROVE  SpinInv'
<1>1. PICK at \in [Contexts -> Place] : Good(at)
  BY DEF SpinInv
<1>20. PICK x : x = cpu[c].run
  OBVIOUS
<1>2. PICK a : a = at[x]
  OBVIOUS
<1>4. PICK r : r = cpu[c]
  OBVIOUS
<1>5. Op(c)[1] = "sched" /\ fault = "no"
  BY DEF sched, On
<1>6. /\ At(x, a) /\ r \in CpuRec(c) /\ Suits(r, a) /\ a.l \in Locks /\ x \in Contexts
      /\ a.m = "no" /\ a.n \in Names /\ a.i \in 0..(Size(a.n) - 1) /\ a.i + 1 \in 0..Size(a.n)
      /\ Op(c) = Next1(a.n, a.i)
  BY <1>1, <1>2, <1>20, <1>4, <1>5, OpAt, ZenonT(60)
<1>7. /\ Next1(a.n, a.i) = <<"sched">> /\ Holds(a.n, a.i) = {"P"} /\ Holds(a.n, a.i + 1) = {"P"}
      /\ a.n \in Handlers => a.i + 1 < Size(a.n)
      /\ \/ a.n = "call" /\ a.i = 6
         \/ a.n = "tick" /\ a.i = 8
  <2>1. Next1(a.n, a.i)[1] = "sched"
    BY <1>5, <1>6, ZenonT(60)
  <2> QED
    BY <1>6, <2>1, SchedOp
<1>8. Held(a) = {"P"} /\ Owned(a) = {"P"} /\ Nesting(a) = 1
  <2>1. Held(a) = Holds(a.n, a.i) /\ Owned(a) = Holds(a.n, a.i) /\ Nesting(a) = Depth(Holds(a.n, a.i)) + 0
    BY <1>6, HeldIs
  <2>2. Depth({"P"}) = 1
    BY DEF Depth, One
  <2> QED
    BY <1>7, <2>1, <2>2
<1>9. holding(c, "P")
  <2>1. "P" \in Locks /\ "P" \in Owned(a)
    BY <1>8 DEF Locks
  <2> QED
    BY <1>1, <1>2, <1>20, <2>1, OwnerHolds, ZenonT(60)
<1>10. r.ncli = 1 /\ r.ie = FALSE /\ r.intena \in BOOLEAN /\ r.run = x
  <2>1. r.ie \in BOOLEAN /\ r.intena \in BOOLEAN
    BY <1>6 DEF CpuRec
  <2> QED
    BY <1>4, <1>20, <1>6, <1>8, <2>1 DEF Suits
<1>11. x \in Tasks
  <2>1. a.n \in {"turn", "idle"} \/ x \notin Cpus
    BY <1>6 DEF At, Own
  <2> QED
    BY <1>6, <1>7, <2>1 DEF Contexts
<1>12. st[x] # "RUNNING" /\ st \in [Tasks -> {"RUNNABLE", "RUNNING", "SLEEPING"}]
  <2>1. Leaving(a)
    BY <1>6, <1>7 DEF Leaving
  <2>2. st \in [Tasks -> {"RUNNABLE", "RUNNING", "SLEEPING"}]
    BY <1>1 DEF Good, StInv
  <2> QED
    BY <1>1, <1>2, <1>20, <1>11, <2>1, <2>2, ZenonT(60) DEF Good, StInv
<1>13. (a.n = "call") = r.intena
  <2>1. /\ a.n = "call" => r.intena = TRUE
        /\ a.n = "tick" => r.intena = FALSE
    BY <1>6, <1>7, <1>10 DEF Suits, Bases, Handlers
  <2>2. a.n # "call" => a.n = "tick"
    BY <1>7
  <2> QED
    BY <1>10, <2>1, <2>2, ZenonT(60)
<1>14. /\ Then(c, <<<<"resume", r.intena>>>>)
       /\ cpu' = [cpu EXCEPT ![c].run = c] /\ UNCHANGED <<locked, lkcpu, st>> /\ fault' = "no"
  BY <1>4, <1>5, <1>9, <1>10, <1>12, <1>20, ZenonT(60) DEF sched, Run
<1>15. PICK b : b = Goto(a, a.i + 1, "resume", a.l)
  OBVIOUS
<1>16. b.n = a.n /\ b.i = a.i + 1 /\ b.m = "resume"
  BY <1>15, GotoFields
<1>17. At(x, b) /\ Micro(a.n, "resume", a.l) \o Tail(Rest(a)) = Rest(b)
  <2>1. Fits(b)
    BY <1>6, <1>7, <1>16 DEF Fits, Next1
  <2>2. (a.n = "turn" => a.i < 3) /\ "resume" \in Stages
    BY <1>7 DEF Stages
  <2> QED
    BY <1>6, <1>15, <2>1, <2>2, OpNext, ZenonT(60)
<1>18. PICK s : s = RunOn(r, c)
  OBVIOUS
<1>19. s \in CpuRec(c) /\ s.run = c /\ s.ncli = 1 /\ s.ie = FALSE
  <2>1. r \in CpuRec(c)
    BY <1>6
  <2> QED
    BY <1>10, <1>18, <2>1, RunRec
<1>21. Moves(at, c, x, b, s)
  <2>1. k[x] = Rest(a)
    BY <1>1, <1>2, <1>20, Where, ZenonT(60)
  <2>2. Micro(a.n, "resume", a.l) = <<<<"resume", r.intena>>>>
    BY <1>13, Zenon DEF Micro
  <2>3. k' = [k EXCEPT ![x] = <<<<"resume", r.intena>>>> \o Tail(k[x])]
    BY <1>14, <1>20, Zenon DEF Then, Run
  <2>4. k' = [k EXCEPT ![x] = Rest(b)]
    BY <1>17, <2>1, <2>2, <2>3, ZenonT(60)
  <2>5. LockTypes'
    BY <1>1, <1>14 DEF LockTypes, Good
  <2>6. cpu' = [cpu EXCEPT ![c] = s]
    BY <1>4, <1>14, <1>18, ZenonT(60) DEF RunOn
  <2> QED
    BY <1>17, <1>19, <1>20, <2>4, <2>5, <2>6, ZenonT(60) DEF Moves
<1>22. c \in Contexts /\ c # x
  BY <1>11, SpinAssumption DEF Contexts
<1>23. /\ \A d \in Cpus : cpu[d].run # c
       /\ at[c].n = "turn" /\ at[c].i = 0 /\ at[c].m = "no"
  BY <1>1, <1>20, <1>22, WhileAway, ZenonT(60)
<1>24. Held(at[c]) = {"P"} /\ Owned(at[c]) = {"P"} /\ Nesting(at[c]) = 1
  <2>1. Held(at[c]) = {"P"} /\ Owned(at[c]) = {"P"} /\ Nesting(at[c]) = Depth({"P"}) + 0
    BY <1>23, HeldIs, HoldsAt
  <2> QED
    BY <2>1 DEF Depth, One
<1>25. Suits(s, at[c])
  BY <1>19, <1>23, <1>24 DEF Suits, Handlers
<1>26. Left(x, b) /\ StMove(c)
  <2>1. x \notin Cpus
    BY <1>11, SpinAssumption
  <2> QED
    BY <1>12, <1>14, <1>16, <2>1 DEF Left, StMove
<1>27. c \notin Tasks
  BY SpinAssumption
<1>271. Held(at[c]) = Held(at[x]) /\ Owned(at[c]) = Owned(at[x])
  BY <1>2, <1>8, <1>24, Zenon
<1>272. locked' = locked /\ lkcpu' = lkcpu /\ fault' = "no"
  BY <1>14
<1>273. c \in Tasks => (st'[c] # "RUNNING" <=> Leaving(at[c]))
  BY <1>27
<1>274. GoesOn(at, x, c, b, s)
  BY <1>19, <1>22, <1>23, <1>25, <1>26, <1>271, <1>272, <1>273, ZenonT(60) DEF GoesOn
<1>28. [at EXCEPT ![x] = b] \in [Contexts -> Place] /\ Good([at EXCEPT ![x] = b])'
  BY <1>1, <1>21, <1>26, <1>274, Switch, ZenonT(60)
<1> QED
  BY <1>272, <1>28, Zenon DEF SpinInv

\* A program of a process or the scheduler goes on with nothing but itself.
LEMMA BaseRest ==
  ASSUME NEW a, a.m = "no", a.n \in Bases, a.i \in 0..Size(a.n)
  PROVE  Rest(a) = Drop(Code(a.n), a.i) /\ (a.i = 0 => Rest(a) = Code(a.n))
<1>1. a.n \notin Handlers /\ a.n \in Names
  BY DEF Handlers, Bases, Names
<1>2. Code(a.n) \in Seq(OpSet) /\ a.i \in 0..Len(Code(a.n))
  BY <1>1, CodeSeq
<1>3. Drop(Code(a.n), a.i) \in Seq(OpSet) /\ (a.i = 0 => Drop(Code(a.n), a.i) = Code(a.n))
  BY <1>2, DropSeq, Zenon
<1>4. Rest(a) = <<>> \o (Drop(Code(a.n), a.i) \o <<>>)
  BY <1>1, Zenon DEF Rest, Micro, After
<1> QED
  BY <1>3, <1>4, NilSeq, Zenon

\* After pick, the rest of the scheduler's loop and the loop again.
LEMMA LoopRest ==
  ASSUME NEW q, NEW j
  PROVE  After("turn", 4, q, j) \o scheduler = Code("turn")
<1>1. Code("turn") = Turn /\ "turn" \notin Handlers
  BY DEF Code, Handlers
<1>2. /\ Drop(Turn, 4) \in Seq(OpSet) /\ Drop(Turn, 4) = <<Turn[5]>> \o Drop(Turn, 5) /\ Turn[5] \in OpSet
      /\ Drop(Turn, 5) = <<>>
  <2>1. 4 \in 0..Len(Turn) /\ 5 \in 0..Len(Turn) /\ 4 < Len(Turn) /\ 4 + 1 = 5 /\ 5 = Len(Turn)
    BY CodeTypes
  <2>2. /\ Drop(Turn, 4) \in Seq(OpSet) /\ Turn[4 + 1] \in OpSet
        /\ Drop(Turn, 4) = <<Turn[4 + 1]>> \o Drop(Turn, 4 + 1)
    BY <2>1, CodeTypes, DropSeq, ZenonT(60)
  <2>3. Drop(Turn, 5) = <<>>
    BY <2>1, CodeTypes, DropSeq, ZenonT(60)
  <2> QED
    BY <2>1, <2>2, <2>3, ZenonT(60)
<1>3. After("turn", 4, q, j) = Drop(Turn, 4)
  <2>1. After("turn", 4, q, j) = Drop(Turn, 4) \o <<>>
    BY <1>1, Zenon DEF After
  <2> QED
    BY <1>2, <2>1, NilSeq, ZenonT(60)
<1>4. Drop(Turn, 4) = forkret
  <2>1. Turn[5] = <<"release", "P">>
    BY DEF Turn
  <2>2. <<Turn[5]>> \o <<>> = <<Turn[5]>>
    OBVIOUS
  <2> QED
    BY <1>2, <2>1, <2>2, Zenon DEF forkret
<1> QED
  BY <1>1, <1>3, <1>4, CodeParts, Zenon DEF turn

\* No CPU runs a RUNNABLE process while another holds ptable.lock.
LEMMA NobodyRuns ==
  ASSUME NEW at, Good(at), NEW c \in Cpus, "P" \in Held(at[cpu[c].run]),
         NEW t \in Tasks, st[t] = "RUNNABLE", cpu[c].run # t
  PROVE  \A d \in Cpus : cpu[d].run # t
<1> SUFFICES ASSUME NEW d \in Cpus, cpu[d].run = t
             PROVE  FALSE
  BY Zenon
<1>1. Leaving(at[t])
  <2>1. st[t] # "RUNNING"
    OBVIOUS
  <2> QED
    BY <2>1, Zenon DEF Good, StInv
<1>2. "P" \in Held(at[t])
  <2>1. Held(at[t]) = Holds(at[t].n, at[t].i)
    BY <1>1, HeldIs DEF Leaving
  <2> QED
    BY <1>1, <2>1 DEF Leaving, Holds, InP, Locks
<1>3. "P" \in Locks
  BY DEF Locks
<1>4. d = c
  BY <1>2, <1>3, ZenonT(60) DEF Good, LockInv
<1> QED
  BY <1>4

\* A process that was left, or a new one, expects ptable.lock and nothing else.
LEMMA LeftPlace ==
  ASSUME NEW t \in Tasks, NEW a, At(t, a), Left(t, a)
  PROVE  /\ Held(a) = {"P"} /\ Owned(a) = {"P"} /\ Nesting(a) = 1 /\ ~Leaving(a)
         /\ a.m # "resume" => a.n = "forkret"
<1>1. t \notin Cpus
  BY SpinAssumption
<1>2. a.m = "resume" \/ (a.n = "forkret" /\ a.i = 0 /\ a.m = "no")
  BY <1>1, ZenonT(60) DEF Left
<1>3. Holds(a.n, a.i) = {"P"}
  BY <1>2, StageAt, HoldsAt
<1>4. Depth({"P"}) = 1
  BY DEF Depth, One
<1> QED
  BY <1>2, <1>3, <1>4, HeldIs DEF Leaving

\* scheduler: the process it switches to runs nowhere else, and expects
\* ptable.lock alone.
LEMMA StepPick ==
  ASSUME SpinInv, NEW c \in Cpus, scheduler_pick(c)
  PROVE  SpinInv'
<1>1. PICK at \in [Contexts -> Place] : Good(at)
  BY DEF SpinInv
<1>2. PICK a : a = at[cpu[c].run]
  OBVIOUS
<1>4. PICK r : r = cpu[c]
  OBVIOUS
<1>5. Op(c)[1] = "pick" /\ fault = "no"
  BY DEF scheduler_pick, On
<1>6. /\ At(cpu[c].run, a) /\ r \in CpuRec(c) /\ Suits(r, a) /\ a.l \in Locks
      /\ a.m = "no" /\ a.n \in Names /\ a.i \in 0..(Size(a.n) - 1)
      /\ Op(c) = Next1(a.n, a.i) /\ Follows(a.n, a.i)
  BY <1>1, <1>2, <1>4, <1>5, OpAt, ZenonT(60)
<1>7. a.n = "turn" /\ a.i = 3
  BY <1>5, <1>6 DEF Follows
<1>8. cpu[c].run = c
  <2>1. cpu[c].run \in Cpus
    BY <1>6, <1>7 DEF At, Own
  <2>2. cpu[c].run \in Tasks \cup {c}
    BY <1>4, <1>6 DEF CpuRec
  <2> QED
    BY <2>1, <2>2, SpinAssumption, ZenonT(60)
<1>9. Held(a) = {"P"} /\ Owned(a) = {"P"} /\ Nesting(a) = 1
  <2>1. Held(a) = {"P"} /\ Owned(a) = {"P"} /\ Nesting(a) = Depth({"P"}) + 0
    <3>1. Holds(a.n, a.i) = {"P"}
      BY <1>7, HoldsAt, Zenon
    <3> QED
      BY <1>6, <3>1, HeldIs, ZenonT(60)
  <2> QED
    BY <2>1 DEF Depth, One
<1>10. r.ncli = 1 /\ r.ie = FALSE /\ r.intena = TRUE /\ r.run = c
  <2>1. r.ie \in BOOLEAN
    BY <1>6 DEF CpuRec
  <2> QED
    BY <1>4, <1>6, <1>7, <1>8, <1>9, <2>1 DEF Suits, Bases
<1>11. PICK b : b = Goto(a, 0, "no", a.l)
  OBVIOUS
<1>12. b.n = "turn" /\ b.i = 0 /\ b.m = "no"
  BY <1>7, <1>11, GotoFields
<1>13. At(c, b)
  <2>1. Fits(b)
    BY <1>12 DEF Fits, Handlers
  <2>2. 0 \in 0..Size(a.n) /\ "no" \in Stages /\ (a.n = "turn" => 0 < 4)
    BY <1>6, CodeSeq DEF Stages
  <2> QED
    BY <1>6, <1>8, <1>11, <2>1, <2>2, GotoAt
<1>14. k' = [k EXCEPT ![c] = Rest(b)]
  <2>1. k[c] = Rest(a)
    BY <1>1, <1>2, <1>8, Where, ZenonT(60)
  <2>2. Tail(Rest(a)) = After("turn", 4, a.q, a.j)
    <3>1. Tail(Rest(a)) = After(a.n, a.i + 1, a.q, a.j)
      BY <1>1, <1>2, <1>5, OpAt, ZenonT(60)
    <3>2. a.i + 1 = 4
      BY <1>7
    <3> QED
      BY <1>7, <3>1, <3>2, Zenon
  <2>3. Rest(b) = Code("turn")
    <3>1. b.n \in Bases /\ b.i \in 0..Size(b.n)
      BY <1>12 DEF Bases, Size
    <3> QED
      BY <1>12, <3>1, BaseRest, Zenon
  <2>4. k' = [k EXCEPT ![c] = Tail(k[c]) \o scheduler]
    BY ZenonT(60) DEF scheduler_pick
  <2> QED
    BY <2>1, <2>2, <2>3, <2>4, LoopRest, ZenonT(60)
<1>15. Held(b) = {"P"} /\ Owned(b) = {"P"} /\ Nesting(b) = 1
  <2>1. Held(b) = {"P"} /\ Owned(b) = {"P"} /\ Nesting(b) = Depth({"P"}) + 0
    BY <1>12, HeldIs, HoldsAt
  <2> QED
    BY <2>1 DEF Depth, One
<1>16. c \in Contexts /\ c \notin Tasks /\ st \in [Tasks -> {"RUNNABLE", "RUNNING", "SLEEPING"}]
  <2>1. c \in Contexts /\ c \notin Tasks
    BY SpinAssumption DEF Contexts
  <2> QED
    BY <1>1, <2>1, ZenonT(60) DEF Good, StInv
<1>17. locked' = locked /\ lkcpu' = lkcpu /\ fault' = "no"
  BY <1>5 DEF scheduler_pick
<1>18. LockTypes' /\ LockMove(c, a, b)
  BY <1>1, <1>9, <1>15, <1>17, SameLocks, ZenonT(60)
<1>19. CASE cpu' = cpu /\ st' = st
  <2>1. cpu' = [cpu EXCEPT ![c] = r]
    BY <1>1, <1>4, <1>19, SameCpu, ZenonT(60)
  <2>2. Moves(at, c, c, b, r)
    BY <1>6, <1>8, <1>13, <1>14, <1>18, <2>1, ZenonT(60) DEF Moves
  <2>3. StMove(c)
    BY <1>16, <1>19, ZenonT(60) DEF StMove
  <2>4. Suits(r, b)
    BY <1>10, <1>12, <1>15 DEF Suits, Handlers
  <2>5. c \in Tasks => (st'[c] # "RUNNING" <=> Leaving(b))
    BY <1>16, Zenon
  <2>6. LockMove(c, at[c], b) /\ r.run = c
    BY <1>2, <1>8, <1>10, <1>18, ZenonT(60)
  <2>7. [at EXCEPT ![c] = b] \in [Contexts -> Place] /\ Good([at EXCEPT ![c] = b])'
    BY <1>1, <2>2, <2>3, <2>4, <2>5, <2>6, Move, ZenonT(60)
  <2> QED
    BY <1>17, <2>7, ZenonT(60) DEF SpinInv
<1>20. ASSUME NEW t \in Tasks, st[t] = "RUNNABLE", st' = [st EXCEPT ![t] = "RUNNING"],
              cpu' = [cpu EXCEPT ![c].run = t]
       PROVE  SpinInv'
  <2>1. PICK s : s = RunOn(r, t)
    OBVIOUS
  <2>2. s \in CpuRec(c) /\ s.run = t /\ s.ncli = 1 /\ s.ie = FALSE /\ s.intena = TRUE
    <3>1. r \in CpuRec(c)
      BY <1>6
    <3> QED
      BY <1>10, <2>1, <3>1, RunRec
  <2>3. cpu' = [cpu EXCEPT ![c] = s]
    BY <1>4, <1>20, <2>1, ZenonT(60) DEF RunOn
  <2>4. Moves(at, c, c, b, s)
    BY <1>8, <1>13, <1>14, <1>18, <2>2, <2>3, ZenonT(60) DEF Moves
  <2>5. t # c /\ t \in Contexts
    BY <1>16 DEF Contexts
  <2>6. \A d \in Cpus : cpu[d].run # t
    <3>1. "P" \in Held(at[cpu[c].run]) /\ cpu[c].run # t
      BY <1>2, <1>8, <1>9, <2>5
    <3> QED
      BY <1>1, <1>20, <3>1, NobodyRuns, ZenonT(60)
  <2>7. At(t, at[t]) /\ Left(t, at[t])
    BY <1>1, <2>5, <2>6, ZenonT(60) DEF Good, CodeInv, LeftInv
  <2>8. /\ Held(at[t]) = {"P"} /\ Owned(at[t]) = {"P"} /\ Nesting(at[t]) = 1 /\ ~Leaving(at[t])
        /\ at[t].m # "resume" => at[t].n = "forkret"
    BY <2>7, LeftPlace, ZenonT(60)
  <2>9. Suits(s, at[t])
    BY <2>2, <2>8 DEF Suits, Handlers
  <2>10. StMove(c) /\ st'[t] = "RUNNING"
    BY <1>16, <1>20, <2>6 DEF StMove
  <2>11. Left(c, b)
    BY <1>12, Zenon DEF Left
  <2>12. Held(at[t]) = Held(at[c]) /\ Owned(at[t]) = Owned(at[c])
    BY <1>2, <1>8, <1>9, <2>8, ZenonT(60)
  <2>13. GoesOn(at, c, t, b, s)
    BY <1>17, <2>2, <2>5, <2>6, <2>8, <2>9, <2>10, <2>11, <2>12, ZenonT(60) DEF GoesOn
  <2>14. [at EXCEPT ![c] = b] \in [Contexts -> Place] /\ Good([at EXCEPT ![c] = b])'
    BY <1>1, <2>4, <2>10, <2>13, Switch, ZenonT(60)
  <2> QED
    BY <1>17, <2>14, ZenonT(60) DEF SpinInv
<1> QED
  BY <1>19, <1>20, Zenon DEF scheduler_pick

\* An operation of one step, done.
LEMMA PlainNext ==
  ASSUME NEW x, NEW a, At(x, a), a.m = "no", a.i \in 0..(Size(a.n) - 1),
         a.n = "turn" => a.i < 3, a.n \in Handlers => a.i + 1 < Size(a.n)
  PROVE  /\ At(x, Goto(a, a.i + 1, "no", a.l))
         /\ <<>> \o Tail(Rest(a)) = Rest(Goto(a, a.i + 1, "no", a.l))
<1>1. PICK b : b = Goto(a, a.i + 1, "no", a.l)
  OBVIOUS
<1>2. b.n = a.n /\ b.i = a.i + 1 /\ b.m = "no"
  BY <1>1, GotoFields
<1>3. Fits(b)
  BY <1>2 DEF Fits
<1>4. a.l \in Locks /\ "no" \in Stages
  BY DEF At, Place, Stages
<1>5. Micro(a.n, "no", a.l) = <<>>
  BY DEF Micro
<1> QED
  BY <1>1, <1>3, <1>4, <1>5, OpNext, ZenonT(60)

\* iret: the place that the interrupt came in at.
Return(a) == [n |-> a.q, i |-> a.j, m |-> "no", l |-> a.l, q |-> a.q, j |-> a.j]

LEMMA ReturnAt ==
  ASSUME NEW x, NEW a, At(x, a), a.m = "no", a.n \in Handlers, a.i + 1 = Size(a.n)
  PROVE  /\ At(x, Return(a)) /\ <<>> \o Tail(Rest(a)) = Rest(Return(a))
         /\ Return(a).n = a.q /\ Return(a).i = a.j /\ Return(a).m = "no"
         /\ a.q \in Bases /\ Holds(a.q, a.j) = {}
<1>1. /\ a \in Place /\ a.n \in Names /\ a.q \in Bases /\ a.j \in 0..12 /\ a.l \in Locks
      /\ a.q \in Own(x) /\ a.j \in 0..Size(a.q) /\ Holds(a.q, a.j) = {}
      /\ a.q = "turn" => a.j < 4
  BY DEF At, Place
<1>2. PICK b : b = Return(a)
  OBVIOUS
<1>3. b.n = a.q /\ b.i = a.j /\ b.m = "no" /\ b.q = a.q /\ b.j = a.j /\ b.l = a.l
  BY <1>2 DEF Return
<1>4. a.q \notin Handlers /\ a.q \in Names
  BY <1>1 DEF Bases, Handlers, Names
<1>5. At(x, b)
  <2>1. b \in Place
    <3>1. "no" \in Stages
      BY DEF Stages
    <3> QED
      BY <1>1, <1>2, <1>4, <3>1, ZenonT(60) DEF Return, Place
  <2>2. Fits(b)
    BY <1>3, <1>4 DEF Fits
  <2> QED
    BY <1>1, <1>3, <1>4, <2>1, <2>2, ZenonT(60) DEF At
<1>6. Tail(Rest(a)) = Drop(Code(a.q), a.j)
  <2>1. Size(a.n) \in 1..12 /\ Code(a.n) \in Seq(OpSet) /\ Len(Code(a.n)) = Size(a.n)
    BY <1>1, CodeSeq
  <2>11. a.i < Size(a.n)
    BY <1>1, <2>1 DEF Place
  <2>2. Tail(Rest(a)) = After(a.n, a.i + 1, a.q, a.j)
    BY <2>11, PlaceAhead, Zenon DEF Ahead
  <2>3. Drop(Code(a.n), Size(a.n)) = <<>>
    <3>1. Size(a.n) \in 0..Len(Code(a.n))
      BY <2>1
    <3> QED
      BY <2>1, <3>1, DropSeq, ZenonT(60)
  <2>4. Drop(Code(a.q), a.j) \in Seq(OpSet)
    <3>1. Code(a.q) \in Seq(OpSet) /\ a.j \in 0..Len(Code(a.q))
      BY <1>1, <1>4, CodeSeq
    <3> QED
      BY <3>1, DropSeq, Zenon
  <2>5. After(a.n, a.i + 1, a.q, a.j) = <<>> \o Drop(Code(a.q), a.j)
    BY <2>3, Zenon DEF After
  <2> QED
    BY <2>2, <2>4, <2>5, NilSeq, ZenonT(60)
<1>7. <<>> \o Tail(Rest(a)) = Rest(b)
  <2>1. Rest(b) = Tail(Rest(a))
    BY <1>1, <1>3, <1>6, BaseRest, ZenonT(60)
  <2>2. Rest(b) \in Seq(OpSet)
    BY <1>5, PlaceAhead, Zenon
  <2> QED
    BY <2>1, <2>2, NilSeq, Zenon
<1> QED
  BY <1>1, <1>2, <1>3, <1>5, <1>7, ZenonT(60)

\* sti, and iret back to where the interrupt came in.
LEMMA StepFlag ==
  ASSUME SpinInv, NEW c \in Cpus, flag(c)
  PROVE  SpinInv'
<1>1. PICK at \in [Contexts -> Place] : Good(at)
  BY DEF SpinInv
<1>2. PICK a : a = at[cpu[c].run]
  OBVIOUS
<1>4. PICK r : r = cpu[c]
  OBVIOUS
<1>5. PICK v \in {"sti", "iret"} : Op(c)[1] = v /\ fault = "no"
  BY DEF flag, On
<1>6. /\ At(cpu[c].run, a) /\ r \in CpuRec(c) /\ Suits(r, a) /\ a.l \in Locks
      /\ a.m = "no" /\ a.n \in Names /\ a.i \in 0..(Size(a.n) - 1)
      /\ Op(c) = Next1(a.n, a.i) /\ Follows(a.n, a.i)
  <2>1. v \in {"acquire", "release", "sched", "pick", "sti", "iret", "sleeping", "ready", "wakeup",
                "work", "crit"}
    OBVIOUS
  <2> QED
    BY <1>1, <1>2, <1>4, <1>5, <2>1, OpAt, ZenonT(60)
<1>7. /\ v = "sti" => a.n = "turn" /\ a.i = 1
      /\ v = "iret" => a.n \in Handlers /\ a.i + 1 = Size(a.n)
      /\ Holds(a.n, a.i) = {}
  BY <1>5, <1>6 DEF Follows
<1>8. ~Leaving(a)
  BY <1>5, <1>7 DEF Leaving, Size, Handlers
<1>9. PICK b : /\ At(cpu[c].run, b) /\ <<>> \o Tail(Rest(a)) = Rest(b)
               /\ b.n \in Bases /\ b.m = "no" /\ Holds(b.n, b.i) = {}
  <2>1. CASE v = "sti"
    <3>1. PICK b : b = Goto(a, a.i + 1, "no", a.l)
      OBVIOUS
    <3>2. b.n = "turn" /\ b.i = 2 /\ b.m = "no"
      BY <1>7, <2>1, <3>1, GotoFields
    <3>3. Holds("turn", 2) = {} /\ "turn" \in Bases
      BY DEF Holds, InL, InP, Handlers, Bases
    <3>4. (a.n = "turn" => a.i < 3) /\ a.n \notin Handlers
      BY <1>7, <2>1 DEF Handlers
    <3>5. At(cpu[c].run, b) /\ <<>> \o Tail(Rest(a)) = Rest(b)
      BY <1>6, <3>1, <3>4, PlainNext, ZenonT(60)
    <3> QED
      BY <3>2, <3>3, <3>5, ZenonT(60)
  <2>2. CASE v = "iret"
    BY <1>6, <1>7, <2>2, ReturnAt, ZenonT(60)
  <2> QED
    BY <2>1, <2>2
<1>10. Held(a) = {} /\ Owned(a) = {} /\ Nesting(a) = 0 /\ Held(b) = {} /\ Owned(b) = {} /\ Nesting(b) = 0
  <2>1. Depth({}) + 0 = 0
    BY DEF Depth, One
  <2> QED
    BY <1>6, <1>7, <1>9, <2>1, HeldIs, Zenon
<1>11. ~Leaving(b)
  <2>1. Holds("call", 6) # {} /\ b.n # "tick"
    BY <1>9 DEF Holds, InP, Locks, Bases
  <2> QED
    BY <1>9, <2>1, ZenonT(60) DEF Leaving
<1>12. PICK s : s = SetFlag(r, TRUE)
  BY Zenon
<1>13. s \in CpuRec(c) /\ s.run = cpu[c].run /\ s.ncli = r.ncli /\ s.ie = TRUE
  <2>1. r \in CpuRec(c) /\ TRUE \in BOOLEAN
    BY <1>6
  <2> QED
    BY <1>4, <1>12, <2>1, FlagRec, Zenon
<1>14. Suits(s, b)
  <2>1. s.ncli = 0 /\ Nesting(b) = 0
    BY <1>6, <1>10, <1>13, Zenon DEF Suits
  <2>2. ~(s.ncli > 0)
    BY <2>1
  <2>3. s.ie # FALSE
    BY <1>13, Zenon
  <2> QED
    BY <1>9, <2>1, <2>2, <2>3, Zenon DEF Suits
<1>15. cpu' = [cpu EXCEPT ![c] = s]
  BY <1>4, <1>12, Zenon DEF flag, SetFlag
<1>16. Then(c, <<>>) /\ UNCHANGED <<locked, lkcpu>> /\ st' = st /\ fault' = "no"
  BY <1>5, Zenon DEF flag
<1>17. LockTypes' /\ LockMove(c, a, b)
  BY <1>1, <1>10, <1>16, SameLocks, ZenonT(60)
<1> QED
  BY <1>1, <1>2, <1>8, <1>9, <1>11, <1>13, <1>14, <1>15, <1>16, <1>17, Act, ZenonT(60)

\* sleep, yield and wakeup change states under ptable.lock.
LEMMA StepState ==
  ASSUME SpinInv, NEW c \in Cpus, state(c)
  PROVE  SpinInv'
<1>1. PICK at \in [Contexts -> Place] : Good(at)
  BY DEF SpinInv
<1>20. PICK x : x = cpu[c].run
  OBVIOUS
<1>2. PICK a : a = at[x]
  OBVIOUS
<1>4. PICK r : r = cpu[c]
  OBVIOUS
<1>5. PICK v \in {"sleeping", "ready", "wakeup", "work", "crit"} : Op(c)[1] = v /\ fault = "no"
  BY DEF state, On
<1>6. /\ At(x, a) /\ r \in CpuRec(c) /\ Suits(r, a) /\ x \in Contexts
      /\ a.m = "no" /\ a.n \in Names /\ a.i \in 0..(Size(a.n) - 1)
      /\ Op(c) = Next1(a.n, a.i) /\ Follows(a.n, a.i) /\ MidOp(a.n, a.i)
  <2>1. v \in {"acquire", "release", "sched", "pick", "sti", "iret", "sleeping", "ready", "wakeup",
                "work", "crit"}
    OBVIOUS
  <2> QED
    BY <1>1, <1>2, <1>20, <1>4, <1>5, <2>1, OpAt, ZenonT(60)
<1>7. /\ v = "sleeping" => a.n = "call" /\ a.i = 5
      /\ v = "ready" => a.n = "tick" /\ a.i = 7
      /\ v = "wakeup" => a.n \in Handlers /\ a.i = 3
      /\ v = "work" => a.n = "call" /\ a.i \in {0, 11}
      /\ v = "crit" => ~(a.n = "call" /\ a.i \in {5, 6}) /\ ~(a.n = "tick" /\ a.i \in {7, 8})
      /\ a.n # "turn"
      /\ Holds(a.n, a.i + 1) = Holds(a.n, a.i)
  BY <1>5, <1>6 DEF Follows, MidOp, Handlers
<1>8. PICK b : b = Goto(a, a.i + 1, "no", a.l)
  OBVIOUS
<1>9. b.n = a.n /\ b.i = a.i + 1 /\ b.m = "no"
  BY <1>8, GotoFields
<1>10. At(x, b) /\ <<>> \o Tail(Rest(a)) = Rest(b)
  <2>1. (a.n = "turn" => a.i < 3) /\ (a.n \in Handlers => a.i + 1 < Size(a.n))
    <3>1. Next1(a.n, a.i)[1] # "iret"
      BY <1>5, <1>6
    <3> QED
      BY <1>6, <1>7, <3>1, ZenonT(60) DEF MidOp
  <2> QED
    BY <1>6, <1>8, <2>1, PlainNext, ZenonT(60)
<1>11. Held(b) = Held(a) /\ Owned(b) = Owned(a) /\ Nesting(b) = Nesting(a)
  BY <1>6, <1>7, <1>9, HeldIs, ZenonT(60)
<1>12. Suits(r, b)
  BY <1>6, <1>7, <1>9, <1>11 DEF Suits
<1>13. Then(c, <<>>) /\ UNCHANGED <<locked, lkcpu>> /\ cpu' = cpu /\ fault' = "no"
  BY <1>5, Zenon DEF state
<1>14. LockTypes' /\ LockMove(c, at[x], b)
  BY <1>1, <1>2, <1>11, <1>13, SameLocks, ZenonT(60)
<1>15. Moves(at, c, x, b, r) /\ r.run = x
  <2>1. k[x] = Rest(a)
    BY <1>1, <1>2, <1>20, Where, ZenonT(60)
  <2>2. k' = [k EXCEPT ![x] = <<>> \o Tail(k[x])]
    BY <1>13, <1>20, ZenonT(60) DEF Then, Run
  <2>3. k' = [k EXCEPT ![x] = Rest(b)]
    BY <1>10, <2>1, <2>2, ZenonT(60)
  <2>4. cpu' = [cpu EXCEPT ![c] = r]
    BY <1>1, <1>4, <1>13, SameCpu, ZenonT(60)
  <2> QED
    BY <1>4, <1>6, <1>10, <1>14, <1>20, <2>3, <2>4, ZenonT(60) DEF Moves
<1>16. /\ st \in [Tasks -> {"RUNNABLE", "RUNNING", "SLEEPING"}]
       /\ x \in Tasks => (st[x] # "RUNNING" <=> Leaving(a))
       /\ \A d \in Cpus : d # c => cpu[d].run # x
  BY <1>1, <1>2, <1>20, ZenonT(60) DEF Good, StInv, OneInv
<1>17. StMove(c) /\ (x \in Tasks => (st'[x] # "RUNNING" <=> Leaving(b)))
  <2>1. CASE v \in {"sleeping", "ready"}
    <3>1. PICK w \in {"SLEEPING", "RUNNABLE"} : st' = [st EXCEPT ![x] = w]
      BY <1>5, <1>20, <2>1 DEF state, On, Run
    <3>2. x \in Tasks
      BY <1>6, <1>7, <2>1 DEF At, Own, Contexts
    <3>3. st' \in [Tasks -> {"RUNNABLE", "RUNNING", "SLEEPING"}] /\ st'[x] = w
          /\ \A t \in Tasks : t # x => st'[t] = st[t]
      BY <1>16, <3>1, <3>2
    <3>4. StMove(c)
      BY <1>16, <3>3, ZenonT(60) DEF StMove
    <3>5. Leaving(b) /\ st'[x] # "RUNNING"
      BY <1>7, <1>9, <2>1, <3>1, <3>3 DEF Leaving
    <3> QED
      BY <3>4, <3>5
  <2>2. CASE v = "wakeup"
    <3>1. st' = [t \in Tasks |-> IF st[t] = "SLEEPING" THEN "RUNNABLE" ELSE st[t]]
      BY <1>5, <2>2 DEF state, On
    <3>2. /\ st' \in [Tasks -> {"RUNNABLE", "RUNNING", "SLEEPING"}]
          /\ \A t \in Tasks : st'[t] # "RUNNING" <=> st[t] # "RUNNING"
      BY <1>16, <3>1
    <3>3. ~Leaving(a) /\ ~Leaving(b)
      BY <1>7, <1>9, <2>2 DEF Leaving, Handlers
    <3> QED
      BY <1>16, <3>2, <3>3, ZenonT(60) DEF StMove
  <2>3. CASE v \in {"work", "crit"}
    <3>1. st' = st
      BY <1>5, <2>3 DEF state, On
    <3>2. a.i \in Int
      BY <1>6
    <3>3. ~Leaving(a) /\ ~Leaving(b)
      BY <1>7, <1>9, <2>3, <3>2 DEF Leaving
    <3> QED
      BY <1>16, <3>1, <3>3, ZenonT(60) DEF StMove
  <2> QED
    BY <2>1, <2>2, <2>3
<1>18. [at EXCEPT ![x] = b] \in [Contexts -> Place] /\ Good([at EXCEPT ![x] = b])'
  BY <1>1, <1>12, <1>14, <1>15, <1>17, Move, ZenonT(60)
<1> QED
  BY <1>13, <1>18, ZenonT(60) DEF SpinInv

\* A process enters the kernel with no lock and with interrupts on.
LEMMA StepCall ==
  ASSUME SpinInv, NEW c \in Cpus, call(c)
  PROVE  SpinInv'
<1>1. PICK at \in [Contexts -> Place] : Good(at)
  BY DEF SpinInv
<1>20. PICK x : x = cpu[c].run
  OBVIOUS
<1>2. PICK a : a = at[x]
  OBVIOUS
<1>4. PICK r : r = cpu[c]
  OBVIOUS
<1>5. Op(c)[1] = "user" /\ fault = "no"
  BY DEF call, On
<1>6. At(x, a) /\ r \in CpuRec(c) /\ Suits(r, a) /\ x \in Contexts /\ Op(c) = Doing(a)
  BY <1>1, <1>2, <1>20, <1>4, Where, OpIs, ZenonT(60)
<1>7. a.m = "no" /\ a.i = Size(a.n) /\ a.n \in {"call", "forkret"} /\ a.l \in Locks
  <2>1. a.l \in Locks
    BY <1>6 DEF At, Place
  <2> QED
    BY <1>5, <1>6, <2>1, VerbAt, ZenonT(60)
<1>8. PICK b : b = [n |-> "call", i |-> 0, m |-> "no", l |-> a.l, q |-> "call", j |-> 0]
  BY ZenonT(60)
<1>9. b.n = "call" /\ b.i = 0 /\ b.m = "no"
  BY <1>8
<1>10. At(x, b) /\ Rest(b) = syscall
  <2>1. b \in Place
    BY <1>7, <1>8 DEF Place, Names, Bases, Stages
  <2>2. "call" \in Own(x)
    BY <1>6, <1>7 DEF At, Own
  <2>3. "call" \notin Handlers /\ "call" \in Bases /\ 0 \in 0..Size("call") /\ Code("call") = Call
    BY DEF Handlers, Bases, Size, Code
  <2>4. Fits(b)
    BY <1>9, <2>3, ZenonT(60) DEF Fits
  <2>5. At(x, b)
    BY <1>9, <2>1, <2>2, <2>3, <2>4 DEF At
  <2>6. Rest(b) = Code(b.n)
    BY <1>9, <2>3, BaseRest, ZenonT(60)
  <2> QED
    BY <1>9, <2>3, <2>5, <2>6, CodeParts, ZenonT(60)
<1>11. Held(b) = Held(a) /\ Owned(b) = Owned(a) /\ Nesting(b) = 0 /\ Nesting(a) = 0
  <2>1. Holds(a.n, a.i) = {} /\ Holds(b.n, b.i) = {}
    BY <1>7, <1>9, HoldsAt DEF Size
  <2>2. Depth({}) + 0 = 0
    BY DEF Depth, One
  <2> QED
    BY <1>7, <1>9, <2>1, <2>2, HeldIs, ZenonT(60)
<1>12. Suits(r, b)
  BY <1>6, <1>7, <1>9, <1>11 DEF Suits, Bases, Handlers
<1>13. k' = [k EXCEPT ![x] = Rest(b)] /\ UNCHANGED <<locked, lkcpu>> /\ cpu' = cpu /\ st' = st /\ fault' = "no"
  BY <1>5, <1>10, <1>20, ZenonT(60) DEF call, Run
<1>14. LockTypes' /\ LockMove(c, at[x], b)
  BY <1>1, <1>2, <1>11, <1>13, SameLocks, ZenonT(60)
<1>15. Moves(at, c, x, b, r) /\ r.run = x
  <2>1. cpu' = [cpu EXCEPT ![c] = r]
    BY <1>1, <1>4, <1>13, SameCpu, ZenonT(60)
  <2> QED
    BY <1>4, <1>6, <1>10, <1>13, <1>14, <1>20, <2>1, ZenonT(60) DEF Moves
<1>16. StMove(c) /\ (x \in Tasks => (st'[x] # "RUNNING" <=> Leaving(b)))
  <2>1. /\ st \in [Tasks -> {"RUNNABLE", "RUNNING", "SLEEPING"}]
        /\ x \in Tasks => (st[x] # "RUNNING" <=> Leaving(a))
    BY <1>1, <1>2, <1>20, ZenonT(60) DEF Good, StInv
  <2>2. ~Leaving(a) /\ ~Leaving(b)
    BY <1>7, <1>9 DEF Leaving, Size
  <2> QED
    BY <1>13, <2>1, <2>2, ZenonT(60) DEF StMove
<1>17. [at EXCEPT ![x] = b] \in [Contexts -> Place] /\ Good([at EXCEPT ![x] = b])'
  BY <1>1, <1>12, <1>14, <1>15, <1>16, Move, ZenonT(60)
<1> QED
  BY <1>13, <1>17, ZenonT(60) DEF SpinInv

\* Where interrupts are on, no lock is held and no operation is half done.
LEMMA OnAt ==
  ASSUME NEW x, NEW a, At(x, a), NEW r, Suits(r, a), r.ie = TRUE
  PROVE  a.n \in Bases /\ a.m = "no" /\ Holds(a.n, a.i) = {} /\ r.ncli = 0
<1>1. a.n \in Bases /\ Nesting(a) = 0 /\ r.ncli = 0
  BY DEF Suits
<1>2. Depth(Holds(a.n, a.i)) \in Nat /\ (Depth(Holds(a.n, a.i)) = 0 <=> Holds(a.n, a.i) = {})
  <2>1. "P" \in Locks
    BY DEF Locks
  <2> QED
    BY <2>1, HoldsLocks, Depths, ZenonT(60)
<1>3. Holds(a.n, a.i) = {} /\ a.m \notin {"disown", "unlock", "popcli"}
  <2>1. /\ a.m \in {"disown", "unlock", "popcli"} => Nesting(a) = Depth(Holds(a.n, a.i)) + 1
        /\ a.m \in {"no", "xchg", "own", "resume"} => Nesting(a) = Depth(Holds(a.n, a.i)) + 0
    BY HeldIs, ZenonT(60)
  <2>2. a.m \in Stages
    BY DEF At, Place
  <2> QED
    BY <1>1, <1>2, <2>1, <2>2 DEF Stages
<1>4. a.m \notin {"xchg", "own", "resume"}
  BY <1>3, StageAt
<1>5. a.m \in Stages
  BY DEF At, Place
<1> QED
  BY <1>1, <1>3, <1>4, <1>5 DEF Stages

\* An interrupt's handler before what it interrupts.
Handler(x) == IF x \in Tasks THEN "tick" ELSE "idle"
Enter(x, a) == [n |-> Handler(x), i |-> 0, m |-> "no", l |-> a.l,
                q |-> a.n, j |-> a.i]

LEMMA EnterAt ==
  ASSUME NEW x \in Contexts, NEW a, At(x, a), a.m = "no", a.n \in Bases, Holds(a.n, a.i) = {}
  PROVE  /\ At(x, Enter(x, a)) /\ Rest(Enter(x, a)) = handler(x) \o Rest(a)
         /\ Enter(x, a).n \in Handlers /\ Enter(x, a).i = 0 /\ Enter(x, a).m = "no"
<1>1. PICK b : b = Enter(x, a)
  BY Zenon
<1>2. b.n = Handler(x) /\ b.i = 0 /\ b.m = "no" /\ b.l = a.l
      /\ b.q = a.n /\ b.j = a.i
  BY <1>1, ZenonT(60) DEF Enter
<1>3. b.n \in Handlers /\ b.n \in Own(x) /\ b.n \in Names
  BY <1>2, SpinAssumption DEF Handler, Handlers, Own, Contexts, Names
<1>4. /\ a.n \in Own(x) /\ a.i \in 0..Size(a.n) /\ a.i \in 0..12 /\ a.l \in Locks /\ a.n \in Names
      /\ a.n = "turn" => a.i < 4
  BY DEF At, Place
<1>5. At(x, b)
  <2>1. 0 \in 0..12 /\ "no" \in Stages /\ 0 \in 0..Size(b.n) /\ 0 < Size(b.n)
    BY <1>3, CodeSeq DEF Stages
  <2>2. b \in Place
    <3>1. Handler(x) \in Names
      BY <1>2, <1>3
    <3> QED
      BY <1>1, <1>4, <2>1, <3>1, ZenonT(60) DEF Enter, Place
  <2>3. Fits(b)
    BY <1>2, <2>1, ZenonT(60) DEF Fits
  <2>4. b.n # "turn"
    BY <1>3 DEF Handlers
  <2> QED
    BY <1>2, <1>3, <1>4, <2>1, <2>2, <2>3, <2>4, ZenonT(60) DEF At
<1>6. Rest(b) = handler(x) \o Rest(a)
  <2>1. Code(b.n) = handler(x)
    BY <1>2, CodeParts DEF Code, Handler
  <2>2. Code(b.n) \in Seq(OpSet) /\ 0 \in 0..Len(Code(b.n))
    BY <1>3, CodeSeq
  <2>3. Drop(Code(b.n), 0) = Code(b.n)
    BY <2>2, DropSeq, Zenon
  <2>4. Rest(a) = Drop(Code(a.n), a.i)
    BY <1>4, BaseRest, Zenon
  <2>5. Rest(b) = <<>> \o (Code(b.n) \o Rest(a))
    BY <1>2, <1>3, <2>3, <2>4, ZenonT(60) DEF Rest, Micro, After
  <2>6. Code(b.n) \o Rest(a) \in Seq(OpSet)
    BY <2>2, PlaceAhead, JoinSeq, ZenonT(60)
  <2> QED
    BY <2>1, <2>5, <2>6, NilSeq, ZenonT(60)
<1> QED
  BY <1>1, <1>2, <1>3, <1>5, <1>6, ZenonT(60)

\* An interrupt comes in only where no lock is held.
LEMMA StepInterrupt ==
  ASSUME SpinInv, NEW c \in Cpus, interrupt(c)
  PROVE  SpinInv'
<1>1. PICK at \in [Contexts -> Place] : Good(at)
  BY DEF SpinInv
<1>20. PICK x : x = cpu[c].run
  OBVIOUS
<1>2. PICK a : a = at[x]
  OBVIOUS
<1>4. PICK r : r = cpu[c]
  OBVIOUS
<1>6. At(x, a) /\ r \in CpuRec(c) /\ Suits(r, a) /\ x \in Contexts /\ k[x] = Rest(a) /\ fault = "no"
  BY <1>1, <1>2, <1>20, <1>4, Where, ZenonT(60) DEF SpinInv
<1>7. a.n \in Bases /\ a.m = "no" /\ Holds(a.n, a.i) = {} /\ r.ncli = 0
  <2>1. r.ie = TRUE
    <3>1. r.ie \in BOOLEAN
      BY <1>6 DEF CpuRec
    <3> QED
      BY <1>4, <3>1, ZenonT(60) DEF interrupt
  <2> QED
    BY <1>6, <2>1, OnAt, ZenonT(60)
<1>8. PICK b : b = Enter(x, a)
  BY Zenon
<1>9. At(x, b) /\ Rest(b) = handler(x) \o Rest(a) /\ b.n \in Handlers /\ b.i = 0 /\ b.m = "no"
  BY <1>6, <1>7, <1>8, EnterAt, ZenonT(60)
<1>11. Held(b) = Held(a) /\ Owned(b) = Owned(a) /\ Nesting(b) = 0
  <2>1. Holds(b.n, b.i) = {}
    BY <1>9, HoldsAt DEF Handlers
  <2>2. Depth({}) + 0 = 0
    BY DEF Depth, One
  <2> QED
    BY <1>7, <1>9, <2>1, <2>2, HeldIs, ZenonT(60)
<1>12. PICK s : s = SetFlag(r, FALSE)
  BY Zenon
<1>13. s \in CpuRec(c) /\ s.run = x /\ s.ncli = 0 /\ s.ie = FALSE
  <2>1. r \in CpuRec(c) /\ FALSE \in BOOLEAN /\ r.run = x
    BY <1>4, <1>6, <1>20, ZenonT(60)
  <2> QED
    BY <1>7, <1>12, <2>1, FlagRec, ZenonT(60)
<1>14. Suits(s, b)
  BY <1>9, <1>11, <1>13 DEF Suits
<1>15. UNCHANGED <<locked, lkcpu>> /\ st' = st /\ fault' = "no" /\ cpu' = [cpu EXCEPT ![c] = s]
       /\ k' = [k EXCEPT ![x] = Rest(b)]
  <2>1. cpu' = [cpu EXCEPT ![c] = s]
    BY <1>4, <1>12, ZenonT(60) DEF interrupt, SetFlag
  <2>2. k' = [k EXCEPT ![x] = handler(x) \o k[x]]
    BY <1>20, ZenonT(60) DEF interrupt, Run
  <2> QED
    BY <1>6, <1>9, <2>1, <2>2, ZenonT(60) DEF interrupt
<1>16. LockTypes' /\ LockMove(c, at[x], b)
  BY <1>1, <1>2, <1>11, <1>15, SameLocks, ZenonT(60)
<1>17. Moves(at, c, x, b, s)
  BY <1>9, <1>13, <1>15, <1>16, <1>20, ZenonT(60) DEF Moves
<1>18. StMove(c) /\ (x \in Tasks => (st'[x] # "RUNNING" <=> Leaving(b)))
  <2>1. /\ st \in [Tasks -> {"RUNNABLE", "RUNNING", "SLEEPING"}]
        /\ x \in Tasks => (st[x] # "RUNNING" <=> Leaving(a))
    BY <1>1, <1>2, <1>20, Zenon DEF Good, StInv
  <2>2. ~Leaving(b)
    BY <1>9 DEF Leaving
  <2>3. ~Leaving(a)
    <3>1. Holds("call", 6) # {} /\ a.n # "tick"
      BY <1>7 DEF Holds, InP, Locks, Bases
    <3> QED
      BY <1>7, <3>1, ZenonT(60) DEF Leaving
  <2> QED
    BY <1>15, <2>1, <2>2, <2>3, ZenonT(60) DEF StMove
<1>19. [at EXCEPT ![x] = b] \in [Contexts -> Place] /\ Good([at EXCEPT ![x] = b])'
  BY <1>1, <1>13, <1>14, <1>16, <1>17, <1>18, Move, ZenonT(60)
<1> QED
  BY <1>15, <1>19, ZenonT(60) DEF SpinInv

\* At boot every CPU is before its scheduler's first sti, every process in forkret.
LEMMA SpinInitInv ==
  ASSUME SpinInit
  PROVE  SpinInv
<1> DEFINE new == [n |-> "forkret", i |-> 0, m |-> "no", l |-> "L", q |-> "call", j |-> 0]
           top == [n |-> "turn", i |-> 1, m |-> "no", l |-> "L", q |-> "call", j |-> 0]
           at == [x \in Contexts |-> IF x \in Cpus THEN top ELSE new]
<1>1. new \in Place /\ top \in Place
  BY DEF Place, Names, Bases, Stages, Locks
<1>2. /\ top.n = "turn" /\ top.i = 1 /\ top.m = "no"
      /\ new.n = "forkret" /\ new.i = 0 /\ new.m = "no"
  OBVIOUS
<1> HIDE DEF new, top
<1>3. ASSUME NEW x \in Cpus
      PROVE  At(x, top)
  BY <1>1, <1>2, <1>3 DEF At, Own, Fits, Size, Handlers
<1>4. ASSUME NEW x \in Tasks
      PROVE  At(x, new)
  <2>1. x \notin Cpus
    BY SpinAssumption
  <2> QED
    BY <1>1, <1>2, <2>1 DEF At, Own, Fits, Size, Handlers
<1>5. Rest(top) = scheduler
  <2>1. Rest(top) = Drop(Turn, 1)
    <3>1. top.n \in Bases /\ top.i \in 0..Size(top.n) /\ Code(top.n) = Turn
      BY <1>2 DEF Bases, Size, Code
    <3> QED
      BY <1>2, <3>1, BaseRest, ZenonT(60)
  <2>2. Drop(Turn, 1) \in Seq(OpSet) /\ Turn = <<Turn[1]>> \o Drop(Turn, 1) /\ Turn[1] \in OpSet
    <3>1. 0 \in 0..Len(Turn) /\ 1 \in 0..Len(Turn) /\ 0 < Len(Turn) /\ 0 + 1 = 1
      BY CodeTypes
    <3>2. Drop(Turn, 1) \in Seq(OpSet)
      BY <3>1, CodeTypes, DropSeq, ZenonT(60)
    <3>3. /\ Drop(Turn, 0) = Turn /\ Turn[0 + 1] \in OpSet
          /\ Drop(Turn, 0) = <<Turn[0 + 1]>> \o Drop(Turn, 0 + 1)
      BY <3>1, CodeTypes, DropSeq, ZenonT(60)
    <3> QED
      BY <3>1, <3>2, <3>3, ZenonT(60)
  <2>3. Tail(Turn) = Drop(Turn, 1)
    BY <2>2, ConsSeq
  <2>4. Tail(Turn) = scheduler
    <3>1. Turn = <<<<"release", "P">>>> \o scheduler
      BY CodeParts, ZenonT(60) DEF turn, forkret
    <3>2. scheduler \in Seq(OpSet) /\ <<"release", "P">> \in OpSet
      BY DEF scheduler, OpSet, Verbs, Locks
    <3> QED
      BY <3>1, <3>2, ConsSeq
  <2> QED
    BY <2>1, <2>3, <2>4, ZenonT(60)
<1>6. Rest(new) = <<<<"release", "P">>>>
  <2>1. new.n \in Bases /\ new.i \in 0..Size(new.n) /\ Code(new.n) = forkret
    BY <1>2 DEF Bases, Size, Code
  <2> QED
    BY <1>2, <2>1, BaseRest, ZenonT(60) DEF forkret
<1>7. at \in [Contexts -> Place]
  BY <1>1
<1>8. \A x \in Contexts : /\ x \in Cpus => at[x] = top
                          /\ x \in Tasks => at[x] = new
  BY SpinAssumption DEF Contexts
<1> HIDE DEF at
<1>9. ASSUME NEW c \in Cpus
      PROVE  /\ cpu[c] \in CpuRec(c) /\ cpu[c].run = c /\ cpu[c].ncli = 0 /\ cpu[c].ie = FALSE
             /\ c \in Contexts /\ c \notin Tasks
  BY SpinAssumption DEF SpinInit, CpuRec, Contexts
<1>10. Held(top) = {} /\ Owned(top) = {} /\ Nesting(top) = 0
  <2>1. Holds("turn", 1) = {}
    BY DEF Holds, InL, InP, Handlers
  <2>2. Depth({}) + 0 = 0
    BY DEF Depth, One
  <2> QED
    BY <1>2, <2>1, <2>2, HeldIs, ZenonT(60)
<1>11. CodeInv(at)
  <2> SUFFICES ASSUME NEW x \in Contexts
               PROVE  At(x, at[x]) /\ k[x] = Rest(at[x])
    BY DEF CodeInv
  <2>1. k[x] = IF x \in Cpus THEN scheduler ELSE <<<<"release", "P">>>>
    BY Zenon DEF SpinInit
  <2>2. CASE x \in Cpus
    BY <1>3, <1>5, <1>8, <2>1, <2>2, ZenonT(60)
  <2>3. CASE x \in Tasks /\ x \notin Cpus
    BY <1>4, <1>6, <1>8, <2>1, <2>3, ZenonT(60)
  <2> QED
    BY <2>2, <2>3 DEF Contexts
<1>12. CpuInv(at)
  <2> SUFFICES ASSUME NEW c \in Cpus
               PROVE  cpu[c] \in CpuRec(c) /\ Suits(cpu[c], at[cpu[c].run])
    BY Zenon DEF CpuInv
  <2>1. Suits(cpu[c], top)
    <3>1. PICK r : r = cpu[c]
      BY Zenon
    <3>2. r.ncli = 0 /\ r.ie = FALSE
      BY <1>9, <3>1, ZenonT(60)
    <3>3. Suits(r, top)
      BY <1>2, <1>10, <3>2 DEF Suits
    <3> QED
      BY <3>1, <3>3, Zenon
  <2> QED
    BY <1>8, <1>9, <2>1, ZenonT(60)
<1>13. OneInv
  BY <1>9, Zenon DEF OneInv
<1>14. LeftInv(at)
  <2> SUFFICES ASSUME NEW x \in Contexts, \A c \in Cpus : cpu[c].run # x
               PROVE  Left(x, at[x])
    BY DEF LeftInv
  <2>1. x \in Tasks /\ x \notin Cpus
    BY <1>9, Zenon DEF Contexts
  <2> QED
    BY <1>2, <1>8, <2>1, ZenonT(60) DEF Left
<1>15. StInv(at)
  <2>1. st \in [Tasks -> {"RUNNABLE", "RUNNING", "SLEEPING"}]
    BY DEF SpinInit
  <2> QED
    BY <1>9, <2>1, ZenonT(60) DEF StInv
<1>16. LockInv(at)
  <2>1. \A c \in Cpus : Held(at[cpu[c].run]) = {} /\ Owned(at[cpu[c].run]) = {}
    BY <1>8, <1>9, <1>10, ZenonT(60)
  <2>2. \A l \in Locks : locked[l] = FALSE /\ lkcpu[l] \notin Cpus
    BY SpinAssumption DEF SpinInit
  <2> QED
    BY <2>1, <2>2 DEF LockInv
<1>17. /\ locked \in [Locks -> BOOLEAN] /\ lkcpu \in [Locks -> Cpus \cup {NoCpu}]
       /\ cpu = [c \in Cpus |-> cpu[c]] /\ k = [x \in Contexts |-> k[x]] /\ fault = "no"
  BY DEF SpinInit
<1>18. Good(at)
  BY <1>11, <1>12, <1>13, <1>14, <1>15, <1>16, <1>17, ZenonT(60) DEF Good
<1> QED
  BY <1>7, <1>17, <1>18, ZenonT(60) DEF SpinInv

\* SpinInv is inductive.
LEMMA SpinNextInv ==
  ASSUME SpinInv, [SpinNext]_spinVars
  PROVE  SpinInv'
<1>1. CASE UNCHANGED spinVars
  <2>1. UNCHANGED <<locked, lkcpu, cpu, k, st, fault>>
    BY <1>1 DEF spinVars
  <2>2. PICK at \in [Contexts -> Place] : Good(at)
    BY DEF SpinInv
  <2>3. locked' = locked /\ lkcpu' = lkcpu /\ cpu' = cpu /\ k' = k /\ st' = st /\ fault' = fault
    BY <2>1
  <2>4. CodeInv(at)' /\ CpuInv(at)'
    BY <2>2, <2>3 DEF CodeInv, CpuInv, Good
  <2>5. OneInv' /\ LeftInv(at)' /\ StInv(at)'
    BY <2>2, <2>3 DEF OneInv, LeftInv, StInv, Good
  <2>6. LockInv(at)'
    BY <2>2, <2>3 DEF LockInv, Good
  <2>7. Good(at)'
    BY <2>2, <2>3, <2>4, <2>5, <2>6 DEF Good
  <2> QED
    BY <2>2, <2>3, <2>7, ZenonT(60) DEF SpinInv
<1>2. ASSUME NEW c \in Cpus, SpinStep(c) \/ call(c) \/ interrupt(c)
      PROVE  SpinInv'
  BY <1>2, StepAcquire, StepXchg, StepOwn, StepRelease, StepDisown, StepUnlock, StepPopcli,
     StepSched, StepResume, StepPick, StepFlag, StepState, StepCall, StepInterrupt, ZenonT(60) DEF SpinStep
<1> QED
  BY <1>1, <1>2, ZenonT(60) DEF SpinNext

\* Inside the section of a lock, the lock is held.
LEMMA SectionHeld ==
  ASSUME NEW at, Good(at), NEW c \in Cpus, Section(c) # "none"
  PROVE  Section(c) \in Locks /\ Section(c) \in Held(at[cpu[c].run])
<1>1. PICK a : a = at[cpu[c].run]
  OBVIOUS
<1>2. PICK v : v = Op(c)[1]
  BY Zenon
<1>3. v \in {"crit", "pick", "sleeping", "ready", "wakeup", "sched"}
  BY <1>2, Zenon DEF Section
<1>4. /\ Next1(a.n, a.i)[1] = v /\ Follows(a.n, a.i) /\ Held(a) = Holds(a.n, a.i)
  <2>1. v \in {"acquire", "release", "sched", "pick", "sti", "iret", "sleeping", "ready", "wakeup",
                "work", "crit"}
    BY <1>3
  <2> QED
    BY <1>1, <1>2, <2>1, OpAt, ZenonT(60)
<1>5. /\ v = "crit" => "L" \in Held(a)
      /\ v # "crit" => "P" \in Held(a)
  BY <1>3, <1>4, HoldsAt DEF Follows
<1>6. /\ v = "crit" => Section(c) = "L"
      /\ v # "crit" => Section(c) = "P"
  BY <1>2, <1>3 DEF Section
<1> QED
  BY <1>1, <1>5, <1>6 DEF Locks

\* Two CPUs in sections of one lock would both hold it.
LEMMA Excludes ==
  ASSUME SpinInv
  PROVE  MutualExclusion
<1>1. PICK at \in [Contexts -> Place] : Good(at)
  BY DEF SpinInv
<1> SUFFICES ASSUME NEW c \in Cpus, NEW d \in Cpus, Section(c) # "none", Section(c) = Section(d)
             PROVE  c = d
  BY Zenon DEF MutualExclusion
<1>2. /\ Section(c) \in Locks /\ Section(c) \in Held(at[cpu[c].run])
      /\ Section(d) \in Held(at[cpu[d].run])
  BY <1>1, SectionHeld, Zenon
<1> QED
  BY <1>1, <1>2, ZenonT(60) DEF Good, LockInv

\* Only a handler ends with iret.
LEMMA NoIret ==
  ASSUME NEW n \in Bases, NEW i \in 0..Size(n)
  PROVE  \A p \in DOMAIN Drop(Code(n), i) : Drop(Code(n), i)[p] # <<"iret">>
<1>1. n \in Names /\ n \notin Handlers
  BY DEF Names, Bases, Handlers
<1>2. Len(Code(n)) = Size(n) /\ Size(n) \in 1..12
  BY <1>1, CodeSeq
<1>3. ASSUME NEW p \in 1..(Size(n) - i)
      PROVE  Code(n)[p + i] # <<"iret">>
  <2>1. PICK w : w = p + i - 1
    OBVIOUS
  <2>2. w \in 0..(Size(n) - 1) /\ w + 1 = p + i
    BY <1>2, <2>1
  <2>3. Follows(n, w)
    BY <1>1, <2>2, Discipline, ZenonT(60)
  <2>4. Next1(n, w)[1] # "iret"
    BY <1>1, <2>3 DEF Follows
  <2>5. Next1(n, w) = Code(n)[p + i]
    BY <2>2, Zenon DEF Next1
  <2> QED
    BY <2>4, <2>5
<1>4. Drop(Code(n), i) = [p \in 1..(Size(n) - i) |-> Code(n)[p + i]]
  BY <1>2, Zenon DEF Drop
<1> QED
  BY <1>3, <1>4, ZenonT(60)

\* intena follows the context, and not the CPU that it ran on.
LEMMA Interrupts ==
  ASSUME SpinInv
  PROVE  InterruptsKept
<1>1. PICK at \in [Contexts -> Place] : Good(at)
  BY DEF SpinInv
<1> SUFFICES ASSUME NEW c \in Cpus
             PROVE  /\ Op(c)[1] \in {"work", "user"} => cpu[c].ie /\ cpu[c].ncli = 0
                    /\ (\E i \in DOMAIN k[Run(c)] : k[Run(c)][i] = <<"iret">>) => ~cpu[c].ie
  BY Zenon DEF InterruptsKept
<1>2. PICK a : a = at[cpu[c].run]
  OBVIOUS
<1>3. PICK r : r = cpu[c]
  OBVIOUS
<1>4. At(cpu[c].run, a) /\ k[Run(c)] = Rest(a) /\ r \in CpuRec(c) /\ Suits(r, a) /\ Op(c) = Doing(a)
  BY <1>1, <1>2, <1>3, Where, OpIs, ZenonT(60) DEF Run
<1>5. r.ie \in BOOLEAN
  BY <1>4 DEF CpuRec
<1>6. ASSUME Op(c)[1] \in {"work", "user"}
      PROVE  r.ie = TRUE /\ r.ncli = 0
  <2>1. /\ a.m = "no" /\ a.n \in {"call", "forkret"} /\ Holds(a.n, a.i) = {}
    <3>1. CASE Op(c)[1] = "work"
      <4>1. a.m = "no" /\ Next1(a.n, a.i)[1] = "work" /\ Follows(a.n, a.i)
        BY <1>1, <1>2, <3>1, OpAt, ZenonT(60)
      <4> QED
        BY <4>1 DEF Follows
    <3>2. CASE Op(c)[1] = "user"
      <4>1. a.m = "no" /\ a.i = Size(a.n) /\ a.n \in {"call", "forkret"}
        BY <1>4, <3>2, VerbAt, ZenonT(60)
      <4> QED
        BY <4>1, HoldsAt DEF Size
    <3> QED
      BY <1>6, <3>1, <3>2
  <2>2. Nesting(a) = 0
    <3>1. Depth({}) + 0 = 0
      BY DEF Depth, One
    <3> QED
      BY <2>1, <3>1, HeldIs, ZenonT(60)
  <2> QED
    BY <1>4, <1>5, <2>1, <2>2 DEF Suits, Handlers
<1>7. ASSUME r.ie = TRUE, NEW i \in DOMAIN k[Run(c)], k[Run(c)][i] = <<"iret">>
      PROVE  FALSE
  <2>1. a.n \in Bases /\ a.m = "no"
    BY <1>4, <1>7, OnAt, ZenonT(60)
  <2>2. a.i \in 0..Size(a.n)
    BY <1>4, Zenon DEF At
  <2>3. k[Run(c)] = Drop(Code(a.n), a.i)
    BY <1>4, <2>1, <2>2, BaseRest, ZenonT(60)
  <2> QED
    BY <1>7, <2>1, <2>2, <2>3, NoIret, ZenonT(60)
<1> QED
  BY <1>3, <1>5, <1>6, <1>7, ZenonT(60)

\* A CPU that spins holds neither ptable.lock nor the lock it spins for.
LEMMA SpinHeld ==
  ASSUME NEW x, NEW a, At(x, a), a.m = "xchg"
  PROVE  "P" \notin Held(a) /\ a.l \notin Held(a)
<1>1. a.i > 0 /\ Code(a.n)[a.i] = <<"acquire", a.l>>
  BY ZenonT(60) DEF At, Fits
<1>2. a.n \in Names /\ a.i \in 0..Size(a.n) /\ a.l \in Locks /\ Size(a.n) \in 1..12
  BY CodeSeq DEF At, Place
<1>3. PICK i : i = a.i - 1
  OBVIOUS
<1>4. i \in 0..(Size(a.n) - 1) /\ i + 1 = a.i
  BY <1>1, <1>2, <1>3
<1>5. Next1(a.n, i)[1] = "acquire" /\ Next1(a.n, i)[2] = a.l
  BY <1>1, <1>4 DEF Next1
<1>6. Holds(a.n, a.i) = Holds(a.n, i) \cup {a.l} /\ (a.l = "L" => Holds(a.n, i) = {})
  BY <1>2, <1>4, <1>5, AcquireOp
<1>7. Held(a) = Holds(a.n, a.i) \ {a.l}
  BY HeldIs, Zenon
<1> QED
  BY <1>2, <1>6, <1>7 DEF Locks

\* A CPU that spins for L holds nothing, one that spins for P at most L: what
\* is spun for is held by a CPU that goes on.
LEMMA SomeoneGoesOn ==
  ASSUME SpinInv
  PROVE  NotAllSpin
<1>1. PICK at \in [Contexts -> Place] : Good(at)
  BY DEF SpinInv
<1> SUFFICES ASSUME \A c \in Cpus : Op(c)[1] = "xchg" /\ locked[Op(c)[2]]
             PROVE  FALSE
  BY Zenon DEF NotAllSpin
<1>2. ASSUME NEW c \in Cpus
      PROVE  /\ At(cpu[c].run, at[cpu[c].run]) /\ at[cpu[c].run].m = "xchg"
             /\ Op(c)[2] = at[cpu[c].run].l /\ at[cpu[c].run].l \in Locks
  BY <1>1, StageOp, Zenon
<1>3. ASSUME NEW c \in Cpus
      PROVE  "P" \notin Held(at[cpu[c].run]) /\ at[cpu[c].run].l \notin Held(at[cpu[c].run])
  BY <1>2, SpinHeld, ZenonT(60)
<1>4. ASSUME NEW l \in Locks, locked[l]
      PROVE  \E c \in Cpus : l \in Held(at[cpu[c].run])
  <2>1. locked[l] = TRUE
    BY <1>1, <1>4, Zenon DEF Good
  <2> QED
    BY <1>1, <2>1, ZenonT(60) DEF Good, LockInv
<1>5. ~locked["P"]
  <2>1. "P" \in Locks
    BY DEF Locks
  <2> QED
    BY <1>3, <1>4, <2>1, ZenonT(60)
<1>6. ASSUME NEW c \in Cpus
      PROVE  at[cpu[c].run].l = "L" /\ locked["L"]
  <2>1. locked[at[cpu[c].run].l] /\ at[cpu[c].run].l \in Locks
    BY <1>2, ZenonT(60)
  <2> QED
    BY <1>5, <2>1, ZenonT(60) DEF Locks
<1>7. PICK c \in Cpus : TRUE
  BY SpinAssumption
<1>8. PICK d \in Cpus : "L" \in Held(at[cpu[d].run])
  <2>1. "L" \in Locks
    BY DEF Locks
  <2> QED
    BY <1>4, <1>6, <1>7, <2>1, ZenonT(60)
<1> QED
  BY <1>3, <1>6, <1>8, ZenonT(60)

\* spinlock.c with sleep, yield and scheduler of proc.c and the timer's handler of
\* trap.c, for any CPUs and processes: no lock or sched panic, sections of one
\* lock exclude each other, interrupts are as each context left them, and the CPUs
\* never all spin.
THEOREM LocksAreSound == SpinSpec => []SpinSound
<1>1. SpinInit => SpinInv
  BY SpinInitInv
<1>2. SpinInv /\ [SpinNext]_spinVars => SpinInv'
  BY SpinNextInv, Zenon
<1>3. SpinInv => SpinSound
  BY Excludes, Interrupts, SomeoneGoesOn, ZenonT(60) DEF SpinSound, NoLockPanic, SpinInv
<1> QED
  BY <1>1, <1>2, <1>3, PTL DEF SpinSpec
====
