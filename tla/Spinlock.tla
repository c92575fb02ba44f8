---- MODULE Spinlock ----
(***************************************************************************)
(* Spinlocks and interrupts: spinlock.c's acquire, release, pushcli and    *)
(* popcli under interrupt handlers that take locks themselves, and the     *)
(* hand-over of ptable.lock and of the interrupt state between sleeping or *)
(* yielding processes and each CPU's scheduler (proc.c).                   *)
(*                                                                         *)
(* A context, of a process or a CPU's scheduler, is the sequence of        *)
(* operations it has still to do; an interrupt puts its handler's in       *)
(* front.  P is ptable.lock and L any lock that a handler takes and a      *)
(* process sleeps with (tickslock, idelock, cons.lock).                    *)
(***************************************************************************)
EXTENDS Integers, Sequences

CONSTANTS Cpus, Tasks, NoCpu
ASSUME SpinAssumption == Cpus # {} /\ Cpus \cap Tasks = {} /\ NoCpu \notin Cpus

VARIABLES locked, lkcpu,  \* each lock's locked and cpu
          cpu,            \* each CPU: IF, ncli, intena, and what it runs
          k,              \* each context's remaining operations
          st,             \* each process's state
          fault           \* the first panic

spinVars == <<locked, lkcpu, cpu, k, st, fault>>

Locks == {"P", "L"}
Contexts == Tasks \cup Cpus             \* a CPU stands for its scheduler
sleep == <<<<"acquire", "P">>, <<"release", "L">>, <<"sleeping">>, <<"sched">>,
           <<"release", "P">>, <<"acquire", "L">>>>
yield == <<<<"acquire", "P">>, <<"ready">>, <<"sched">>, <<"release", "P">>>>
scheduler == <<<<"sti">>, <<"acquire", "P">>, <<"pick">>, <<"release", "P">>>>
\* A system call that sleeps with lock L, with interrupts on around it.
syscall == <<<<"work">>, <<"acquire", "L">>, <<"crit", "L">>>> \o sleep
           \o <<<<"crit", "L">>, <<"release", "L">>, <<"work">>>>
\* The timer's handler wakes sleepers, and makes a process yield.
handler(x) == <<<<"acquire", "L">>, <<"crit", "L">>, <<"acquire", "P">>, <<"wakeup">>,
                <<"release", "P">>, <<"release", "L">>>>
              \o (IF x \in Tasks THEN yield ELSE <<>>) \o <<<<"iret">>>>

SpinInit == /\ locked = [l \in Locks |-> FALSE] /\ lkcpu = [l \in Locks |-> NoCpu]
            /\ cpu = [c \in Cpus |-> [ie |-> FALSE, ncli |-> 0, intena |-> FALSE, run |-> c]]
            /\ k = [x \in Contexts |-> IF x \in Cpus THEN scheduler ELSE <<<<"release", "P">>>>]  \* forkret
            /\ st = [t \in Tasks |-> "RUNNABLE"] /\ fault = "no"

Run(c) == cpu[c].run
Op(c) == IF k[Run(c)] = <<>> THEN <<"user">> ELSE Head(k[Run(c)])
On(c, name) == fault = "no" /\ Op(c)[1] = name
Then(c, ops) == k' = [k EXCEPT ![Run(c)] = ops \o Tail(@)]
panic_(s) == fault' = s /\ UNCHANGED <<locked, lkcpu, cpu, k, st>>

pushcli(r) == [r EXCEPT !.ie = FALSE, !.intena = IF r.ncli = 0 THEN r.ie ELSE @, !.ncli = @ + 1]
popcli(r) == [r EXCEPT !.ncli = @ - 1, !.ie = (r.ncli = 1 /\ r.intena)]
holding(c, l) == locked[l] /\ lkcpu[l] = c

\* acquire: pushcli and the holding check, the xchg, then lk->cpu.
acquire(c) == LET l == Op(c)[2] IN
    /\ On(c, "acquire")
    /\ IF holding(c, l) THEN panic_("acquire")
       ELSE /\ cpu' = [cpu EXCEPT ![c] = pushcli(@)] /\ Then(c, <<<<"xchg", l>>>>)
            /\ UNCHANGED <<locked, lkcpu, st, fault>>
Taken(c, l) == locked[l]
acquire_xchg(c) == LET l == Op(c)[2] IN
    /\ On(c, "xchg") /\ ~Taken(c, l)
    /\ locked' = [locked EXCEPT ![l] = TRUE] /\ Then(c, <<<<"own", l>>>>)
    /\ UNCHANGED <<lkcpu, cpu, st, fault>>
acquire_cpu(c) == LET l == Op(c)[2] IN
    /\ On(c, "own") /\ lkcpu' = [lkcpu EXCEPT ![l] = c] /\ Then(c, <<>>)
    /\ UNCHANGED <<locked, cpu, st, fault>>

\* release: the holding check and lk->cpu = 0, then lk->locked = 0 and popcli.
ReleaseOrder == <<"disown", "unlock">>
release(c) == LET l == Op(c)[2] IN
    /\ On(c, "release")
    /\ IF ~holding(c, l) THEN panic_("release")
       ELSE /\ Then(c, <<<<ReleaseOrder[1], l>>, <<ReleaseOrder[2], l>>, <<"popcli">>>>)
            /\ UNCHANGED <<locked, lkcpu, cpu, st, fault>>
release_cpu(c) == LET l == Op(c)[2] IN
    /\ On(c, "disown") /\ lkcpu' = [lkcpu EXCEPT ![l] = NoCpu] /\ Then(c, <<>>)
    /\ UNCHANGED <<locked, cpu, st, fault>>
release_locked(c) == LET l == Op(c)[2] IN
    /\ On(c, "unlock") /\ locked' = [locked EXCEPT ![l] = FALSE] /\ Then(c, <<>>)
    /\ UNCHANGED <<lkcpu, cpu, st, fault>>
release_popcli(c) ==
    /\ On(c, "popcli")
    /\ IF cpu[c].ie \/ cpu[c].ncli = 0 THEN panic_("popcli")
       ELSE cpu' = [cpu EXCEPT ![c] = popcli(@)] /\ Then(c, <<>>) /\ UNCHANGED <<locked, lkcpu, st, fault>>

\* sched: its checks, saving intena, and the switch to the scheduler.
sched(c) ==
    /\ On(c, "sched")
    /\ IF ~holding(c, "P") \/ cpu[c].ncli # 1 \/ cpu[c].ie \/ st[Run(c)] = "RUNNING" THEN panic_("sched")
       ELSE /\ Then(c, <<<<"resume", cpu[c].intena>>>>)
            /\ cpu' = [cpu EXCEPT ![c].run = c] /\ UNCHANGED <<locked, lkcpu, st, fault>>
Resumed_Cpu(r, intena) == r
Resumed(r, intena) == [r EXCEPT !.intena = intena]
sched_resume(c) ==
    /\ On(c, "resume") /\ cpu' = [cpu EXCEPT ![c] = Resumed(@, Op(c)[2])]
    /\ Then(c, <<>>) /\ UNCHANGED <<locked, lkcpu, st, fault>>

\* The scheduler picks a process, if there is one, and then starts over.
scheduler_pick(c) ==
    /\ On(c, "pick") /\ k' = [k EXCEPT ![c] = Tail(@) \o scheduler]
    /\ IF \A t \in Tasks : st[t] # "RUNNABLE" THEN UNCHANGED <<cpu, st>>
       ELSE \E t \in Tasks : /\ st[t] = "RUNNABLE" /\ st' = [st EXCEPT ![t] = "RUNNING"]
                             /\ cpu' = [cpu EXCEPT ![c].run = t]
    /\ UNCHANGED <<locked, lkcpu, fault>>

\* sti and iret turn interrupts on; the others change a process's state.
flag(c) == /\ On(c, "sti") \/ On(c, "iret")
           /\ cpu' = [cpu EXCEPT ![c].ie = TRUE] /\ Then(c, <<>>) /\ UNCHANGED <<locked, lkcpu, st, fault>>
state(c) == /\ \/ On(c, "sleeping") /\ st' = [st EXCEPT ![Run(c)] = "SLEEPING"]
               \/ On(c, "ready") /\ st' = [st EXCEPT ![Run(c)] = "RUNNABLE"]
               \/ On(c, "wakeup") /\ st' = [t \in Tasks |-> IF st[t] = "SLEEPING" THEN "RUNNABLE" ELSE st[t]]
               \/ (On(c, "work") \/ On(c, "crit")) /\ UNCHANGED st
            /\ Then(c, <<>>) /\ UNCHANGED <<locked, lkcpu, cpu, fault>>

\* A process in user space makes a call; an interrupt is taken where they are on.
call(c) == /\ On(c, "user") /\ k' = [k EXCEPT ![Run(c)] = syscall]
           /\ UNCHANGED <<locked, lkcpu, cpu, st, fault>>
interrupt(c) == /\ fault = "no" /\ cpu[c].ie
                /\ k' = [k EXCEPT ![Run(c)] = handler(Run(c)) \o @]
                /\ cpu' = [cpu EXCEPT ![c].ie = FALSE] /\ UNCHANGED <<locked, lkcpu, st, fault>>

SpinStep(c) == \/ acquire(c) \/ acquire_xchg(c) \/ acquire_cpu(c)
               \/ release(c) \/ release_cpu(c) \/ release_locked(c) \/ release_popcli(c)
               \/ sched(c) \/ sched_resume(c) \/ scheduler_pick(c) \/ flag(c) \/ state(c)
SpinNext == \E c \in Cpus : SpinStep(c) \/ call(c) \/ interrupt(c)

\* spinlock.c:28, 49, 119-122, proc.c:486-493: no CPU takes a lock it holds,
\* releases one it does not, or switches with the wrong locks or interrupts on.
NoLockPanic == fault = "no"

Section(c) == CASE Op(c)[1] = "crit" -> "L"
                [] Op(c)[1] \in {"pick", "sleeping", "ready", "wakeup", "sched"} -> "P"
                [] OTHER -> "none"
\* spinlock.c:31: two CPUs are never inside the sections of one lock at once.
MutualExclusion == \A c, d \in Cpus : c # d => Section(c) = "none" \/ Section(c) # Section(d)

\* proc.c:475-496: interrupts are as a context expects them wherever it is
\* resumed: on in the code of a system call outside its locks, and off in a
\* handler to its end, although intena belongs to the CPU.
InterruptsKept ==
    \A c \in Cpus : /\ Op(c)[1] \in {"work", "user"} => cpu[c].ie /\ cpu[c].ncli = 0
                    /\ (\E i \in DOMAIN k[Run(c)] : k[Run(c)][i] = <<"iret">>) => ~cpu[c].ie

\* spinlock.c:27 "disable interrupts to avoid deadlock", trap.c:53-60: the CPUs
\* never all spin, for a lock of a handler's own CPU or for each other's.
NotAllSpin == \E c \in Cpus : ~(Op(c)[1] = "xchg" /\ locked[Op(c)[2]])

\* spinlock.c: locks exclude, keep interrupts as they were, and do not deadlock.
SpinSound == NoLockPanic /\ MutualExclusion /\ InterruptsKept /\ NotAllSpin
====
