-------------------------------- MODULE Proc --------------------------------
(***************************************************************************)
(* Process management of the kernel (kernel/proc.c) together with the trap *)
(* handler that drives it (kernel/trap.c): the process table and its       *)
(* multi-level feedback queues, fork, exit, wait, kill, sleep, wakeup, the *)
(* per-CPU scheduler, the timer interrupt, yield and priority_boost.       *)
(*                                                                         *)
(* A step is a critical section of ptable.lock, or an access outside of    *)
(* it.  plock is the CPU that holds ptable.lock across steps: scheduler()  *)
(* acquires it and the process it switches to releases it (or goes on      *)
(* holding it, in wait).  Sections that begin and end in one step only     *)
(* need the lock to be free.                                               *)
(*                                                                         *)
(* User programs are arbitrary: a process in user mode may take any trap   *)
(* at any time.  (A run may restrict them to the traps in Calls; the       *)
(* system is the one with all of them.)  pc[p] says where process p is:    *)
(*   user      in user space                                               *)
(*   kernel    inside some system call that may sleep and wake others      *)
(*   boot      the same, for the file system set-up of the first process   *)
(*   fork      fork has a slot for the child and is filling it in          *)
(*   wait      asleep in wait, or just resumed there                       *)
(*   exit      exit is closing files (and may sleep)                       *)
(*   forkret   never scheduled so far                                      *)
(*   none      not a process, or a zombie                                  *)
(* intr[c] is the stage of the interrupt handler on CPU c, none outside.   *)
(*                                                                         *)
(* Pids are only compared for equality and never repeat, so pid[p] is just *)
(* whether the slot carries a pid.  Bounds: TickModulus stands for the     *)
(* 2^32 of the tick counter.                                               *)
(***************************************************************************)
EXTENDS RunQueue

CONSTANTS NCPU,         \* number of CPUs
          NCHAN,        \* number of sleep channels that are not processes
          BOOSTTIMER,   \* ticks between two priority boosts (param.h)
          TickModulus,  \* the tick counter counts modulo this
          Calls         \* the traps that programs and devices make

ASSUME MachineAssumption ==
  /\ NCPU \in Nat \ {0} /\ NCHAN \in Nat \ {0}
  /\ BOOSTTIMER \in Nat \ {0} /\ TickModulus \in Nat \ {0}
  /\ Calls \subseteq {"fork", "exit", "wait", "kill", "kernel", "fault", "device"}

CPUs      == 0 .. NCPU - 1
NoCpu     == -1
initproc  == 1                              \* userinit gets the first slot
Devices   == NPROC + 1 .. NPROC + NCHAN     \* addresses that are slept on
TicksChan == NPROC + 1                      \* &ticks

VARIABLES
  state, pid, parent, chan, killed, priority, ticks_running, \* struct proc
  rq,        \* queue_first, queue_last and next_proc
  pc,        \* where each process is
  child,     \* the slot np of a fork in progress
  cur,       \* cpu->proc
  intr,      \* stage of the interrupt handler of each CPU
  plock,     \* the CPU holding ptable.lock
  ticks,     \* the tick counter
  panicked   \* the kernel has called panic

slotVars == <<state, pid, parent, chan, killed, priority, ticks_running, rq>>
ctlVars  == <<pc, child, cur, intr, plock>>
vars     == <<slotVars, ctlVars, ticks, panicked>>

States == {"UNUSED", "EMBRYO", "SLEEPING", "RUNNABLE", "RUNNING", "ZOMBIE"}
Places == {"user", "kernel", "boot", "fork", "wait", "exit", "forkret", "none"}
Stages == {"none", "wakeup", "boost", "tail", "yield", "ret"}

\* Where a process may call sleep or wakeup on a channel of the kernel.
Sleepy == {"kernel", "boot", "exit"}

TypeOK ==
  /\ state \in [Slots -> States]
  /\ pid \in [Slots -> BOOLEAN]
  /\ parent \in [Slots -> Ptr]
  /\ chan \in [Slots -> Ptr \cup Devices]
  /\ killed \in [Slots -> BOOLEAN]
  /\ priority \in [Slots -> Prios]
  /\ ticks_running \in [Slots -> Nat]
  /\ rq \in QueueTable
  /\ pc \in [Slots -> Places]
  /\ child \in [Slots -> Ptr]
  /\ cur \in [CPUs -> Ptr]
  /\ intr \in [CPUs -> Stages]
  /\ plock \in CPUs \cup {NoCpu}
  /\ ticks \in 0 .. TickModulus - 1
  /\ panicked \in BOOLEAN

(***************************************************************************)
(* The state after userinit: the first slot is allocated and enqueued.     *)
(***************************************************************************)
Init ==
  /\ state = [p \in Slots |-> IF p = initproc THEN "RUNNABLE" ELSE "UNUSED"]
  /\ pid = [p \in Slots |-> p = initproc]
  /\ parent = [p \in Slots |-> NULL]
  /\ chan = [p \in Slots |-> NULL]
  /\ killed = [p \in Slots |-> FALSE]
  /\ priority = [p \in Slots |-> 0]
  /\ ticks_running = [p \in Slots |-> 0]
  /\ rq = enqueue(EmptyTable, priority, initproc)
  /\ pc = [p \in Slots |-> IF p = initproc THEN "forkret" ELSE "none"]
  /\ child = [p \in Slots |-> NULL]
  /\ cur = [c \in CPUs |-> NULL]
  /\ intr = [c \in CPUs |-> "none"]
  /\ plock = NoCpu
  /\ ticks = 0
  /\ panicked = FALSE

Unlocked == plock = NoCpu

\* CPU c executes process code at one of the places S, interrupts enabled.
At(c, S) ==
  /\ cur[c] # NULL
  /\ plock # c
  /\ intr[c] = "none"
  /\ pc[cur[c]] \in S

\* myproc() enters exit(), which panics for the first process.
EnterExit(p) ==
  IF p = initproc THEN panicked' = TRUE /\ UNCHANGED pc
  ELSE pc' = [pc EXCEPT ![p] = "exit"] /\ UNCHANGED panicked

\* A system call of p returns, k being p->killed: a killed process exits, any
\* other one is back in user space.  The test follows the last critical
\* section of the call in the same step: a kill that falls in between acts
\* like one just after the test, and takes effect at the next trap.
Returned(p, k)  == IF k /\ p # initproc THEN "exit" ELSE "user"
ReturnTo(p, k)  == panicked' = (k /\ p = initproc)

Sleepers(ch) == {p \in Slots : state[p] = "SLEEPING" /\ chan[p] = ch}

\* state after every process of W has been enqueued
Readied(W) == [p \in Slots |-> IF p \in W THEN "RUNNABLE" ELSE state[p]]

\* wakeup1(ch)
wakeup1(ch) ==
  /\ rq' = enqueueAll(rq, priority, Sleepers(ch))
  /\ state' = Readied(Sleepers(ch))

(***************************************************************************)
(* The scheduler and the code a process runs when it is switched to.       *)
(***************************************************************************)
\* Bug: the state is not set to RUNNING.
scheduler_NoRunning(c) ==
  /\ cur[c] = NULL /\ intr[c] = "none" /\ Unlocked
  /\ \E i \in Prios :
       /\ rq.queue_first[i] # NULL
       /\ \A j \in 0 .. i - 1 : rq.queue_first[j] = NULL
       /\ cur' = [cur EXCEPT ![c] = rq.queue_first[i]]
       /\ rq' = dequeue(rq, priority, rq.queue_first[i])
  /\ plock' = c
  /\ UNCHANGED <<state, pid, parent, chan, killed, priority, ticks_running,
                 pc, child, intr, ticks, panicked>>

\* Bug: any non-empty queue will do.
scheduler_AnyQueue(c) ==
  /\ cur[c] = NULL /\ intr[c] = "none" /\ Unlocked
  /\ \E i \in Prios :
       /\ rq.queue_first[i] # NULL
       /\ cur' = [cur EXCEPT ![c] = rq.queue_first[i]]
       /\ rq' = dequeue(rq, priority, rq.queue_first[i])
       /\ state' = [state EXCEPT ![rq.queue_first[i]] = "RUNNING"]
  /\ plock' = c
  /\ UNCHANGED <<pid, parent, chan, killed, priority, ticks_running,
                 pc, child, intr, ticks, panicked>>

\* scheduler(): the head of the first non-empty queue is dequeued and
\* switched to; it starts with ptable.lock held.
scheduler(c) ==
  /\ cur[c] = NULL /\ intr[c] = "none" /\ Unlocked
  /\ \E i \in Prios :
       /\ rq.queue_first[i] # NULL
       /\ \A j \in 0 .. i - 1 : rq.queue_first[j] = NULL
       /\ LET p == rq.queue_first[i]
          IN /\ cur' = [cur EXCEPT ![c] = p]
             /\ rq' = dequeue(rq, priority, p)
             /\ state' = [state EXCEPT ![p] = "RUNNING"]
  /\ plock' = c
  /\ UNCHANGED <<pid, parent, chan, killed, priority, ticks_running,
                 pc, child, intr, ticks, panicked>>

\* sched() back into scheduler(): CPU c has no process any more.
Leave(c) == cur' = [cur EXCEPT ![c] = NULL]

\* forkret(): releases the lock; the first process sets up the file system.
forkret(c) ==
  /\ plock = c /\ pc[cur[c]] = "forkret"
  /\ plock' = NoCpu
  /\ pc' = [pc EXCEPT ![cur[c]] = IF cur[c] = initproc THEN "boot" ELSE "user"]
  /\ UNCHANGED <<slotVars, child, cur, intr, ticks, panicked>>

\* The end of sleep() on a channel with a lock other than ptable.lock.
sleep_return(c) ==
  /\ plock = c /\ pc[cur[c]] \in Sleepy /\ chan[cur[c]] # NULL
  /\ chan' = [chan EXCEPT ![cur[c]] = NULL]
  /\ plock' = NoCpu
  /\ UNCHANGED <<state, pid, parent, killed, priority, ticks_running, rq,
                 pc, child, cur, intr, ticks, panicked>>

\* The end of yield(), inside the trap handler.
yield_return(c) ==
  /\ plock = c /\ pc[cur[c]] \notin {"forkret", "wait"} /\ chan[cur[c]] = NULL
  /\ plock' = NoCpu
  /\ intr' = [intr EXCEPT ![c] = "ret"]
  /\ UNCHANGED <<slotVars, pc, child, cur, ticks, panicked>>

(***************************************************************************)
(* The trap handler: interrupts.  They are off while a handler runs and    *)
(* while the CPU holds ptable.lock.                                        *)
(***************************************************************************)
\* The timer interrupt; CPU 0 counts it, with tickslock held until the tail.
trap_timer(c) ==
  /\ intr[c] = "none" /\ plock # c
  /\ intr' = [intr EXCEPT ![c] = IF c = 0 THEN "wakeup" ELSE "tail"]
  /\ ticks' = IF c = 0 THEN (ticks + 1) % TickModulus ELSE ticks
  /\ UNCHANGED <<slotVars, pc, child, cur, plock, panicked>>

\* Bug: no boost is ever started.
tick_wakeup_NoBoost(c) ==
  /\ intr[c] = "wakeup" /\ Unlocked
  /\ wakeup1(TicksChan)
  /\ intr' = [intr EXCEPT ![c] = "tail"]
  /\ UNCHANGED <<pid, parent, chan, killed, priority, ticks_running,
                 pc, child, cur, plock, ticks, panicked>>

\* wakeup(&ticks), and the test that decides on a boost
tick_wakeup(c) ==
  /\ intr[c] = "wakeup" /\ Unlocked
  /\ wakeup1(TicksChan)
  /\ intr' = [intr EXCEPT ![c] = IF ticks % BOOSTTIMER = 0 THEN "boost" ELSE "tail"]
  /\ UNCHANGED <<pid, parent, chan, killed, priority, ticks_running,
                 pc, child, cur, plock, ticks, panicked>>

priority_boost(c) ==
  /\ intr[c] = "boost" /\ Unlocked
  /\ priority' = [p \in Slots |-> 0]
  /\ rq' = boost(rq)
  /\ intr' = [intr EXCEPT ![c] = "tail"]
  /\ UNCHANGED <<state, pid, parent, chan, killed, ticks_running,
                 pc, child, cur, plock, ticks, panicked>>

\* "quantum = 2^priority ticks" (trap.c:109)
quantum(i) == 2 ^ i

\* 1 << priority (trap.c:110) is positive: it does not shift the bit out.
ASSUME QuantumAssumption == \A i \in Prios : quantum(i) > 0

\* Bug: the handler returns at once for a killed process.
trap_tail_IgnoreKilled(c) ==
  /\ intr[c] = "tail"
  /\ LET p == cur[c]
     IN \/ /\ p = NULL \/ (p # NULL /\ killed[p])
           /\ intr' = [intr EXCEPT ![c] = "none"]
           /\ UNCHANGED ticks_running
        \/ /\ p # NULL /\ ~killed[p]
           /\ ticks_running' = [ticks_running EXCEPT ![p] = @ + 1]
           /\ intr' = [intr EXCEPT ![c] =
                         IF quantum(priority[p]) <= ticks_running[p] + 1
                         THEN "yield" ELSE "ret"]
  /\ UNCHANGED <<state, pid, parent, chan, killed, priority, rq,
                 pc, child, cur, plock, ticks, panicked>>

\* Bug: every tick ends the quantum, and is not charged.
trap_tail_NoCharge(c) ==
  /\ intr[c] = "tail"
  /\ intr' = [intr EXCEPT ![c] = IF cur[c] = NULL THEN "none" ELSE "yield"]
  /\ UNCHANGED <<slotVars, pc, child, cur, plock, ticks, panicked>>

\* After the timer's switch: a killed process in user space exits; any
\* other process is charged the tick and yields when its quantum is used.
trap_tail(c) ==
  /\ intr[c] = "tail"
  /\ LET p == cur[c]
     IN \/ /\ p = NULL
           /\ intr' = [intr EXCEPT ![c] = "none"]
           /\ UNCHANGED <<ticks_running, pc, panicked>>
        \/ /\ p # NULL /\ killed[p] /\ pc[p] = "user"
           /\ intr' = [intr EXCEPT ![c] = "none"]
           /\ EnterExit(p)
           /\ UNCHANGED ticks_running
        \/ /\ p # NULL /\ ~(killed[p] /\ pc[p] = "user")
           /\ state[p] = "RUNNING"     \* always so: see OnOneCpu
           /\ ticks_running' = [ticks_running EXCEPT ![p] = @ + 1]
           /\ intr' = [intr EXCEPT ![c] =
                         IF quantum(priority[p]) <= ticks_running[p] + 1
                         THEN "yield" ELSE "ret"]
           /\ UNCHANGED <<pc, panicked>>
  /\ UNCHANGED <<state, pid, parent, chan, killed, priority, rq,
                 child, cur, plock, ticks>>

\* Bug: the used ticks are kept for the next quantum.
yield_KeepTicks(c) ==
  LET p == cur[c]
  IN /\ intr[c] = "yield" /\ Unlocked
     /\ priority' = [priority EXCEPT ![p] = IF @ = NPRIO - 1 THEN @ ELSE @ + 1]
     /\ rq' = enqueue(rq, priority', p)
     /\ state' = [state EXCEPT ![p] = "RUNNABLE"]
     /\ Leave(c)
     /\ intr' = [intr EXCEPT ![c] = "none"]
     /\ UNCHANGED <<pid, parent, chan, killed, ticks_running, pc, child, plock,
                    ticks, panicked>>

\* Bug: the process keeps its priority.
yield_NoDemotion(c) ==
  LET p == cur[c]
  IN /\ intr[c] = "yield" /\ Unlocked
     /\ ticks_running' = [ticks_running EXCEPT ![p] = 0]
     /\ rq' = enqueue(rq, priority, p)
     /\ state' = [state EXCEPT ![p] = "RUNNABLE"]
     /\ Leave(c)
     /\ intr' = [intr EXCEPT ![c] = "none"]
     /\ UNCHANGED <<pid, parent, chan, killed, priority, pc, child, plock, ticks, panicked>>

\* yield(): one priority lower, a new quantum, to the end of the queue.
yield(c) ==
  LET p == cur[c]
  IN /\ intr[c] = "yield" /\ Unlocked
     /\ priority' = [priority EXCEPT ![p] = IF @ = NPRIO - 1 THEN @ ELSE @ + 1]
     /\ ticks_running' = [ticks_running EXCEPT ![p] = 0]
     /\ rq' = enqueue(rq, priority', p)
     /\ state' = [state EXCEPT ![p] = "RUNNABLE"]
     /\ Leave(c)
     /\ intr' = [intr EXCEPT ![c] = "none"]
     /\ UNCHANGED <<pid, parent, chan, killed, pc, child, plock, ticks, panicked>>

\* The last check of trap(), for a kill that came in the meantime.
trap_ret(c) ==
  /\ intr[c] = "ret"
  /\ intr' = [intr EXCEPT ![c] = "none"]
  /\ IF cur[c] # NULL /\ killed[cur[c]] /\ pc[cur[c]] = "user"
     THEN EnterExit(cur[c])
     ELSE UNCHANGED <<pc, panicked>>
  /\ UNCHANGED <<slotVars, child, cur, plock, ticks>>

\* A device interrupt wakes the processes waiting for the device.
trap_device(c, ch) ==
  /\ "device" \in Calls
  /\ intr[c] = "none" /\ Unlocked
  /\ wakeup1(ch)
  /\ intr' = [intr EXCEPT ![c] = "ret"]
  /\ UNCHANGED <<pid, parent, chan, killed, priority, ticks_running,
                 pc, child, cur, plock, ticks, panicked>>

(***************************************************************************)
(* The trap handler: faults and system calls.                              *)
(***************************************************************************)
\* A fault in user space marks the process killed, and it exits.
trap_fault(c) ==
  /\ At(c, {"user"}) /\ "fault" \in Calls
  /\ killed' = [killed EXCEPT ![cur[c]] = TRUE]
  /\ EnterExit(cur[c])
  /\ UNCHANGED <<state, pid, parent, chan, priority, ticks_running, rq,
                 child, cur, intr, plock, ticks>>

\* Any system call of a killed process exits, and so does exit().
syscall_exit(c) ==
  /\ At(c, {"user"}) /\ (killed[cur[c]] \/ "exit" \in Calls)
  /\ EnterExit(cur[c])
  /\ UNCHANGED <<slotVars, child, cur, intr, plock, ticks>>

\* The process enters a system call that works with the sleep channels.
syscall_kernel(c) ==
  /\ At(c, {"user"}) /\ ~killed[cur[c]] /\ "kernel" \in Calls
  /\ pc' = [pc EXCEPT ![cur[c]] = "kernel"]
  /\ UNCHANGED <<slotVars, child, cur, intr, plock, ticks, panicked>>

\* The call returns, or the set-up of the first process ends.
syscall_return(c) ==
  /\ At(c, {"kernel", "boot"})
  /\ LET p == cur[c]
         k == killed[p] /\ pc[p] # "boot"
     IN /\ pc' = [pc EXCEPT ![p] = Returned(p, k)]
        /\ ReturnTo(p, k)
  /\ UNCHANGED <<slotVars, child, cur, intr, plock, ticks>>

(***************************************************************************)
(* fork(): allocproc under the lock, the copy outside of it, and enqueue.  *)
(***************************************************************************)
fork(c) ==
  /\ At(c, {"user"}) /\ ~killed[cur[c]] /\ Unlocked /\ "fork" \in Calls
  /\ LET p      == cur[c]
         Unused == {q \in Slots : state[q] = "UNUSED"}
         np     == Min(Unused)
     IN \/ /\ Unused = {}
           /\ UNCHANGED <<state, pid, priority, child, pc>>
        \/ /\ Unused # {}
           /\ state' = [state EXCEPT ![np] = "EMBRYO"]
           /\ pid' = [pid EXCEPT ![np] = TRUE]
           /\ priority' = [priority EXCEPT ![np] = 0]
           /\ child' = [child EXCEPT ![p] = np]
           /\ pc' = [pc EXCEPT ![p] = "fork"]
  /\ UNCHANGED <<parent, chan, killed, ticks_running, rq, cur, intr, plock,
                 ticks, panicked>>

\* kalloc or copyuvm fails: the slot is given back without the lock, and
\* with its pid.
fork_fail(c) ==
  /\ At(c, {"fork"})
  /\ LET p == cur[c]
     IN /\ state' = [state EXCEPT ![child[p]] = "UNUSED"]
        /\ child' = [child EXCEPT ![p] = NULL]
        /\ pc' = [pc EXCEPT ![p] = Returned(p, killed[p])]
        /\ ReturnTo(p, killed[p])
  /\ UNCHANGED <<pid, parent, chan, killed, priority, ticks_running, rq,
                 cur, intr, plock, ticks>>

\* The child is filled in and enqueued.  (Only this process looks at a slot
\* that names it as parent, so the earlier write of parent shows to no one.)
fork_enqueue(c) ==
  /\ At(c, {"fork"}) /\ Unlocked
  /\ LET p  == cur[c]
         np == child[p]
     IN /\ parent' = [parent EXCEPT ![np] = p]
        /\ rq' = enqueue(rq, priority, np)
        /\ state' = [state EXCEPT ![np] = "RUNNABLE"]
        /\ pc' = [pc EXCEPT ![p] = Returned(p, killed[p]), ![np] = "forkret"]
        /\ ReturnTo(p, killed[p])
        /\ child' = [child EXCEPT ![p] = NULL]
  /\ UNCHANGED <<pid, chan, killed, priority, ticks_running,
                 cur, intr, plock, ticks>>

(***************************************************************************)
(* exit(), after the files are closed: wake the parent, hand the children  *)
(* to the first process (waking it if one is a zombie), become a zombie.   *)
(***************************************************************************)
\* Bug: the parent is not woken.
exit_NoWakeup(c) ==
  /\ At(c, {"exit"}) /\ Unlocked
  /\ LET p        == cur[c]
         Children == {q \in Slots : parent[q] = p}
     IN /\ state' = [state EXCEPT ![p] = "ZOMBIE"]
        /\ parent' = [q \in Slots |-> IF q \in Children THEN initproc ELSE parent[q]]
        /\ pc' = [pc EXCEPT ![p] = "none"]
  /\ Leave(c)
  /\ UNCHANGED <<pid, chan, killed, priority, ticks_running, rq,
                 child, intr, plock, ticks, panicked>>

\* Bug: the children keep their parent.
exit_NoReparent(c) ==
  /\ At(c, {"exit"}) /\ Unlocked
  /\ LET p        == cur[c]
         First    == Sleepers(parent[p])
     IN /\ rq' = enqueueAll(rq, priority, First)
        /\ state' = [Readied(First) EXCEPT ![p] = "ZOMBIE"]
        /\ pc' = [pc EXCEPT ![p] = "none"]
  /\ Leave(c)
  /\ UNCHANGED <<pid, parent, chan, killed, priority, ticks_running,
                 child, intr, plock, ticks, panicked>>

exit(c) ==
  /\ At(c, {"exit"}) /\ Unlocked
  /\ LET p        == cur[c]
         Children == {q \in Slots : parent[q] = p}
         First    == Sleepers(parent[p])
         Second   == IF \E q \in Children : state[q] = "ZOMBIE"
                     THEN Sleepers(initproc) \ First ELSE {}
     IN /\ rq' = enqueueAll(enqueueAll(rq, priority, First), priority, Second)
        /\ state' = [Readied(First \cup Second) EXCEPT ![p] = "ZOMBIE"]
        /\ parent' = [q \in Slots |-> IF q \in Children THEN initproc ELSE parent[q]]
        /\ pc' = [pc EXCEPT ![p] = "none"]
  /\ Leave(c)
  /\ UNCHANGED <<pid, chan, killed, priority, ticks_running,
                 child, intr, plock, ticks, panicked>>

(***************************************************************************)
(* wait(): entered with the lock free, or resumed from its sleep with the  *)
(* lock held by this CPU since scheduler().                                *)
(***************************************************************************)
wait(c) ==
  /\ \/ At(c, {"user"}) /\ ~killed[cur[c]] /\ Unlocked /\ "wait" \in Calls
     \/ plock = c /\ pc[cur[c]] = "wait"
  /\ LET p        == cur[c]
         Children == {q \in Slots : parent[q] = p}
         Zombies  == {q \in Children : state[q] = "ZOMBIE"}
         z        == Min(Zombies)
     IN \/ /\ Zombies # {}
           /\ pid' = [pid EXCEPT ![z] = FALSE]
           /\ parent' = [parent EXCEPT ![z] = NULL]
           /\ killed' = [killed EXCEPT ![z] = FALSE]
           /\ state' = [state EXCEPT ![z] = "UNUSED"]
           /\ chan' = [chan EXCEPT ![p] = NULL]
           /\ pc' = [pc EXCEPT ![p] = Returned(p, killed[p])]
           /\ ReturnTo(p, killed[p])
           /\ UNCHANGED cur
        \/ /\ Zombies = {} /\ (Children = {} \/ killed[p])
           /\ chan' = [chan EXCEPT ![p] = NULL]
           /\ pc' = [pc EXCEPT ![p] = Returned(p, killed[p])]
           /\ ReturnTo(p, killed[p])
           /\ UNCHANGED <<pid, parent, killed, state, cur>>
        \/ /\ Zombies = {} /\ Children # {} /\ ~killed[p]
           /\ chan' = [chan EXCEPT ![p] = p]
           /\ state' = [state EXCEPT ![p] = "SLEEPING"]
           /\ pc' = [pc EXCEPT ![p] = "wait"]
           /\ Leave(c)
           /\ UNCHANGED <<pid, parent, killed, panicked>>
  /\ plock' = NoCpu
  /\ UNCHANGED <<priority, ticks_running, rq, child, intr, ticks>>

(***************************************************************************)
(* sleep(), wakeup() and kill()                                            *)
(***************************************************************************)
sleep(c, ch) ==
  /\ At(c, Sleepy) /\ Unlocked
  /\ chan' = [chan EXCEPT ![cur[c]] = ch]
  /\ state' = [state EXCEPT ![cur[c]] = "SLEEPING"]
  /\ Leave(c)
  /\ UNCHANGED <<pid, parent, killed, priority, ticks_running, rq,
                 pc, child, intr, plock, ticks, panicked>>

wakeup(c, ch) ==
  /\ At(c, Sleepy) /\ Unlocked
  /\ wakeup1(ch)
  /\ UNCHANGED <<pid, parent, chan, killed, priority, ticks_running,
                 ctlVars, ticks, panicked>>

\* Bug: a process that is queued already is queued once more.
kill_EnqueueAny(c, t) ==
  /\ At(c, {"user"}) /\ ~killed[cur[c]] /\ Unlocked /\ "kill" \in Calls
  /\ pid[t] \/ \A q \in 1 .. t - 1 : pid[q]
  /\ killed' = [killed EXCEPT ![t] = TRUE]
  /\ IF state[t] \in {"SLEEPING", "RUNNABLE"}
     THEN /\ rq' = enqueue(rq, priority, t)
          /\ state' = [state EXCEPT ![t] = "RUNNABLE"]
     ELSE UNCHANGED <<rq, state>>
  /\ pc' = [pc EXCEPT ![cur[c]] = Returned(cur[c], t = cur[c])]
  /\ ReturnTo(cur[c], t = cur[c])
  /\ UNCHANGED <<pid, parent, chan, priority, ticks_running,
                 child, cur, intr, plock, ticks>>

\* kill(pid) hits the first slot t that carries pid: any slot that has one,
\* and for pid 0 the first slot that has none.
kill(c, t) ==
  /\ At(c, {"user"}) /\ ~killed[cur[c]] /\ Unlocked /\ "kill" \in Calls
  /\ pid[t] \/ \A q \in 1 .. t - 1 : pid[q]
  /\ killed' = [killed EXCEPT ![t] = TRUE]
  /\ IF state[t] = "SLEEPING"
     THEN /\ rq' = enqueue(rq, priority, t)
          /\ state' = [state EXCEPT ![t] = "RUNNABLE"]
     ELSE UNCHANGED <<rq, state>>
  /\ pc' = [pc EXCEPT ![cur[c]] = Returned(cur[c], t = cur[c])]
  /\ ReturnTo(cur[c], t = cur[c])
  /\ UNCHANGED <<pid, parent, chan, priority, ticks_running,
                 child, cur, intr, plock, ticks>>

(***************************************************************************)
(* The specification.  After a panic the machine stands still.             *)
(***************************************************************************)
Interrupt(c) ==
  \/ trap_timer(c) \/ tick_wakeup(c) \/ priority_boost(c)
  \/ trap_tail(c) \/ yield(c) \/ trap_ret(c)
  \/ \E ch \in Devices \ {TicksChan} : trap_device(c, ch)

Process(c) ==
  \/ forkret(c) \/ sleep_return(c) \/ yield_return(c)
  \/ trap_fault(c) \/ syscall_exit(c) \/ syscall_kernel(c) \/ syscall_return(c)
  \/ fork(c) \/ fork_fail(c) \/ fork_enqueue(c)
  \/ exit(c) \/ wait(c)
  \/ \E ch \in Devices : sleep(c, ch)
  \/ \E ch \in Devices \ {TicksChan} : wakeup(c, ch)
  \/ \E t \in Slots : kill(c, t)

Halted == panicked /\ UNCHANGED vars

Next ==
  \/ ~panicked /\ \E c \in CPUs : scheduler(c) \/ Interrupt(c) \/ Process(c)
  \/ Halted

Spec == Init /\ [][Next]_vars

(***************************************************************************)
(* Fairness.  A CPU that is not stopped by a lock executes its next        *)
(* instruction, a spinning acquire gets its lock in the end, and a timer   *)
(* interrupt that is pending is taken once interrupts are enabled.  What   *)
(* processes do in user space or in a system call is not assumed fair.     *)
(***************************************************************************)
Continue(c) ==
  /\ ~panicked
  /\ \/ forkret(c) \/ sleep_return(c) \/ yield_return(c)
     \/ plock = c /\ wait(c)
     \/ tick_wakeup(c) \/ priority_boost(c)
     \/ trap_tail(c) \/ yield(c) \/ trap_ret(c)

Fairness ==
  \A c \in CPUs : /\ SF_vars(~panicked /\ scheduler(c))
                  /\ SF_vars(~panicked /\ trap_timer(c))
                  /\ SF_vars(Continue(c))

FairSpec == Spec /\ Fairness

-----------------------------------------------------------------------------
(***************************************************************************)
(* Properties                                                              *)
(***************************************************************************)
Runnable == {p \in Slots : state[p] = "RUNNABLE"}

\* INVARIANT.  Every queue of ptable holds exactly the RUNNABLE processes of
\* its priority, each once, in one null-terminated list: no process is lost,
\* queued twice or queued at a stale priority, whatever wakeup, kill, yield,
\* fork and priority_boost do to the links (enqueue, dequeue).
QueuesHoldRunnable == AllThreaded(rq, Runnable, priority)

\* INVARIANT.  A process is RUNNING exactly while it is the proc of one CPU:
\* no kernel stack is ever in use on two CPUs, and no CPU runs a process
\* that another one may pick from a queue (scheduler, yield, sleep, exit).
OnOneCpu ==
  /\ \A c \in CPUs : cur[c] # NULL => state[cur[c]] = "RUNNING"
  /\ \A c, d \in CPUs : cur[c] # NULL /\ cur[c] = cur[d] => c = d
  /\ \A p \in Slots : state[p] = "RUNNING" => \E c \in CPUs : cur[c] = p

\* INVARIANT.  A process asleep in wait has a child to wait for, none that
\* is a zombie already, and has not been killed: the wakeup of an exit or a
\* kill on another CPU, or of a child handed to init, is never lost.
WaitNotLost ==
  \A p \in Slots : state[p] = "SLEEPING" /\ pc[p] = "wait" =>
    /\ ~killed[p]
    /\ \E q \in Slots : parent[q] = p
    /\ \A q \in Slots : parent[q] = p => state[q] # "ZOMBIE"

Alive == {p \in Slots : state[p] \in {"SLEEPING", "RUNNABLE", "RUNNING"}}

\* INVARIANT.  Every process and every zombie but init has a living parent
\* that can reap it, and a free slot has none (exit reparents, wait reaps).
ParentsAlive ==
  \A p \in Slots :
    /\ state[p] = "UNUSED" => parent[p] = NULL
    /\ p \in Alive \/ state[p] = "ZOMBIE" => p = initproc \/ parent[p] \in Alive

\* INVARIANT.  Below the highest priority a process never keeps more ticks
\* than its quantum of 2^priority, sleeping or not: only a process that is
\* about to yield has used it up (trap, yield, priority_boost).
QuantumKept ==
  \A p \in Slots :
    \/ priority[p] = 0
    \/ ticks_running[p] < quantum(priority[p])
    \/ \E c \in CPUs : cur[c] = p /\ intr[c] = "yield"

\* What the proofs need besides: who may hold ptable.lock between steps,
\* what an interrupt handler knows of its CPU, what a fork in progress owns,
\* where a sleeper waits, and that the first process never exits.
LockInv ==
  /\ \A c \in CPUs : plock = c => cur[c] # NULL /\ intr[c] = "none"
  /\ \A c \in CPUs : intr[c] = "yield" => cur[c] # NULL
ForkInv ==
  /\ \A p \in Slots : pc[p] = "fork" => child[p] \in Slots /\ state[child[p]] = "EMBRYO"
  /\ \A p, r \in Slots : pc[p] = "fork" /\ pc[r] = "fork" /\ child[p] = child[r] => p = r
FamilyInv ==
  /\ initproc \in Alive /\ pc[initproc] # "exit" /\ parent[initproc] = NULL
  /\ \A p \in Slots : parent[p] # p
  /\ \A p \in Slots : state[p] = "EMBRYO" => parent[p] = NULL
  /\ \A p \in Slots : state[p] = "SLEEPING" /\ pc[p] = "wait" => chan[p] = p

\* INVARIANT.  The inductive invariant: every step of proc.c and trap.c that
\* starts in a state with all of these properties ends in one.
IInv == /\ TypeOK /\ OnOneCpu /\ QueuesHoldRunnable /\ WaitNotLost /\ ParentsAlive
        /\ LockInv /\ ForkInv /\ FamilyInv

\* ACTION.  A CPU that takes a process takes one of the highest priority
\* that any RUNNABLE process has (scheduler; first rule of the MLFQ).
HighestPriorityFirst ==
  [][\A c \in CPUs : cur[c] = NULL /\ cur'[c] # NULL =>
       \A q \in Slots : state[q] = "RUNNABLE" => priority[cur'[c]] <= priority[q]]_vars

\* ACTION.  A process loses priority only when it has used up a quantum of
\* the priority it has at that moment, even when a boost on CPU 0 falls
\* between the test in trap and its yield.
DemotionEarned ==
  [][\A p \in Slots : priority'[p] > priority[p] =>
       ticks_running[p] >= quantum(priority[p]) /\ state'[p] = "RUNNABLE"]_vars

\* ACTION.  The report on the scheduler says that a process starts with
\* ticks_running = 0; allocproc leaves the field as the last process of the
\* slot left it.
StartsWithoutTicks ==
  [][\A p \in Slots : state[p] = "UNUSED" /\ state'[p] = "EMBRYO" =>
       ticks_running'[p] = 0]_vars

\* ACTION.  kill marks "the process with the given pid" (proc.c:598): a slot
\* without a process is not marked, so that no process is born killed.
KillsProcesses ==
  [][\A p \in Slots : killed'[p] /\ ~killed[p] => state[p] # "UNUSED"]_vars

\* LIVENESS.  A RUNNABLE process runs in the end, although processes that
\* sleep before each tick keep the highest priority (priority_boost).
NoStarvation ==
  \A p \in Slots : state[p] = "RUNNABLE" ~> state[p] = "RUNNING" \/ panicked

\* LIVENESS.  A killed process that is in user space does not stay there
\* (the two killed tests of trap and the one of the system call).
KilledLeavesUser ==
  \A p \in Slots : killed[p] /\ pc[p] = "user" ~> pc[p] # "user" \/ panicked

=============================================================================
