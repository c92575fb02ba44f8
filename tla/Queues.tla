------------------------------- MODULE Queues -------------------------------
(***************************************************************************)
(* The scheduling queues on their own: every table that enqueue, dequeue   *)
(* and priority_boost can build (kernel/proc.c), and the loops of wakeup1  *)
(* and priority_boost that RunQueue gives in closed form.                  *)
(***************************************************************************)
EXTENDS RunQueue, SequencesExt

VARIABLES table,    \* the lists
          level,    \* the priority of every slot
          queued    \* the RUNNABLE processes

queueVars == <<table, level, queued>>

QueuesInit == table = EmptyTable /\ level = [p \in Slots |-> 0] /\ queued = {}

\* A process becomes RUNNABLE with some priority and is enqueued.
Readies(p, i) == /\ p \notin queued /\ queued' = queued \cup {p}
                 /\ level' = [level EXCEPT ![p] = i]
                 /\ table' = enqueue(table, level', p)

\* A process leaves its list, wherever in it it is.
Leaves(p) == /\ p \in queued /\ queued' = queued \ {p}
             /\ table' = dequeue(table, level, p)
             /\ UNCHANGED level

\* wakeup1 finds the processes of W asleep.
Wakes(W) == /\ W # {} /\ queued' = queued \cup W
            /\ table' = enqueueAll(table, level, W)
            /\ UNCHANGED level

Boosts == /\ table' = boost(table) /\ level' = [p \in Slots |-> 0]
          /\ UNCHANGED queued

QueuesNext == \/ Boosts
              \/ \E p \in Slots : Leaves(p) \/ \E i \in Prios : Readies(p, i)
              \/ \E W \in SUBSET (Slots \ queued) : Wakes(W)

----
\* The table after enqueue(p) for each p of W, in table order (proc.c:583).
enqueueLoop(W) ==
  FoldLeft(LAMBDA q, p : enqueue(q, level, p), table,
           SelectSeq([k \in 1 .. NPROC |-> k], LAMBDA p : p \in W))

\* ACTION PROPERTY.  Whatever processes wakeup1 finds asleep, and whatever
\* lists they join, the closed form that the actions of Proc use is what its
\* loop leaves in the table.
WakeupLoop ==
  [][level' = level /\ queued \subseteq queued' /\ queued # queued'
       => table' = enqueueLoop(queued' \ queued)]_queueVars

\* The loop of priority_boost over the lists: first, last and next_proc after
\* the queues up to i have been linked.
boostLoop ==
  FoldLeft(LAMBDA acc, i :
             IF table.queue_first[i] = NULL THEN acc
             ELSE [first |-> IF acc.first = NULL THEN table.queue_first[i] ELSE acc.first,
                   last  |-> table.queue_last[i],
                   next  |-> IF acc.last = NULL THEN acc.next
                             ELSE [acc.next EXCEPT ![acc.last] = table.queue_first[i]]],
           [first |-> NULL, last |-> NULL, next |-> table.next_proc],
           [k \in 1 .. NPRIO |-> k - 1])

\* ACTION PROPERTY.  The closed form of the boost is what the two loops of
\* priority_boost (skip the empty queues, then link the others) compute.
BoostLoop ==
  [][queued' = queued /\ queueVars' # queueVars
       => /\ table'.queue_first[0] = boostLoop.first
          /\ table'.queue_last[0] = boostLoop.last
          /\ table'.next_proc = boostLoop.next]_queueVars

\* The loops of wakeup1 and priority_boost compute what Proc's actions say.
LoopsExact == WakeupLoop /\ BoostLoop
=============================================================================
