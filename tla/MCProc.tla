------------------------------- MODULE MCProc -------------------------------
(***************************************************************************)
(* Proc for TLC: the refinement of MLFQ.                                   *)
(***************************************************************************)
EXTENDS Proc, SequencesExt

\* The list of priority i as the sequence of its processes.
QueueSeq(i) == SelectSeq(chain(rq, i), LAMBDA p : p # NULL)

M == INSTANCE MLFQ WITH Procs <- Slots, Levels <- Prios, MaxRunning <- NCPU,
                        queue <- [i \in Prios |-> QueueSeq(i)],
                        level <- priority,
                        running <- {p \in Slots : state[p] = "RUNNING"}

\* REFINEMENT.  Seen through its lists, the process table is a multi-level
\* feedback queue: every critical section of proc.c is one step of MLFQ or
\* changes nothing there (enqueue, dequeue, wakeup1, yield, priority_boost).
ImplementsMLFQ == M!MSpec
=============================================================================
