-------------------------------- MODULE MLFQ --------------------------------
(***************************************************************************)
(* What the scheduler promises: a multi-level feedback queue.  Each level  *)
(* is a FIFO sequence of waiting processes, level 0 first; a process that  *)
(* uses up its quantum goes down one level and to the end of that queue;   *)
(* a boost puts everyone on level 0, keeping the order in which they would *)
(* have been served.  Links, locks, interrupts and process life cycles are *)
(* not visible here.                                                       *)
(***************************************************************************)
EXTENDS Integers, SequencesExt

CONSTANTS Procs,       \* processes
          Levels,      \* 0 .. n for some n
          MaxRunning   \* number of CPUs

VARIABLES queue,    \* queue[i]: the waiting processes of level i, in order
          level,    \* the level of each process
          running   \* the processes that have a CPU

mvars == <<queue, level, running>>

Waiting == UNION {ToSet(queue[i]) : i \in Levels}
Outside == Procs \ (Waiting \cup running)

\* The queues after the processes of s have joined them one by one.
Joined(s) ==
  [i \in Levels |-> queue[i] \o SelectSeq(s, LAMBDA p : level[p] = i)]

\* Every order in which processes from outside can arrive.
Arrivals(S) == UNION {SetToSeqs(T) : T \in SUBSET S}

MInit ==
  /\ level = [p \in Procs |-> 0]
  /\ \E p \in Procs : queue = [i \in Levels |-> IF i = 0 THEN <<p>> ELSE <<>>]
  /\ running = {}

\* Processes become ready.
Arrive ==
  /\ \E s \in Arrivals(Outside) : queue' = Joined(s)
  /\ UNCHANGED <<level, running>>

\* A new process starts out on level 0.
Create ==
  /\ \E p \in Outside : level' = [level EXCEPT ![p] = 0]
  /\ UNCHANGED <<queue, running>>

\* The process that has waited longest on the first non-empty level runs.
Dispatch ==
  /\ Cardinality(running) < MaxRunning
  /\ \E i \in Levels :
       /\ queue[i] # <<>>
       /\ \A j \in Levels : j < i => queue[j] = <<>>
       /\ queue' = [queue EXCEPT ![i] = Tail(@)]
       /\ running' = running \cup {Head(queue[i])}
  /\ UNCHANGED level

\* A running process has used its quantum.
Expire ==
  \E p \in running :
    LET down == IF level[p] + 1 \in Levels THEN level[p] + 1 ELSE level[p]
    IN /\ level' = [level EXCEPT ![p] = down]
       /\ queue' = [queue EXCEPT ![down] = Append(@, p)]
       /\ running' = running \ {p}

\* A running process stops, which may make others ready.
Stop ==
  \E p \in running :
    /\ \E s \in Arrivals(Outside) : queue' = Joined(s)
    /\ running' = running \ {p}
    /\ UNCHANGED level

Boost ==
  /\ level' = [p \in Procs |-> 0]
  /\ queue' = [i \in Levels |->
                 IF i = 0 THEN FlattenSeq([n \in 1 .. Cardinality(Levels) |-> queue[n - 1]])
                          ELSE <<>>]
  /\ UNCHANGED running

MNext == Arrive \/ Create \/ Dispatch \/ Expire \/ Stop \/ Boost

MSpec == MInit /\ [][MNext]_mvars
=============================================================================
