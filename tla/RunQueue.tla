------------------------------ MODULE RunQueue ------------------------------
(***************************************************************************)
(* The scheduling queues of the process table (kernel/proc.c): one singly  *)
(* linked list per priority, threaded through the next_proc field of the   *)
(* process slots, with a pointer to its first and to its last process.     *)
(*                                                                         *)
(* A queue table is a record q with the fields                             *)
(*   q.queue_first[i], q.queue_last[i]   for every priority i              *)
(*   q.next_proc[p]                      for every process slot p          *)
(* Pointers to slots are the slot numbers 1 .. NPROC and the null pointer  *)
(* is 0.  The operators below are what the C functions make of a table;    *)
(* prio is the field p->priority of every slot.                            *)
(***************************************************************************)
EXTENDS Integers, FiniteSetsExt

CONSTANTS NPROC,   \* number of slots of ptable.proc (param.h)
          NPRIO    \* number of priorities (param.h)

ASSUME SizeAssumption == NPROC \in Nat \ {0} /\ NPRIO \in Nat \ {0}

NULL  == 0
Slots == 1 .. NPROC
Ptr   == Slots \cup {NULL}
Prios == 0 .. NPRIO - 1

QueueTable == [queue_first : [Prios -> Ptr],
               queue_last  : [Prios -> Ptr],
               next_proc   : [Slots -> Ptr]]

\* Static storage is zero: "Memory is initialised in 0" (proc.c:18).
EmptyTable == [queue_first |-> [i \in Prios |-> NULL],
               queue_last  |-> [i \in Prios |-> NULL],
               next_proc   |-> [p \in Slots |-> NULL]]

(***************************************************************************)
(* enqueue(p): p becomes the last process of the queue of its priority.    *)
(***************************************************************************)
enqueue(q, prio, p) ==
  LET i    == prio[p]
      last == q.queue_last[i]
  IN [queue_first |-> IF last = NULL THEN [q.queue_first EXCEPT ![i] = p]
                                     ELSE q.queue_first,
      queue_last  |-> [q.queue_last EXCEPT ![i] = p],
      next_proc   |-> [r \in Slots |-> IF r = p THEN NULL
                                       ELSE IF r = last THEN p
                                       ELSE q.next_proc[r]]]

(***************************************************************************)
(* The loop of wakeup1 that enqueues every process of the set W in table   *)
(* order, in closed form: the members of W of one priority become a chain  *)
(* in slot order that is hung on the last process of that queue.           *)
(***************************************************************************)
enqueueAll(q, prio, W) ==
  LET Of(i)    == {p \in W : prio[p] = i}
      After(p) == {r \in Of(prio[p]) : r > p}
  IN [queue_first |-> [i \in Prios |-> IF Of(i) # {} /\ q.queue_last[i] = NULL
                                       THEN Min(Of(i)) ELSE q.queue_first[i]],
      queue_last  |-> [i \in Prios |-> IF Of(i) # {} THEN Max(Of(i))
                                       ELSE q.queue_last[i]],
      next_proc   |-> [p \in Slots |->
                         IF p \in W
                         THEN IF After(p) = {} THEN NULL ELSE Min(After(p))
                         ELSE IF Of(prio[p]) # {} /\ q.queue_last[prio[p]] = p
                         THEN Min(Of(prio[p]))
                         ELSE q.next_proc[p]]]

(***************************************************************************)
(* The queue of priority i as the code sees it when it follows next_proc   *)
(* from queue_first: the k-th process, or NULL past the end.               *)
(***************************************************************************)
chain(q, i) ==
  LET walk[k \in 1 .. NPROC] ==
        IF k = 1 THEN q.queue_first[i]
        ELSE IF walk[k - 1] = NULL THEN NULL ELSE q.next_proc[walk[k - 1]]
  IN walk

\* Bug: queue_last keeps pointing to the process that left.
dequeue_KeepLast(q, prio, p) ==
  [q EXCEPT !.queue_first[prio[p]] = q.next_proc[p]]

(***************************************************************************)
(* dequeue(p): the head case, and the search for the process before p.     *)
(***************************************************************************)
dequeue(q, prio, p) ==
  LET i == prio[p]
      \* the process before p, found by the search loop
      previous_p == CHOOSE r \in Slots : /\ \E k \in 1 .. NPROC : chain(q, i)[k] = r
                                         /\ q.next_proc[r] = p
  IN IF q.queue_first[i] = p
     THEN [queue_first |-> [q.queue_first EXCEPT ![i] = q.next_proc[p]],
           queue_last  |-> [q.queue_last EXCEPT ![i] = IF @ = p THEN NULL ELSE @],
           next_proc   |-> q.next_proc]
     ELSE [queue_first |-> q.queue_first,
           queue_last  |-> [q.queue_last EXCEPT ![i] = IF @ = p THEN previous_p ELSE @],
           next_proc   |-> [q.next_proc EXCEPT ![previous_p] = q.next_proc[p]]]

\* Bug: queue_last of the joined queue is the last of the first part.
boost_KeepLast(q) ==
  LET NonEmpty == {i \in Prios : q.queue_first[i] # NULL}
      Below(i) == {j \in NonEmpty : j > i}
  IN [queue_first |-> [i \in Prios |-> IF i = 0 /\ NonEmpty # {}
                                       THEN q.queue_first[Min(NonEmpty)] ELSE NULL],
      queue_last  |-> [i \in Prios |-> IF i = 0 /\ NonEmpty # {}
                                       THEN q.queue_last[Min(NonEmpty)] ELSE NULL],
      next_proc   |-> [p \in Slots |->
                         IF \E i \in NonEmpty : q.queue_last[i] = p /\ Below(i) # {}
                         THEN LET i == CHOOSE i \in NonEmpty : q.queue_last[i] = p
                              IN q.queue_first[Min(Below(i))]
                         ELSE q.next_proc[p]]]

(***************************************************************************)
(* The queue surgery of priority_boost: the non-empty queues are linked    *)
(* one after the other, highest priority first, and become queue 0.        *)
(***************************************************************************)
boost(q) ==
  LET NonEmpty == {i \in Prios : q.queue_first[i] # NULL}
      Below(i) == {j \in NonEmpty : j > i}
  IN [queue_first |-> [i \in Prios |-> IF i = 0 /\ NonEmpty # {}
                                       THEN q.queue_first[Min(NonEmpty)] ELSE NULL],
      queue_last  |-> [i \in Prios |-> IF i # 0 THEN NULL
                                       ELSE IF NonEmpty = {} THEN q.queue_last[0]
                                       ELSE q.queue_last[Max(NonEmpty)]],
      next_proc   |-> [p \in Slots |->
                         IF \E i \in NonEmpty : q.queue_last[i] = p /\ Below(i) # {}
                         THEN LET i == CHOOSE i \in NonEmpty : q.queue_last[i] = p
                              IN q.queue_first[Min(Below(i))]
                         ELSE q.next_proc[p]]]

(***************************************************************************)
(* What a well-formed table is.                                            *)
(***************************************************************************)
\* The list of priority i holds exactly the set R: it starts at queue_first,
\* ends at queue_last, next_proc is one-to-one along it, and the only part
\* of R that contains the first process and follows next_proc is R itself.
Threaded(q, R, i) ==
  LET first == q.queue_first[i]
      last  == q.queue_last[i]
  IN /\ R = {} => first = NULL /\ last = NULL
     /\ R # {} =>
          /\ first \in R /\ last \in R
          /\ q.next_proc[last] = NULL
          /\ \A p \in R \ {last} : q.next_proc[p] \in R \ {first}
          /\ \A p, r \in R \ {last} : q.next_proc[p] = q.next_proc[r] => p = r
          /\ \A T \in SUBSET R :
               first \in T /\ (\A p \in T \ {last} : q.next_proc[p] \in T) => T = R

\* Each list holds the processes of S that have its priority.
AllThreaded(q, S, prio) ==
  \A i \in Prios : Threaded(q, {p \in S : prio[p] = i}, i)
=============================================================================
