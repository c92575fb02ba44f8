----------------------------- MODULE ProcProofs -----------------------------
(***************************************************************************)
(* The process table is safe for every number of slots, CPUs, priorities   *)
(* and channels: IInv is an inductive invariant of Proc.                   *)
(*                                                                         *)
(* First what the operations on the scheduling queues preserve, what the   *)
(* actions of Proc do, in the form the other proofs use, and the steps     *)
(* that keep the types of the variables, the bond between CPUs, RUNNING    *)
(* processes and ptable.lock, the queues of the process table equal to the *)
(* set of RUNNABLE processes, and a fork in progress to itself; one step   *)
(* per action.  Then the family tree and the processes asleep in wait().   *)
(*                                                                         *)
(* The quantum: a CPU on its way to yield has a process that used up the   *)
(* quantum of the priority it has now (YieldInv); a boost in between only  *)
(* makes that quantum smaller, and no other step touches its ticks.        *)
(***************************************************************************)
EXTENDS Proc, TLAPS, WellFoundedInduction

\* A leaf that names no other prover is for the SMT solver.
USE SMTT(60)

-----------------------------------------------------------------------------
(***************************************************************************)
(* Least and greatest elements of sets of natural numbers.                 *)
(***************************************************************************)
\* Min picks the least element of a non-empty set of natural numbers.
LEMMA MinProperty ==
  ASSUME NEW S \in SUBSET Nat, S # {}
  PROVE  Min(S) \in S /\ \A y \in S : Min(S) <= y
<1> DEFINE Less == {ss \in Nat \X Nat : ss[1] < ss[2]}
<1>1. IsWellFoundedOn(Less, Nat)
  BY NatLessThanWellFounded, Zenon DEF OpToRel
<1> HIDE DEF Less
<1>2. \E x \in S : \A y \in S : ~(<<y, x>> \in Less)
  BY Zenon, <1>1, WFMin
<1>3. PICK x \in S : \A y \in S : ~(<<y, x>> \in Less)
  BY <1>2, Zenon
<1>4. \A a, b \in Nat : a < b => <<a, b>> \in Less
  BY Zenon DEF Less
<1>5. \A y \in S : x <= y
  <2> TAKE y \in S
  <2>1. x \in Nat /\ y \in Nat
    BY Zenon
  <2>2. ~(y < x)
    BY <2>1, <1>3, <1>4, Zenon
  <2> QED
    BY <2>1, <2>2
<1>6. QED
  BY Zenon, <1>5 DEF Min

\* Max picks the greatest element of a non-empty bounded set of them.
LEMMA MaxProperty ==
  ASSUME NEW n \in Nat, NEW S \in SUBSET (0 .. n), S # {}
  PROVE  Max(S) \in S /\ \A y \in S : y <= Max(S)
<1> DEFINE D == {n - y : y \in S}
<1>1. D \in SUBSET Nat /\ D # {}
  <2>1. \A y \in S : n - y \in Nat
    OBVIOUS
  <2>2. PICK y \in S : TRUE
    BY Zenon
  <2>3. n - y \in D
    BY <2>2, Zenon
  <2> QED
    BY <2>1, <2>3, Zenon
<1>2. Min(D) \in D /\ \A d \in D : Min(D) <= d
  BY Zenon, <1>1, MinProperty
<1>3. PICK x \in S : Min(D) = n - x
  BY Zenon, <1>2
<1>4. \A y \in S : y <= x
  <2> TAKE y \in S
  <2>1. n - y \in D
    BY Zenon
  <2>2. n - x <= n - y
    BY <2>1, <1>2, <1>3, Zenon
  <2> QED
    BY <2>2
<1>5. QED
  BY Zenon, <1>4 DEF Max

-----------------------------------------------------------------------------
(***************************************************************************)
(* enqueue                                                                 *)
(***************************************************************************)
\* enqueue leaves a table of queues.
LEMMA EnqueueType ==
  ASSUME NEW q \in QueueTable, NEW prio \in [Slots -> Prios], NEW p \in Slots
  PROVE  enqueue(q, prio, p) \in QueueTable
BY Zenon DEF enqueue, QueueTable, Ptr

\* enqueue(p) adds p, a process of no queue, to the queue of its priority and
\* keeps every list well-formed.
LEMMA EnqueueThreads ==
  ASSUME NEW q \in QueueTable, NEW prio \in [Slots -> Prios],
         NEW S \in SUBSET Slots, NEW p \in Slots, p \notin S,
         AllThreaded(q, S, prio)
  PROVE  AllThreaded(enqueue(q, prio, p), S \cup {p}, prio)
<1> DEFINE n == enqueue(q, prio, p)
           k == prio[p]
           old == q.queue_last[k]
           Of(i) == {r \in S : prio[r] = i}
<1> SUFFICES ASSUME NEW i \in Prios
             PROVE  Threaded(n, {r \in S \cup {p} : prio[r] = i}, i)
  BY Zenon DEF AllThreaded
<1>1. /\ n.queue_first[i] = IF i = k /\ old = NULL THEN p ELSE q.queue_first[i]
      /\ n.queue_last[i] = IF i = k THEN p ELSE q.queue_last[i]
      /\ \A r \in Slots : n.next_proc[r] = IF r = p THEN NULL
                                           ELSE IF r = old THEN p
                                           ELSE q.next_proc[r]
  BY Zenon DEF enqueue, QueueTable
<1>2. Threaded(q, Of(i), i) /\ Threaded(q, Of(k), k)
  BY Zenon DEF AllThreaded
<1>3. (old = NULL /\ Of(k) = {}) \/ old \in Of(k)
  BY <1>2, Zenon DEF Threaded
<1>4. NULL \notin Slots
  BY DEF NULL, Slots
<1> HIDE DEF n
<1>5. CASE i # k
  <2>1. {r \in S \cup {p} : prio[r] = i} = Of(i)
    BY <1>5, Zenon
  <2>2. \A r \in Of(i) : n.next_proc[r] = q.next_proc[r]
    BY <1>1, <1>3, <1>4, <1>5, Zenon
  <2> QED
    BY <1>1, <1>2, <1>5, <2>1, <2>2 DEF Threaded
<1>6. CASE i = k /\ Of(k) = {}
  <2>1. {r \in S \cup {p} : prio[r] = i} = {p}
    BY <1>6, Zenon
  <2>2. n.queue_first[i] = p /\ n.queue_last[i] = p /\ n.next_proc[p] = NULL
    BY <1>1, <1>2, <1>6, Zenon DEF Threaded
  <2> QED
    BY <2>1, <2>2, Zenon DEF Threaded
<1>7. CASE i = k /\ Of(k) # {}
  <2> DEFINE R == Of(k)
             first == q.queue_first[k]
  <2>1. {r \in S \cup {p} : prio[r] = i} = R \cup {p}
    BY <1>7, Zenon
  <2>2. /\ first \in R /\ old \in R
        /\ q.next_proc[old] = NULL
        /\ \A r \in R \ {old} : q.next_proc[r] \in R \ {first}
        /\ \A r, s \in R \ {old} : q.next_proc[r] = q.next_proc[s] => r = s
        /\ \A T \in SUBSET R :
             first \in T /\ (\A r \in T \ {old} : q.next_proc[r] \in T) => T = R
    BY <1>2, <1>7, ZenonT(60) DEF Threaded
  <2>3. /\ n.queue_first[i] = first /\ n.queue_last[i] = p
        /\ n.next_proc[p] = NULL /\ n.next_proc[old] = p
        /\ \A r \in R \ {old} : n.next_proc[r] = q.next_proc[r]
    BY <1>1, <1>4, <1>7, <2>2
  <2>4. p \notin R
    BY Zenon
  <2> HIDE DEF R, first
  <2>5. \A r \in (R \cup {p}) \ {p} : n.next_proc[r] \in (R \cup {p}) \ {first}
    BY <2>2, <2>3, <2>4
  <2>6. \A r, s \in (R \cup {p}) \ {p} : n.next_proc[r] = n.next_proc[s] => r = s
    BY <2>2, <2>3, <2>4
  <2>7. ASSUME NEW T \in SUBSET (R \cup {p}), first \in T,
               \A r \in T \ {p} : n.next_proc[r] \in T
        PROVE  T = R \cup {p}
    <3>1. T \cap R = R
      <4>1. T \cap R \in SUBSET R /\ first \in T \cap R
        BY <2>2, <2>7, Zenon
      <4>2. \A r \in (T \cap R) \ {old} : q.next_proc[r] \in T \cap R
        BY <2>2, <2>3, <2>4, <2>7
      <4> QED
        BY Zenon, <2>2, <4>1, <4>2
    <3>2. p \in T
      BY <2>2, <2>3, <2>4, <2>7, <3>1, Zenon
    <3> QED
      BY <3>1, <3>2, Zenon
  <2> QED
    BY <2>1, <2>2, <2>3, <2>5, <2>6, <2>7, Zenon DEF Threaded
<1> QED
  BY <1>5, <1>6, <1>7, Zenon

-----------------------------------------------------------------------------
(***************************************************************************)
(* dequeue                                                                 *)
(***************************************************************************)
\* The scheduler's dequeue of the first process of a queue takes the head
\* case, removes just that process and keeps every list well-formed.
LEMMA DequeueThreads ==
  ASSUME NEW q \in QueueTable, NEW prio \in [Slots -> Prios],
         NEW S \in SUBSET Slots, AllThreaded(q, S, prio),
         NEW i \in Prios, q.queue_first[i] # NULL
  PROVE  LET p == q.queue_first[i]
         IN /\ p \in S /\ prio[p] = i
            /\ dequeue(q, prio, p) \in QueueTable
            /\ AllThreaded(dequeue(q, prio, p), S \ {p}, prio)
<1> DEFINE p == q.queue_first[i]
           last == q.queue_last[i]
           n == dequeue(q, prio, p)
           Of(j) == {r \in S : prio[r] = j}
           R == Of(i)
<1>1. \A j \in Prios : Threaded(q, Of(j), j)
  BY Zenon DEF AllThreaded
<1>2. p \in R
  BY <1>1, Zenon DEF Threaded
<1>3. p \in S /\ prio[p] = i /\ p \in Slots
  BY <1>2, Zenon
<1>4. n = [queue_first |-> [q.queue_first EXCEPT ![i] = q.next_proc[p]],
           queue_last  |-> [q.queue_last EXCEPT ![i] = IF @ = p THEN NULL ELSE @],
           next_proc   |-> q.next_proc]
  BY <1>3, Zenon DEF dequeue
<1>5. n \in QueueTable
  BY <1>3, <1>4 DEF QueueTable, Ptr
<1>6. /\ n.next_proc = q.next_proc
      /\ n.queue_first[i] = q.next_proc[p]
      /\ n.queue_last[i] = IF last = p THEN NULL ELSE last
      /\ \A j \in Prios \ {i} : /\ n.queue_first[j] = q.queue_first[j]
                                /\ n.queue_last[j] = q.queue_last[j]
  BY <1>4 DEF QueueTable
<1>7. ASSUME NEW j \in Prios, j # i
      PROVE  Threaded(n, {r \in S \ {p} : prio[r] = j}, j)
  <2>1. {r \in S \ {p} : prio[r] = j} = Of(j)
    BY <1>3, <1>7, Zenon
  <2> QED
    BY <1>1, <1>6, <1>7, <2>1 DEF Threaded
<1>8. Threaded(n, {r \in S \ {p} : prio[r] = i}, i)
  <2>1. {r \in S \ {p} : prio[r] = i} = R \ {p}
    BY Zenon
  <2>2. /\ p \in R /\ last \in R
        /\ q.next_proc[last] = NULL
        /\ \A r \in R \ {last} : q.next_proc[r] \in R \ {p}
        /\ \A r, s \in R \ {last} : q.next_proc[r] = q.next_proc[s] => r = s
        /\ \A T \in SUBSET R :
             p \in T /\ (\A r \in T \ {last} : q.next_proc[r] \in T) => T = R
    BY <1>1, <1>2, Zenon DEF Threaded
  <2> HIDE DEF R, last, p, n
  <2>3. CASE last = p
    <3>1. {p} \in SUBSET R /\ \A r \in {p} \ {last} : q.next_proc[r] \in {p}
      BY <2>2, <2>3, Zenon
    <3>2. R = {p}
      BY Zenon, <2>2, <3>1
    <3> QED
      BY <1>6, <2>1, <2>2, <2>3, <3>2, Zenon DEF Threaded
  <2>4. CASE last # p
    <3> DEFINE f == q.next_proc[p]
               Q == R \ {p}
    <3>1. f \in Q /\ last \in Q /\ Q # {}
      BY <2>2, <2>4, Zenon
    <3>2. \A r \in Q \ {last} : q.next_proc[r] \in Q \ {f}
      BY <2>2, <2>4, Zenon
    <3>3. \A r, s \in Q \ {last} : q.next_proc[r] = q.next_proc[s] => r = s
      BY <2>2, Zenon
    <3>4. ASSUME NEW T \in SUBSET Q, f \in T,
                 \A r \in T \ {last} : q.next_proc[r] \in T
          PROVE  T = Q
      <4>1. T \cup {p} \in SUBSET R /\ p \in T \cup {p}
        BY <2>2, Zenon
      <4>2. \A r \in (T \cup {p}) \ {last} : q.next_proc[r] \in T \cup {p}
        BY <3>4, Zenon
      <4>3. T \cup {p} = R
        BY Zenon, <2>2, <4>1, <4>2
      <4> QED
        BY <4>3, Zenon
    <3>5. n.queue_first[i] = f /\ n.queue_last[i] = last
      BY <1>6, <2>4, Zenon
    <3> HIDE DEF f, Q
    <3>6. Threaded(n, Q, i)
      BY <1>6, <2>2, <3>1, <3>2, <3>3, <3>4, <3>5, Zenon DEF Threaded
    <3> QED
      BY <2>1, <3>6, Zenon DEF Q
  <2> QED
    BY <2>3, <2>4, Zenon
<1>9. AllThreaded(n, S \ {p}, prio)
  BY <1>7, <1>8, Zenon DEF AllThreaded
<1> QED
  BY <1>3, <1>5, <1>9, Zenon

-----------------------------------------------------------------------------
(***************************************************************************)
(* Lists in general: nx leads from a to b through all of R, once.          *)
(***************************************************************************)
IsList(nx, R, a, b) ==
  /\ a \in R /\ b \in R
  /\ \A r \in R \ {b} : nx[r] \in R \ {a}
  /\ \A r, s \in R \ {b} : nx[r] = nx[s] => r = s
  /\ \A T \in SUBSET R : a \in T /\ (\A r \in T \ {b} : nx[r] \in T) => T = R

\* A non-empty queue is a list whose last process has no successor.
LEMMA ThreadedIsList ==
  ASSUME NEW q, NEW R, NEW i
  PROVE  Threaded(q, R, i) <=>
           \/ R = {} /\ q.queue_first[i] = NULL /\ q.queue_last[i] = NULL
           \/ /\ R # {}
              /\ IsList(q.next_proc, R, q.queue_first[i], q.queue_last[i])
              /\ q.next_proc[q.queue_last[i]] = NULL
BY Zenon DEF Threaded, IsList

\* Two lists make one when the end of the first is linked to the second.
LEMMA JoinLists ==
  ASSUME NEW nx, NEW R, NEW V, NEW a, NEW b, NEW c, NEW d,
         IsList(nx, R, a, b), IsList(nx, V, c, d),
         R \cap V = {}, nx[b] = c
  PROVE  IsList(nx, R \cup V, a, d)
<1>1. a \in R \cup V /\ d \in R \cup V
  BY Zenon DEF IsList
<1>2. \A r \in (R \cup V) \ {d} : nx[r] \in (R \cup V) \ {a}
  BY DEF IsList
<1>3. \A r, s \in (R \cup V) \ {d} : nx[r] = nx[s] => r = s
  <2> SUFFICES ASSUME NEW r \in (R \cup V) \ {d}, NEW s \in (R \cup V) \ {d},
                      nx[r] = nx[s]
               PROVE  r = s
    BY Zenon
  <2>1. CASE r \in R \ {b} /\ s \in R \ {b}
    BY <2>1, Zenon DEF IsList
  <2>2. CASE r \in V /\ s \in V
    BY <2>2, Zenon DEF IsList
  <2>3. CASE r = b \/ s = b
    BY <2>3, Zenon DEF IsList
  <2>4. CASE (r \in R \ {b} /\ s \in V) \/ (s \in R \ {b} /\ r \in V)
    BY <2>4, Zenon DEF IsList
  <2>5. (r \in R \ {b} \/ r = b \/ r \in V) /\ (s \in R \ {b} \/ s = b \/ s \in V)
    BY Zenon
  <2> QED
    BY <2>1, <2>2, <2>3, <2>4, <2>5, Zenon
<1>4. ASSUME NEW T \in SUBSET (R \cup V), a \in T,
             \A r \in T \ {d} : nx[r] \in T
      PROVE  T = R \cup V
  <2>1. /\ T \cap R \in SUBSET R /\ a \in T \cap R
        /\ \A r \in (T \cap R) \ {b} : nx[r] \in T \cap R
    BY <1>4 DEF IsList
  <2>2. T \cap R = R
    BY Zenon, <2>1 DEF IsList
  <2>3. c \in T
    BY <1>4, <2>2 DEF IsList
  <2>4. /\ T \cap V \in SUBSET V /\ c \in T \cap V
        /\ \A r \in (T \cap V) \ {d} : nx[r] \in T \cap V
    BY <1>4, <2>3, Zenon DEF IsList
  <2>5. T \cap V = V
    BY Zenon, <2>4 DEF IsList
  <2> QED
    BY <2>2, <2>5, Zenon
<1> QED
  BY <1>1, <1>2, <1>3, <1>4, Zenon DEF IsList

\* A set of slots linked in slot order is a list from its least to its
\* greatest member.
LEMMA SlotOrderIsList ==
  ASSUME NEW V \in SUBSET Slots, V # {}, NEW nx,
         \A p \in V : LET After == {r \in V : r > p}
                      IN nx[p] = IF After = {} THEN NULL ELSE Min(After)
  PROVE  IsList(nx, V, Min(V), Max(V)) /\ nx[Max(V)] = NULL
<1> DEFINE After(p) == {r \in V : r > p}
           m == Min(V)
           M == Max(V)
<1>1. /\ V \in SUBSET Nat /\ V \in SUBSET (0 .. NPROC) /\ NPROC \in Nat
      /\ \A v \in V : v \in Nat
  BY SizeAssumption DEF Slots
<1>2. m \in V /\ \A y \in V : m <= y
  BY <1>1, MinProperty, Zenon
<1>3. M \in V /\ \A y \in V : y <= M
  BY <1>1, MaxProperty, Zenon
<1> HIDE DEF m, M
<1>4. \A p \in V : nx[p] = IF After(p) = {} THEN NULL ELSE Min(After(p))
  BY Zenon
<1>5. nx[M] = NULL
  <2>1. \A r \in V : ~(r > M)
    BY <1>1, <1>3
  <2>2. After(M) = {}
    BY <2>1, Zenon
  <2> QED
    BY Zenon, <1>3, <1>4, <2>2
<1>6. ASSUME NEW p \in V \ {M}
      PROVE  /\ nx[p] \in V /\ p < nx[p]
             /\ \A y \in V : p < y => nx[p] <= y
  <2>1. After(p) # {} /\ After(p) \in SUBSET Nat
    <3>1. M \in V /\ M > p
      BY <1>1, <1>3
    <3>2. M \in After(p)
      BY <3>1, Zenon
    <3> QED
      BY Zenon, <1>1, <3>2
  <2>2. Min(After(p)) \in After(p) /\ \A y \in After(p) : Min(After(p)) <= y
    BY <2>1, MinProperty, Zenon
  <2> QED
    BY <1>4, <2>1, <2>2, Zenon
<1>7. \A p \in V \ {M} : nx[p] \in V \ {m}
  BY <1>1, <1>2, <1>6
<1>8. \A p, r \in V \ {M} : nx[p] = nx[r] => p = r
  <2> SUFFICES ASSUME NEW p \in V \ {M}, NEW r \in V \ {M}, nx[p] = nx[r]
               PROVE  p = r
    BY Zenon
  <2>1. nx[p] \in Nat /\ nx[r] \in Nat /\ p \in Nat /\ r \in Nat
    BY Zenon, <1>1, <1>6
  <2>2. p < nx[p] /\ (p < r => nx[p] <= r)
    BY <1>6, Zenon
  <2>3. r < nx[r] /\ (r < p => nx[r] <= p)
    BY <1>6, Zenon
  <2> QED
    BY <2>1, <2>2, <2>3
<1>9. ASSUME NEW T \in SUBSET V, m \in T, \A r \in T \ {M} : nx[r] \in T
      PROVE  T = V
  <2> SUFFICES ASSUME V \ T # {} PROVE FALSE
    BY Zenon
  <2> DEFINE x == Min(V \ T)
  <2>1. x \in V \ T /\ \A y \in V \ T : x <= y
    BY <1>1, MinProperty, Zenon
  <2> HIDE DEF x
  <2> DEFINE Before == {p \in V : p < x}
             y == Max(Before)
  <2>2. m \in Before
    BY <1>1, <1>2, <1>9, <2>1
  <2>3. Before \in SUBSET (0 .. NPROC)
    BY Zenon, <1>1
  <2>4. y \in Before /\ \A p \in Before : p <= y
    BY Zenon, <1>1, <2>2, <2>3, MaxProperty
  <2> HIDE DEF y
  <2>5. y \in T /\ y # M
    BY <1>1, <1>3, <2>1, <2>4
  <2>6. nx[y] \in V /\ y < nx[y] /\ nx[y] <= x
    BY <1>6, <2>1, <2>4, <2>5, Zenon
  <2>7. nx[y] = x
    <3>1. nx[y] \in Nat /\ x \in Nat /\ y \in Nat
      BY Zenon, <1>1, <2>1, <2>4, <2>6
    <3>2. nx[y] < x => nx[y] \in Before
      BY <2>6, Zenon
    <3>3. ~(nx[y] < x)
      BY <2>4, <2>6, <3>1, <3>2
    <3> QED
      BY <2>6, <3>1, <3>3
  <2> QED
    BY <1>9, <2>1, <2>5, <2>7, Zenon
<1>10. IsList(nx, V, m, M)
  BY <1>2, <1>3, <1>7, <1>8, <1>9, Zenon DEF IsList
<1> QED
  BY <1>5, <1>10, Zenon DEF m, M

\* A list stays one when the successors along it do.
LEMMA SameList ==
  ASSUME NEW nx, NEW mx, NEW R, NEW a, NEW b, IsList(nx, R, a, b),
         \A r \in R \ {b} : mx[r] = nx[r]
  PROVE  IsList(mx, R, a, b)
<1>1. ASSUME NEW T \in SUBSET R, a \in T, \A r \in T \ {b} : mx[r] \in T
      PROVE  T = R
  <2>1. \A r \in T \ {b} : nx[r] \in T
    BY <1>1, Zenon
  <2> QED
    BY <1>1, <2>1, Zenon DEF IsList
<1> QED
  BY <1>1, Zenon DEF IsList

-----------------------------------------------------------------------------
(***************************************************************************)
(* The loop of wakeup1                                                     *)
(***************************************************************************)
\* wakeup1 leaves a table of queues.
LEMMA EnqueueAllType ==
  ASSUME NEW q \in QueueTable, NEW prio \in [Slots -> Prios], NEW W \in SUBSET Slots
  PROVE  enqueueAll(q, prio, W) \in QueueTable
<1> DEFINE Of(i) == {p \in W : prio[p] = i}
           After(p) == {r \in Of(prio[p]) : r > p}
<1>1. \A X \in SUBSET Slots : X # {} => Min(X) \in Ptr /\ Max(X) \in Ptr
  <2> TAKE X \in SUBSET Slots
  <2>1. X \in SUBSET Nat /\ X \in SUBSET (0 .. NPROC) /\ NPROC \in Nat
    BY SizeAssumption DEF Slots
  <2>2. X # {} => Min(X) \in X /\ Max(X) \in X
    BY Zenon, <2>1, MinProperty, MaxProperty
  <2> QED
    BY <2>2, Zenon DEF Ptr
<1>2. \A i \in Prios : Of(i) \in SUBSET Slots
  BY Zenon
<1>3. \A p \in Slots : After(p) \in SUBSET Slots
  BY Zenon
<1>4. NULL \in Ptr
  BY Zenon DEF Ptr
<1> DEFINE n == enqueueAll(q, prio, W)
<1>5. n = [queue_first |-> [i \in Prios |-> IF Of(i) # {} /\ q.queue_last[i] = NULL
                                            THEN Min(Of(i)) ELSE q.queue_first[i]],
           queue_last  |-> [i \in Prios |-> IF Of(i) # {} THEN Max(Of(i))
                                            ELSE q.queue_last[i]],
           next_proc   |-> [p \in Slots |->
                              IF p \in W
                              THEN IF After(p) = {} THEN NULL ELSE Min(After(p))
                              ELSE IF Of(prio[p]) # {} /\ q.queue_last[prio[p]] = p
                              THEN Min(Of(prio[p]))
                              ELSE q.next_proc[p]]]
  BY Zenon DEF enqueueAll
<1> HIDE DEF Of, After, n
<1>6. /\ [i \in Prios |-> IF Of(i) # {} /\ q.queue_last[i] = NULL
                          THEN Min(Of(i)) ELSE q.queue_first[i]] \in [Prios -> Ptr]
      /\ [i \in Prios |-> IF Of(i) # {} THEN Max(Of(i))
                          ELSE q.queue_last[i]] \in [Prios -> Ptr]
  BY <1>1, <1>2, Zenon DEF QueueTable
<1>7. [p \in Slots |-> IF p \in W
                       THEN IF After(p) = {} THEN NULL ELSE Min(After(p))
                       ELSE IF Of(prio[p]) # {} /\ q.queue_last[prio[p]] = p
                       THEN Min(Of(prio[p]))
                       ELSE q.next_proc[p]] \in [Slots -> Ptr]
  BY <1>1, <1>2, <1>3, <1>4, Zenon DEF QueueTable
<1> QED
  BY <1>5, <1>6, <1>7 DEF QueueTable, n

\* Waking the set W, of processes in no queue, adds each one to the queue of
\* its priority and keeps every list well-formed.
LEMMA EnqueueAllThreads ==
  ASSUME NEW q \in QueueTable, NEW prio \in [Slots -> Prios],
         NEW S \in SUBSET Slots, NEW W \in SUBSET Slots, S \cap W = {},
         AllThreaded(q, S, prio)
  PROVE  AllThreaded(enqueueAll(q, prio, W), S \cup W, prio)
<1> DEFINE n == enqueueAll(q, prio, W)
<1> SUFFICES ASSUME NEW i \in Prios
             PROVE  Threaded(n, {r \in S \cup W : prio[r] = i}, i)
  BY Zenon DEF AllThreaded
<1> DEFINE R == {r \in S : prio[r] = i}
           V == {r \in W : prio[r] = i}
           first == q.queue_first[i]
           last  == q.queue_last[i]
<1>1. {r \in S \cup W : prio[r] = i} = R \cup V
  BY Zenon
<1>2. R \cap V = {} /\ R \in SUBSET Slots /\ V \in SUBSET Slots /\ NULL \notin Slots
  <2>1. NULL \notin Slots
    BY DEF NULL, Slots
  <2> QED
    BY <2>1, Zenon
<1>3. /\ n.queue_first[i] = IF V # {} /\ last = NULL THEN Min(V) ELSE first
      /\ n.queue_last[i] = IF V # {} THEN Max(V) ELSE last
  BY Zenon DEF enqueueAll
<1>4. \A r \in R : n.next_proc[r] = IF V # {} /\ last = r THEN Min(V) ELSE q.next_proc[r]
  BY Zenon DEF enqueueAll
<1>5. \A p \in V : LET After == {r \in V : r > p}
                   IN n.next_proc[p] = IF After = {} THEN NULL ELSE Min(After)
  BY Zenon DEF enqueueAll
<1>6. Threaded(q, R, i)
  BY Zenon DEF AllThreaded
<1> HIDE DEF n, R, V, first, last
<1>7. CASE V = {}
  <2>1. CASE R = {}
    BY <1>1, <1>3, <1>6, <1>7, <2>1, Zenon DEF Threaded, first, last
  <2>2. CASE R # {}
    <3>1. IsList(q.next_proc, R, first, last) /\ q.next_proc[last] = NULL
      BY <1>6, <2>2, ThreadedIsList, Zenon DEF first, last
    <3>2. IsList(n.next_proc, R, first, last)
      BY <1>4, <1>7, <3>1, SameList, Zenon
    <3>3. n.next_proc[last] = NULL
      BY <1>4, <1>7, <3>1, Zenon DEF IsList
    <3> QED
      BY Zenon, <1>1, <1>3, <1>7, <2>2, <3>2, <3>3, ThreadedIsList
  <2> QED
    BY <2>1, <2>2, Zenon
<1>8. CASE V # {}
  <2>1. IsList(n.next_proc, V, Min(V), Max(V)) /\ n.next_proc[Max(V)] = NULL
    BY <1>2, <1>5, <1>8, SlotOrderIsList, Zenon
  <2>2. CASE R = {}
    <3>1. last = NULL
      BY <1>6, <2>2, Zenon DEF Threaded, last
    <3> QED
      BY Zenon, <1>1, <1>3, <1>8, <2>1, <2>2, <3>1, ThreadedIsList
  <2>3. CASE R # {}
    <3>1. IsList(q.next_proc, R, first, last)
      BY <1>6, <2>3, ThreadedIsList, Zenon DEF first, last
    <3>2. IsList(n.next_proc, R, first, last)
      BY <1>4, <3>1, SameList, Zenon
    <3>3. n.next_proc[last] = Min(V) /\ last # NULL
      BY <1>2, <1>4, <1>8, <3>1 DEF IsList
    <3>4. IsList(n.next_proc, R \cup V, first, Max(V))
      BY <1>2, <2>1, <3>2, <3>3, JoinLists, Zenon
    <3> QED
      BY Zenon, <1>1, <1>3, <1>8, <2>1, <3>3, <3>4, ThreadedIsList
  <2> QED
    BY <2>2, <2>3, Zenon
<1> QED
  BY <1>7, <1>8, Zenon

-----------------------------------------------------------------------------
(***************************************************************************)
(* priority_boost                                                          *)
(***************************************************************************)
\* priority_boost moves every process to the queue of priority 0 and makes
\* one well-formed list of all the others.
LEMMA BoostThreads ==
  ASSUME NEW q \in QueueTable, NEW prio \in [Slots -> Prios],
         NEW S \in SUBSET Slots, AllThreaded(q, S, prio)
  PROVE  boost(q) \in QueueTable /\ AllThreaded(boost(q), S, [p \in Slots |-> 0])
<1> DEFINE n == boost(q)
           Of(i) == {r \in S : prio[r] = i}
           first(i) == q.queue_first[i]
           last(i) == q.queue_last[i]
           NonEmpty == {i \in Prios : q.queue_first[i] # NULL}
           Below(i) == {j \in NonEmpty : j > i}
<1>1. /\ \A i \in Prios : i \in Nat
      /\ 0 \in Prios
      /\ Prios \in SUBSET (0 .. NPRIO) /\ NPRIO \in Nat
      /\ NULL \notin Slots
  BY SizeAssumption DEF Prios, NULL, Slots
<1>2. ASSUME NEW X \in SUBSET Prios, X # {}
      PROVE  /\ Min(X) \in X /\ \A j \in X : Min(X) <= j
             /\ Max(X) \in X /\ \A j \in X : j <= Max(X)
  <2>1. X \in SUBSET Nat /\ X \in SUBSET (0 .. NPRIO)
    BY <1>1, Zenon
  <2> QED
    BY <1>1, <1>2, <2>1, MinProperty, MaxProperty, Zenon
<1>3. /\ \A i \in Prios : i \in NonEmpty <=> Of(i) # {}
      /\ \A i \in NonEmpty : /\ IsList(q.next_proc, Of(i), first(i), last(i))
                             /\ q.next_proc[last(i)] = NULL
                             /\ first(i) \in Of(i) /\ last(i) \in Of(i)
  <2> SUFFICES ASSUME NEW i \in Prios
               PROVE  /\ i \in NonEmpty <=> Of(i) # {}
                      /\ i \in NonEmpty =>
                           /\ IsList(q.next_proc, Of(i), first(i), last(i))
                           /\ q.next_proc[last(i)] = NULL
                           /\ first(i) \in Of(i) /\ last(i) \in Of(i)
    BY ZenonT(60)
  <2>1. Threaded(q, Of(i), i)
    BY Zenon DEF AllThreaded
  <2>2. CASE Of(i) = {}
    BY <2>1, <2>2, Zenon DEF Threaded
  <2>3. CASE Of(i) # {}
    <3>1. IsList(q.next_proc, Of(i), first(i), last(i)) /\ q.next_proc[last(i)] = NULL
      BY <2>1, <2>3, ThreadedIsList, Zenon
    <3>2. first(i) \in Of(i) /\ last(i) \in Of(i)
      BY <3>1, Zenon DEF IsList
    <3> QED
      BY <1>1, <2>3, <3>1, <3>2, Zenon
  <2> QED
    BY <2>2, <2>3, Zenon
<1>4. /\ n.queue_first = [i \in Prios |-> IF i = 0 /\ NonEmpty # {}
                                          THEN first(Min(NonEmpty)) ELSE NULL]
      /\ n.queue_last = [i \in Prios |-> IF i # 0 THEN NULL
                                         ELSE IF NonEmpty = {} THEN last(0)
                                         ELSE last(Max(NonEmpty))]
      /\ n.next_proc = [p \in Slots |->
                          IF \E i \in NonEmpty : last(i) = p /\ Below(i) # {}
                          THEN first(Min(Below(CHOOSE i \in NonEmpty : last(i) = p)))
                          ELSE q.next_proc[p]]
      /\ n = [queue_first |-> n.queue_first, queue_last |-> n.queue_last,
              next_proc |-> n.next_proc]
  BY Zenon DEF boost
<1> HIDE DEF n, NonEmpty, Of, Below
\* The successors in the new table.
<1>5. ASSUME NEW i \in NonEmpty
      PROVE  /\ \A r \in Of(i) \ {last(i)} : n.next_proc[r] = q.next_proc[r]
             /\ n.next_proc[last(i)] = IF Below(i) # {} THEN first(Min(Below(i))) ELSE NULL
  <2>1. \A j \in NonEmpty : last(j) \in Of(j) /\ j \in Prios
    BY <1>3, Zenon DEF NonEmpty
  <2>2. \A r \in Of(i) \ {last(i)}, j \in NonEmpty : last(j) # r
    BY <2>1, Zenon DEF Of
  <2>3. \A j \in NonEmpty : last(j) = last(i) => j = i
    BY <2>1, Zenon DEF Of
  <2>4. last(i) \in Slots /\ Of(i) \in SUBSET Slots
    BY <2>1, Zenon DEF Of
  <2>5. (CHOOSE j \in NonEmpty : last(j) = last(i)) = i
    BY <2>3, Zenon
  <2>6. \A r \in Of(i) \ {last(i)} : n.next_proc[r] = q.next_proc[r]
    BY <1>4, <2>2, <2>4
  <2>7. n.next_proc[last(i)] = IF Below(i) # {} THEN first(Min(Below(i))) ELSE NULL
    <3>1. CASE Below(i) # {}
      BY <1>4, <2>4, <2>5, <3>1, ZenonT(60)
    <3>2. CASE Below(i) = {}
      BY <1>3, <1>4, <2>3, <2>4, <3>2
    <3> QED
      BY <3>1, <3>2, Zenon
  <2> QED
    BY <2>6, <2>7, Zenon
<1>6. n \in QueueTable
  <2>1. \A i \in Prios : first(i) \in Ptr /\ last(i) \in Ptr
    BY Zenon DEF QueueTable
  <2>2. \A p \in Slots : q.next_proc[p] \in Ptr
    BY Zenon DEF QueueTable
  <2>3. NULL \in Ptr /\ NonEmpty \in SUBSET Prios
    BY Zenon DEF Ptr, NonEmpty
  <2>4. NonEmpty # {} => Min(NonEmpty) \in Prios /\ Max(NonEmpty) \in Prios
    BY <1>2, <2>3, Zenon
  <2>5. \A p \in Slots : n.next_proc[p] \in Ptr
    <3> TAKE p \in Slots
    <3>1. CASE \E i \in NonEmpty : last(i) = p /\ Below(i) # {}
      <4>1. PICK i \in NonEmpty : last(i) = p /\ Below(i) # {}
        BY <3>1, Zenon
      <4>2. n.next_proc[p] = first(Min(Below(i)))
        BY <1>5, <4>1, Zenon
      <4>3. Below(i) \in SUBSET Prios
        BY Zenon DEF Below, NonEmpty
      <4> QED
        BY <1>2, <2>1, <4>1, <4>2, <4>3, Zenon
    <3>2. CASE ~ \E i \in NonEmpty : last(i) = p /\ Below(i) # {}
      BY <1>4, <2>2, <3>2, Zenon
    <3> QED
      BY <3>1, <3>2, Zenon
  <2>6. n.next_proc \in [Slots -> Ptr]
    BY <1>4, <2>5, Zenon
  <2>7. n.queue_first \in [Prios -> Ptr] /\ n.queue_last \in [Prios -> Ptr]
    BY <1>1, <1>4, <2>1, <2>3, <2>4
  <2> QED
    BY Zenon, <1>4, <2>6, <2>7 DEF QueueTable
<1>7. \A i \in Prios \ {0} : Threaded(n, {}, i)
  BY <1>4, Zenon DEF Threaded
<1>8. \A p \in S : prio[p] \in NonEmpty /\ p \in Of(prio[p])
  BY <1>3, Zenon DEF Of
<1>9. CASE NonEmpty = {}
  <2>1. S = {}
    BY <1>8, <1>9, Zenon
  <2>2. n.queue_first[0] = NULL /\ n.queue_last[0] = last(0)
    BY <1>1, <1>4, <1>9, Zenon
  <2>3. last(0) = NULL
    BY <1>1, <2>1, Zenon DEF AllThreaded, Threaded
  <2>4. Threaded(n, S, 0)
    BY <2>1, <2>2, <2>3, Zenon DEF Threaded
  <2> QED
    BY <1>6, <1>7, <2>1, <2>4, Zenon DEF AllThreaded, n
<1>10. CASE NonEmpty # {}
  <2> DEFINE k0 == Min(NonEmpty)
             k1 == Max(NonEmpty)
             succ(i) == Min(Below(i))
             nx == n.next_proc
  <2>1. NonEmpty \in SUBSET Prios /\ \A i \in NonEmpty : i \in Nat
    BY <1>1, Zenon DEF NonEmpty
  <2>2. /\ k0 \in NonEmpty /\ \A i \in NonEmpty : k0 <= i
        /\ k1 \in NonEmpty /\ \A i \in NonEmpty : i <= k1
    BY <1>2, <1>10, <2>1, Zenon
  <2> HIDE DEF k0, k1
  <2>3. ASSUME NEW i \in NonEmpty, i # k1
        PROVE  /\ Below(i) # {} /\ succ(i) \in NonEmpty /\ i < succ(i)
               /\ \A j \in NonEmpty : i < j => succ(i) <= j
    <3>1. k1 \in Below(i)
      BY <2>1, <2>2, <2>3 DEF Below
    <3>2. Below(i) \in SUBSET Prios
      BY <2>1, Zenon DEF Below
    <3>3. succ(i) \in Below(i) /\ \A j \in Below(i) : succ(i) <= j
      BY <1>2, <3>1, <3>2, Zenon
    <3> QED
      BY <3>1, <3>3, Zenon DEF Below
  <2>4. Below(k1) = {}
    BY <2>1, <2>2 DEF Below
  <2>5. \A i \in NonEmpty : IsList(nx, Of(i), first(i), last(i))
    BY <1>3, <1>5, SameList
  <2>6. nx[last(k1)] = NULL
    BY <1>5, <2>2, <2>4, Zenon
  <2>7. \A i \in NonEmpty \ {k1} : nx[last(i)] = first(succ(i))
    BY <1>5, <2>3, Zenon
  <2>8. \A i, j \in NonEmpty : i # j => Of(i) \cap Of(j) = {}
    BY Zenon DEF Of
  <2>9. \A i \in NonEmpty : Of(i) \subseteq S /\ first(i) \in Of(i) /\ last(i) \in Of(i)
    BY Zenon, <1>3 DEF Of
  <2> HIDE DEF succ, nx, first, last
\* The list that starts with queue k0 and ends with queue k1 holds all of S.
  <2>10. ASSUME NEW r \in S \ {last(k1)}
         PROVE  nx[r] \in S \ {first(k0)}
    <3> DEFINE i == prio[r]
    <3>1. i \in NonEmpty /\ r \in Of(i)
      BY <1>8, Zenon
    <3>2. CASE r # last(i)
      <4>1. nx[r] \in Of(i) \ {first(i)}
        BY <2>5, <3>1, <3>2, Zenon DEF IsList
      <4> QED
        BY <2>2, <2>8, <2>9, <3>1, <4>1
    <3>3. CASE r = last(i)
      <4>1. i # k1
        BY <2>10, <3>3, Zenon
      <4>2. nx[r] \in Of(succ(i)) /\ succ(i) \in NonEmpty /\ i < succ(i)
        BY <2>3, <2>7, <2>9, <3>1, <3>3, <4>1, ZenonT(60)
      <4>3. succ(i) # k0
        BY <2>1, <2>2, <3>1, <4>2
      <4> QED
        BY <2>2, <2>8, <2>9, <4>2, <4>3
    <3> QED
      BY <3>2, <3>3, Zenon
  <2>11. ASSUME NEW r \in S \ {last(k1)}, NEW s \in S \ {last(k1)}, nx[r] = nx[s]
         PROVE  r = s
    <3> DEFINE i == prio[r]
               j == prio[s]
    <3>1. i \in NonEmpty /\ r \in Of(i) /\ j \in NonEmpty /\ s \in Of(j)
      BY <1>8, Zenon
    <3>2. /\ r # last(i) => nx[r] \in Of(i) \ {first(i)}
          /\ s # last(j) => nx[s] \in Of(j) \ {first(j)}
      BY <2>5, <3>1, Zenon DEF IsList
    <3>3. /\ r = last(i) => /\ i # k1 /\ nx[r] = first(succ(i))
                            /\ succ(i) \in NonEmpty /\ nx[r] \in Of(succ(i))
          /\ s = last(j) => /\ j # k1 /\ nx[s] = first(succ(j))
                            /\ succ(j) \in NonEmpty /\ nx[s] \in Of(succ(j))
      BY <2>3, <2>7, <2>9, <2>11, <3>1
    <3> HIDE DEF i, j
    <3>4. CASE r # last(i) /\ s # last(j)
      <4>1. i = j
        BY <2>8, <2>11, <3>1, <3>2, <3>4, Zenon
      <4> QED
        BY <2>5, <2>11, <3>1, <3>4, <4>1, Zenon DEF IsList
    <3>5. CASE r = last(i) /\ s # last(j)
      BY <2>8, <2>11, <3>1, <3>2, <3>3, <3>5, Zenon
    <3>6. CASE r # last(i) /\ s = last(j)
      BY <2>8, <2>11, <3>1, <3>2, <3>3, <3>6, Zenon
    <3>7. CASE r = last(i) /\ s = last(j)
      <4>1. succ(i) = succ(j)
        BY <2>8, <2>11, <3>3, <3>7, Zenon
      <4>2. /\ i < succ(i) /\ (i < j => succ(i) <= j)
            /\ j < succ(j) /\ (j < i => succ(j) <= i)
        BY <2>3, <3>1, <3>3, <3>7, Zenon
      <4>3. i = j
        BY <2>1, <3>1, <3>3, <3>7, <4>1, <4>2
      <4> QED
        BY <3>7, <4>3, Zenon
    <3> QED
      BY <3>4, <3>5, <3>6, <3>7, Zenon
  <2>12. ASSUME NEW T \in SUBSET S, first(k0) \in T,
                \A r \in T \ {last(k1)} : nx[r] \in T
         PROVE  T = S
    <3> DEFINE Bad == {i \in NonEmpty : ~(Of(i) \subseteq T)}
               m == Min(Bad)
    <3> SUFFICES ASSUME Bad # {} PROVE FALSE
      BY <1>8, Zenon
    <3>1. m \in Bad /\ \A i \in Bad : m <= i
      BY <1>2, <2>1, Zenon
    <3> HIDE DEF m
    <3>2. first(m) \in T
      <4>1. CASE m = k0
        BY <2>12, <4>1, Zenon
      <4>2. CASE m # k0
        <5> DEFINE Above == {i \in NonEmpty : i < m}
                   l == Max(Above)
        <5>1. k0 \in Above
          BY <2>1, <2>2, <3>1, <4>2
        <5>2. l \in Above /\ \A i \in Above : i <= l
          BY <1>2, <2>1, <5>1, Zenon
        <5> HIDE DEF l
        <5>3. Of(l) \subseteq T /\ l # k1
          BY <2>1, <2>2, <3>1, <5>2
        <5>4. succ(l) \in NonEmpty /\ l < succ(l) /\ succ(l) <= m
          BY <2>3, <3>1, <5>2, <5>3, Zenon
        <5>5. succ(l) < m => succ(l) \in Above
          BY <5>4, Zenon
        <5>6. succ(l) = m
          BY <2>1, <3>1, <5>2, <5>4, <5>5
        <5>7. last(l) \in T /\ last(l) # last(k1) /\ nx[last(l)] = first(m)
          BY <2>2, <2>7, <2>8, <2>9, <5>2, <5>3, <5>6, ZenonT(60)
        <5> QED
          BY <2>12, <5>7, Zenon
      <4> QED
        BY <4>1, <4>2, Zenon
    <3>3. IsList(nx, Of(m), first(m), last(m)) /\ Of(m) \subseteq S
      BY <2>5, <2>9, <3>1, Zenon
    <3>4. \A r \in (T \cap Of(m)) \ {last(m)} : nx[r] \in T \cap Of(m)
      <4> TAKE r \in (T \cap Of(m)) \ {last(m)}
      <4>1. nx[r] \in Of(m)
        BY <3>3, Zenon DEF IsList
      <4>2. r # last(k1)
        BY <2>2, <2>8, <2>9, <3>1
      <4> QED
        BY <2>12, <4>1, <4>2, Zenon
    <3>5. T \cap Of(m) \in SUBSET Of(m) /\ first(m) \in T \cap Of(m)
      BY <3>2, <3>3, Zenon DEF IsList
    <3>6. T \cap Of(m) = Of(m)
      BY ZenonT(60), <3>3, <3>4, <3>5, Zenon DEF IsList
    <3> QED
      BY <3>1, <3>6, Zenon
  <2>13. IsList(nx, S, first(k0), last(k1))
    BY <2>2, <2>9, <2>10, <2>11, <2>12, Zenon DEF IsList
  <2>14. n.queue_first[0] = first(k0) /\ n.queue_last[0] = last(k1)
    BY <1>1, <1>4, <1>10, Zenon DEF k0, k1, first, last
  <2>15. S # {}
    BY <2>2, <2>9, Zenon
  <2>16. Threaded(n, S, 0)
    BY <2>6, <2>13, <2>14, <2>15, ThreadedIsList, Zenon DEF nx
  <2>17. ASSUME NEW i \in Prios
         PROVE  Threaded(n, {p \in S : [r \in Slots |-> 0][p] = i}, i)
    <3>1. {p \in S : [r \in Slots |-> 0][p] = i} = IF i = 0 THEN S ELSE {}
      BY Zenon
    <3> QED
      BY <1>7, <2>16, <3>1, Zenon
  <2> QED
    BY <1>6, <2>17, Zenon DEF AllThreaded, n
<1> QED
  BY <1>9, <1>10, Zenon

-----------------------------------------------------------------------------
(***************************************************************************)
(* The actions of Proc.                                                    *)
(***************************************************************************)
\* Facts about the constant sets.
LEMMA Constants ==
  /\ initproc \in Slots /\ NULL \notin Slots /\ 0 \in Prios /\ NPRIO - 1 \in Prios
  /\ NoCpu \notin CPUs /\ TicksChan \in Devices /\ NULL \notin Devices
  /\ Slots \cap Devices = {}
  /\ \A i \in Prios : i # NPRIO - 1 => i + 1 \in Prios
BY SizeAssumption, MachineAssumption
   DEF initproc, NULL, Slots, Prios, NoCpu, CPUs, TicksChan, Devices

\* The first free slot, or the first zombie child, is a slot of that kind.
LEMMA MinSlot ==
  ASSUME NEW X \in SUBSET Slots, X # {}
  PROVE  Min(X) \in X
<1>1. X \in SUBSET Nat
  BY DEF Slots
<1> QED
  BY <1>1, MinProperty, Zenon

\* What fork(c) does when there is a free slot: it takes one, np.
LEMMA ForkForm ==
  ASSUME NEW c \in CPUs, fork(c), ~ UNCHANGED <<state, pid, priority, child, pc>>
  PROVE  \E np \in Slots :
           /\ state[np] = "UNUSED"
           /\ state' = [state EXCEPT ![np] = "EMBRYO"]
           /\ pid' = [pid EXCEPT ![np] = TRUE]
           /\ priority' = [priority EXCEPT ![np] = 0]
           /\ child' = [child EXCEPT ![cur[c]] = np]
           /\ pc' = [pc EXCEPT ![cur[c]] = "fork"]
<1> DEFINE Unused == {q \in Slots : state[q] = "UNUSED"}
           np     == Min(Unused)
<1>1. /\ Unused # {}
      /\ state' = [state EXCEPT ![np] = "EMBRYO"]
      /\ pid' = [pid EXCEPT ![np] = TRUE]
      /\ priority' = [priority EXCEPT ![np] = 0]
      /\ child' = [child EXCEPT ![cur[c]] = np]
      /\ pc' = [pc EXCEPT ![cur[c]] = "fork"]
  BY Zenon DEF fork
<1>2. Unused \in SUBSET Slots
  BY Zenon
<1>3. np \in Unused
  BY <1>1, <1>2, MinSlot, Zenon
<1>4. np \in Slots /\ state[np] = "UNUSED"
  BY <1>3, Zenon
<1> HIDE DEF np, Unused
<1> QED
  BY <1>1, <1>4, Zenon

\* The three ways wait(c) ends: a zombie child z is reaped, there is nothing
\* to wait for, or the process goes to sleep on itself.
LEMMA WaitForm ==
  ASSUME NEW c \in CPUs, wait(c)
  PROVE  LET p == cur[c]
         IN \/ /\ \E z \in Slots :
                    /\ parent[z] = p /\ state[z] = "ZOMBIE"
                    /\ parent' = [parent EXCEPT ![z] = NULL]
                    /\ killed' = [killed EXCEPT ![z] = FALSE]
                    /\ state' = [state EXCEPT ![z] = "UNUSED"]
               /\ chan' = [chan EXCEPT ![p] = NULL]
               /\ pc' = [pc EXCEPT ![p] = Returned(p, killed[p])]
               /\ cur' = cur
            \/ /\ chan' = [chan EXCEPT ![p] = NULL]
               /\ pc' = [pc EXCEPT ![p] = Returned(p, killed[p])]
               /\ UNCHANGED <<parent, killed, state, cur>>
            \/ /\ ~killed[p]
               /\ \E q \in Slots : parent[q] = p
               /\ \A q \in Slots : parent[q] = p => state[q] # "ZOMBIE"
               /\ chan' = [chan EXCEPT ![p] = p]
               /\ state' = [state EXCEPT ![p] = "SLEEPING"]
               /\ pc' = [pc EXCEPT ![p] = "wait"]
               /\ cur' = [cur EXCEPT ![c] = NULL]
               /\ UNCHANGED <<parent, killed>>
<1> DEFINE p        == cur[c]
           Children == {q \in Slots : parent[q] = p}
           Zombies  == {q \in Children : state[q] = "ZOMBIE"}
           z        == Min(Zombies)
<1>1. CASE Zombies # {}
  <2>1. /\ parent' = [parent EXCEPT ![z] = NULL]
        /\ killed' = [killed EXCEPT ![z] = FALSE]
        /\ state' = [state EXCEPT ![z] = "UNUSED"]
        /\ chan' = [chan EXCEPT ![p] = NULL]
        /\ pc' = [pc EXCEPT ![p] = Returned(p, killed[p])]
        /\ cur' = cur
    BY <1>1, Zenon DEF wait
  <2>2. Zombies \in SUBSET Slots
    BY Zenon
  <2>3. z \in Zombies
    BY <1>1, <2>2, MinSlot, Zenon
  <2>4. z \in Slots /\ parent[z] = p /\ state[z] = "ZOMBIE"
    BY <2>3, Zenon
  <2> HIDE DEF z, Zombies, Children
  <2> QED
    BY <2>1, <2>4, ZenonT(60)
<1>2. CASE Zombies = {}
  BY <1>2, Zenon DEF wait, Leave
<1> QED
  BY <1>1, <1>2, Zenon

\* A process that scheduler(c) takes from a queue was RUNNABLE.
LEMMA SchedulerForm ==
  ASSUME IInv, NEW c \in CPUs, scheduler(c)
  PROVE  \E p \in Slots : /\ state[p] = "RUNNABLE"
                          /\ state' = [state EXCEPT ![p] = "RUNNING"]
                          /\ cur' = [cur EXCEPT ![c] = p]
<1>1. PICK i \in Prios :
        /\ rq.queue_first[i] # NULL
        /\ state' = [state EXCEPT ![rq.queue_first[i]] = "RUNNING"]
        /\ cur' = [cur EXCEPT ![c] = rq.queue_first[i]]
  BY Zenon DEF scheduler
<1>2. Runnable \in SUBSET Slots
  BY Zenon DEF Runnable
<1>3. rq.queue_first[i] \in Runnable
  BY <1>1, <1>2, DequeueThreads, Zenon DEF IInv, TypeOK, QueuesHoldRunnable
<1> QED
  BY <1>1, <1>3, Zenon DEF Runnable

\* A process whose code takes a step is RUNNING.
LEMMA RunningHere ==
  ASSUME IInv, NEW c \in CPUs, cur[c] # NULL \/ plock = c \/ intr[c] = "yield"
  PROVE  cur[c] \in Slots /\ state[cur[c]] = "RUNNING"
BY DEF IInv, TypeOK, OnOneCpu, LockInv, Ptr

\* Every step keeps the variables in their types.
LEMMA TypeStep ==
  ASSUME IInv, Next
  PROVE  TypeOK'
<1>0. /\ TypeOK /\ OnOneCpu /\ QueuesHoldRunnable /\ WaitNotLost /\ ParentsAlive
      /\ LockInv /\ ForkInv /\ FamilyInv
  BY Zenon DEF IInv
<1> USE <1>0, Constants DEF TypeOK, slotVars, ctlVars, Ptr
<1>1. ASSUME NEW c \in CPUs, scheduler(c)
      PROVE  TypeOK'
  <2>1. PICK i \in Prios :
          /\ rq.queue_first[i] # NULL
          /\ LET p == rq.queue_first[i]
             IN /\ cur' = [cur EXCEPT ![c] = p]
                /\ rq' = dequeue(rq, priority, p)
                /\ state' = [state EXCEPT ![p] = "RUNNING"]
    BY <1>1, Zenon DEF scheduler
  <2>2. Runnable \in SUBSET Slots
    BY Zenon DEF Runnable
  <2>3. rq' \in QueueTable /\ rq.queue_first[i] \in Slots
    BY <2>1, <2>2, DequeueThreads, ZenonT(60) DEF QueuesHoldRunnable
  <2> QED
    BY <1>1, <2>1, <2>3, Zenon DEF scheduler, States, NULL
<1>2. ASSUME NEW c \in CPUs, trap_timer(c)
      PROVE  TypeOK'
  <2>1. ticks' \in 0 .. TickModulus - 1
    BY <1>2, MachineAssumption DEF trap_timer
  <2> QED
    BY <1>2, <2>1, Zenon DEF trap_timer, Stages
<1>3. ASSUME NEW c \in CPUs, tick_wakeup(c)
      PROVE  TypeOK'
  <2>1. rq' \in QueueTable
    BY <1>3, EnqueueAllType, Zenon DEF tick_wakeup, wakeup1, Sleepers
  <2>2. state' \in [Slots -> States]
    BY <1>3, Zenon DEF tick_wakeup, wakeup1, Readied, States
  <2> QED
    BY <1>3, <2>1, <2>2, Zenon DEF tick_wakeup, Stages
<1>4. ASSUME NEW c \in CPUs, priority_boost(c)
      PROVE  TypeOK'
  <2>1. rq' \in QueueTable
    BY <1>4, BoostThreads, Zenon DEF priority_boost, QueuesHoldRunnable, Runnable
  <2> QED
    BY <1>4, <2>1, Zenon DEF priority_boost, Stages
<1>5. ASSUME NEW c \in CPUs, trap_tail(c)
      PROVE  TypeOK'
  <2>1. ticks_running' \in [Slots -> Nat]
    BY <1>5 DEF trap_tail
  <2>2. intr' \in [CPUs -> Stages]
    BY <1>5 DEF trap_tail, Stages
  <2>3. pc' \in [Slots -> Places] /\ panicked' \in BOOLEAN
    BY <1>5, ZenonT(60) DEF trap_tail, EnterExit, Places
  <2> QED
    BY <1>5, <2>1, <2>2, <2>3, ZenonT(60) DEF trap_tail
<1>6. ASSUME NEW c \in CPUs, yield(c)
      PROVE  TypeOK'
  <2>1. cur[c] \in Slots
    BY <1>6, Zenon DEF yield, LockInv, NULL
  <2>2. priority' \in [Slots -> Prios]
    BY <1>6, Zenon DEF yield
  <2>3. rq' \in QueueTable
    BY <1>6, <2>1, <2>2, EnqueueType, Zenon DEF yield
  <2> QED
    BY <1>6, <2>2, <2>3, Zenon DEF yield, Leave, States, Stages, NULL
<1>7. ASSUME NEW c \in CPUs, trap_ret(c)
      PROVE  TypeOK'
  BY <1>7, ZenonT(60) DEF trap_ret, EnterExit, Stages, Places
<1>8. ASSUME NEW c \in CPUs, NEW ch \in Devices, trap_device(c, ch)
      PROVE  TypeOK'
  <2>1. rq' \in QueueTable
    BY <1>8, EnqueueAllType, Zenon DEF trap_device, wakeup1, Sleepers
  <2>2. state' \in [Slots -> States]
    BY <1>8, Zenon DEF trap_device, wakeup1, Readied, States
  <2> QED
    BY <1>8, <2>1, <2>2, Zenon DEF trap_device, Stages
<1>9. ASSUME NEW c \in CPUs, forkret(c)
      PROVE  TypeOK'
  BY <1>9, Zenon DEF forkret, Places
<1>10. ASSUME NEW c \in CPUs, sleep_return(c)
      PROVE  TypeOK'
  BY <1>10, Zenon DEF sleep_return
<1>11. ASSUME NEW c \in CPUs, yield_return(c)
      PROVE  TypeOK'
  BY <1>11, Zenon DEF yield_return, Stages
<1>12. ASSUME NEW c \in CPUs, trap_fault(c)
      PROVE  TypeOK'
  BY <1>12, Zenon DEF trap_fault, EnterExit, Places
<1>13. ASSUME NEW c \in CPUs, syscall_exit(c)
      PROVE  TypeOK'
  BY <1>13, Zenon DEF syscall_exit, EnterExit, Places
<1>14. ASSUME NEW c \in CPUs, syscall_kernel(c)
      PROVE  TypeOK'
  BY <1>14, Zenon DEF syscall_kernel, Places
<1>15. ASSUME NEW c \in CPUs, syscall_return(c)
      PROVE  TypeOK'
  BY <1>15, ZenonT(60) DEF syscall_return, Returned, ReturnTo, Places
<1>16. ASSUME NEW c \in CPUs, fork(c)
      PROVE  TypeOK'
  <2>1. CASE UNCHANGED <<state, pid, priority, child, pc>>
    BY <1>16, <2>1, Zenon DEF fork
  <2>2. CASE ~ UNCHANGED <<state, pid, priority, child, pc>>
    <3>1. PICK np \in Slots :
            /\ state' = [state EXCEPT ![np] = "EMBRYO"]
            /\ pid' = [pid EXCEPT ![np] = TRUE]
            /\ priority' = [priority EXCEPT ![np] = 0]
            /\ child' = [child EXCEPT ![cur[c]] = np]
            /\ pc' = [pc EXCEPT ![cur[c]] = "fork"]
      BY <1>16, <2>2, ForkForm, Zenon
    <3> QED
      BY <1>16, <3>1, ZenonT(60) DEF fork, States, Places
  <2> QED
    BY <2>1, <2>2, Zenon
<1>17. ASSUME NEW c \in CPUs, fork_fail(c)
      PROVE  TypeOK'
  BY <1>17, ZenonT(60) DEF fork_fail, Returned, ReturnTo, States, Places
<1>18. ASSUME NEW c \in CPUs, fork_enqueue(c)
      PROVE  TypeOK'
  <2>1. cur[c] \in Slots /\ child[cur[c]] \in Slots
    BY <1>18, Zenon DEF fork_enqueue, At, ForkInv
  <2>2. rq' \in QueueTable
    BY <1>18, <2>1, EnqueueType, ZenonT(60) DEF fork_enqueue
  <2> QED
    BY <1>18, <2>1, <2>2, Zenon DEF fork_enqueue, Returned, ReturnTo, States, Places
<1>19. ASSUME NEW c \in CPUs, exit(c)
      PROVE  TypeOK'
  <2> DEFINE First  == Sleepers(parent[cur[c]])
             Second == IF \E q \in Slots : parent[q] = cur[c] /\ state[q] = "ZOMBIE"
                       THEN Sleepers(initproc) \ First ELSE {}
  <2>1. First \in SUBSET Slots /\ Second \in SUBSET Slots
    BY Zenon DEF Sleepers
  <2>2. rq' = enqueueAll(enqueueAll(rq, priority, First), priority, Second)
    BY <1>19, Zenon DEF exit
  <2>3. rq' \in QueueTable
    BY <2>1, <2>2, EnqueueAllType, Zenon
  <2>4. state' \in [Slots -> States]
    BY <1>19, ZenonT(60) DEF exit, Readied, States
  <2> QED
    BY <1>19, <2>3, <2>4, Zenon DEF exit, Leave, Places, NULL
<1>20. ASSUME NEW c \in CPUs, wait(c)
      PROVE  TypeOK'
  <2>1. pid' \in [Slots -> BOOLEAN] /\ killed' \in [Slots -> BOOLEAN]
    BY <1>20, ZenonT(60) DEF wait
  <2>2. parent' \in [Slots -> Ptr] /\ state' \in [Slots -> States]
    BY <1>20 DEF wait, States
  <2>3. cur[c] \in Slots
    BY <1>20, Zenon DEF wait, At, LockInv, NULL
  <2>4. chan' \in [Slots -> Ptr \cup Devices]
    BY <1>20, <2>3 DEF wait
  <2>5. pc' \in [Slots -> Places]
    BY <1>20 DEF wait, Returned, Places
  <2>6. panicked' \in BOOLEAN
    BY <1>20, ZenonT(60) DEF wait, ReturnTo
  <2>7. cur' \in [CPUs -> Ptr]
    BY <1>20, Zenon DEF wait, Leave
  <2> QED
    BY <1>20, <2>1, <2>2, <2>4, <2>5, <2>6, <2>7 DEF wait
<1>21. ASSUME NEW c \in CPUs, NEW ch \in Devices, sleep(c, ch)
      PROVE  TypeOK'
  BY <1>21, ZenonT(60) DEF sleep, Leave, States, NULL
<1>22. ASSUME NEW c \in CPUs, NEW ch \in Devices, wakeup(c, ch)
      PROVE  TypeOK'
  <2>1. rq' \in QueueTable
    BY <1>22, EnqueueAllType, Zenon DEF wakeup, wakeup1, Sleepers
  <2>2. state' \in [Slots -> States]
    BY <1>22, Zenon DEF wakeup, wakeup1, Readied, States
  <2> QED
    BY <1>22, <2>1, <2>2, Zenon DEF wakeup
<1>23. ASSUME NEW c \in CPUs, NEW t \in Slots, kill(c, t)
      PROVE  TypeOK'
  <2>1. rq' \in QueueTable
    BY <1>23, EnqueueType DEF kill
  <2> QED
    BY <1>23, <2>1, ZenonT(60) DEF kill, Returned, ReturnTo, States, Places
<1>24. ASSUME Halted
      PROVE  TypeOK'
  BY <1>24, Zenon DEF Halted, vars, slotVars, ctlVars
<1> HIDE <1>0, Constants DEF TypeOK, slotVars, ctlVars, Ptr
<1> QED
  BY <1>1, <1>2, <1>3, <1>4, <1>5, <1>6, <1>7, <1>8, <1>9, <1>10, <1>11, <1>12,
     <1>13, <1>14, <1>15, <1>16, <1>17, <1>18, <1>19, <1>20, <1>21, <1>22, <1>23, <1>24, ZenonT(60)
     DEF Next, Interrupt, Process

\* Every step keeps RUNNING processes and CPUs in step, and ptable.lock with
\* a CPU that runs a process.
LEMMA CpuStep ==
  ASSUME IInv, Next
  PROVE  (OnOneCpu /\ LockInv)'
<1>0. /\ TypeOK /\ OnOneCpu /\ QueuesHoldRunnable /\ WaitNotLost /\ ParentsAlive
      /\ LockInv /\ ForkInv /\ FamilyInv
  BY Zenon DEF IInv
<1> USE <1>0, Constants DEF TypeOK, slotVars, ctlVars, OnOneCpu, LockInv, Ptr
<1>1. ASSUME NEW c \in CPUs, scheduler(c)
      PROVE  (OnOneCpu /\ LockInv)'
  <2>1. PICK i \in Prios :
          /\ rq.queue_first[i] # NULL
          /\ cur' = [cur EXCEPT ![c] = rq.queue_first[i]]
          /\ state' = [state EXCEPT ![rq.queue_first[i]] = "RUNNING"]
    BY <1>1, Zenon DEF scheduler
  <2>2. rq.queue_first[i] \in Runnable
    BY <2>1, DequeueThreads, ZenonT(60) DEF QueuesHoldRunnable, Runnable
  <2> QED
    BY <1>1, <2>1, <2>2 DEF scheduler, Runnable
<1>2. ASSUME NEW c \in CPUs, trap_timer(c)
      PROVE  (OnOneCpu /\ LockInv)'
  BY <1>2 DEF trap_timer
<1>3. ASSUME NEW c \in CPUs, tick_wakeup(c)
      PROVE  (OnOneCpu /\ LockInv)'
  BY <1>3 DEF tick_wakeup, wakeup1, Readied, Sleepers, Unlocked
<1>4. ASSUME NEW c \in CPUs, priority_boost(c)
      PROVE  (OnOneCpu /\ LockInv)'
  BY <1>4 DEF priority_boost
<1>5. ASSUME NEW c \in CPUs, trap_tail(c)
      PROVE  (OnOneCpu /\ LockInv)'
  BY <1>5 DEF trap_tail
<1>6. ASSUME NEW c \in CPUs, yield(c)
      PROVE  (OnOneCpu /\ LockInv)'
  BY <1>6 DEF yield, Leave, Unlocked
<1>7. ASSUME NEW c \in CPUs, trap_ret(c)
      PROVE  (OnOneCpu /\ LockInv)'
  BY <1>7 DEF trap_ret
<1>8. ASSUME NEW c \in CPUs, NEW ch \in Devices, trap_device(c, ch)
      PROVE  (OnOneCpu /\ LockInv)'
  BY <1>8 DEF trap_device, wakeup1, Readied, Sleepers, Unlocked
<1>9. ASSUME NEW c \in CPUs, forkret(c)
      PROVE  (OnOneCpu /\ LockInv)'
  BY <1>9 DEF forkret
<1>10. ASSUME NEW c \in CPUs, sleep_return(c)
      PROVE  (OnOneCpu /\ LockInv)'
  BY <1>10 DEF sleep_return
<1>11. ASSUME NEW c \in CPUs, yield_return(c)
      PROVE  (OnOneCpu /\ LockInv)'
  BY <1>11 DEF yield_return
<1>12. ASSUME NEW c \in CPUs, trap_fault(c)
      PROVE  (OnOneCpu /\ LockInv)'
  BY <1>12, Zenon DEF trap_fault
<1>13. ASSUME NEW c \in CPUs, syscall_exit(c)
      PROVE  (OnOneCpu /\ LockInv)'
  BY <1>13, Zenon DEF syscall_exit
<1>14. ASSUME NEW c \in CPUs, syscall_kernel(c)
      PROVE  (OnOneCpu /\ LockInv)'
  BY <1>14, Zenon DEF syscall_kernel
<1>15. ASSUME NEW c \in CPUs, syscall_return(c)
      PROVE  (OnOneCpu /\ LockInv)'
  BY <1>15, Zenon DEF syscall_return
<1>16. ASSUME NEW c \in CPUs, fork(c)
      PROVE  (OnOneCpu /\ LockInv)'
  <2>1. CASE UNCHANGED <<state, pid, priority, child, pc>>
    BY <1>16, <2>1, ZenonT(60) DEF fork
  <2>2. CASE ~ UNCHANGED <<state, pid, priority, child, pc>>
    <3>1. PICK np \in Slots : state[np] = "UNUSED" /\ state' = [state EXCEPT ![np] = "EMBRYO"]
      BY <1>16, <2>2, ForkForm, ZenonT(60)
    <3> QED
      BY <1>16, <3>1 DEF fork
  <2> QED
    BY <2>1, <2>2, Zenon
<1>17. ASSUME NEW c \in CPUs, fork_fail(c)
      PROVE  (OnOneCpu /\ LockInv)'
  BY <1>17 DEF fork_fail, At, ForkInv
<1>18. ASSUME NEW c \in CPUs, fork_enqueue(c)
      PROVE  (OnOneCpu /\ LockInv)'
  BY <1>18 DEF fork_enqueue, At, ForkInv
<1>19. ASSUME NEW c \in CPUs, exit(c)
      PROVE  (OnOneCpu /\ LockInv)'
  BY <1>19 DEF exit, At, Leave, Unlocked, Readied, Sleepers
<1>20. ASSUME NEW c \in CPUs, wait(c)
      PROVE  (OnOneCpu /\ LockInv)'
  <2>1. cur[c] \in Slots /\ intr[c] = "none"
    BY <1>20 DEF wait, At
  <2>2. plock' = NoCpu /\ intr' = intr
    BY <1>20, ZenonT(60) DEF wait
  <2> QED
    BY <1>20, <2>1, <2>2, WaitForm
<1>21. ASSUME NEW c \in CPUs, NEW ch \in Devices, sleep(c, ch)
      PROVE  (OnOneCpu /\ LockInv)'
  BY <1>21 DEF sleep, Leave, Unlocked, At
<1>22. ASSUME NEW c \in CPUs, NEW ch \in Devices, wakeup(c, ch)
      PROVE  (OnOneCpu /\ LockInv)'
  BY <1>22 DEF wakeup, wakeup1, Readied, Sleepers, Unlocked
<1>23. ASSUME NEW c \in CPUs, NEW t \in Slots, kill(c, t)
      PROVE  (OnOneCpu /\ LockInv)'
  BY <1>23 DEF kill, At
<1>24. ASSUME Halted
      PROVE  (OnOneCpu /\ LockInv)'
  BY <1>24, Zenon DEF Halted, vars, slotVars, ctlVars
<1> HIDE <1>0, Constants DEF TypeOK, slotVars, ctlVars, OnOneCpu, LockInv, Ptr
<1> QED
  BY <1>1, <1>2, <1>3, <1>4, <1>5, <1>6, <1>7, <1>8, <1>9, <1>10, <1>11, <1>12,
     <1>13, <1>14, <1>15, <1>16, <1>17, <1>18, <1>19, <1>20, <1>21, <1>22, <1>23, <1>24, ZenonT(60)
     DEF Next, Interrupt, Process

-----------------------------------------------------------------------------
\* A list depends on the priorities of its own processes only.
LEMMA SamePriorities ==
  ASSUME NEW q, NEW S, NEW prio, NEW prio2, AllThreaded(q, S, prio),
         \A p \in S : prio2[p] = prio[p]
  PROVE  AllThreaded(q, S, prio2)
<1>1. \A i \in Prios : {p \in S : prio2[p] = i} = {p \in S : prio[p] = i}
  BY Zenon
<1> QED
  BY <1>1, Zenon DEF AllThreaded

\* A step that wakes the processes that sleep on ch keeps the queues.
LEMMA WakeupThreads ==
  ASSUME TypeOK, QueuesHoldRunnable, NEW ch, wakeup1(ch), priority' = priority
  PROVE  QueuesHoldRunnable'
<1> DEFINE W == Sleepers(ch)
<1>1. W \in SUBSET Slots /\ Runnable \in SUBSET Slots /\ Runnable \cap W = {}
  BY Zenon DEF Sleepers, Runnable
<1>2. AllThreaded(rq', Runnable \cup W, priority)
  BY <1>1, EnqueueAllThreads, Zenon DEF TypeOK, QueuesHoldRunnable, wakeup1
<1>3. Runnable' = Runnable \cup W
  BY <1>1, Zenon DEF wakeup1, Readied, Runnable, TypeOK
<1> QED
  BY <1>2, <1>3, Zenon DEF QueuesHoldRunnable

\* A step that enqueues one process keeps the queues.
LEMMA OneThreads ==
  ASSUME TypeOK, QueuesHoldRunnable, NEW p \in Slots, state[p] # "RUNNABLE",
         rq' = enqueue(rq, priority', p), priority' \in [Slots -> Prios],
         \A r \in Slots \ {p} : priority'[r] = priority[r],
         state' = [state EXCEPT ![p] = "RUNNABLE"]
  PROVE  QueuesHoldRunnable'
<1>1. Runnable \in SUBSET Slots /\ p \notin Runnable
  BY Zenon DEF Runnable
<1>2. AllThreaded(rq, Runnable, priority')
  BY <1>1, SamePriorities, Zenon DEF QueuesHoldRunnable
<1>3. AllThreaded(rq', Runnable \cup {p}, priority')
  BY <1>1, <1>2, EnqueueThreads, Zenon DEF TypeOK
<1>4. Runnable' = Runnable \cup {p}
  BY Zenon DEF Runnable, TypeOK
<1> QED
  BY <1>3, <1>4, Zenon DEF QueuesHoldRunnable

\* So does a step that leaves the queues and the set of RUNNABLE processes.
LEMMA NoneThreads ==
  ASSUME QueuesHoldRunnable, rq' = rq, Runnable' = Runnable,
         \A p \in Runnable : priority'[p] = priority[p]
  PROVE  QueuesHoldRunnable'
BY SamePriorities, Zenon DEF QueuesHoldRunnable

\* Every step keeps the queues and the RUNNABLE processes together.
LEMMA QueueStep ==
  ASSUME IInv, Next
  PROVE  QueuesHoldRunnable'
<1>0. /\ TypeOK /\ OnOneCpu /\ QueuesHoldRunnable /\ WaitNotLost /\ ParentsAlive
      /\ LockInv /\ ForkInv /\ FamilyInv
  BY Zenon DEF IInv
<1> USE <1>0, Constants DEF TypeOK, slotVars, ctlVars
<1>1. ASSUME NEW c \in CPUs, scheduler(c)
      PROVE  QueuesHoldRunnable'
  <2>1. PICK i \in Prios :
          /\ rq.queue_first[i] # NULL
          /\ rq' = dequeue(rq, priority, rq.queue_first[i])
          /\ state' = [state EXCEPT ![rq.queue_first[i]] = "RUNNING"]
    BY <1>1, Zenon DEF scheduler
  <2> DEFINE p == rq.queue_first[i]
  <2>2. Runnable \in SUBSET Slots
    BY Zenon DEF Runnable
  <2>3. p \in Runnable /\ AllThreaded(rq', Runnable \ {p}, priority)
    BY <2>1, <2>2, DequeueThreads, ZenonT(60) DEF QueuesHoldRunnable
  <2>4. Runnable' = Runnable \ {p}
    BY <2>1, <2>3, Zenon DEF Runnable
  <2> QED
    BY <1>1, <2>3, <2>4, Zenon DEF scheduler, QueuesHoldRunnable
<1>2. ASSUME NEW c \in CPUs, trap_timer(c)
      PROVE  QueuesHoldRunnable'
  BY <1>2, NoneThreads, Zenon DEF trap_timer, Runnable
<1>3. ASSUME NEW c \in CPUs, tick_wakeup(c)
      PROVE  QueuesHoldRunnable'
  BY <1>3, WakeupThreads, Zenon DEF tick_wakeup
<1>4. ASSUME NEW c \in CPUs, priority_boost(c)
      PROVE  QueuesHoldRunnable'
  <2>1. Runnable \in SUBSET Slots /\ Runnable' = Runnable
    BY <1>4, Zenon DEF priority_boost, Runnable
  <2> QED
    BY <1>4, <2>1, BoostThreads, Zenon DEF priority_boost, QueuesHoldRunnable
<1>5. ASSUME NEW c \in CPUs, trap_tail(c)
      PROVE  QueuesHoldRunnable'
  BY <1>5, NoneThreads, Zenon DEF trap_tail, Runnable
<1>6. ASSUME NEW c \in CPUs, yield(c)
      PROVE  QueuesHoldRunnable'
  <2>1. cur[c] \in Slots /\ state[cur[c]] = "RUNNING"
    BY <1>6 DEF yield, LockInv, OnOneCpu, Ptr
  <2>2. priority' \in [Slots -> Prios] /\ \A r \in Slots \ {cur[c]} : priority'[r] = priority[r]
    BY <1>6, ZenonT(60) DEF yield
  <2>3. /\ rq' = enqueue(rq, priority', cur[c])
        /\ state' = [state EXCEPT ![cur[c]] = "RUNNABLE"]
    BY <1>6, Zenon DEF yield
  <2> QED
    BY <2>1, <2>2, <2>3, OneThreads, ZenonT(60)
<1>7. ASSUME NEW c \in CPUs, trap_ret(c)
      PROVE  QueuesHoldRunnable'
  BY <1>7, NoneThreads, Zenon DEF trap_ret, Runnable
<1>8. ASSUME NEW c \in CPUs, NEW ch \in Devices, trap_device(c, ch)
      PROVE  QueuesHoldRunnable'
  BY <1>8, WakeupThreads, Zenon DEF trap_device
<1>9. ASSUME NEW c \in CPUs, forkret(c)
      PROVE  QueuesHoldRunnable'
  BY <1>9, NoneThreads, Zenon DEF forkret, Runnable
<1>10. ASSUME NEW c \in CPUs, sleep_return(c)
      PROVE  QueuesHoldRunnable'
  BY <1>10, NoneThreads, Zenon DEF sleep_return, Runnable
<1>11. ASSUME NEW c \in CPUs, yield_return(c)
      PROVE  QueuesHoldRunnable'
  BY <1>11, NoneThreads, Zenon DEF yield_return, Runnable
<1>12. ASSUME NEW c \in CPUs, trap_fault(c)
      PROVE  QueuesHoldRunnable'
  BY <1>12, NoneThreads, Zenon DEF trap_fault, Runnable
<1>13. ASSUME NEW c \in CPUs, syscall_exit(c)
      PROVE  QueuesHoldRunnable'
  BY <1>13, NoneThreads, Zenon DEF syscall_exit, Runnable
<1>14. ASSUME NEW c \in CPUs, syscall_kernel(c)
      PROVE  QueuesHoldRunnable'
  BY <1>14, NoneThreads, Zenon DEF syscall_kernel, Runnable
<1>15. ASSUME NEW c \in CPUs, syscall_return(c)
      PROVE  QueuesHoldRunnable'
  BY <1>15, NoneThreads, Zenon DEF syscall_return, Runnable
<1>16. ASSUME NEW c \in CPUs, fork(c)
      PROVE  QueuesHoldRunnable'
  <2>1. CASE UNCHANGED <<state, pid, priority, child, pc>>
    BY <1>16, <2>1, NoneThreads, Zenon DEF fork, Runnable
  <2>2. CASE ~ UNCHANGED <<state, pid, priority, child, pc>>
    <3>1. PICK np \in Slots :
            /\ state[np] = "UNUSED" /\ state' = [state EXCEPT ![np] = "EMBRYO"]
            /\ priority' = [priority EXCEPT ![np] = 0]
      BY <1>16, <2>2, ForkForm, Zenon
    <3> QED
      BY <1>16, <3>1, NoneThreads, Zenon DEF fork, Runnable
  <2> QED
    BY <2>1, <2>2, Zenon
<1>17. ASSUME NEW c \in CPUs, fork_fail(c)
      PROVE  QueuesHoldRunnable'
  BY <1>17, NoneThreads, Zenon DEF fork_fail, At, ForkInv, Runnable, Ptr
<1>18. ASSUME NEW c \in CPUs, fork_enqueue(c)
      PROVE  QueuesHoldRunnable'
  <2>1. cur[c] \in Slots
    BY <1>18, Zenon DEF fork_enqueue, At, Ptr
  <2>2. child[cur[c]] \in Slots /\ state[child[cur[c]]] = "EMBRYO"
    BY <1>18, <2>1, Zenon DEF fork_enqueue, At, ForkInv
  <2> QED
    BY <1>18, <2>2, OneThreads, ZenonT(60) DEF fork_enqueue
<1>19. ASSUME NEW c \in CPUs, exit(c)
      PROVE  QueuesHoldRunnable'
  <2> DEFINE p      == cur[c]
             First  == Sleepers(parent[p])
             Second == IF \E q \in {r \in Slots : parent[r] = p} : state[q] = "ZOMBIE"
                       THEN Sleepers(initproc) \ First ELSE {}
             mid    == enqueueAll(rq, priority, First)
  <2>1. /\ rq' = enqueueAll(mid, priority, Second)
        /\ state' = [Readied(First \cup Second) EXCEPT ![p] = "ZOMBIE"]
        /\ priority' = priority
    BY <1>19, Zenon DEF exit
  <2>2. p \in Slots /\ state[p] = "RUNNING"
    BY <1>19, Zenon DEF exit, At, OnOneCpu, Ptr
  <2>3. /\ First \in SUBSET Slots /\ Second \in SUBSET Slots
        /\ \A q \in First \cup Second : state[q] = "SLEEPING"
        /\ First \cap Second = {}
    BY Zenon DEF Sleepers
  <2> HIDE DEF First, Second, p, mid
  <2>4. Runnable \in SUBSET Slots /\ Runnable \cap (First \cup Second) = {}
    BY <2>3, Zenon DEF Runnable
  <2>5. mid \in QueueTable
    BY <2>3, EnqueueAllType, Zenon DEF mid
  <2>6. AllThreaded(mid, Runnable \cup First, priority)
    BY <2>3, <2>4, EnqueueAllThreads, Zenon DEF mid, QueuesHoldRunnable
  <2>7. AllThreaded(rq', (Runnable \cup First) \cup Second, priority)
    <3>1. Runnable \cup First \in SUBSET Slots /\ (Runnable \cup First) \cap Second = {}
      BY <2>3, <2>4, Zenon
    <3> QED
      BY <2>1, <2>3, <2>5, <2>6, <3>1, EnqueueAllThreads, ZenonT(60)
  <2>8. Runnable' = (Runnable \cup First) \cup Second
    BY <2>1, <2>2, <2>3, Zenon DEF Runnable, Readied
  <2> QED
    BY <2>1, <2>7, <2>8, Zenon DEF QueuesHoldRunnable
<1>20. ASSUME NEW c \in CPUs, wait(c)
      PROVE  QueuesHoldRunnable'
  <2>1. cur[c] \in Slots /\ state[cur[c]] = "RUNNING"
    BY <1>20 DEF wait, At, LockInv, OnOneCpu, Ptr
  <2>2. Runnable' = Runnable
    BY <1>20, <2>1, WaitForm DEF Runnable
  <2> QED
    BY <1>20, <2>2, NoneThreads, ZenonT(60) DEF wait
<1>21. ASSUME NEW c \in CPUs, NEW ch \in Devices, sleep(c, ch)
      PROVE  QueuesHoldRunnable'
  <2>1. cur[c] \in Slots /\ state[cur[c]] = "RUNNING"
    BY <1>21, Zenon DEF sleep, At, OnOneCpu, Ptr
  <2> QED
    BY <1>21, <2>1, NoneThreads, Zenon DEF sleep, Runnable
<1>22. ASSUME NEW c \in CPUs, NEW ch \in Devices, wakeup(c, ch)
      PROVE  QueuesHoldRunnable'
  BY <1>22, WakeupThreads, Zenon DEF wakeup
<1>23. ASSUME NEW c \in CPUs, NEW t \in Slots, kill(c, t)
      PROVE  QueuesHoldRunnable'
  <2>1. CASE state[t] = "SLEEPING"
    BY <1>23, <2>1, OneThreads, Zenon DEF kill
  <2>2. CASE state[t] # "SLEEPING"
    BY <1>23, <2>2, NoneThreads, ZenonT(60) DEF kill, Runnable
  <2> QED
    BY <2>1, <2>2, Zenon
<1>24. ASSUME Halted
      PROVE  QueuesHoldRunnable'
  BY <1>24, Zenon DEF Halted, vars, slotVars, ctlVars, QueuesHoldRunnable, Runnable
<1> HIDE <1>0, Constants DEF TypeOK, slotVars, ctlVars
<1> QED
  BY <1>1, <1>2, <1>3, <1>4, <1>5, <1>6, <1>7, <1>8, <1>9, <1>10, <1>11, <1>12,
     <1>13, <1>14, <1>15, <1>16, <1>17, <1>18, <1>19, <1>20, <1>21, <1>22, <1>23, <1>24, ZenonT(60)
     DEF Next, Interrupt, Process

\* Every step leaves a child that is being filled in to its one parent.
LEMMA ForkStep ==
  ASSUME IInv, Next
  PROVE  ForkInv'
<1>0. /\ TypeOK /\ OnOneCpu /\ QueuesHoldRunnable /\ WaitNotLost /\ ParentsAlive
      /\ LockInv /\ ForkInv /\ FamilyInv
  BY Zenon DEF IInv
<1> USE <1>0, Constants DEF TypeOK, slotVars, ctlVars, ForkInv, Ptr
<1>1. ASSUME NEW c \in CPUs, scheduler(c)
      PROVE  ForkInv'
  <2>1. PICK p \in Slots : state[p] = "RUNNABLE" /\ state' = [state EXCEPT ![p] = "RUNNING"]
    BY <1>1, SchedulerForm, Zenon
  <2> QED
    BY <1>1, <2>1 DEF scheduler
<1>2. ASSUME NEW c \in CPUs, trap_timer(c)
      PROVE  ForkInv'
  BY <1>2, Zenon DEF trap_timer
<1>3. ASSUME NEW c \in CPUs, tick_wakeup(c)
      PROVE  ForkInv'
  BY <1>3, Zenon DEF tick_wakeup, wakeup1, Readied, Sleepers
<1>4. ASSUME NEW c \in CPUs, priority_boost(c)
      PROVE  ForkInv'
  BY <1>4, ZenonT(60) DEF priority_boost
<1>5. ASSUME NEW c \in CPUs, trap_tail(c)
      PROVE  ForkInv'
  BY <1>5 DEF trap_tail, EnterExit
<1>6. ASSUME NEW c \in CPUs, yield(c)
      PROVE  ForkInv'
  <2>1. cur[c] \in Slots /\ state[cur[c]] = "RUNNING"
    BY <1>6, RunningHere, ZenonT(60) DEF yield, At
  <2> QED
    BY <1>6, <2>1 DEF yield, Leave
<1>7. ASSUME NEW c \in CPUs, trap_ret(c)
      PROVE  ForkInv'
  BY <1>7 DEF trap_ret, EnterExit
<1>8. ASSUME NEW c \in CPUs, NEW ch \in Devices, trap_device(c, ch)
      PROVE  ForkInv'
  BY <1>8, ZenonT(60) DEF trap_device, wakeup1, Readied, Sleepers
<1>9. ASSUME NEW c \in CPUs, forkret(c)
      PROVE  ForkInv'
  BY <1>9 DEF forkret
<1>10. ASSUME NEW c \in CPUs, sleep_return(c)
      PROVE  ForkInv'
  BY <1>10, Zenon DEF sleep_return
<1>11. ASSUME NEW c \in CPUs, yield_return(c)
      PROVE  ForkInv'
  BY <1>11, ZenonT(60) DEF yield_return
<1>12. ASSUME NEW c \in CPUs, trap_fault(c)
      PROVE  ForkInv'
  BY <1>12 DEF trap_fault, EnterExit
<1>13. ASSUME NEW c \in CPUs, syscall_exit(c)
      PROVE  ForkInv'
  BY <1>13 DEF syscall_exit, EnterExit
<1>14. ASSUME NEW c \in CPUs, syscall_kernel(c)
      PROVE  ForkInv'
  BY <1>14 DEF syscall_kernel
<1>15. ASSUME NEW c \in CPUs, syscall_return(c)
      PROVE  ForkInv'
  BY <1>15 DEF syscall_return, At, Returned
<1>16. ASSUME NEW c \in CPUs, fork(c)
      PROVE  ForkInv'
  <2>1. cur[c] \in Slots /\ state[cur[c]] = "RUNNING"
    BY <1>16, RunningHere, Zenon DEF fork, At
  <2>2. CASE UNCHANGED <<state, pid, priority, child, pc>>
    BY <1>16, <2>2, ZenonT(60) DEF fork
  <2>3. CASE ~ UNCHANGED <<state, pid, priority, child, pc>>
    <3>1. PICK np \in Slots :
            /\ state[np] = "UNUSED" /\ state' = [state EXCEPT ![np] = "EMBRYO"]
            /\ child' = [child EXCEPT ![cur[c]] = np]
            /\ pc' = [pc EXCEPT ![cur[c]] = "fork"]
      BY <1>16, <2>3, ForkForm, ZenonT(60)
    <3> QED
      BY <1>16, <2>1, <3>1 DEF fork
  <2> QED
    BY <2>2, <2>3, Zenon
<1>17. ASSUME NEW c \in CPUs, fork_fail(c)
      PROVE  ForkInv'
  <2>1. cur[c] \in Slots /\ state[cur[c]] = "RUNNING"
    BY <1>17, RunningHere, ZenonT(60) DEF fork_fail, At
  <2> QED
    BY <1>17, <2>1 DEF fork_fail, At, Returned
<1>18. ASSUME NEW c \in CPUs, fork_enqueue(c)
      PROVE  ForkInv'
  <2>1. cur[c] \in Slots /\ state[cur[c]] = "RUNNING"
    BY <1>18, RunningHere, ZenonT(60) DEF fork_enqueue, At
  <2> QED
    BY <1>18, <2>1 DEF fork_enqueue, At, Returned
<1>19. ASSUME NEW c \in CPUs, exit(c)
      PROVE  ForkInv'
  <2>1. cur[c] \in Slots /\ state[cur[c]] = "RUNNING"
    BY <1>19, RunningHere, ZenonT(60) DEF exit, At
  <2> QED
    BY <1>19, <2>1 DEF exit, At, Readied, Sleepers
<1>20. ASSUME NEW c \in CPUs, wait(c)
      PROVE  ForkInv'
  <2>1. cur[c] \in Slots /\ state[cur[c]] = "RUNNING" /\ pc[cur[c]] # "fork"
    BY <1>20, RunningHere, Zenon DEF wait, At
  <2>2. child' = child
    BY <1>20, ZenonT(60) DEF wait
  <2> QED
    BY <1>20, <2>1, <2>2, WaitForm DEF Returned
<1>21. ASSUME NEW c \in CPUs, NEW ch \in Devices, sleep(c, ch)
      PROVE  ForkInv'
  <2>1. cur[c] \in Slots /\ state[cur[c]] = "RUNNING"
    BY <1>21, RunningHere, Zenon DEF sleep, At
  <2> QED
    BY <1>21, <2>1 DEF sleep, At
<1>22. ASSUME NEW c \in CPUs, NEW ch \in Devices, wakeup(c, ch)
      PROVE  ForkInv'
  BY <1>22, ZenonT(60) DEF wakeup, wakeup1, Readied, Sleepers
<1>23. ASSUME NEW c \in CPUs, NEW t \in Slots, kill(c, t)
      PROVE  ForkInv'
  BY <1>23 DEF kill, At, Returned
<1>24. ASSUME Halted
      PROVE  ForkInv'
  BY <1>24, Zenon DEF Halted, vars, slotVars, ctlVars
<1> HIDE <1>0, Constants DEF TypeOK, slotVars, ctlVars, ForkInv, Ptr
<1> QED
  BY <1>1, <1>2, <1>3, <1>4, <1>5, <1>6, <1>7, <1>8, <1>9, <1>10, <1>11, <1>12,
     <1>13, <1>14, <1>15, <1>16, <1>17, <1>18, <1>19, <1>20, <1>21, <1>22, <1>23, <1>24, ZenonT(60)
     DEF Next, Interrupt, Process

-----------------------------------------------------------------------------
(***************************************************************************)
(* The family tree, the processes asleep in wait(), and the theorems.      *)
(***************************************************************************)
\* Every step keeps the family tree: living parents, and the first process.
LEMMA FamilyStep ==
  ASSUME IInv, Next
  PROVE  (ParentsAlive /\ FamilyInv)'
<1>0. /\ TypeOK /\ OnOneCpu /\ QueuesHoldRunnable /\ WaitNotLost /\ ParentsAlive
      /\ LockInv /\ ForkInv /\ FamilyInv
  BY Zenon DEF IInv
<1> USE <1>0, Constants DEF TypeOK, slotVars, ctlVars, ParentsAlive, Alive, FamilyInv, Ptr
<1>1. ASSUME NEW c \in CPUs, scheduler(c)
      PROVE  (ParentsAlive /\ FamilyInv)'
  <2>1. PICK p \in Slots : state[p] = "RUNNABLE" /\ state' = [state EXCEPT ![p] = "RUNNING"]
    BY <1>1, SchedulerForm, Zenon
  <2> QED
    BY <1>1, <2>1 DEF scheduler
<1>2. ASSUME NEW c \in CPUs, trap_timer(c)
      PROVE  (ParentsAlive /\ FamilyInv)'
  BY <1>2, Zenon DEF trap_timer
<1>3. ASSUME NEW c \in CPUs, tick_wakeup(c)
      PROVE  (ParentsAlive /\ FamilyInv)'
  BY <1>3, Zenon DEF tick_wakeup, wakeup1, Readied, Sleepers
<1>4. ASSUME NEW c \in CPUs, priority_boost(c)
      PROVE  (ParentsAlive /\ FamilyInv)'
  BY <1>4, Zenon DEF priority_boost
<1>5. ASSUME NEW c \in CPUs, trap_tail(c)
      PROVE  (ParentsAlive /\ FamilyInv)'
  BY <1>5, RunningHere DEF trap_tail, EnterExit
<1>6. ASSUME NEW c \in CPUs, yield(c)
      PROVE  (ParentsAlive /\ FamilyInv)'
  <2>1. cur[c] \in Slots /\ state[cur[c]] = "RUNNING"
    BY <1>6, RunningHere, Zenon DEF yield, At
  <2> QED
    BY <1>6, <2>1 DEF yield
<1>7. ASSUME NEW c \in CPUs, trap_ret(c)
      PROVE  (ParentsAlive /\ FamilyInv)'
  BY <1>7, RunningHere DEF trap_ret, EnterExit
<1>8. ASSUME NEW c \in CPUs, NEW ch \in Devices, trap_device(c, ch)
      PROVE  (ParentsAlive /\ FamilyInv)'
  BY <1>8, Zenon DEF trap_device, wakeup1, Readied, Sleepers
<1>9. ASSUME NEW c \in CPUs, forkret(c)
      PROVE  (ParentsAlive /\ FamilyInv)'
  <2>1. cur[c] \in Slots /\ state[cur[c]] = "RUNNING"
    BY <1>9, RunningHere, Zenon DEF forkret, At
  <2> QED
    BY <1>9, <2>1 DEF forkret
<1>10. ASSUME NEW c \in CPUs, sleep_return(c)
      PROVE  (ParentsAlive /\ FamilyInv)'
  <2>1. cur[c] \in Slots /\ state[cur[c]] = "RUNNING"
    BY <1>10, RunningHere, Zenon DEF sleep_return, At
  <2> QED
    BY <1>10, <2>1, ZenonT(60) DEF sleep_return, Sleepy
<1>11. ASSUME NEW c \in CPUs, yield_return(c)
      PROVE  (ParentsAlive /\ FamilyInv)'
  BY <1>11, Zenon DEF yield_return
<1>12. ASSUME NEW c \in CPUs, trap_fault(c)
      PROVE  (ParentsAlive /\ FamilyInv)'
  <2>1. cur[c] \in Slots /\ state[cur[c]] = "RUNNING"
    BY <1>12, RunningHere, Zenon DEF trap_fault, At
  <2> QED
    BY <1>12, <2>1 DEF trap_fault, At, EnterExit
<1>13. ASSUME NEW c \in CPUs, syscall_exit(c)
      PROVE  (ParentsAlive /\ FamilyInv)'
  <2>1. cur[c] \in Slots /\ state[cur[c]] = "RUNNING"
    BY <1>13, RunningHere, Zenon DEF syscall_exit, At
  <2> QED
    BY <1>13, <2>1 DEF syscall_exit, At, EnterExit
<1>14. ASSUME NEW c \in CPUs, syscall_kernel(c)
      PROVE  (ParentsAlive /\ FamilyInv)'
  <2>1. cur[c] \in Slots /\ state[cur[c]] = "RUNNING"
    BY <1>14, RunningHere, Zenon DEF syscall_kernel, At
  <2> QED
    BY <1>14, <2>1 DEF syscall_kernel, At
<1>15. ASSUME NEW c \in CPUs, syscall_return(c)
      PROVE  (ParentsAlive /\ FamilyInv)'
  <2>1. cur[c] \in Slots /\ state[cur[c]] = "RUNNING"
    BY <1>15, RunningHere, Zenon DEF syscall_return, At
  <2> QED
    BY <1>15, <2>1 DEF syscall_return, At, Returned
<1>16. ASSUME NEW c \in CPUs, fork(c)
      PROVE  (ParentsAlive /\ FamilyInv)'
  <2>1. cur[c] \in Slots /\ state[cur[c]] = "RUNNING"
    BY <1>16, RunningHere, Zenon DEF fork, At
  <2>2. CASE UNCHANGED <<state, pid, priority, child, pc>>
    BY <1>16, <2>2, ZenonT(60) DEF fork
  <2>3. CASE ~ UNCHANGED <<state, pid, priority, child, pc>>
    <3>1. PICK np \in Slots :
            /\ state[np] = "UNUSED" /\ state' = [state EXCEPT ![np] = "EMBRYO"]
            /\ child' = [child EXCEPT ![cur[c]] = np]
            /\ pc' = [pc EXCEPT ![cur[c]] = "fork"]
      BY <1>16, <2>3, ForkForm, ZenonT(60)
    <3> QED
      BY <1>16, <2>1, <3>1 DEF fork
  <2> QED
    BY <2>2, <2>3, Zenon
<1>17. ASSUME NEW c \in CPUs, fork_fail(c)
      PROVE  (ParentsAlive /\ FamilyInv)'
  <2>1. cur[c] \in Slots /\ state[cur[c]] = "RUNNING"
    BY <1>17, RunningHere, ZenonT(60) DEF fork_fail, At
  <2> QED
    BY <1>17, <2>1 DEF fork_fail, At, ForkInv, Returned
<1>18. ASSUME NEW c \in CPUs, fork_enqueue(c)
      PROVE  (ParentsAlive /\ FamilyInv)'
  <2>1. cur[c] \in Slots /\ state[cur[c]] = "RUNNING"
    BY <1>18, RunningHere, ZenonT(60) DEF fork_enqueue, At
  <2> QED
    BY <1>18, <2>1 DEF fork_enqueue, At, ForkInv, Returned
<1>19. ASSUME NEW c \in CPUs, exit(c)
      PROVE  (ParentsAlive /\ FamilyInv)'
  <2>1. cur[c] \in Slots /\ state[cur[c]] = "RUNNING"
    BY <1>19, RunningHere, ZenonT(60) DEF exit, At
  <2> QED
    BY <1>19, <2>1 DEF exit, At, Readied, Sleepers
<1>20. ASSUME NEW c \in CPUs, wait(c)
      PROVE  (ParentsAlive /\ FamilyInv)'
  <2>1. cur[c] \in Slots /\ state[cur[c]] = "RUNNING"
    BY <1>20, RunningHere, Zenon DEF wait, At
  <2> QED
    BY <1>20, <2>1, WaitForm DEF Returned
<1>21. ASSUME NEW c \in CPUs, NEW ch \in Devices, sleep(c, ch)
      PROVE  (ParentsAlive /\ FamilyInv)'
  <2>1. cur[c] \in Slots /\ state[cur[c]] = "RUNNING"
    BY <1>21, RunningHere, Zenon DEF sleep, At
  <2> QED
    BY <1>21, <2>1 DEF sleep, At, Sleepy
<1>22. ASSUME NEW c \in CPUs, NEW ch \in Devices, wakeup(c, ch)
      PROVE  (ParentsAlive /\ FamilyInv)'
  BY <1>22, Zenon DEF wakeup, wakeup1, Readied, Sleepers
<1>23. ASSUME NEW c \in CPUs, NEW t \in Slots, kill(c, t)
      PROVE  (ParentsAlive /\ FamilyInv)'
  <2>1. cur[c] \in Slots /\ state[cur[c]] = "RUNNING"
    BY <1>23, RunningHere, ZenonT(60) DEF kill, At
  <2>2. CASE state[t] = "SLEEPING"
    BY <1>23, <2>1, <2>2 DEF kill, At, Returned
  <2>3. CASE state[t] # "SLEEPING"
    BY <1>23, <2>1, <2>3 DEF kill, At, Returned
  <2> QED
    BY <2>2, <2>3, Zenon
<1>24. ASSUME Halted
      PROVE  (ParentsAlive /\ FamilyInv)'
  BY <1>24, Zenon DEF Halted, vars
<1> HIDE <1>0, Constants DEF TypeOK, slotVars, ctlVars, ParentsAlive, Alive, FamilyInv, Ptr
<1> QED
  BY <1>1, <1>2, <1>3, <1>4, <1>5, <1>6, <1>7, <1>8, <1>9, <1>10, <1>11, <1>12,
     <1>13, <1>14, <1>15, <1>16, <1>17, <1>18, <1>19, <1>20, <1>21, <1>22, <1>23, <1>24, ZenonT(60)
     DEF Next, Interrupt, Process

\* Every step leaves a process that waits with something to wait for.
LEMMA WaitStep ==
  ASSUME IInv, Next
  PROVE  WaitNotLost'
<1>0. /\ TypeOK /\ OnOneCpu /\ QueuesHoldRunnable /\ WaitNotLost /\ ParentsAlive
      /\ LockInv /\ ForkInv /\ FamilyInv
  BY Zenon DEF IInv
<1> USE <1>0, Constants DEF TypeOK, slotVars, ctlVars, WaitNotLost, Ptr
<1>1. ASSUME NEW c \in CPUs, scheduler(c)
      PROVE  WaitNotLost'
  <2>1. PICK p \in Slots : state[p] = "RUNNABLE" /\ state' = [state EXCEPT ![p] = "RUNNING"]
    BY <1>1, SchedulerForm, Zenon
  <2> QED
    BY <1>1, <2>1 DEF scheduler
<1>2. ASSUME NEW c \in CPUs, trap_timer(c)
      PROVE  WaitNotLost'
  BY <1>2 DEF trap_timer
<1>3. ASSUME NEW c \in CPUs, tick_wakeup(c)
      PROVE  WaitNotLost'
  BY <1>3 DEF tick_wakeup, wakeup1, Readied, Sleepers
<1>4. ASSUME NEW c \in CPUs, priority_boost(c)
      PROVE  WaitNotLost'
  BY <1>4 DEF priority_boost
<1>5. ASSUME NEW c \in CPUs, trap_tail(c)
      PROVE  WaitNotLost'
  BY <1>5, RunningHere DEF trap_tail, EnterExit
<1>6. ASSUME NEW c \in CPUs, yield(c)
      PROVE  WaitNotLost'
  <2>1. cur[c] \in Slots /\ state[cur[c]] = "RUNNING"
    BY <1>6, RunningHere, Zenon DEF yield, At
  <2> QED
    BY <1>6, <2>1 DEF yield
<1>7. ASSUME NEW c \in CPUs, trap_ret(c)
      PROVE  WaitNotLost'
  BY <1>7, RunningHere DEF trap_ret, EnterExit
<1>8. ASSUME NEW c \in CPUs, NEW ch \in Devices, trap_device(c, ch)
      PROVE  WaitNotLost'
  BY <1>8 DEF trap_device, wakeup1, Readied, Sleepers
<1>9. ASSUME NEW c \in CPUs, forkret(c)
      PROVE  WaitNotLost'
  <2>1. cur[c] \in Slots /\ state[cur[c]] = "RUNNING"
    BY <1>9, RunningHere, Zenon DEF forkret, At
  <2> QED
    BY <1>9, <2>1 DEF forkret
<1>10. ASSUME NEW c \in CPUs, sleep_return(c)
      PROVE  WaitNotLost'
  <2>1. cur[c] \in Slots /\ state[cur[c]] = "RUNNING"
    BY <1>10, RunningHere, Zenon DEF sleep_return, At
  <2> QED
    BY <1>10, <2>1 DEF sleep_return, Sleepy
<1>11. ASSUME NEW c \in CPUs, yield_return(c)
      PROVE  WaitNotLost'
  BY <1>11 DEF yield_return
<1>12. ASSUME NEW c \in CPUs, trap_fault(c)
      PROVE  WaitNotLost'
  <2>1. cur[c] \in Slots /\ state[cur[c]] = "RUNNING"
    BY <1>12, RunningHere, Zenon DEF trap_fault, At
  <2> QED
    BY <1>12, <2>1 DEF trap_fault, At, EnterExit
<1>13. ASSUME NEW c \in CPUs, syscall_exit(c)
      PROVE  WaitNotLost'
  <2>1. cur[c] \in Slots /\ state[cur[c]] = "RUNNING"
    BY <1>13, RunningHere, Zenon DEF syscall_exit, At
  <2> QED
    BY <1>13, <2>1 DEF syscall_exit, At, EnterExit
<1>14. ASSUME NEW c \in CPUs, syscall_kernel(c)
      PROVE  WaitNotLost'
  <2>1. cur[c] \in Slots /\ state[cur[c]] = "RUNNING"
    BY <1>14, RunningHere, Zenon DEF syscall_kernel, At
  <2> QED
    BY <1>14, <2>1 DEF syscall_kernel, At
<1>15. ASSUME NEW c \in CPUs, syscall_return(c)
      PROVE  WaitNotLost'
  <2>1. cur[c] \in Slots /\ state[cur[c]] = "RUNNING"
    BY <1>15, RunningHere, Zenon DEF syscall_return, At
  <2> QED
    BY <1>15, <2>1 DEF syscall_return, At, Returned
<1>16. ASSUME NEW c \in CPUs, fork(c)
      PROVE  WaitNotLost'
  <2>1. cur[c] \in Slots /\ state[cur[c]] = "RUNNING"
    BY <1>16, RunningHere, ZenonT(60) DEF fork, At
  <2>2. CASE UNCHANGED <<state, pid, priority, child, pc>>
    BY <1>16, <2>2 DEF fork
  <2>3. CASE ~ UNCHANGED <<state, pid, priority, child, pc>>
    <3>1. PICK np \in Slots :
            /\ state[np] = "UNUSED" /\ state' = [state EXCEPT ![np] = "EMBRYO"]
            /\ child' = [child EXCEPT ![cur[c]] = np]
            /\ pc' = [pc EXCEPT ![cur[c]] = "fork"]
      BY <1>16, <2>3, ForkForm, ZenonT(60)
    <3> QED
      BY <1>16, <2>1, <3>1 DEF fork
  <2> QED
    BY <2>2, <2>3, Zenon
<1>17. ASSUME NEW c \in CPUs, fork_fail(c)
      PROVE  WaitNotLost'
  <2>1. cur[c] \in Slots /\ state[cur[c]] = "RUNNING"
    BY <1>17, RunningHere, ZenonT(60) DEF fork_fail, At
  <2> QED
    BY <1>17, <2>1 DEF fork_fail, At, ForkInv, Returned
<1>18. ASSUME NEW c \in CPUs, fork_enqueue(c)
      PROVE  WaitNotLost'
  <2>1. cur[c] \in Slots /\ state[cur[c]] = "RUNNING"
    BY <1>18, RunningHere, Zenon DEF fork_enqueue, At
  <2> QED
    BY <1>18, <2>1 DEF fork_enqueue, At, ForkInv, FamilyInv, Returned
<1>19. ASSUME NEW c \in CPUs, exit(c)
      PROVE  WaitNotLost'
  <2> DEFINE p      == cur[c]
             First  == Sleepers(parent[p])
             Zombie == \E q \in {r \in Slots : parent[r] = p} : state[q] = "ZOMBIE"
             Second == IF Zombie THEN Sleepers(initproc) \ First ELSE {}
  <2>1. p \in Slots /\ state[p] = "RUNNING"
    BY <1>19, RunningHere, Zenon DEF exit, At
  <2>2. /\ state' = [Readied(First \cup Second) EXCEPT ![p] = "ZOMBIE"]
        /\ parent' = [q \in Slots |-> IF parent[q] = p THEN initproc ELSE parent[q]]
        /\ pc' = [pc EXCEPT ![p] = "none"]
        /\ killed' = killed
    BY <1>19, ZenonT(60) DEF exit
  <2>3. SUFFICES ASSUME NEW w \in Slots, state'[w] = "SLEEPING", pc'[w] = "wait"
                 PROVE  /\ ~killed[w]
                        /\ \E q \in Slots : parent'[q] = w
                        /\ \A q \in Slots : parent'[q] = w => state'[q] # "ZOMBIE"
    BY <2>2
  <2>4. /\ w # p /\ state[w] = "SLEEPING" /\ pc[w] = "wait" /\ chan[w] = w
        /\ parent[p] # w /\ (w = initproc => ~Zombie)
    BY <2>1, <2>2, <2>3, Zenon DEF Readied, Sleepers, FamilyInv
  <2>5. \A q \in Slots : state'[q] = "ZOMBIE" => q = p \/ state[q] = "ZOMBIE"
    BY <2>2, Zenon DEF Readied
  <2> HIDE DEF First, Second
  <2>6. ~killed[w] /\ \A q \in Slots : parent[q] = w => state[q] # "ZOMBIE"
    BY <2>4, Zenon
  <2>7. PICK k \in Slots : parent[k] = w
    BY <2>4, Zenon
  <2>8. parent'[k] = w
    BY <2>2, <2>4, <2>7, Zenon
  <2>9. ASSUME NEW q \in Slots, parent'[q] = w
        PROVE  state'[q] # "ZOMBIE"
    <3>1. q # p
      BY <2>1, <2>2, <2>4, <2>9 DEF FamilyInv
    <3>2. parent[q] = w \/ (w = initproc /\ parent[q] = p)
      BY <2>2, <2>9, Zenon
    <3>3. state[q] # "ZOMBIE"
      BY <2>4, <2>6, <3>2, Zenon
    <3> QED
      BY <2>5, <3>1, <3>3, ZenonT(60)
  <2> QED
    BY <2>6, <2>8, <2>9, Zenon
<1>20. ASSUME NEW c \in CPUs, wait(c)
      PROVE  WaitNotLost'
  <2>1. cur[c] \in Slots /\ state[cur[c]] = "RUNNING"
    BY <1>20, RunningHere, ZenonT(60) DEF wait, At
  <2>2. ASSUME NEW z \in Slots, parent[z] = cur[c], state[z] = "ZOMBIE",
               parent' = [parent EXCEPT ![z] = NULL],
               killed' = [killed EXCEPT ![z] = FALSE],
               state' = [state EXCEPT ![z] = "UNUSED"],
               pc' = [pc EXCEPT ![cur[c]] = Returned(cur[c], killed[cur[c]])]
        PROVE  WaitNotLost'
    BY <2>1, <2>2 DEF Returned
  <2>3. ASSUME UNCHANGED <<parent, killed, state>>,
               pc' = [pc EXCEPT ![cur[c]] = Returned(cur[c], killed[cur[c]])]
        PROVE  WaitNotLost'
    BY <2>1, <2>3 DEF Returned
  <2>4. ASSUME ~killed[cur[c]],
               \E q \in Slots : parent[q] = cur[c],
               \A q \in Slots : parent[q] = cur[c] => state[q] # "ZOMBIE",
               state' = [state EXCEPT ![cur[c]] = "SLEEPING"],
               pc' = [pc EXCEPT ![cur[c]] = "wait"],
               UNCHANGED <<parent, killed>>
        PROVE  WaitNotLost'
    BY <2>1, <2>4
  <2> QED
    BY <1>20, <2>2, <2>3, <2>4, WaitForm, ZenonT(60)
<1>21. ASSUME NEW c \in CPUs, NEW ch \in Devices, sleep(c, ch)
      PROVE  WaitNotLost'
  <2>1. cur[c] \in Slots /\ state[cur[c]] = "RUNNING"
    BY <1>21, RunningHere, Zenon DEF sleep, At
  <2> QED
    BY <1>21, <2>1 DEF sleep, At, Sleepy
<1>22. ASSUME NEW c \in CPUs, NEW ch \in Devices, wakeup(c, ch)
      PROVE  WaitNotLost'
  BY <1>22 DEF wakeup, wakeup1, Readied, Sleepers
<1>23. ASSUME NEW c \in CPUs, NEW t \in Slots, kill(c, t)
      PROVE  WaitNotLost'
  <2>1. cur[c] \in Slots /\ state[cur[c]] = "RUNNING"
    BY <1>23, RunningHere, Zenon DEF kill, At
  <2> QED
    BY <1>23, <2>1 DEF kill, At, Returned
<1>24. ASSUME Halted
      PROVE  WaitNotLost'
  BY <1>24 DEF Halted, vars
<1> HIDE <1>0, Constants DEF TypeOK, slotVars, ctlVars, WaitNotLost, Ptr
<1> QED
  BY <1>1, <1>2, <1>3, <1>4, <1>5, <1>6, <1>7, <1>8, <1>9, <1>10, <1>11, <1>12,
     <1>13, <1>14, <1>15, <1>16, <1>17, <1>18, <1>19, <1>20, <1>21, <1>22, <1>23, <1>24, ZenonT(60)
     DEF Next, Interrupt, Process

-----------------------------------------------------------------------------
\* Only scheduler(d) gives CPU d a process.
LEMMA CurStep ==
  ASSUME IInv, Next, NEW d \in CPUs
  PROVE  scheduler(d) \/ cur'[d] = NULL \/ cur[d] # NULL
<1>1. ASSUME NEW c \in CPUs, scheduler(c)
      PROVE  scheduler(d) \/ cur'[d] = NULL \/ cur[d] # NULL
  BY <1>1, Zenon DEF IInv, TypeOK, scheduler
<1>2. ASSUME NEW c \in CPUs, trap_timer(c)
      PROVE  scheduler(d) \/ cur'[d] = NULL \/ cur[d] # NULL
  BY <1>2, Zenon DEF trap_timer
<1>3. ASSUME NEW c \in CPUs, tick_wakeup(c)
      PROVE  scheduler(d) \/ cur'[d] = NULL \/ cur[d] # NULL
  BY <1>3, Zenon DEF tick_wakeup
<1>4. ASSUME NEW c \in CPUs, priority_boost(c)
      PROVE  scheduler(d) \/ cur'[d] = NULL \/ cur[d] # NULL
  BY <1>4, Zenon DEF priority_boost
<1>5. ASSUME NEW c \in CPUs, trap_tail(c)
      PROVE  scheduler(d) \/ cur'[d] = NULL \/ cur[d] # NULL
  BY <1>5, Zenon DEF trap_tail
<1>6. ASSUME NEW c \in CPUs, yield(c)
      PROVE  scheduler(d) \/ cur'[d] = NULL \/ cur[d] # NULL
  BY <1>6, Zenon DEF IInv, TypeOK, yield, Leave
<1>7. ASSUME NEW c \in CPUs, trap_ret(c)
      PROVE  scheduler(d) \/ cur'[d] = NULL \/ cur[d] # NULL
  BY <1>7, Zenon DEF trap_ret
<1>8. ASSUME NEW c \in CPUs, NEW ch \in Devices, trap_device(c, ch)
      PROVE  scheduler(d) \/ cur'[d] = NULL \/ cur[d] # NULL
  BY <1>8, Zenon DEF trap_device
<1>9. ASSUME NEW c \in CPUs, forkret(c)
      PROVE  scheduler(d) \/ cur'[d] = NULL \/ cur[d] # NULL
  BY <1>9, Zenon DEF forkret
<1>10. ASSUME NEW c \in CPUs, sleep_return(c)
      PROVE  scheduler(d) \/ cur'[d] = NULL \/ cur[d] # NULL
  BY <1>10, Zenon DEF sleep_return
<1>11. ASSUME NEW c \in CPUs, yield_return(c)
      PROVE  scheduler(d) \/ cur'[d] = NULL \/ cur[d] # NULL
  BY <1>11, Zenon DEF yield_return
<1>12. ASSUME NEW c \in CPUs, trap_fault(c)
      PROVE  scheduler(d) \/ cur'[d] = NULL \/ cur[d] # NULL
  BY <1>12, Zenon DEF trap_fault
<1>13. ASSUME NEW c \in CPUs, syscall_exit(c)
      PROVE  scheduler(d) \/ cur'[d] = NULL \/ cur[d] # NULL
  BY <1>13, Zenon DEF syscall_exit
<1>14. ASSUME NEW c \in CPUs, syscall_kernel(c)
      PROVE  scheduler(d) \/ cur'[d] = NULL \/ cur[d] # NULL
  BY <1>14, Zenon DEF syscall_kernel
<1>15. ASSUME NEW c \in CPUs, syscall_return(c)
      PROVE  scheduler(d) \/ cur'[d] = NULL \/ cur[d] # NULL
  BY <1>15, Zenon DEF syscall_return
<1>16. ASSUME NEW c \in CPUs, fork(c)
      PROVE  scheduler(d) \/ cur'[d] = NULL \/ cur[d] # NULL
  BY <1>16, ZenonT(60) DEF fork
<1>17. ASSUME NEW c \in CPUs, fork_fail(c)
      PROVE  scheduler(d) \/ cur'[d] = NULL \/ cur[d] # NULL
  BY <1>17, Zenon DEF fork_fail
<1>18. ASSUME NEW c \in CPUs, fork_enqueue(c)
      PROVE  scheduler(d) \/ cur'[d] = NULL \/ cur[d] # NULL
  BY <1>18, Zenon DEF fork_enqueue
<1>19. ASSUME NEW c \in CPUs, exit(c)
      PROVE  scheduler(d) \/ cur'[d] = NULL \/ cur[d] # NULL
  BY <1>19, Zenon DEF IInv, TypeOK, exit, Leave
<1>20. ASSUME NEW c \in CPUs, wait(c)
      PROVE  scheduler(d) \/ cur'[d] = NULL \/ cur[d] # NULL
  BY <1>20, WaitForm DEF IInv, TypeOK
<1>21. ASSUME NEW c \in CPUs, NEW ch \in Devices, sleep(c, ch)
      PROVE  scheduler(d) \/ cur'[d] = NULL \/ cur[d] # NULL
  BY <1>21, Zenon DEF IInv, TypeOK, sleep, Leave
<1>22. ASSUME NEW c \in CPUs, NEW ch \in Devices, wakeup(c, ch)
      PROVE  scheduler(d) \/ cur'[d] = NULL \/ cur[d] # NULL
  BY <1>22, Zenon DEF wakeup, ctlVars
<1>23. ASSUME NEW c \in CPUs, NEW t \in Slots, kill(c, t)
      PROVE  scheduler(d) \/ cur'[d] = NULL \/ cur[d] # NULL
  BY <1>23, Zenon DEF kill
<1>24. ASSUME Halted
      PROVE  scheduler(d) \/ cur'[d] = NULL \/ cur[d] # NULL
  BY <1>24, Zenon DEF Halted, vars, ctlVars
<1> QED
  BY <1>1, <1>2, <1>3, <1>4, <1>5, <1>6, <1>7, <1>8, <1>9, <1>10, <1>11, <1>12,
     <1>13, <1>14, <1>15, <1>16, <1>17, <1>18, <1>19, <1>20, <1>21, <1>22, <1>23, <1>24, ZenonT(60)
     DEF Next, Interrupt, Process

\* The state userinit leaves is safe.
LEMMA InitSafe == Init => IInv
<1> SUFFICES ASSUME Init PROVE IInv
  BY Zenon
<1> USE Constants
<1>1. EmptyTable \in QueueTable
  BY Zenon DEF EmptyTable, QueueTable, Ptr
<1>2. priority \in [Slots -> Prios] /\ rq = enqueue(EmptyTable, priority, initproc)
  BY Zenon DEF Init
<1>3. rq \in QueueTable
  BY <1>1, <1>2, EnqueueType, Zenon
<1>4. ticks \in 0 .. TickModulus - 1
  BY MachineAssumption DEF Init
<1>5. TypeOK
  BY <1>3, <1>4, Zenon DEF Init, TypeOK, Ptr, States, Places, Stages
<1>6. QueuesHoldRunnable
  <2>1. AllThreaded(EmptyTable, {}, priority)
    BY Zenon DEF AllThreaded, Threaded, EmptyTable
  <2>2. {} \in SUBSET Slots /\ initproc \notin {} /\ {} \cup {initproc} = {initproc}
    BY Zenon
  <2>3. AllThreaded(rq, {} \cup {initproc}, priority)
    BY <1>1, <1>2, <2>1, <2>2, EnqueueThreads, Zenon
  <2>4. Runnable = {initproc}
    BY Zenon DEF Init, Runnable
  <2> QED
    BY <2>2, <2>3, <2>4, Zenon DEF QueuesHoldRunnable
<1>7. OnOneCpu /\ LockInv
  BY Zenon DEF Init, OnOneCpu, LockInv
<1>8. WaitNotLost /\ ParentsAlive /\ ForkInv /\ FamilyInv
  BY Zenon DEF Init, WaitNotLost, ParentsAlive, Alive, ForkInv, FamilyInv
<1> QED
  BY <1>5, <1>6, <1>7, <1>8, Zenon DEF IInv

-----------------------------------------------------------------------------
\* IInv holds in every state the kernel reaches: the process table, its
\* queues, the CPUs, the lock and the family tree stay consistent under every
\* interleaving of proc.c and trap.c.
THEOREM Safety == Spec => []IInv
<1>1. IInv /\ [Next]_vars => IInv'
  <2>1. ASSUME IInv, Next
        PROVE  IInv'
    BY <2>1, TypeStep, CpuStep, QueueStep, ForkStep, FamilyStep, WaitStep, Zenon DEF IInv
  <2>2. ASSUME IInv, UNCHANGED vars
        PROVE  IInv'
    <3> USE <2>2 DEF IInv, vars, slotVars, ctlVars
    <3>1. TypeOK'
      BY Zenon DEF TypeOK
    <3>2. OnOneCpu' /\ LockInv'
      BY Zenon DEF OnOneCpu, LockInv
    <3>3. QueuesHoldRunnable'
      BY Zenon DEF QueuesHoldRunnable, Runnable
    <3>4. WaitNotLost' /\ ForkInv'
      BY Zenon DEF WaitNotLost, ForkInv
    <3>5. ParentsAlive' /\ FamilyInv'
      BY Zenon DEF ParentsAlive, Alive, FamilyInv
    <3> QED
      BY <3>1, <3>2, <3>3, <3>4, <3>5, Zenon
  <2> QED
    BY <2>1, <2>2, Zenon
<1> QED
  BY <1>1, InitSafe, PTL DEF Spec

\* The variables of the model keep their types.
THEOREM TypeCorrect == Spec => []TypeOK
BY Safety, PTL DEF IInv

\* The queues of ptable hold exactly the RUNNABLE processes, whatever enqueue,
\* dequeue, wakeup, kill, yield and priority_boost do and in any order.
THEOREM QueuesCorrect == Spec => []QueuesHoldRunnable
BY Safety, PTL DEF IInv

\* No process runs on two CPUs, and RUNNING says that it runs on one.
THEOREM OneCpuEach == Spec => []OnOneCpu
BY Safety, PTL DEF IInv

\* No process sleeps in wait() past the exit or the kill it should see.
THEOREM NoLostExit == Spec => []WaitNotLost
BY Safety, PTL DEF IInv

\* Whoever is alive or a zombie has a living parent to reap it, except init.
THEOREM NoOrphans == Spec => []ParentsAlive
BY Safety, PTL DEF IInv

\* scheduler() always takes a process of the highest priority that waits.
THEOREM HighestFirst == Spec => HighestPriorityFirst
<1> DEFINE A == \A c \in CPUs : cur[c] = NULL /\ cur'[c] # NULL =>
                  \A q \in Slots : state[q] = "RUNNABLE" => priority[cur'[c]] <= priority[q]
<1>1. ASSUME IInv, Next
      PROVE  A
  <2> SUFFICES ASSUME NEW d \in CPUs, cur[d] = NULL, cur'[d] # NULL,
                      NEW q \in Slots, state[q] = "RUNNABLE"
               PROVE  priority[cur'[d]] <= priority[q]
    BY Zenon
  <2>1. scheduler(d)
    BY <1>1, CurStep, Zenon
  <2>2. PICK i \in Prios :
          /\ rq.queue_first[i] # NULL
          /\ \A j \in 0 .. i - 1 : rq.queue_first[j] = NULL
          /\ cur' = [cur EXCEPT ![d] = rq.queue_first[i]]
    BY <2>1, Zenon DEF scheduler
  <2>3. Runnable \in SUBSET Slots
    BY Zenon DEF Runnable
  <2>4. priority[rq.queue_first[i]] = i
    <3> DEFINE R == {p \in Runnable : priority[p] = i}
    <3>1. Threaded(rq, R, i)
      BY <1>1, <2>2, Zenon DEF IInv, QueuesHoldRunnable, AllThreaded
    <3> HIDE DEF R
    <3>2. rq.queue_first[i] \in R
      BY <2>2, <3>1, Zenon DEF Threaded
    <3> QED
      BY <3>2, Zenon DEF R
  <2>5. cur'[d] = rq.queue_first[i]
    BY <1>1, <2>2, Zenon DEF IInv, TypeOK
  <2>6. rq.queue_first[priority[q]] # NULL
    <3> DEFINE j == priority[q]
               R == {p \in Runnable : priority[p] = j}
    <3>1. j \in Prios /\ q \in R
      BY <1>1, Zenon DEF IInv, TypeOK, Runnable
    <3>2. Threaded(rq, R, j)
      BY <1>1, <3>1, Zenon DEF IInv, QueuesHoldRunnable, AllThreaded
    <3>3. R \in SUBSET Slots
      BY Zenon DEF Runnable
    <3> HIDE DEF R, j
    <3>4. rq.queue_first[j] \in R
      BY <3>1, <3>2, Zenon DEF Threaded
    <3> QED
      BY <3>3, <3>4, Constants, Zenon DEF j
  <2>7. priority[q] \in Nat /\ i \in Nat
    BY <1>1 DEF IInv, TypeOK, Prios
  <2> QED
    BY <2>2, <2>4, <2>5, <2>6, <2>7
<1>2. IInv /\ [Next]_vars => [A]_vars
  BY <1>1, Zenon
<1> QED
  BY <1>2, Safety, PTL DEF Spec, HighestPriorityFirst

-----------------------------------------------------------------------------
(***************************************************************************)
(* Quanta and demotions                                                    *)
(***************************************************************************)
\* Who is about to yield has used up the quantum of its priority.
YieldInv ==
  \A c \in CPUs : intr[c] = "yield" => ticks_running[cur[c]] >= quantum(priority[cur[c]])

QuantumInv == QuantumKept /\ YieldInv

\* A step that charges no tick, moves no priority and lets nobody who is about
\* to yield get away.
Quiet ==
  /\ UNCHANGED <<priority, ticks_running>>
  /\ \A d \in CPUs : /\ intr'[d] = "yield" <=> intr[d] = "yield"
                     /\ intr[d] = "yield" => cur'[d] = cur[d]

LEMMA Quanta == quantum(0) = 1 /\ \A i \in Prios : quantum(i) \in Nat \ {0}
<1>1. 2 ^ 0 = 1
  OBVIOUS
<1>2. \A i \in Prios : i \in Nat /\ 2 ^ i \in Int
  BY DEF Prios
<1> QED
  BY <1>1, <1>2, QuantumAssumption DEF quantum

\* Only four actions are not quiet.
LEMMA QuietStep ==
  ASSUME IInv, Next
  PROVE  Quiet \/ \E c \in CPUs : trap_tail(c) \/ yield(c) \/ priority_boost(c) \/ fork(c)
<1>0. TypeOK /\ LockInv
  BY Zenon DEF IInv
<1> USE <1>0 DEF TypeOK, Quiet, slotVars, ctlVars
<1>1. ASSUME NEW c \in CPUs, scheduler(c) PROVE Quiet
  <2>1. UNCHANGED <<priority, ticks_running, intr>> /\ intr[c] = "none" /\ \A d \in CPUs : d # c => cur'[d] = cur[d]
    BY <1>1, ZenonT(60) DEF scheduler
  <2> QED
    BY <2>1, Zenon
<1>2. ASSUME NEW c \in CPUs, trap_timer(c) PROVE Quiet
  BY <1>2, Zenon DEF trap_timer
<1>3. ASSUME NEW c \in CPUs, tick_wakeup(c) PROVE Quiet
  BY <1>3, Zenon DEF tick_wakeup
<1>4. ASSUME NEW c \in CPUs, trap_ret(c) PROVE Quiet
  BY <1>4, Zenon DEF trap_ret
<1>5. ASSUME NEW c \in CPUs, NEW ch \in Devices, trap_device(c, ch) PROVE Quiet
  BY <1>5, Zenon DEF trap_device
<1>6. ASSUME NEW c \in CPUs, forkret(c) PROVE Quiet
  BY <1>6, Zenon DEF forkret
<1>7. ASSUME NEW c \in CPUs, sleep_return(c) PROVE Quiet
  BY <1>7, Zenon DEF sleep_return
<1>8. ASSUME NEW c \in CPUs, yield_return(c) PROVE Quiet
  BY <1>8, Zenon DEF yield_return, LockInv
<1>9. ASSUME NEW c \in CPUs, trap_fault(c) PROVE Quiet
  BY <1>9, Zenon DEF trap_fault
<1>10. ASSUME NEW c \in CPUs, syscall_exit(c) PROVE Quiet
  BY <1>10, Zenon DEF syscall_exit
<1>11. ASSUME NEW c \in CPUs, syscall_kernel(c) PROVE Quiet
  BY <1>11, Zenon DEF syscall_kernel
<1>12. ASSUME NEW c \in CPUs, syscall_return(c) PROVE Quiet
  BY <1>12, Zenon DEF syscall_return
<1>13. ASSUME NEW c \in CPUs, fork_fail(c) PROVE Quiet
  BY <1>13, Zenon DEF fork_fail
<1>14. ASSUME NEW c \in CPUs, fork_enqueue(c) PROVE Quiet
  BY <1>14, Zenon DEF fork_enqueue
<1>15. ASSUME NEW c \in CPUs, exit(c) PROVE Quiet
  BY <1>15, Zenon DEF exit, At, Leave
<1>16. ASSUME NEW c \in CPUs, wait(c) PROVE Quiet
  <2>1. UNCHANGED <<priority, ticks_running, intr>>
    BY <1>16, Zenon DEF wait
  <2>2. intr[c] = "none"
    BY <1>16, Zenon DEF wait, At, LockInv
  <2>3. \A d \in CPUs : d # c => cur'[d] = cur[d]
    BY <1>16, WaitForm
  <2> QED
    BY <2>1, <2>2, <2>3, Zenon
<1>17. ASSUME NEW c \in CPUs, NEW ch \in Devices, sleep(c, ch) PROVE Quiet
  BY <1>17, Zenon DEF sleep, At, Leave
<1>18. ASSUME NEW c \in CPUs, NEW ch \in Devices, wakeup(c, ch) PROVE Quiet
  BY <1>18, Zenon DEF wakeup
<1>19. ASSUME NEW c \in CPUs, NEW t \in Slots, kill(c, t) PROVE Quiet
  BY <1>19, Zenon DEF kill
<1>20. ASSUME Halted PROVE Quiet
  BY <1>20, Zenon DEF Halted, vars
<1> HIDE <1>0 DEF TypeOK, Quiet, slotVars, ctlVars
<1> QED
  BY <1>1, <1>2, <1>3, <1>4, <1>5, <1>6, <1>7, <1>8, <1>9, <1>10, <1>11, <1>12, <1>13,
     <1>14, <1>15, <1>16, <1>17, <1>18, <1>19, <1>20, Zenon
     DEF Next, Interrupt, Process

\* What trap_tail does to the process p of its CPU: nothing, or it charges a
\* tick and decides on the yield.
LEMMA TailForm ==
  ASSUME TypeOK, NEW c \in CPUs, trap_tail(c)
  PROVE  /\ intr[c] = "tail" /\ UNCHANGED <<priority, cur>>
         /\ \A d \in CPUs : d # c => intr'[d] = intr[d]
         /\ \/ ticks_running' = ticks_running /\ intr'[c] = "none"
            \/ \E p \in Slots :
                 /\ cur[c] = p
                 /\ ticks_running' = [ticks_running EXCEPT ![p] = ticks_running[p] + 1]
                 /\ intr'[c] = IF quantum(priority[p]) <= ticks_running[p] + 1 THEN "yield" ELSE "ret"
BY DEF TypeOK, trap_tail, Ptr

LEMMA QuantumStep ==
  ASSUME IInv, QuantumInv, Next
  PROVE  QuantumInv'
<1>0. TypeOK /\ OnOneCpu /\ LockInv
  BY Zenon DEF IInv
<1> USE Constants
<1>1. CASE Quiet
  <2>1. QuantumKept'
    BY <1>1 DEF QuantumInv, QuantumKept, Quiet
  <2>2. YieldInv'
    BY <1>1, Zenon DEF QuantumInv, YieldInv, Quiet
  <2> QED
    BY <2>1, <2>2, ZenonT(60) DEF QuantumInv
<1>2. ASSUME NEW c \in CPUs, trap_tail(c) PROVE QuantumInv'
  <2>1. /\ intr[c] = "tail" /\ UNCHANGED <<priority, cur>>
        /\ \A d \in CPUs : d # c => intr'[d] = intr[d]
    BY <1>0, <1>2, TailForm, ZenonT(60)
  <2>2. CASE ticks_running' = ticks_running /\ intr'[c] = "none"
    BY <2>1, <2>2 DEF QuantumInv, QuantumKept, YieldInv
  <2>3. ASSUME NEW p \in Slots, cur[c] = p,
               ticks_running' = [ticks_running EXCEPT ![p] = ticks_running[p] + 1],
               intr'[c] = IF quantum(priority[p]) <= ticks_running[p] + 1 THEN "yield" ELSE "ret"
        PROVE  QuantumInv'
    <3>1. /\ ticks_running'[p] = ticks_running[p] + 1 /\ ticks_running[p] \in Nat
          /\ \A q \in Slots : q # p => ticks_running'[q] = ticks_running[q]
          /\ priority[p] \in Prios /\ quantum(priority[p]) \in Nat
      BY <1>0, <2>3, Quanta, Zenon DEF TypeOK
    <3>2. \A d \in CPUs : cur[d] = p => d = c
      BY <1>0, <2>3, Zenon DEF OnOneCpu
    <3>3. QuantumKept'
      <4>1. intr'[c] = "yield" \/ ticks_running'[p] < quantum(priority[p])
        BY <2>3, <3>1
      <4>2. ASSUME NEW q \in Slots, q # p
            PROVE  \/ priority[q] = 0
                   \/ ticks_running'[q] < quantum(priority[q])
                   \/ \E d \in CPUs : cur[d] = q /\ intr'[d] = "yield"
        BY <2>1, <2>3, <3>1, <4>2 DEF QuantumInv, QuantumKept
      <4> QED
        BY <2>1, <2>3, <4>1, <4>2, ZenonT(60) DEF QuantumKept
    <3>4. YieldInv'
      <4>1. ASSUME NEW d \in CPUs, intr'[d] = "yield"
            PROVE  ticks_running'[cur[d]] >= quantum(priority[cur[d]])
        <5>1. CASE d = c
          BY <2>3, <3>1, <4>1, <5>1, Zenon
        <5>2. CASE d # c
          <6>1. intr[d] = "yield" /\ cur[d] \in Slots /\ cur[d] # p
            BY <1>0, <2>1, <3>2, <4>1, <5>2 DEF LockInv, TypeOK, Ptr
          <6> QED
            BY <3>1, <6>1, ZenonT(60) DEF QuantumInv, YieldInv
        <5> QED
          BY <5>1, <5>2, Zenon
      <4> QED
        BY <2>1, <4>1, Zenon DEF YieldInv
    <3> QED
      BY <3>3, <3>4, Zenon DEF QuantumInv
  <2> QED
    BY <1>0, <1>2, <2>2, <2>3, TailForm, ZenonT(60)
<1>3. ASSUME NEW c \in CPUs, yield(c) PROVE QuantumInv'
  <2>1. PICK p \in Slots : p = cur[c]
    BY <1>0, <1>3, Zenon DEF yield, LockInv, TypeOK, Ptr
  <2>2. /\ priority'[p] \in Prios /\ ticks_running'[p] = 0
        /\ \A q \in Slots : q # p => priority'[q] = priority[q] /\ ticks_running'[q] = ticks_running[q]
    BY <1>0, <1>3, <2>1, ZenonT(60) DEF yield, TypeOK
  <2>3. /\ intr'[c] = "none"
        /\ \A d \in CPUs : d # c => intr'[d] = intr[d] /\ cur'[d] = cur[d] /\ cur[d] # p
    BY <1>0, <1>3, <2>1 DEF yield, Leave, OnOneCpu, TypeOK
  <2>4. QuantumKept'
    <3>1. ticks_running'[p] < quantum(priority'[p])
      BY <2>2, Quanta
    <3>2. ASSUME NEW q \in Slots, q # p
          PROVE  \/ priority'[q] = 0
                 \/ ticks_running'[q] < quantum(priority'[q])
                 \/ \E d \in CPUs : cur'[d] = q /\ intr'[d] = "yield"
      BY <2>1, <2>2, <2>3, <3>2 DEF QuantumInv, QuantumKept
    <3> QED
      BY <3>1, <3>2, Zenon DEF QuantumKept
  <2>5. YieldInv'
    <3>1. ASSUME NEW d \in CPUs, intr'[d] = "yield"
          PROVE  ticks_running'[cur'[d]] >= quantum(priority'[cur'[d]])
      <4>1. d # c /\ intr[d] = "yield" /\ cur'[d] = cur[d] /\ cur[d] \in Slots /\ cur[d] # p
        BY <1>0, <2>3, <3>1, Zenon DEF LockInv, TypeOK, Ptr
      <4> QED
        BY <2>2, <4>1, Zenon DEF QuantumInv, YieldInv
    <3> QED
      BY <3>1, Zenon DEF YieldInv
  <2> QED
    BY <2>4, <2>5, Zenon DEF QuantumInv
<1>4. ASSUME NEW c \in CPUs, priority_boost(c) PROVE QuantumInv'
  <2>1. /\ \A p \in Slots : priority'[p] = 0
        /\ UNCHANGED <<ticks_running, cur>>
        /\ \A d \in CPUs : intr'[d] = "yield" => intr[d] = "yield"
    BY <1>0, <1>4, Zenon DEF priority_boost, TypeOK
  <2>2. QuantumKept'
    BY <2>1, Zenon DEF QuantumKept
  <2>3. YieldInv'
    <3>1. ASSUME NEW d \in CPUs, intr[d] = "yield"
          PROVE  ticks_running[cur[d]] >= quantum(priority'[cur[d]])
      <4>1. cur[d] \in Slots /\ ticks_running[cur[d]] \in Nat /\ priority[cur[d]] \in Prios
        BY <1>0, <3>1, Zenon DEF LockInv, TypeOK, Ptr
      <4>2. ticks_running[cur[d]] >= quantum(priority[cur[d]])
        BY <3>1, Zenon DEF QuantumInv, YieldInv
      <4>3. ticks_running[cur[d]] >= 1
        BY <4>1, <4>2, Quanta
      <4> QED
        BY <2>1, <4>1, <4>3, Quanta, Zenon
    <3> QED
      BY <2>1, <3>1, Zenon DEF YieldInv
  <2> QED
    BY <2>2, <2>3, Zenon DEF QuantumInv
<1>5. ASSUME NEW c \in CPUs, fork(c) PROVE QuantumInv'
  <2>1. UNCHANGED <<ticks_running, cur, intr>>
    BY <1>5, Zenon DEF fork
  <2>2. CASE UNCHANGED priority
    BY <2>1, <2>2, Zenon DEF QuantumInv, QuantumKept, YieldInv
  <2>3. CASE ~UNCHANGED priority
    <3>1. PICK np \in Slots : state[np] = "UNUSED" /\ priority' = [priority EXCEPT ![np] = 0]
      BY <1>5, <2>3, ForkForm, Zenon
    <3>2. priority'[np] = 0 /\ \A q \in Slots : q # np => priority'[q] = priority[q]
      BY <1>0, <3>1, Zenon DEF TypeOK
    <3>3. \A d \in CPUs : intr[d] = "yield" => cur[d] \in Slots /\ cur[d] # np
      BY <1>0, <3>1 DEF LockInv, OnOneCpu, TypeOK, Ptr
    <3>4. QuantumKept'
      BY <2>1, <3>2, ZenonT(60) DEF QuantumInv, QuantumKept
    <3>5. YieldInv'
      BY <2>1, <3>2, <3>3, Zenon DEF QuantumInv, YieldInv
    <3> QED
      BY <3>4, <3>5, Zenon DEF QuantumInv
  <2> QED
    BY <2>2, <2>3, Zenon
<1> QED
  BY <1>1, <1>2, <1>3, <1>4, <1>5, QuietStep, Zenon

LEMMA QuantumSafe == Spec => []QuantumInv
<1>1. Init => QuantumInv
  BY Quanta DEF Init, QuantumInv, QuantumKept, YieldInv
<1>2. IInv /\ QuantumInv /\ [Next]_vars => QuantumInv'
  <2>1. ASSUME QuantumInv, UNCHANGED vars PROVE QuantumInv'
    BY <2>1, Zenon DEF vars, slotVars, ctlVars, QuantumInv, QuantumKept, YieldInv
  <2> QED
    BY <2>1, QuantumStep, Zenon
<1> QED
  BY <1>1, <1>2, Safety, PTL DEF Spec

\* Below the highest priority nobody keeps more ticks than its quantum,
\* however the boost of CPU 0 falls between the ticks of the other CPUs.
THEOREM QuantumBound == Spec => []QuantumKept
BY QuantumSafe, PTL DEF QuantumInv

\* Whoever is demoted has used up a quantum of the priority it has then, and
\* is queued again: yield acts on a decision of trap that a boost, a fork or
\* another CPU in between cannot make stale.
THEOREM DemotionsEarned == Spec => DemotionEarned
<1> DEFINE A == \A p \in Slots : priority'[p] > priority[p] =>
                  ticks_running[p] >= quantum(priority[p]) /\ state'[p] = "RUNNABLE"
<1>1. ASSUME IInv, QuantumInv, Next
      PROVE  A
  <2>0. TypeOK /\ LockInv
    BY <1>1, Zenon DEF IInv
  <2>1. priority \in [Slots -> Nat]
    BY <2>0 DEF TypeOK, Prios
  <2>2. CASE UNCHANGED priority
    BY <2>2, <2>1
  <2>3. ASSUME NEW c \in CPUs, yield(c) PROVE A
    <3>1. PICK p \in Slots : p = cur[c]
      BY <2>0, <2>3, Constants, Zenon DEF yield, LockInv, TypeOK, Ptr
    <3>2. state'[p] = "RUNNABLE" /\ \A q \in Slots : q # p => priority'[q] = priority[q]
      BY <2>0, <2>3, <3>1, Zenon DEF yield, TypeOK
    <3>3. ticks_running[p] >= quantum(priority[p])
      <4>1. intr[c] = "yield"
        BY <2>3, Zenon DEF yield
      <4> QED
        BY <1>1, <3>1, <4>1, Zenon DEF QuantumInv, YieldInv
    <3> QED
      BY <2>1, <3>2, <3>3
  <2>4. ASSUME NEW c \in CPUs, priority_boost(c) PROVE A
    <3>1. \A q \in Slots : priority'[q] = 0
      BY <2>4, Zenon DEF priority_boost
    <3> QED
      BY <2>1, <3>1
  <2>5. ASSUME NEW c \in CPUs, fork(c), ~UNCHANGED priority PROVE A
    <3>1. PICK np \in Slots : priority' = [priority EXCEPT ![np] = 0]
      BY <2>5, ForkForm, Zenon
    <3>2. \A q \in Slots : priority'[q] \in {0, priority[q]}
      BY <2>1, <3>1, Zenon
    <3> QED
      BY <2>1, <3>2
  <2>6. ASSUME NEW c \in CPUs, trap_tail(c) PROVE UNCHANGED priority
    BY <2>6, Zenon DEF trap_tail
  <2>7. Quiet => UNCHANGED priority
    BY Zenon DEF Quiet
  <2> QED
    BY <1>1, <2>2, <2>3, <2>4, <2>5, <2>6, <2>7, QuietStep, ZenonT(60)
<1>2. IInv /\ QuantumInv /\ [Next]_vars => [A]_vars
  BY <1>1, Zenon
<1> QED
  BY <1>2, Safety, QuantumSafe, PTL DEF Spec, DemotionEarned
=============================================================================
