--------------------------------- MODULE Log ---------------------------------
(***************************************************************************)
(* The write-ahead log of the file system (kernel/log.c): begin_op,        *)
(* log_write, end_op with its group commit, and recovery after a crash.    *)
(*                                                                         *)
(* Addresses on the disk count from the header of the log: the header is   *)
(* block 0 (kept apart in header), its data blocks are 1 .. nlog - 1 and   *)
(* the file system's own blocks, Homes, follow.  A block of the disk is    *)
(* written as a whole or not at all.                                       *)
(*                                                                         *)
(* The cache holds the current content of every block; one that is not     *)
(* B_DIRTY may be recycled at any time (bget), and is read again from the  *)
(* disk when it is needed.  Reading and writing through the cache (bread,  *)
(* bwrite) is one step each, as the buffer stays locked meanwhile.         *)
(***************************************************************************)
EXTENDS Integers, Sequences, FiniteSets

CONSTANTS Ops,          \* the processes that make file system calls
          NHOME,        \* number of blocks of the file system
          Values,       \* what a block may contain
          MAXOPBLOCKS,  \* blocks that one call writes at most (param.h)
          LOGSIZE,      \* blocks that begin_op gives out (param.h)
          nlog          \* blocks of the log on disk, with its header (mkfs.c)

ASSUME LogAssumption ==
  /\ NHOME \in Nat \ {0} /\ MAXOPBLOCKS \in Nat \ {0} /\ nlog \in Nat \ {0}
  /\ LOGSIZE \in Nat /\ Values # {} /\ IsFiniteSet(Ops)

Homes == nlog .. nlog + NHOME - 1
Addrs == 1 .. nlog + NHOME - 1

VARIABLES
  disk, header,                  \* on disk: the blocks, and the log header
  cache, dirty,                  \* the buffer cache, and the blocks with B_DIRTY
  lh, outstanding, committing,   \* struct log
  pc, arg, wrote,                \* of each call: where it is, the block and value
                                 \* it is writing, the blocks it has written
  stage, tail,                   \* progress of commit() or recover_from_log()
  panicked

stable == <<disk, header>>
calls  == <<pc, arg, wrote>>
vars   == <<stable, cache, dirty, lh, outstanding, committing, calls, stage, tail, panicked>>

Places == {"out", "asleep", "awake", "op", "logging", "end"}
Stages == {"none", "read_head", "write_log", "write_head", "install", "clear", "done"}

\* A call that is not under way.
NoCalls == [p \in Ops |-> "out"]
NoArgs  == [p \in Ops |-> <<nlog, CHOOSE v \in Values : TRUE>>]

\* A new file system, booted for the first time.
Init ==
  /\ \E v \in Values : disk = [a \in Addrs |-> v]
  /\ header = <<>>
  /\ cache = disk /\ dirty = {}
  /\ lh = <<>> /\ outstanding = 0 /\ committing = FALSE
  /\ pc = NoCalls /\ arg = NoArgs /\ wrote = [p \in Ops |-> {}]
  /\ stage = "read_head" /\ tail = 0 /\ panicked = FALSE

Running == ~panicked

\* bwrite: the block is on disk, and no longer dirty.
bwrite(a, v) ==
  /\ disk' = [disk EXCEPT ![a] = v]
  /\ cache' = [cache EXCEPT ![a] = v]
  /\ dirty' = dirty \ {a}

\* wakeup(&log)
Woken == [p \in Ops |-> IF pc[p] = "asleep" THEN "awake" ELSE pc[p]]

(***************************************************************************)
(* File system calls                                                       *)
(***************************************************************************)
\* Bug: calls are let in during a commit.
begin_op_Always(p) ==
  /\ Running /\ pc[p] \in {"out", "awake"} /\ (stage = "none" \/ committing)
  /\ IF Len(lh) + (outstanding + 1) * MAXOPBLOCKS > LOGSIZE
     THEN /\ pc' = [pc EXCEPT ![p] = "asleep"]
          /\ UNCHANGED outstanding
     ELSE /\ outstanding' = outstanding + 1
          /\ pc' = [pc EXCEPT ![p] = "op"]
  /\ UNCHANGED <<stable, cache, dirty, lh, committing, arg, wrote, stage, tail, panicked>>

\* One round of the loop of begin_op.  initlog has finished by then.
begin_op(p) ==
  /\ Running /\ pc[p] \in {"out", "awake"} /\ (stage = "none" \/ committing)
  /\ IF committing \/ Len(lh) + (outstanding + 1) * MAXOPBLOCKS > LOGSIZE
     THEN /\ pc' = [pc EXCEPT ![p] = "asleep"]
          /\ UNCHANGED outstanding
     ELSE /\ outstanding' = outstanding + 1
          /\ pc' = [pc EXCEPT ![p] = "op"]
  /\ UNCHANGED <<stable, cache, dirty, lh, committing, arg, wrote, stage, tail, panicked>>

\* log_write up to the lock: the call wants v in block b, whose buffer it has
\* locked, and looks at the size of the log.
log_write_check(p, b, v) ==
  /\ Running /\ pc[p] = "op"
  /\ Cardinality(wrote[p] \cup {b}) <= MAXOPBLOCKS
  /\ \A q \in Ops : ~(pc[q] = "logging" /\ arg[q][1] = b)
  /\ IF Len(lh) >= LOGSIZE \/ Len(lh) >= nlog - 1 \/ outstanding < 1
     THEN panicked' = TRUE /\ UNCHANGED calls
     ELSE /\ pc' = [pc EXCEPT ![p] = "logging"]
          /\ arg' = [arg EXCEPT ![p] = <<b, v>>]
          /\ wrote' = [wrote EXCEPT ![p] = @ \cup {b}]
          /\ UNCHANGED panicked
  /\ UNCHANGED <<stable, cache, dirty, lh, outstanding, committing, stage, tail>>

\* Bug: the buffer is not pinned.
log_write_NoPin(p) ==
  LET b == arg[p][1]
  IN /\ Running /\ pc[p] = "logging"
     /\ lh' = IF \E i \in 1 .. Len(lh) : lh[i] = b THEN lh ELSE Append(lh, b)
     /\ cache' = [cache EXCEPT ![b] = arg[p][2]]
     /\ pc' = [pc EXCEPT ![p] = "op"]
     /\ arg' = [arg EXCEPT ![p] = NoArgs[p]]
     /\ UNCHANGED <<stable, dirty, outstanding, committing, wrote, stage, tail, panicked>>

\* The rest of log_write, with the lock: the block is noted once and pinned.
\* The buffer has been locked since before its data was modified, so the new
\* data shows to others only after this.
log_write(p) ==
  LET b == arg[p][1]
  IN /\ Running /\ pc[p] = "logging"
     /\ lh' = IF \E i \in 1 .. Len(lh) : lh[i] = b THEN lh ELSE Append(lh, b)
     /\ cache' = [cache EXCEPT ![b] = arg[p][2]]
     /\ dirty' = dirty \cup {b}
     /\ pc' = [pc EXCEPT ![p] = "op"]
     /\ arg' = [arg EXCEPT ![p] = NoArgs[p]]
     /\ UNCHANGED <<stable, outstanding, committing, wrote, stage, tail, panicked>>

\* Bug: no wakeup for a call that gives space back.
end_op_NoWakeup(p) ==
  /\ Running /\ pc[p] = "op" /\ ~committing
  /\ outstanding' = outstanding - 1
  /\ wrote' = [wrote EXCEPT ![p] = {}]
  /\ IF outstanding = 1
     THEN /\ committing' = TRUE
          /\ stage' = IF Len(lh) > 0 THEN "write_log" ELSE "done"
          /\ tail' = 0
          /\ pc' = [pc EXCEPT ![p] = "end"]
     ELSE /\ pc' = [pc EXCEPT ![p] = "out"]
          /\ UNCHANGED <<committing, stage, tail>>
  /\ UNCHANGED <<stable, cache, dirty, lh, arg, panicked>>

\* end_op up to commit(): the last call out commits, any other wakes the
\* calls that wait for space.
end_op(p) ==
  /\ Running /\ pc[p] = "op"
  /\ outstanding' = outstanding - 1
  /\ wrote' = [wrote EXCEPT ![p] = {}]
  /\ panicked' = committing
  /\ \/ /\ outstanding = 1
        /\ committing' = TRUE
        /\ stage' = IF Len(lh) > 0 THEN "write_log" ELSE "done"
        /\ tail' = 0
        /\ pc' = [pc EXCEPT ![p] = "end"]
     \/ /\ outstanding # 1
        /\ pc' = [Woken EXCEPT ![p] = "out"]
        /\ UNCHANGED <<committing, stage, tail>>
  /\ UNCHANGED <<stable, cache, dirty, lh, arg>>

(***************************************************************************)
(* commit() and recovery                                                   *)
(***************************************************************************)
\* Bug: the blocks are installed without the header on disk.
write_log_NoHead ==
  /\ Running /\ stage = "write_log"
  /\ bwrite(tail + 1, cache[lh[tail + 1]])
  /\ tail' = IF tail + 1 = Len(lh) THEN 0 ELSE tail + 1
  /\ stage' = IF tail + 1 = Len(lh) THEN "install" ELSE stage
  /\ UNCHANGED <<header, lh, outstanding, committing, calls, panicked>>

\* write_log copies the next block from the cache to the log.
write_log ==
  /\ Running /\ stage = "write_log"
  /\ bwrite(tail + 1, cache[lh[tail + 1]])
  /\ tail' = tail + 1
  /\ stage' = IF tail + 1 = Len(lh) THEN "write_head" ELSE stage
  /\ UNCHANGED <<header, lh, outstanding, committing, calls, panicked>>

\* write_head: the commit point
write_head ==
  /\ Running /\ stage = "write_head"
  /\ header' = lh
  /\ stage' = "install" /\ tail' = 0
  /\ UNCHANGED <<disk, cache, dirty, lh, outstanding, committing, calls, panicked>>

\* read_head, at boot
read_head ==
  /\ Running /\ stage = "read_head"
  /\ lh' = header
  /\ stage' = IF Len(header) > 0 THEN "install" ELSE "clear"
  /\ tail' = 0
  /\ UNCHANGED <<stable, cache, dirty, outstanding, committing, calls, panicked>>

\* Bug: the loop does not advance.
install_trans_Stuck ==
  /\ Running /\ stage = "install"
  /\ bwrite(lh[tail + 1], cache[tail + 1])
  /\ UNCHANGED <<header, lh, outstanding, committing, calls, stage, tail, panicked>>

\* install_trans copies the next block from the log to its home.
install_trans ==
  /\ Running /\ stage = "install"
  /\ bwrite(lh[tail + 1], cache[tail + 1])
  /\ tail' = tail + 1
  /\ stage' = IF tail + 1 = Len(lh) THEN "clear" ELSE stage
  /\ UNCHANGED <<header, lh, outstanding, committing, calls, panicked>>

\* log.lh.n = 0 and the second write_head; at boot this ends initlog.
clear_head ==
  /\ Running /\ stage = "clear"
  /\ lh' = <<>> /\ header' = <<>>
  /\ stage' = IF committing THEN "done" ELSE "none"
  /\ tail' = 0
  /\ UNCHANGED <<disk, cache, dirty, outstanding, committing, calls, panicked>>

\* The end of end_op of the call that committed.
end_commit(p) ==
  /\ Running /\ stage = "done" /\ pc[p] = "end"
  /\ committing' = FALSE
  /\ pc' = [Woken EXCEPT ![p] = "out"]
  /\ stage' = "none"
  /\ UNCHANGED <<stable, cache, dirty, lh, outstanding, arg, wrote, tail, panicked>>

(***************************************************************************)
(* The environment                                                         *)
(***************************************************************************)
\* bget recycles a buffer that is not dirty; it will be read again.
evict(a) ==
  /\ Running /\ a \notin dirty
  /\ cache' = [cache EXCEPT ![a] = disk[a]]
  /\ UNCHANGED <<stable, dirty, lh, outstanding, committing, calls, stage, tail, panicked>>

\* The machine stops and boots again, and knows nothing but the disk.
Crash ==
  /\ cache' = disk /\ dirty' = {}
  /\ lh' = <<>> /\ outstanding' = 0 /\ committing' = FALSE
  /\ pc' = NoCalls /\ arg' = NoArgs /\ wrote' = [p \in Ops |-> {}]
  /\ stage' = "read_head" /\ tail' = 0 /\ panicked' = FALSE
  /\ UNCHANGED stable

Call(p) == \/ begin_op(p) \/ log_write(p) \/ end_op(p) \/ end_commit(p)
           \/ \E b \in Homes, v \in Values : log_write_check(p, b, v)

Next == \/ \E p \in Ops : Call(p)
        \/ write_log \/ write_head \/ read_head \/ install_trans \/ clear_head
        \/ \E a \in Addrs : evict(a)
        \/ Crash

Spec == Init /\ [][Next]_vars

\* Commit and recovery go on; a call makes finitely many writes and ends.
Fairness ==
  /\ WF_vars(write_log \/ write_head \/ read_head \/ install_trans \/ clear_head)
  /\ \A p \in Ops : /\ WF_vars(log_write(p)) /\ WF_vars(end_commit(p))
                     /\ SF_vars(end_op(p))

FairSpec == Spec /\ Fairness

-----------------------------------------------------------------------------
(***************************************************************************)
(* Properties                                                              *)
(***************************************************************************)
Active == {p \in Ops : pc[p] \in {"op", "logging"}}

\* The file system that recovery finds on the disk: the blocks named in the
\* header are taken from the log.
Recovered ==
  [b \in Homes |-> IF \E i \in 1 .. Len(header) : header[i] = b
                   THEN disk[CHOOSE i \in 1 .. Len(header) : header[i] = b]
                   ELSE disk[b]]

Booting == stage # "none" /\ ~committing

A == INSTANCE AtomicDisk WITH
       mem     <- IF Booting THEN Recovered ELSE [b \in Homes |-> cache[b]],
       durable <- Recovered,
       active  <- Active

\* REFINEMENT.  The log makes calls atomic: a crash at any point of commit()
\* or of an earlier recovery leaves the blocks as they were at a moment when
\* no call was in progress, and later calls see exactly these (log.c).
ImplementsAtomicDisk == A!ASpec

\* INVARIANT.  commit() runs only while no call is active, and outstanding
\* counts the active calls: "The logging system only commits when there are
\* no FS system calls active" (begin_op, end_op).
CommitsAlone ==
  /\ outstanding = Cardinality(Active) \/ panicked
  /\ committing => Active = {}

\* INVARIANT.  Only blocks that are pinned with B_DIRTY differ from the disk,
\* so that recycling a buffer never loses an update (log_write, bwrite).
Pinned == \A a \in Addrs : a \notin dirty => cache[a] = disk[a]

\* INVARIANT.  A call sleeps in begin_op only as long as it has to: when the
\* commit is over or space has been given back it has been woken (end_op).
SleepersMustWait ==
  \A p \in Ops : pc[p] = "asleep" =>
    committing \/ Len(lh) + (outstanding + 1) * MAXOPBLOCKS > LOGSIZE

\* INVARIANT.  The blocks noted in lh fit into the log on disk ("Max data
\* blocks in on-disk log", param.h:13): write_log stays inside of it.
LogFits == Len(lh) <= nlog - 1

\* LIVENESS.  A call that sleeps in begin_op is woken up.
SleepersWake == \A p \in Ops : pc[p] = "asleep" ~> pc[p] # "asleep" \/ panicked
=============================================================================
