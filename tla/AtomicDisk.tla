----------------------------- MODULE AtomicDisk -----------------------------
(***************************************************************************)
(* What the log promises the file system (kernel/log.c): operations write  *)
(* blocks in memory, and what a crash leaves behind is the memory of some  *)
(* moment at which no operation was in progress.                           *)
(***************************************************************************)
CONSTANTS Ops,     \* the processes that execute operations
          Homes,   \* the blocks of the file system
          Values   \* what a block may contain

VARIABLES mem,      \* the blocks as the operations see them
          durable,  \* the blocks as they are after a crash
          active    \* the operations in progress

avars == <<mem, durable, active>>

AInit ==
  /\ mem \in [Homes -> Values]
  /\ durable = mem
  /\ active = {}

Begin(p) == p \notin active /\ active' = active \cup {p} /\ UNCHANGED <<mem, durable>>
End(p)   == p \in active /\ active' = active \ {p} /\ UNCHANGED <<mem, durable>>

Write(p, b, v) ==
  /\ p \in active
  /\ mem' = [mem EXCEPT ![b] = v]
  /\ UNCHANGED <<durable, active>>

Commit == active = {} /\ durable' = mem /\ UNCHANGED <<mem, active>>
Crash  == mem' = durable /\ active' = {} /\ UNCHANGED durable

ANext ==
  \/ \E p \in Ops : Begin(p) \/ End(p) \/ \E b \in Homes, v \in Values : Write(p, b, v)
  \/ Commit \/ Crash

ASpec == AInit /\ [][ANext]_avars
=============================================================================
