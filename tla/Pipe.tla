-------------------------------- MODULE Pipe --------------------------------
(***************************************************************************)
(* A pipe (kernel/pipe.c) between processes that hold its write end and    *)
(* processes that hold its read end, and kill (kernel/proc.c), which does  *)
(* not take the lock of the pipe.                                          *)
(*                                                                         *)
(* A step runs from one acquire or sleep of p->lock to the next sleep or   *)
(* release.  Only the sleep itself is a step of its own, with the lock     *)
(* still held, as a kill may come between the test of killed and it.       *)
(* at says where a process is: out of the pipe, in a call that wants the   *)
(* lock, about to sleep with the lock held, asleep, closing its end, or    *)
(* gone.  Bounds: MaxIO bytes per call.                                    *)
(***************************************************************************)
EXTENDS Integers, Sequences

CONSTANTS Writers, Readers,   \* processes with a write, read descriptor
          Bytes,              \* what a byte may be
          PIPESIZE,           \* size of the ring buffer
          UintSize,           \* nread and nwrite count modulo this (2^32)
          MaxIO               \* bytes per read or write

ASSUME PipeAssumption ==
  /\ PIPESIZE \in Nat \ {0} /\ UintSize \in Nat /\ MaxIO \in Nat \ {0}
  /\ UintSize > PIPESIZE /\ UintSize % PIPESIZE = 0
  /\ Writers \cap Readers = {}

PipeProcs  == Writers \cup Readers
Inputs == UNION {[1 .. n -> Bytes] : n \in 0 .. MaxIO}

VARIABLES
  ring, nread, nwrite, readopen, writeopen, \* struct pipe
  lock,                                     \* the holder of p->lock, or {}
  at, killed,
  bytes                                       \* the bytes still to write, or read

pipe == <<ring, nread, nwrite, readopen, writeopen>>
pipeVars == <<pipe, lock, at, killed, bytes>>

\* pipealloc, and the descriptors dealt out by fork and close
PipeInit ==
  /\ \E b \in Bytes : ring = [i \in 0 .. PIPESIZE - 1 |-> b]
  /\ nread = 0 /\ nwrite = 0 /\ readopen = TRUE /\ writeopen = TRUE
  /\ lock = {}
  /\ at = [p \in PipeProcs |-> "out"]
  /\ killed = [p \in PipeProcs |-> FALSE]
  /\ bytes = [p \in PipeProcs |-> <<>>]

Used == (nwrite - nread) % UintSize

\* the bytes in the ring, oldest first
Contents == [i \in 1 .. Used |-> ring[(nread + i - 1) % PIPESIZE]]

\* Everybody's place after wakeup on the channel of the processes P, and p's move
Wake(P, p, place) ==
  [q \in PipeProcs |-> IF q = p THEN place
                       ELSE IF q \in P /\ at[q] = "asleep" THEN "call" ELSE at[q]]

(***************************************************************************)
(* pipewrite: bytes are copied until all are written or the ring is full.  *)
(***************************************************************************)
write(w, s) ==
  /\ at[w] = "out" /\ ~killed[w]
  /\ at' = [at EXCEPT ![w] = "call"] /\ bytes' = [bytes EXCEPT ![w] = s]
  /\ UNCHANGED <<pipe, lock, killed>>

Room_Over == PIPESIZE + 1 - Used
Room == PIPESIZE - Used

\* nread or nwrite after k more bytes
Advanced(n, k) == (n + k) % UintSize

pipewrite(w) ==
  LET k    == IF Len(bytes[w]) <= Room THEN Len(bytes[w]) ELSE Room
      done == k = Len(bytes[w])
      fail == ~done /\ (~readopen \/ killed[w])
  IN /\ at[w] = "call" /\ lock = {}
     /\ ring' = [i \in DOMAIN ring |->
                   LET j == ((i - nwrite) % PIPESIZE) + 1 IN IF j <= k THEN bytes[w][j] ELSE ring[i]]
     /\ nwrite' = Advanced(nwrite, k)
     /\ bytes' = [bytes EXCEPT ![w] = IF fail THEN <<>> ELSE SubSeq(@, k + 1, Len(@))]
     /\ at' = IF done THEN Wake(Readers, w, "out")
              ELSE [at EXCEPT ![w] = IF fail THEN "out" ELSE "wait"]
     /\ lock' = IF done \/ fail THEN {} ELSE {w}
     /\ UNCHANGED <<nread, readopen, writeopen, killed>>

\* wakeup(&p->nread) and sleep(&p->nwrite, &p->lock)
pipewrite_sleep(w) ==
  /\ at[w] = "wait" /\ lock = {w}
  /\ at' = Wake(Readers, w, "asleep")
  /\ lock' = {}
  /\ UNCHANGED <<pipe, killed, bytes>>

(***************************************************************************)
(* piperead of at most n bytes                                             *)
(***************************************************************************)
read(r) ==
  /\ at[r] = "out" /\ ~killed[r]
  /\ at' = [at EXCEPT ![r] = "call"] /\ bytes' = [bytes EXCEPT ![r] = <<>>]
  /\ UNCHANGED <<pipe, lock, killed>>

Returns_NoWakeup(r, k) == [at EXCEPT ![r] = "out"]
Returns_NoEof(r, k) == Wake(Writers, r, IF k = 0 THEN "call" ELSE "out")
\* A read of k bytes wakes the writers and returns, with 0 at the end of file.
Returns(r, k) == Wake(Writers, r, "out")

piperead(r, n) ==
  LET k     == IF n <= Used THEN n ELSE Used
      empty == Used = 0 /\ writeopen
  IN /\ at[r] = "call" /\ lock = {}
     /\ nread' = IF empty THEN nread ELSE Advanced(nread, k)
     /\ bytes' = IF empty THEN bytes ELSE [bytes EXCEPT ![r] = SubSeq(Contents, 1, k)]
     /\ at' = IF empty THEN [at EXCEPT ![r] = IF killed[r] THEN "out" ELSE "wait"]
              ELSE Returns(r, k)
     /\ lock' = IF empty /\ ~killed[r] THEN {r} ELSE {}
     /\ UNCHANGED <<ring, nwrite, readopen, writeopen, killed>>

\* sleep(&p->nread, &p->lock)
piperead_sleep(r) ==
  /\ at[r] = "wait" /\ lock = {r}
  /\ at' = [at EXCEPT ![r] = "asleep"]
  /\ lock' = {}
  /\ UNCHANGED <<pipe, killed, bytes>>

(***************************************************************************)
(* Closing a descriptor: the last one of its end closes the end.           *)
(***************************************************************************)
fileclose(p) ==
  LET end == IF p \in Writers THEN Writers ELSE Readers
  IN /\ at[p] = "out"
     /\ at' = [at EXCEPT ![p] = IF \A q \in end \ {p} : at[q] = "gone"
                                THEN "close" ELSE "gone"]
     /\ bytes' = [bytes EXCEPT ![p] = <<>>]
     /\ UNCHANGED <<pipe, lock, killed>>

pipeclose(p) ==
  /\ at[p] = "close" /\ lock = {}
  /\ IF p \in Writers
     THEN writeopen' = FALSE /\ at' = Wake(Readers, p, "gone") /\ UNCHANGED readopen
     ELSE readopen' = FALSE /\ at' = Wake(Writers, p, "gone") /\ UNCHANGED writeopen
  /\ UNCHANGED <<ring, nread, nwrite, lock, killed, bytes>>

\* kill() makes a sleeping process runnable.
pipe_kill(p) ==
  /\ at[p] # "gone" /\ ~killed[p]
  /\ killed' = [killed EXCEPT ![p] = TRUE]
  /\ at' = [at EXCEPT ![p] = IF @ = "asleep" THEN "call" ELSE @]
  /\ UNCHANGED <<pipe, lock, bytes>>

PipeStep(p) ==
  \/ p \in Writers /\ (pipewrite(p) \/ pipewrite_sleep(p))
  \/ p \in Readers /\ ((\E n \in 0 .. MaxIO : piperead(p, n)) \/ piperead_sleep(p))
  \/ pipeclose(p)

PipeNext ==
  \E p \in PipeProcs :
    \/ PipeStep(p) \/ fileclose(p) \/ pipe_kill(p)
    \/ p \in Writers /\ \E s \in Inputs : write(p, s)
    \/ p \in Readers /\ read(p)

PipeSpec == PipeInit /\ [][PipeNext]_pipeVars

-----------------------------------------------------------------------------
(***************************************************************************)
(* Properties                                                              *)
(***************************************************************************)
B == INSTANCE ByteStream WITH
       Capacity <- PIPESIZE,
       stream   <- Contents,
       unsent   <- [w \in Writers |-> bytes[w]],
       got      <- [r \in Readers |-> bytes[r]]

\* REFINEMENT.  The ring with its two wrapping counters is a bounded stream:
\* every byte of every write arrives once, in order, and no more than
\* PIPESIZE bytes are ever on the way (pipewrite, piperead).
ImplementsByteStream == B!BSpec

\* INVARIANT.  Nobody sleeps on a pipe that could be used: when the lock is
\* free, a sleeping writer faces a full pipe with a reader, and a sleeping
\* reader an empty one with a writer (the wakeups of pipewrite, piperead,
\* pipeclose).  Only a killed writer may leave bytes behind unannounced.
NoStrandedSleeper ==
  lock = {} =>
    /\ \A w \in Writers : at[w] = "asleep" => Used = PIPESIZE /\ readopen
    /\ \A r \in Readers : at[r] = "asleep" =>
         writeopen /\ (Used = 0 \/ \E w \in Writers : killed[w])

\* INVARIANT.  A reader sleeps while the pipe is empty ("pipe-empty",
\* pipe.c:106), and no longer: bytes in the pipe mean that it has been woken.
ReadersSleepOnEmpty ==
  lock = {} => \A r \in Readers : at[r] = "asleep" => Used = 0

\* LIVENESS.  When the other end is closed for good every call returns, with
\* the end of file or an error: no process hangs on a dead pipe (pipeclose).
CallsReturn ==
  /\ \A r \in Readers : ~writeopen /\ at[r] \in {"call", "asleep"} ~> at[r] = "out"
  /\ \A w \in Writers : ~readopen /\ at[w] \in {"call", "asleep"} ~> at[w] = "out"
=============================================================================
