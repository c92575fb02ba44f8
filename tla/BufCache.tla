---- MODULE BufCache ----
(***************************************************************************)
(* The block layer: the buffer cache (bio.c), the sleep lock each buffer   *)
(* carries (sleeplock.c) and the IDE driver's request queue (ide.c).       *)
(*                                                                         *)
(* A process asks for a block, sleeps for the buffer's lock, perhaps       *)
(* sleeps for the disk, uses the buffer, and gives it back.  A spin lock   *)
(* (bcache.lock, a sleep lock's lk, idelock) makes each critical section   *)
(* one step; everything between two of them interleaves.                   *)
(***************************************************************************)
EXTENDS Naturals, FiniteSets, Sequences

CONSTANTS Procs,        \* processes using the file system
          NBUF,         \* buffers
          Blocks,       \* block numbers
          Watched,      \* the blocks whose content is followed
          MaxPinned,    \* blocks a transaction may have pinned (LOGSIZE)
          DriveErrors,  \* whether a read can end with the drive's error bits set
          NoProc, NoBlock

ASSUME BufAssumption == /\ NBUF \in Nat \ {0} /\ MaxPinned \in Nat /\ IsFiniteSet(Procs)
                        /\ NoProc \notin Procs /\ NoBlock \notin Blocks /\ Watched \subseteq Blocks
                        /\ DriveErrors \subseteq BOOLEAN

Bufs == 1..NBUF

\* What is written to a block: blocks are alike, so two contents are told apart
\* only on some of them.
Values == {0, 1}
Writes(b) == IF b \in Watched THEN Values ELSE {0}

VARIABLES blockno, refcnt, data,  \* the fields of each buffer
          valid, dirty, \* the buffers with B_VALID and with B_DIRTY set
          lru,          \* bcache.head's list, most recently used first
          owner,        \* the process that holds the buffer's sleep lock
          idequeue,     \* buffers waiting for the disk; the head is active
          disk,         \* what the drive holds
          pc, buf,      \* where each process is, and the buffer it works on
          panicked      \* the panic that stopped the machine, or "no"

bcache == <<blockno, refcnt, lru>>
ide == <<idequeue, disk>>
bufVars == <<bcache, valid, dirty, data, owner, ide, pc, buf, panicked>>

\* binit: the list is built by pushing each buffer at the front; every buffer
\* is free and zero.  A buffer of device 0 stands for no block.
binit == /\ blockno = [x \in Bufs |-> NoBlock]
         /\ refcnt = [x \in Bufs |-> 0]
         /\ lru = [i \in Bufs |-> NBUF + 1 - i]

BufInit == /\ binit
           /\ valid = {} /\ dirty = {}
           /\ data = [x \in Bufs |-> 0] /\ owner = [x \in Bufs |-> NoProc]
           /\ idequeue = <<>> /\ disk = [b \in Blocks |-> 0]
           /\ pc = [p \in Procs |-> "out"] /\ buf = [p \in Procs |-> 1]
           /\ panicked = "no"

Goto(p, l) == pc' = [pc EXCEPT ![p] = l]

\* wakeup(chan): every process asleep at label `from` on buffer x runs on at `to`
Wakeup(x, from, to) ==
    pc' = [q \in Procs |-> IF pc[q] = from /\ buf[q] = x THEN to ELSE pc[q]]

panic(s) == panicked' = s /\ UNCHANGED <<bcache, valid, dirty, data, owner, ide, pc, buf>>

Cached_Valid(b) == {i \in Bufs : blockno[lru[i]] = b /\ lru[i] \in valid}
\* bget's first loop: the places of the list where block b is
Cached(b) == {i \in Bufs : blockno[lru[i]] = b}

Recyclable_Pinned == {i \in Bufs : refcnt[lru[i]] = 0}
\* bget's second loop: the places of buffers that may be given to another
\* block, neither referenced nor pinned by the log's B_DIRTY
Recyclable == {i \in Bufs : refcnt[lru[i]] = 0 /\ lru[i] \notin dirty}

\* The block is found at place i: one more reference.
Found(p, i) ==
    /\ refcnt' = [refcnt EXCEPT ![lru[i]] = @ + 1]
    /\ buf' = [buf EXCEPT ![p] = lru[i]]
    /\ Goto(p, "acquiresleep")
    /\ UNCHANGED <<blockno, valid, dirty, lru, data, owner, ide, panicked>>

\* The buffer at place i is given to block b.
Recycled(p, b, i) ==
    /\ blockno' = [blockno EXCEPT ![lru[i]] = b]
    /\ valid' = valid \ {lru[i]}
    /\ dirty' = dirty \ {lru[i]}
    /\ refcnt' = [refcnt EXCEPT ![lru[i]] = 1]
    /\ buf' = [buf EXCEPT ![p] = lru[i]]
    /\ Goto(p, "acquiresleep")
    /\ UNCHANGED <<lru, data, owner, ide, panicked>>

\* bget: one critical section of bcache.lock, up to the acquiresleep.  The list
\* is searched for the block from its head, for a free buffer from its end.
bget(p, b) ==
    /\ pc[p] = "out"
    /\ \/ \E i \in Cached(b) : (\A j \in Cached(b) : i <= j) /\ Found(p, i)
       \/ /\ Cached(b) = {}
          /\ \/ \E i \in Recyclable : (\A j \in Recyclable : j <= i) /\ Recycled(p, b, i)
             \/ Recyclable = {} /\ panic("bget")

\* bread's test of B_VALID once it has the lock
AfterLock(x) == IF x \in valid THEN "using" ELSE "iderw"

\* acquiresleep, and the test of B_VALID that bread makes once it returns:
\* the flag only changes under the lock just taken.
acquiresleep(p) ==
    LET x == buf[p]
    IN /\ pc[p] = "acquiresleep"
       /\ IF owner[x] # NoProc
          THEN Goto(p, "locksleep") /\ UNCHANGED owner
          ELSE /\ owner' = [owner EXCEPT ![x] = p]
               /\ Goto(p, AfterLock(x))
       /\ UNCHANGED <<bcache, valid, dirty, data, ide, buf, panicked>>

\* idestart issues the command; a write's data goes to the drive with it.
idestart(x) == disk' = IF x \in dirty THEN [disk EXCEPT ![blockno[x]] = data[x]] ELSE disk

\* iderw: the three tests, the queue, and the sleep for the interrupt.
iderw(p) ==
    LET x == buf[p]
    IN /\ pc[p] = "iderw"
       /\ IF owner[x] # p \/ (x \in valid /\ x \notin dirty) THEN panic("iderw")
          ELSE /\ idequeue' = Append(idequeue, x)
               /\ IF idequeue = <<>> THEN idestart(x) ELSE UNCHANGED disk
               /\ Goto(p, "disksleep")
               /\ UNCHANGED <<bcache, valid, dirty, data, owner, buf, panicked>>

\* The condition iderw's loop waits for
Served(x) == x \in valid /\ x \notin dirty

\* iderw's while loop, after a wakeup: leave, or sleep again.
iderw_loop(p) ==
    /\ pc[p] = "iderw_loop"
    /\ Goto(p, IF Served(buf[p]) THEN "using" ELSE "disksleep")
    /\ UNCHANGED <<bcache, valid, dirty, data, owner, ide, buf, panicked>>

\* ideintr: take the active buffer off the queue, read its data unless the
\* drive reports an error, mark it valid either way, wake its process and
\* start the disk on the next one.
ideintr(error) ==
    LET x == Head(idequeue)
    IN /\ idequeue # <<>>
       /\ idequeue' = Tail(idequeue)
       /\ data' = IF x \in dirty \/ error THEN data ELSE [data EXCEPT ![x] = disk[blockno[x]]]
       /\ valid' = valid \cup {x}
       /\ dirty' = dirty \ {x}
       /\ Wakeup(x, "disksleep", "iderw_loop")
       /\ IF Len(idequeue) > 1 THEN idestart(idequeue[2]) ELSE UNCHANGED disk
       /\ UNCHANGED <<bcache, owner, buf, panicked>>

\* A holder changes the data and writes it through (bwrite, which enters iderw).
bwrite(p, v) ==
    LET x == buf[p]
    IN /\ pc[p] = "using"
       /\ data' = [data EXCEPT ![x] = v]
       /\ dirty' = dirty \cup {x}
       /\ Goto(p, "iderw")
       /\ UNCHANGED <<bcache, valid, owner, ide, buf, panicked>>

\* A holder changes the data and lets the log pin the buffer; the log bounds
\* how many it has pinned.
log_write(p, v) ==
    LET x == buf[p]
    IN /\ pc[p] = "using"
       /\ Cardinality(dirty \cup {x}) <= MaxPinned
       /\ data' = [data EXCEPT ![x] = v]
       /\ dirty' = dirty \cup {x}
       /\ UNCHANGED <<bcache, valid, owner, ide, pc, buf, panicked>>

Releasesleep_NoWakeup(p, x) == Goto(p, "unref")

\* releasesleep's wakeup, together with the releasing process's own move on
Releasesleep(p, x) ==
    pc' = [q \in Procs |-> IF q = p THEN "unref"
                           ELSE IF pc[q] = "locksleep" /\ buf[q] = x THEN "acquiresleep"
                           ELSE pc[q]]

\* brelse: first the sleep lock, then, under bcache.lock, the count and list.
brelse_unlock(p) ==
    LET x == buf[p]
    IN /\ pc[p] = "using"
       /\ IF owner[x] # p THEN panic("brelse")
          ELSE /\ owner' = [owner EXCEPT ![x] = NoProc]
               /\ Releasesleep(p, x)
               /\ UNCHANGED <<bcache, valid, dirty, data, ide, buf, panicked>>

\* The buffer moved to the head of the list from its place i
ToFront(x) == LET i == CHOOSE k \in Bufs : lru[k] = x
              IN [k \in Bufs |-> IF k = 1 THEN x ELSE IF k <= i THEN lru[k - 1] ELSE lru[k]]

\* The count that brelse leaves
Unref(x) == refcnt[x] - 1

brelse_unref(p) ==
    LET x == buf[p]
    IN /\ pc[p] = "unref"
       /\ refcnt' = [refcnt EXCEPT ![x] = Unref(x)]
       /\ lru' = IF refcnt[x] = 1 THEN ToFront(x) ELSE lru
       /\ Goto(p, "out")
       /\ buf' = [buf EXCEPT ![p] = 1]
       /\ UNCHANGED <<blockno, valid, dirty, data, owner, ide, panicked>>

\* kill() makes a sleeper runnable with its condition still false: both
\* sleeps are in loops that look again.
kill(p) ==
    /\ \/ pc[p] = "locksleep" /\ Goto(p, "acquiresleep")
       \/ pc[p] = "disksleep" /\ Goto(p, "iderw_loop")
    /\ UNCHANGED <<bcache, valid, dirty, data, owner, ide, buf, panicked>>

BufStep(p) == acquiresleep(p) \/ iderw(p) \/ iderw_loop(p) \/ brelse_unlock(p) \/ brelse_unref(p)

\* panic() never returns
halted == panicked # "no" /\ UNCHANGED bufVars

BufNext == \/ halted
           \/ /\ panicked = "no"
              /\ \/ \E error \in DriveErrors : ideintr(error)
                 \/ \E p \in Procs : \/ BufStep(p)
                                     \/ kill(p)
                                     \/ \E b \in Blocks : bget(p, b)
                                     \/ \E v \in Writes(blockno[buf[p]]) : bwrite(p, v)
                                     \/ \E v \in Writes(blockno[buf[p]]) : log_write(p, v)

BufSpec == BufInit /\ [][BufNext]_bufVars

\* Fairness: the drive interrupts and a runnable process runs (weakly); whoever
\* has a buffer gives it back in the end, and the scheduler lets each process
\* reach a lock that is free again and again (strongly).
Runs(p) == panicked = "no" /\ BufStep(p)
Interrupts == panicked = "no" /\ \E error \in DriveErrors : ideintr(error)
GetsOrGives(p) == panicked = "no" /\ ((acquiresleep(p) /\ owner' # owner) \/ brelse_unlock(p))

----
\* iderw and brelse only ever see a buffer that is locked and has work to do:
\* their panics (ide.c:143, ide.c:145, bio.c:123) are not reached.
BuffersInOrder == panicked \in {"no", "bget"}

\* "bget: no buffers" (bio.c:92) means what it says: while the processes using
\* a buffer and the blocks pinned by the log are together fewer than NBUF,
\* there is one to recycle.  No reference outlives its use.
BufferLeft ==
    Cardinality({p \in Procs : pc[p] # "out"}) + Cardinality(dirty) < NBUF
        => Recyclable # {}

\* bget never gives one block two buffers, however lookups and recycling
\* interleave with buffers being waited for (bio.c:61).
OneBufferPerBlock ==
    \A x, y \in Bufs : x # y /\ blockno[x] # NoBlock => blockno[x] # blockno[y]

\* A buffer is on the disk queue once, only while its process, which holds its
\* lock, is inside iderw for it (ide.c:138).
QueueOwned ==
    /\ \A i, j \in 1..Len(idequeue) : i # j => idequeue[i] # idequeue[j]
    /\ \A i \in 1..Len(idequeue) : LET p == owner[idequeue[i]]
                                   IN /\ p # NoProc /\ buf[p] = idequeue[i]
                                      /\ pc[p] \in {"disksleep", "iderw_loop"}

\* bio.c, ide.c: buffers are used in order, each block has one, the disk queue
\* belongs to its owners, and there is a buffer left whenever there should be.
CacheSound == BuffersInOrder /\ BufferLeft /\ OneBufferPerBlock /\ QueueOwned

\* What a block holds: a valid buffer's data, or else what is on the disk.
Content == [b \in Blocks |-> IF \E x \in Bufs : blockno[x] = b /\ x \in valid
                             THEN data[CHOOSE x \in Bufs : blockno[x] = b /\ x \in valid]
                             ELSE disk[b]]

\* A process has a block once it holds the lock of a valid buffer: while the
\* disk is being read for it, it may change nothing.
Has == [p \in Procs |-> IF owner[buf[p]] = p /\ buf[p] \in valid THEN blockno[buf[p]] ELSE NoBlock]

\* Together the cache, its locks and the driver implement one content per
\* block changed only by the process that has it: what bread returns is what
\* was last written, whether it came from memory or from the disk.
Store == INSTANCE BlockStore WITH content <- Content, has <- Has
ImplementsBlockStore == Store!Spec

\* A bread in progress returns, although its process can be made to wait for
\* other processes and for the disk, and can be killed while it sleeps.
BreadReturns == \A p \in Procs : pc[p] \notin {"out", "unref"} ~> pc[p] = "using" \/ panicked # "no"
====
