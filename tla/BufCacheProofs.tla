--------------------------- MODULE BufCacheProofs ---------------------------
(***************************************************************************)
(* The block layer is sound for any number of processes, buffers and       *)
(* blocks.                                                                 *)
(*                                                                         *)
(* BufInv is inductive: references are counted, a locked buffer and the    *)
(* process that is working with it know each other, no block has two       *)
(* buffers, and what is queued for the disk still has to be read or        *)
(* written.                                                                *)
(*                                                                         *)
(* The layer implements a store with one content per block.  CopyInv is    *)
(* inductive together with BufInv: a valid buffer that is not dirty is a   *)
(* copy of its block, so that recycling it loses nothing, and what a block *)
(* holds can be told from its one buffer or from the disk.                 *)
(***************************************************************************)
EXTENDS BufCache, FiniteSetTheorems, TLAPS

USE SMTT(30)

\* Where a process is while it has a buffer's sleep lock.
Holding == {"iderw", "disksleep", "iderw_loop", "using"}
Places == {"out", "acquiresleep", "locksleep", "unref"} \cup Holding

BufType ==
  /\ blockno \in [Bufs -> Blocks \cup {NoBlock}] /\ refcnt \in [Bufs -> Nat] /\ data \in [Bufs -> Values]
  /\ valid \subseteq Bufs /\ dirty \subseteq valid
  /\ lru \in [Bufs -> Bufs] /\ \A x \in Bufs : \E i \in Bufs : lru[i] = x
  /\ owner \in [Bufs -> Procs \cup {NoProc}]
  /\ idequeue \in Seq(Bufs) /\ disk \in [Blocks -> Values]
  /\ pc \in [Procs -> Places] /\ buf \in [Procs -> Bufs]

\* The processes that have a reference to buffer x.
Users(x) == {p \in Procs : pc[p] # "out" /\ buf[p] = x}
RefInv == \A x \in Bufs : refcnt[x] = Cardinality(Users(x))

OwnInv ==
  /\ \A x \in Bufs : owner[x] # NoProc => pc[owner[x]] \in Holding /\ buf[owner[x]] = x
  /\ \A p \in Procs : pc[p] \in Holding => owner[buf[p]] = p

\* A buffer in use, or valid, stands for a block, and for no other's.
BlockInv ==
  /\ OneBufferPerBlock
  /\ \A p \in Procs : pc[p] # "out" => blockno[buf[p]] \in Blocks
  /\ \A x \in valid : blockno[x] \in Blocks

\* bread returns a valid buffer; iderw has something to do.
FlagInv ==
  /\ \A p \in Procs : pc[p] = "using" => buf[p] \in valid
  /\ \A p \in Procs : pc[p] = "iderw" => ~Served(buf[p])

QueueInv == QueueOwned /\ \A i \in 1 .. Len(idequeue) : ~Served(idequeue[i])

BufInv == BufType /\ RefInv /\ OwnInv /\ BlockInv /\ FlagInv /\ QueueInv /\ BuffersInOrder

-----------------------------------------------------------------------------
LEMMA BufConstants == /\ NBUF \in Nat \ {0} /\ IsFiniteSet(Procs) /\ Bufs = 1 .. NBUF
                      /\ NoProc \notin Procs /\ NoBlock \notin Blocks /\ 1 \in Bufs
BY BufAssumption DEF Bufs

LEMMA UsersFinite == \A x : IsFiniteSet(Users(x)) /\ Cardinality(Users(x)) \in Nat
<1> SUFFICES ASSUME NEW x PROVE IsFiniteSet(Users(x)) /\ Cardinality(Users(x)) \in Nat
  BY Zenon
<1>1. Users(x) \in SUBSET Procs
  BY Zenon DEF Users
<1>2. IsFiniteSet(Users(x))
  BY <1>1, BufConstants, FS_Subset, Zenon
<1> QED
  BY <1>2, FS_CardinalityType, Zenon

\* A reference is held from bget to the end of brelse: steps in between count
\* nothing.
LEMMA RefsKept ==
  ASSUME RefInv, UNCHANGED <<refcnt, buf>>, \A q \in Procs : pc'[q] = "out" <=> pc[q] = "out"
  PROVE  RefInv'
<1>1. \A x : Users(x)' = Users(x)
  BY Zenon DEF Users
<1> QED
  BY <1>1, Zenon DEF RefInv

\* panic() changes nothing else.
LEMMA PanicStep ==
  ASSUME BufInv, NEW s, panic(s), s \in {"no", "bget"}
  PROVE  BufInv'
BY RefsKept DEF panic, BufInv, BufType, OwnInv, BlockInv, OneBufferPerBlock, FlagInv, Served, QueueInv, QueueOwned,
                BuffersInOrder, bcache, ide

-----------------------------------------------------------------------------
\* A process that only moves on, and has the lock of its buffer as before.
LEMMA MoveStep ==
  ASSUME BufInv, NEW p \in Procs, NEW l \in Places \ {"out", "iderw"},
         pc' = [pc EXCEPT ![p] = l], pc[p] # "out", pc[p] \in Holding <=> l \in Holding,
         UNCHANGED <<blockno, refcnt, lru, valid, dirty, data, owner, idequeue, disk, buf, panicked>>,
         l = "using" => Served(buf[p]),
         pc[p] \in {"disksleep", "iderw_loop"} => l \in {"disksleep", "iderw_loop", "using"}
  PROVE  BufInv'
<1>1. /\ pc \in [Procs -> Places] /\ buf \in [Procs -> Bufs] /\ owner \in [Bufs -> Procs \cup {NoProc}]
      /\ idequeue \in Seq(Bufs)
  BY Zenon DEF BufInv, BufType
<1>2. /\ pc' \in [Procs -> Places] /\ pc'[p] = l /\ \A q \in Procs : q # p => pc'[q] = pc[q]
  BY <1>1, Zenon
<1>3. BufType'
  BY <1>2, Zenon DEF BufInv, BufType
<1>4. RefInv'
  BY <1>2, RefsKept, Zenon DEF BufInv
<1>5. OwnInv'
  BY <1>1, <1>2 DEF BufInv, OwnInv
<1>6. BlockInv'
  BY <1>2, Zenon DEF BufInv, BlockInv, OneBufferPerBlock
<1>7. FlagInv'
  BY <1>2, Zenon DEF BufInv, FlagInv, Served
<1>8. QueueInv'
  BY <1>1, <1>2 DEF BufInv, QueueInv, QueueOwned, Served
<1> QED
  BY <1>3, <1>4, <1>5, <1>6, <1>7, <1>8, Zenon DEF BufInv, BuffersInOrder

\* acquiresleep: a free lock is taken, and bread looks at B_VALID.
LEMMA AcquireStep ==
  ASSUME BufInv, NEW p \in Procs, acquiresleep(p)
  PROVE  BufInv'
<1> PICK x \in Bufs : x = buf[p]
  BY Zenon DEF BufInv, BufType
<1>1. pc[p] = "acquiresleep" /\ UNCHANGED <<blockno, refcnt, lru, valid, dirty, data, idequeue, disk, buf, panicked>>
  BY Zenon DEF acquiresleep, bcache, ide
<1>2. CASE owner[x] # NoProc
  <2>1. pc' = [pc EXCEPT ![p] = "locksleep"] /\ owner' = owner
    BY <1>2, Zenon DEF acquiresleep, Goto
  <2>2. /\ "locksleep" \in Places \ {"out", "iderw"} /\ "locksleep" \notin Holding /\ pc[p] \notin Holding
        /\ "locksleep" # "using" /\ pc[p] # "out" /\ pc[p] \notin {"disksleep", "iderw_loop"}
    BY <1>1, Zenon DEF Places, Holding
  <2>3. UNCHANGED <<blockno, refcnt, lru, valid, dirty, data, owner, idequeue, disk, buf, panicked>>
    BY <1>1, <2>1, Zenon
  <2> QED
    BY <2>1, <2>2, <2>3, MoveStep, Zenon
<1>3. CASE owner[x] = NoProc
  <2>1. /\ pc \in [Procs -> Places] /\ buf \in [Procs -> Bufs] /\ owner \in [Bufs -> Procs \cup {NoProc}]
        /\ idequeue \in Seq(Bufs)
    BY Zenon DEF BufInv, BufType
  <2>2. PICK l \in {"using", "iderw"} : l = AfterLock(x)
    BY Zenon DEF AfterLock
  <2>3. owner' = [owner EXCEPT ![x] = p] /\ pc' = [pc EXCEPT ![p] = l]
    BY <1>3, <2>2, Zenon DEF acquiresleep, Goto
  <2>4. /\ pc' \in [Procs -> Places] /\ pc'[p] = l /\ \A q \in Procs : q # p => pc'[q] = pc[q]
        /\ owner' \in [Bufs -> Procs \cup {NoProc}] /\ owner'[x] = p /\ \A y \in Bufs : y # x => owner'[y] = owner[y]
    BY <2>1, <2>3, Zenon DEF Places, Holding
  <2>5. BufType'
    BY <1>1, <2>4, Zenon DEF BufInv, BufType
  <2>6. RefInv'
    BY <1>1, <2>4, RefsKept, Zenon DEF BufInv
  <2>7. OwnInv'
    <3>1. ASSUME NEW y \in Bufs, owner'[y] # NoProc PROVE pc'[owner'[y]] \in Holding /\ buf'[owner'[y]] = y
      <4>1. CASE y = x
        BY <1>1, <2>4, <4>1, Zenon DEF Holding
      <4>2. CASE y # x
        BY <1>1, <2>1, <2>4, <3>1, <4>2 DEF BufInv, OwnInv, Holding
      <4> QED
        BY <4>1, <4>2, Zenon
    <3>2. ASSUME NEW q \in Procs, pc'[q] \in Holding PROVE owner'[buf'[q]] = q
      <4>1. CASE q = p
        BY <1>1, <2>4, <4>1, Zenon
      <4>2. CASE q # p
        BY <1>1, <1>3, <2>1, <2>4, <3>2, <4>2, BufConstants DEF BufInv, OwnInv
      <4> QED
        BY <4>1, <4>2, Zenon
    <3> QED
      BY <3>1, <3>2, Zenon DEF OwnInv
  <2>8. BlockInv'
    BY <1>1, <2>4, Zenon DEF BufInv, BlockInv, OneBufferPerBlock
  <2>9. FlagInv'
    BY <1>1, <2>2, <2>4, Zenon DEF BufInv, FlagInv, Served, AfterLock
  <2>10. QueueInv'
    BY <1>1, <1>3, <2>1, <2>4 DEF BufInv, QueueInv, QueueOwned, Served
  <2> QED
    BY <1>1, <2>5, <2>6, <2>7, <2>8, <2>9, <2>10, Zenon DEF BufInv, BuffersInOrder
<1> QED
  BY <1>2, <1>3, Zenon

\* iderw: the buffer is not in the queue yet, since its owner is not waiting
\* for it.
LEMMA IderwStep ==
  ASSUME BufInv, NEW p \in Procs, iderw(p)
  PROVE  BufInv'
<1> PICK x \in Bufs : x = buf[p]
  BY Zenon DEF BufInv, BufType
<1>0. /\ pc \in [Procs -> Places] /\ buf \in [Procs -> Bufs] /\ owner \in [Bufs -> Procs \cup {NoProc}]
      /\ idequeue \in Seq(Bufs) /\ disk \in [Blocks -> Values] /\ data \in [Bufs -> Values]
  BY Zenon DEF BufInv, BufType
<1>1. pc[p] = "iderw" /\ owner[x] = p /\ ~Served(x)
  BY Zenon DEF iderw, BufInv, OwnInv, FlagInv, Holding
<1>2. /\ idequeue' = Append(idequeue, x) /\ pc' = [pc EXCEPT ![p] = "disksleep"]
      /\ disk' = disk \/ disk' = [disk EXCEPT ![blockno[x]] = data[x]]
      /\ UNCHANGED <<blockno, refcnt, lru, valid, dirty, data, owner, buf, panicked>>
  BY <1>1, Zenon DEF iderw, Goto, Served, idestart, bcache
<1>3. /\ pc' \in [Procs -> Places] /\ pc'[p] = "disksleep" /\ \A q \in Procs : q # p => pc'[q] = pc[q]
      /\ disk' \in [Blocks -> Values] /\ idequeue' \in Seq(Bufs)
      /\ Len(idequeue') = Len(idequeue) + 1 /\ idequeue'[Len(idequeue) + 1] = x
      /\ \A i \in 1 .. Len(idequeue) : idequeue'[i] = idequeue[i]
  <2>1. /\ pc' \in [Procs -> Places] /\ pc'[p] = "disksleep" /\ \A q \in Procs : q # p => pc'[q] = pc[q]
    BY <1>0, <1>2, Zenon DEF Places, Holding
  <2>2. disk' \in [Blocks -> Values]
    BY <1>0, <1>2, Zenon
  <2> QED
    BY <1>0, <1>2, <2>1, <2>2
<1>4. BufType'
  BY <1>2, <1>3, Zenon DEF BufInv, BufType
<1>5. RefInv'
  BY <1>1, <1>2, <1>3, RefsKept, Zenon DEF BufInv
<1>6. OwnInv'
  BY <1>0, <1>1, <1>2, <1>3 DEF BufInv, OwnInv, Holding
<1>7. BlockInv'
  BY <1>1, <1>2, <1>3 DEF BufInv, BlockInv, OneBufferPerBlock
<1>8. FlagInv'
  BY <1>2, <1>3, Zenon DEF BufInv, FlagInv, Served
<1>9. QueueInv'
  <2>1. \A i \in 1 .. Len(idequeue) : idequeue[i] # x
    BY <1>1, Zenon DEF BufInv, QueueInv, QueueOwned
  <2> QED
    BY <1>0, <1>1, <1>2, <1>3, <2>1, BufConstants DEF BufInv, QueueInv, QueueOwned, Served
<1> QED
  BY <1>2, <1>4, <1>5, <1>6, <1>7, <1>8, <1>9, Zenon DEF BufInv, BuffersInOrder

\* iderw's loop and kill() move a process that keeps what it has.
LEMMA LoopStep ==
  ASSUME BufInv, NEW p \in Procs, iderw_loop(p) \/ kill(p)
  PROVE  BufInv'
<1>1. UNCHANGED <<blockno, refcnt, lru, valid, dirty, data, owner, idequeue, disk, buf, panicked>>
  BY Zenon DEF iderw_loop, kill, bcache, ide
<1>2. CASE iderw_loop(p)
  <2>1. PICK l \in {"using", "disksleep"} : l = (IF Served(buf[p]) THEN "using" ELSE "disksleep")
    BY Zenon
  <2>2. /\ pc' = [pc EXCEPT ![p] = l] /\ l \in Places \ {"out", "iderw"} /\ l \in Holding /\ pc[p] \in Holding
        /\ pc[p] # "out" /\ (l = "using" => Served(buf[p])) /\ l \in {"disksleep", "iderw_loop", "using"}
    BY <1>2, <2>1, Zenon DEF iderw_loop, Goto, Places, Holding
  <2> QED
    BY <1>1, <2>2, MoveStep, Zenon
<1>3. CASE kill(p)
  <2>1. PICK l \in {"acquiresleep", "iderw_loop"} :
          /\ pc' = [pc EXCEPT ![p] = l]
          /\ l = "acquiresleep" => pc[p] = "locksleep"
          /\ l = "iderw_loop" => pc[p] = "disksleep"
    BY <1>3, Zenon DEF kill, Goto
  <2>2. /\ l \in Places \ {"out", "iderw"} /\ (pc[p] \in Holding <=> l \in Holding)
        /\ pc[p] # "out" /\ l # "using"
        /\ pc[p] \in {"disksleep", "iderw_loop"} => l \in {"disksleep", "iderw_loop", "using"}
    BY <2>1, Zenon DEF Places, Holding
  <2> QED
    BY <1>1, <2>1, <2>2, MoveStep, Zenon
<1> QED
  BY <1>2, <1>3, Zenon

\* ideintr: the head's owner is asleep for it or about to look; nobody else has
\* it locked.
LEMMA IntrStep ==
  ASSUME BufInv, NEW error \in BOOLEAN, ideintr(error)
  PROVE  BufInv'
<1> DEFINE x == idequeue[1]
           o == owner[x]
<1>0. /\ pc \in [Procs -> Places] /\ buf \in [Procs -> Bufs] /\ owner \in [Bufs -> Procs \cup {NoProc}]
      /\ idequeue \in Seq(Bufs) /\ disk \in [Blocks -> Values] /\ data \in [Bufs -> Values]
  BY Zenon DEF BufInv, BufType
<1>1. Len(idequeue) \in Nat \ {0} /\ x \in Bufs /\ x = Head(idequeue)
  BY <1>0 DEF ideintr
<1>2. /\ valid' = valid \cup {x} /\ dirty' = dirty \ {x} /\ idequeue' = Tail(idequeue)
      /\ UNCHANGED <<blockno, refcnt, lru, owner, buf, panicked>>
      /\ pc' = [q \in Procs |-> IF pc[q] = "disksleep" /\ buf[q] = x THEN "iderw_loop" ELSE pc[q]]
  BY <1>1, Zenon DEF ideintr, Wakeup, bcache
<1>3. o \in Procs /\ buf[o] = x /\ pc[o] \in {"disksleep", "iderw_loop"} /\ blockno[x] \in Blocks
  <2>1. o \in Procs /\ buf[o] = x /\ pc[o] \in {"disksleep", "iderw_loop"}
    BY <1>0, <1>1 DEF BufInv, QueueInv, QueueOwned
  <2> QED
    BY <2>1, Zenon DEF BufInv, BlockInv
<1>4. data' \in [Bufs -> Values]
  <2>1. data' = data \/ data' = [data EXCEPT ![x] = disk[blockno[x]]]
    BY <1>1, Zenon DEF ideintr
  <2> QED
    BY <1>0, <1>1, <1>3, <2>1, Zenon
<1>5. disk' \in [Blocks -> Values]
  <2>1. CASE Len(idequeue) > 1
    <3>1. idequeue[2] \in Bufs
      BY <1>0, <2>1
    <3>2. disk' = disk \/ disk' = [disk EXCEPT ![blockno[idequeue[2]]] = data[idequeue[2]]]
      BY <2>1, Zenon DEF ideintr, idestart
    <3> QED
      BY <1>0, <3>1, <3>2, Zenon
  <2>2. CASE ~(Len(idequeue) > 1)
    BY <1>0, <2>2, Zenon DEF ideintr
  <2> QED
    BY <2>1, <2>2, Zenon
<1>6. /\ pc' \in [Procs -> Places]
      /\ \A q \in Procs : pc'[q] = pc[q] \/ (pc[q] = "disksleep" /\ pc'[q] = "iderw_loop")
  <2>1. \A q \in Procs : pc'[q] = pc[q] \/ (pc[q] = "disksleep" /\ pc'[q] = "iderw_loop")
    BY <1>2, Zenon
  <2>2. pc' = [q \in Procs |-> pc'[q]] /\ \A q \in Procs : pc'[q] \in Places
    BY <1>0, <1>2, <2>1, Zenon DEF Places, Holding
  <2> QED
    BY <2>1, <2>2, Zenon
<1>7. /\ idequeue' \in Seq(Bufs) /\ Len(idequeue') = Len(idequeue) - 1
      /\ \A i \in 1 .. Len(idequeue') : idequeue'[i] = idequeue[i + 1]
  BY <1>0, <1>1, <1>2
<1> HIDE DEF x, o
<1>8. BufType'
  BY <1>1, <1>2, <1>4, <1>5, <1>6, <1>7, Zenon DEF BufInv, BufType
<1>9. RefInv'
  BY <1>2, <1>6, RefsKept, Zenon DEF BufInv
<1>10. OwnInv'
  BY <1>0, <1>2, <1>6 DEF BufInv, OwnInv, Holding
<1>11. BlockInv'
  BY <1>2, <1>3, <1>6, Zenon DEF BufInv, BlockInv, OneBufferPerBlock
<1>12. FlagInv'
  <2>1. ASSUME NEW q \in Procs, pc'[q] = "using" PROVE buf'[q] \in valid'
    BY <1>2, <1>6, <2>1, Zenon DEF BufInv, FlagInv
  <2>2. ASSUME NEW q \in Procs, pc'[q] = "iderw" PROVE ~Served(buf[q])'
    <3>1. pc[q] = "iderw" /\ owner[buf[q]] = q
      BY <1>6, <2>2 DEF BufInv, OwnInv, Holding
    <3>2. buf[q] # x
      BY <1>3, <3>1, Zenon DEF o
    <3> QED
      BY <1>2, <3>1, <3>2, Zenon DEF BufInv, FlagInv, Served
  <2> QED
    BY <2>1, <2>2, Zenon DEF FlagInv, Served
<1>13. QueueInv'
  <2>1. \A i \in 2 .. Len(idequeue) : idequeue[i] # x
    BY <1>1 DEF BufInv, QueueInv, QueueOwned, x
  <2>2. \A i \in 1 .. Len(idequeue') : i + 1 \in 2 .. Len(idequeue)
    BY <1>1, <1>7
  <2>3. ASSUME NEW i \in 1 .. Len(idequeue')
        PROVE  /\ ~Served(idequeue[i])'
               /\ owner'[idequeue'[i]] # NoProc /\ buf'[owner'[idequeue'[i]]] = idequeue'[i]
               /\ pc'[owner'[idequeue'[i]]] \in {"disksleep", "iderw_loop"}
    <3> PICK j \in 2 .. Len(idequeue) : j = i + 1
      BY <2>2, Zenon
    <3> PICK y \in Bufs : y = idequeue[j]
      BY <1>0, <1>1
    <3>1. idequeue'[i] = y /\ y # x
      BY <1>7, <2>1, Zenon
    <3>2. /\ ~Served(y) /\ owner[y] \in Procs /\ buf[owner[y]] = y /\ pc[owner[y]] \in {"disksleep", "iderw_loop"}
      BY <1>0, <1>1 DEF BufInv, QueueInv, QueueOwned
    <3>3. ~Served(y)'
      BY <1>2, <3>1, <3>2, Zenon DEF Served
    <3> QED
      BY <1>0, <1>2, <1>6, <3>1, <3>2, <3>3, BufConstants
  <2>4. ASSUME NEW i \in 1 .. Len(idequeue'), NEW j \in 1 .. Len(idequeue'), i # j PROVE idequeue'[i] # idequeue'[j]
    BY <1>1, <1>7, <2>4 DEF BufInv, QueueInv, QueueOwned
  <2> QED
    BY <2>3, <2>4, Zenon DEF QueueInv, QueueOwned
<1> QED
  BY <1>2, <1>8, <1>9, <1>10, <1>11, <1>12, <1>13, Zenon DEF BufInv, BuffersInOrder

\* bwrite and log_write: the holder's buffer is valid, is not in the queue and
\* has work for the disk from here on.
LEMMA WriteStep ==
  ASSUME BufInv, NEW p \in Procs, NEW v \in Values, bwrite(p, v) \/ log_write(p, v)
  PROVE  BufInv'
<1> PICK x \in Bufs : x = buf[p]
  BY Zenon DEF BufInv, BufType
<1>0. /\ pc \in [Procs -> Places] /\ buf \in [Procs -> Bufs] /\ owner \in [Bufs -> Procs \cup {NoProc}]
      /\ idequeue \in Seq(Bufs) /\ data \in [Bufs -> Values]
  BY Zenon DEF BufInv, BufType
<1>1. /\ pc[p] = "using" /\ x \in valid /\ dirty' = dirty \cup {x} /\ data' = [data EXCEPT ![x] = v]
      /\ UNCHANGED <<blockno, refcnt, lru, valid, owner, idequeue, disk, buf, panicked>>
  BY Zenon DEF bwrite, log_write, bcache, ide, BufInv, FlagInv
<1>2. pc' = pc \/ pc' = [pc EXCEPT ![p] = "iderw"]
  BY Zenon DEF bwrite, log_write, Goto
<1>3. /\ pc' \in [Procs -> Places] /\ pc'[p] \in {"using", "iderw"} /\ \A q \in Procs : q # p => pc'[q] = pc[q]
  BY <1>0, <1>1, <1>2, Zenon DEF Places, Holding
<1>4. BufType'
  <2>1. data' \in [Bufs -> Values]
    BY <1>0, <1>1, Zenon
  <2> QED
    BY <1>1, <1>3, <2>1, Zenon DEF BufInv, BufType
<1>5. RefInv'
  BY <1>1, <1>3, RefsKept, Zenon DEF BufInv
<1>6. OwnInv'
  BY <1>0, <1>1, <1>3 DEF BufInv, OwnInv, Holding
<1>7. BlockInv'
  BY <1>1, <1>3, Zenon DEF BufInv, BlockInv, OneBufferPerBlock
<1>8. FlagInv'
  BY <1>1, <1>3, Zenon DEF BufInv, FlagInv, Served
<1>9. QueueInv'
  BY <1>0, <1>1, <1>3 DEF BufInv, QueueInv, QueueOwned, Served
<1> QED
  BY <1>1, <1>4, <1>5, <1>6, <1>7, <1>8, <1>9, Zenon DEF BufInv, BuffersInOrder

\* brelse's first half: the lock is the caller's, and its buffer is not in the
\* queue.
LEMMA UnlockStep ==
  ASSUME BufInv, NEW p \in Procs, brelse_unlock(p)
  PROVE  BufInv'
<1> PICK x \in Bufs : x = buf[p]
  BY Zenon DEF BufInv, BufType
<1>0. /\ pc \in [Procs -> Places] /\ buf \in [Procs -> Bufs] /\ owner \in [Bufs -> Procs \cup {NoProc}]
      /\ idequeue \in Seq(Bufs)
  BY Zenon DEF BufInv, BufType
<1>1. pc[p] = "using" /\ owner[x] = p
  BY Zenon DEF brelse_unlock, BufInv, OwnInv, Holding
<1>2. /\ owner' = [owner EXCEPT ![x] = NoProc]
      /\ pc' = [q \in Procs |-> IF q = p THEN "unref"
                                ELSE IF pc[q] = "locksleep" /\ buf[q] = x THEN "acquiresleep"
                                ELSE pc[q]]
      /\ UNCHANGED <<blockno, refcnt, lru, valid, dirty, data, idequeue, disk, buf, panicked>>
  BY <1>1, Zenon DEF brelse_unlock, Releasesleep, bcache, ide
<1>3. /\ pc'[p] = "unref"
      /\ \A q \in Procs : q # p => pc'[q] = pc[q] \/ (pc[q] = "locksleep" /\ pc'[q] = "acquiresleep")
  BY <1>2, Zenon
<1>4. pc' \in [Procs -> Places]
  <2>1. pc' = [q \in Procs |-> pc'[q]] /\ \A q \in Procs : pc'[q] \in Places
    BY <1>0, <1>2, <1>3, Zenon DEF Places, Holding
  <2> QED
    BY <2>1, Zenon
<1>5. /\ owner' \in [Bufs -> Procs \cup {NoProc}] /\ owner'[x] = NoProc
      /\ \A y \in Bufs : y # x => owner'[y] = owner[y]
  BY <1>0, <1>2, Zenon
<1>6. BufType'
  BY <1>2, <1>4, <1>5, Zenon DEF BufInv, BufType
<1>7. RefInv'
  BY <1>1, <1>2, <1>3, RefsKept, Zenon DEF BufInv
<1>8. OwnInv'
  <2>1. ASSUME NEW y \in Bufs, owner'[y] # NoProc PROVE pc'[owner'[y]] \in Holding /\ buf'[owner'[y]] = y
    <3>1. y # x /\ owner'[y] = owner[y] /\ owner[y] \in Procs
      BY <1>0, <1>5, <2>1, Zenon
    <3>2. pc[owner[y]] \in Holding /\ buf[owner[y]] = y
      BY <2>1, <3>1, Zenon DEF BufInv, OwnInv
    <3>3. owner[y] # p
      BY <3>1, <3>2, Zenon
    <3> QED
      BY <1>2, <1>3, <3>1, <3>2, <3>3, Zenon DEF Holding
  <2>2. ASSUME NEW q \in Procs, pc'[q] \in Holding PROVE owner'[buf'[q]] = q
    <3>1. q # p /\ pc[q] \in Holding
      BY <1>3, <2>2, Zenon DEF Holding
    <3>2. owner[buf[q]] = q
      BY <3>1, Zenon DEF BufInv, OwnInv
    <3>3. buf[q] # x
      BY <1>1, <3>1, <3>2, Zenon
    <3> QED
      BY <1>0, <1>2, <1>5, <3>2, <3>3, Zenon
  <2> QED
    BY <2>1, <2>2, Zenon DEF OwnInv
<1>9. BlockInv'
  BY <1>1, <1>2, <1>3, Zenon DEF BufInv, BlockInv, OneBufferPerBlock
<1>10. FlagInv'
  BY <1>2, <1>3, ZenonT(60) DEF BufInv, FlagInv, Served
<1>11. QueueInv'
  <2>1. ASSUME NEW i \in 1 .. Len(idequeue)
        PROVE  /\ owner'[idequeue[i]] # NoProc /\ buf[owner'[idequeue[i]]] = idequeue[i]
               /\ pc'[owner'[idequeue[i]]] \in {"disksleep", "iderw_loop"}
    <3> PICK y \in Bufs : y = idequeue[i]
      BY <1>0
    <3>1. owner[y] \in Procs /\ buf[owner[y]] = y /\ pc[owner[y]] \in {"disksleep", "iderw_loop"}
      BY <1>0 DEF BufInv, QueueInv, QueueOwned
    <3>2. owner[y] # p /\ y # x
      BY <1>1, <3>1, Zenon
    <3> QED
      BY <1>3, <1>5, <3>1, <3>2, BufConstants, ZenonT(60)
  <2> QED
    BY <1>2, <2>1 DEF BufInv, QueueInv, QueueOwned, Served
<1> QED
  BY <1>2, <1>6, <1>7, <1>8, <1>9, <1>10, <1>11, Zenon DEF BufInv, BuffersInOrder

-----------------------------------------------------------------------------
\* Moving a buffer to the front of the list loses none.
LEMMA FrontOnto ==
  ASSUME lru \in [Bufs -> Bufs], \A y \in Bufs : \E i \in Bufs : lru[i] = y, NEW x \in Bufs
  PROVE  ToFront(x) \in [Bufs -> Bufs] /\ \A y \in Bufs : \E i \in Bufs : ToFront(x)[i] = y
<1> DEFINE i == CHOOSE k \in Bufs : lru[k] = x
<1>1. i \in Bufs /\ lru[i] = x
  BY Zenon
<1>2. ToFront(x) = [k \in Bufs |-> IF k = 1 THEN x ELSE IF k <= i THEN lru[k - 1] ELSE lru[k]]
  BY Zenon DEF ToFront
<1> HIDE DEF i
<1>3. \A k \in Bufs : k # 1 => k - 1 \in Bufs
  BY BufConstants
<1>4. ToFront(x) \in [Bufs -> Bufs]
  BY <1>2, <1>3
<1>5. ASSUME NEW y \in Bufs PROVE \E k \in Bufs : ToFront(x)[k] = y
  <2> PICK j \in Bufs : lru[j] = y
    BY Zenon
  <2>1. CASE y = x
    BY <1>2, <2>1, BufConstants
  <2>2. CASE y # x /\ j < i
    <3>1. j + 1 \in Bufs /\ j + 1 # 1 /\ j + 1 <= i /\ (j + 1) - 1 = j
      BY <1>1, <2>2, BufConstants
    <3> QED
      BY <1>2, <3>1, ZenonT(60)
  <2>3. CASE y # x /\ ~(j < i)
    <3>0. j # i
      BY <1>1, <2>3, Zenon
    <3>1. j # 1 /\ ~(j <= i)
      BY <1>1, <2>3, <3>0, BufConstants
    <3> QED
      BY <1>2, <3>1, Zenon
  <2> QED
    BY <2>1, <2>2, <2>3, Zenon
<1> QED
  BY <1>4, <1>5, Zenon

\* bget and the second half of brelse leave the processes that have a lock, and
\* their buffers, as they are.
LEMMA OwnersKept ==
  ASSUME BufInv, UNCHANGED <<owner, idequeue>>,
         \A q \in Procs : pc[q] \in Holding \/ pc'[q] \in Holding => pc'[q] = pc[q] /\ buf'[q] = buf[q],
         \A y \in Bufs : owner[y] # NoProc => (y \in valid' <=> y \in valid) /\ (y \in dirty' <=> y \in dirty)
  PROVE  OwnInv' /\ FlagInv' /\ QueueInv'
<1>0. /\ pc \in [Procs -> Places] /\ buf \in [Procs -> Bufs] /\ owner \in [Bufs -> Procs \cup {NoProc}]
      /\ idequeue \in Seq(Bufs)
  BY Zenon DEF BufInv, BufType
<1>1. OwnInv'
  <2>1. ASSUME NEW y \in Bufs, owner[y] # NoProc PROVE pc'[owner[y]] \in Holding /\ buf'[owner[y]] = y
    <3>1. owner[y] \in Procs /\ pc[owner[y]] \in Holding /\ buf[owner[y]] = y
      BY <1>0, <2>1 DEF BufInv, OwnInv
    <3> QED
      BY <3>1, Zenon
  <2>2. ASSUME NEW q \in Procs, pc'[q] \in Holding PROVE owner[buf'[q]] = q
    BY <2>2, Zenon DEF BufInv, OwnInv
  <2> QED
    BY <2>1, <2>2, Zenon DEF OwnInv
<1>2. FlagInv'
  <2>1. ASSUME NEW q \in Procs, pc'[q] \in {"using", "iderw"}
        PROVE  (pc'[q] = "using" => buf'[q] \in valid') /\ (pc'[q] = "iderw" => ~Served(buf[q])')
    <3>1. pc'[q] = pc[q] /\ buf'[q] = buf[q] /\ pc[q] \in Holding
      BY <2>1, Zenon DEF Holding
    <3>2. owner[buf[q]] = q
      BY <3>1, Zenon DEF BufInv, OwnInv
    <3>3. owner[buf[q]] # NoProc /\ buf[q] \in Bufs
      BY <1>0, <3>2, BufConstants, Zenon
    <3>4. (buf[q] \in valid' <=> buf[q] \in valid) /\ (buf[q] \in dirty' <=> buf[q] \in dirty)
      BY <3>3, Zenon
    <3>5. (pc[q] = "using" => buf[q] \in valid) /\ (pc[q] = "iderw" => ~Served(buf[q]))
      BY Zenon DEF BufInv, FlagInv
    <3> QED
      BY <3>1, <3>4, <3>5, Zenon DEF Served
  <2> QED
    BY <2>1, Zenon DEF FlagInv, Served
<1>3. QueueInv'
  <2>1. ASSUME NEW i \in 1 .. Len(idequeue)
        PROVE  /\ owner[idequeue[i]] # NoProc /\ buf'[owner[idequeue[i]]] = idequeue[i]
               /\ pc'[owner[idequeue[i]]] \in {"disksleep", "iderw_loop"}
               /\ ~(idequeue[i] \in valid' /\ idequeue[i] \notin dirty')
    <3> PICK y \in Bufs : y = idequeue[i]
      BY <1>0
    <3>1. /\ owner[y] \in Procs /\ buf[owner[y]] = y /\ pc[owner[y]] \in {"disksleep", "iderw_loop"} /\ ~Served(y)
          /\ owner[y] # NoProc
      BY <1>0 DEF BufInv, QueueInv, QueueOwned
    <3>2. pc'[owner[y]] = pc[owner[y]] /\ buf'[owner[y]] = buf[owner[y]]
      BY <3>1, Zenon DEF Holding
    <3>3. ~(y \in valid' /\ y \notin dirty')
      BY <3>1, Zenon DEF Served
    <3> QED
      BY <3>1, <3>2, <3>3, Zenon
  <2> QED
    BY <2>1 DEF BufInv, QueueInv, QueueOwned, Served
<1> QED
  BY <1>1, <1>2, <1>3, Zenon

\* brelse's second half gives up one reference.
LEMMA UnrefStep ==
  ASSUME BufInv, NEW p \in Procs, brelse_unref(p)
  PROVE  BufInv'
<1> PICK x \in Bufs : x = buf[p]
  BY Zenon DEF BufInv, BufType
<1>0. /\ pc \in [Procs -> Places] /\ buf \in [Procs -> Bufs] /\ owner \in [Bufs -> Procs \cup {NoProc}]
      /\ idequeue \in Seq(Bufs) /\ disk \in [Blocks -> Values] /\ data \in [Bufs -> Values]
      /\ blockno \in [Bufs -> Blocks \cup {NoBlock}] /\ refcnt \in [Bufs -> Nat] /\ valid \subseteq Bufs /\ dirty \subseteq valid
      /\ lru \in [Bufs -> Bufs] /\ \A y \in Bufs : \E k \in Bufs : lru[k] = y
  BY Zenon DEF BufInv, BufType
<1>1. /\ pc[p] = "unref" /\ refcnt' = [refcnt EXCEPT ![x] = refcnt[x] - 1]
      /\ lru' = ToFront(x) \/ lru' = lru
      /\ pc' = [pc EXCEPT ![p] = "out"] /\ buf' = [buf EXCEPT ![p] = 1]
      /\ UNCHANGED <<blockno, valid, dirty, data, owner, idequeue, disk, panicked>>
  BY Zenon DEF brelse_unref, Unref, Goto, ide
<1>2. /\ pc' \in [Procs -> Places] /\ pc'[p] = "out" /\ \A q \in Procs : q # p => pc'[q] = pc[q]
  BY <1>0, <1>1, Zenon DEF Places
<1>3. /\ buf' \in [Procs -> Bufs] /\ \A q \in Procs : q # p => buf'[q] = buf[q]
  BY <1>0, <1>1, BufConstants, Zenon
<1>4. /\ refcnt' \in [Bufs -> Nat] /\ refcnt'[x] = refcnt[x] - 1
      /\ \A y \in Bufs : y # x => refcnt'[y] = refcnt[y]
  <2>1. p \in Users(x)
    BY <1>1, Zenon DEF Users
  <2>2. Cardinality(Users(x)) # 0
    BY <2>1, UsersFinite, FS_EmptySet, Zenon
  <2>3. refcnt[x] - 1 \in Nat
    BY <1>0, <2>2 DEF BufInv, RefInv
  <2> QED
    BY <1>0, <1>1, <2>3, Zenon
<1>5. RefInv'
  <2>1. Users(x)' = Users(x) \ {p} /\ p \in Users(x)
    BY <1>1, <1>2, <1>3, Zenon DEF Users
  <2>2. \A y \in Bufs : y # x => Users(y)' = Users(y)
    BY <1>1, <1>2, <1>3, Zenon DEF Users
  <2>3. Cardinality(Users(x) \ {p}) = Cardinality(Users(x)) - 1
    <3>1. IsFiniteSet(Users(x))
      BY UsersFinite, Zenon
    <3> QED
      BY <2>1, <3>1, FS_RemoveElement, Zenon
  <2>4. \A y \in Bufs : refcnt[y] = Cardinality(Users(y))
    BY Zenon DEF BufInv, RefInv
  <2>5. ASSUME NEW y \in Bufs PROVE refcnt'[y] = Cardinality(Users(y)')
    <3>1. CASE y = x
      BY <1>4, <2>1, <2>3, <2>4, <3>1, Zenon
    <3>2. CASE y # x
      BY <1>4, <2>2, <2>4, <3>2, Zenon
    <3> QED
      BY <3>1, <3>2, Zenon
  <2> QED
    BY <2>5, Zenon DEF RefInv
<1>6. BufType'
  <2>0. /\ blockno' \in [Bufs -> Blocks \cup {NoBlock}] /\ data' \in [Bufs -> Values] /\ disk' \in [Blocks -> Values]
        /\ valid' \subseteq Bufs /\ dirty' \subseteq valid' /\ owner' \in [Bufs -> Procs \cup {NoProc}] /\ idequeue' \in Seq(Bufs)
    BY <1>0, <1>1, Zenon
  <2>1. CASE lru' = ToFront(x)
    <3>1. lru' \in [Bufs -> Bufs] /\ \A y \in Bufs : \E k \in Bufs : lru'[k] = y
      BY <1>0, <2>1, FrontOnto, ZenonT(60)
    <3> QED
      BY <1>2, <1>3, <1>4, <2>0, <3>1, Zenon DEF BufType
  <2>2. CASE lru' = lru
    <3>1. lru' \in [Bufs -> Bufs] /\ \A y \in Bufs : \E k \in Bufs : lru'[k] = y
      BY <1>0, <2>2, Zenon
    <3> QED
      BY <1>2, <1>3, <1>4, <2>0, <3>1, Zenon DEF BufType
  <2> QED
    BY <1>1, <2>1, <2>2, Zenon
<1>7. OwnInv' /\ FlagInv' /\ QueueInv'
  BY <1>1, <1>2, <1>3, OwnersKept, Zenon DEF Holding
<1>8. BlockInv'
  BY <1>1, <1>2, <1>3, Zenon DEF BufInv, BlockInv, OneBufferPerBlock
<1> QED
  BY <1>1, <1>5, <1>6, <1>7, <1>8, Zenon DEF BufInv, BuffersInOrder

\* bget finds the block: one more reference.
LEMMA FoundStep ==
  ASSUME BufInv, NEW p \in Procs, NEW b \in Blocks, pc[p] = "out", NEW i \in Cached(b), Found(p, i)
  PROVE  BufInv'
<1>0. /\ pc \in [Procs -> Places] /\ buf \in [Procs -> Bufs] /\ owner \in [Bufs -> Procs \cup {NoProc}]
      /\ idequeue \in Seq(Bufs) /\ disk \in [Blocks -> Values] /\ data \in [Bufs -> Values]
      /\ blockno \in [Bufs -> Blocks \cup {NoBlock}] /\ refcnt \in [Bufs -> Nat] /\ valid \subseteq Bufs /\ dirty \subseteq valid
      /\ lru \in [Bufs -> Bufs]
  BY DEF BufInv, BufType
<1>onto. \A y \in Bufs : \E k \in Bufs : lru[k] = y
  BY Zenon DEF BufInv, BufType
<1> PICK x \in Bufs : x = lru[i] /\ blockno[x] = b
  BY <1>0, Zenon DEF Cached
<1>1. /\ refcnt' = [refcnt EXCEPT ![x] = refcnt[x] + 1]
      /\ pc' = [pc EXCEPT ![p] = "acquiresleep"] /\ buf' = [buf EXCEPT ![p] = x]
      /\ UNCHANGED <<blockno, valid, dirty, lru, data, owner, idequeue, disk, panicked>>
  BY Zenon DEF Found, Goto, ide
<1>2. /\ pc' \in [Procs -> Places] /\ pc'[p] = "acquiresleep" /\ \A q \in Procs : q # p => pc'[q] = pc[q]
  BY <1>0, <1>1, Zenon DEF Places
<1>3. /\ buf' \in [Procs -> Bufs] /\ buf'[p] = x /\ \A q \in Procs : q # p => buf'[q] = buf[q]
  BY <1>0, <1>1, Zenon
<1>4. /\ refcnt' \in [Bufs -> Nat] /\ refcnt'[x] = refcnt[x] + 1
      /\ \A y \in Bufs : y # x => refcnt'[y] = refcnt[y]
  <2>1. refcnt \in [Bufs -> Nat]
    BY <1>0, Zenon
  <2> QED
    BY <1>1, <2>1
<1>5. RefInv'
  <2>1. Users(x)' = Users(x) \cup {p} /\ p \notin Users(x)
    BY <1>1, <1>2, <1>3, Zenon DEF Users
  <2>2. \A y \in Bufs : y # x => Users(y)' = Users(y)
    BY <1>1, <1>2, <1>3, Zenon DEF Users
  <2>3. Cardinality(Users(x) \cup {p}) = Cardinality(Users(x)) + 1
    <3>1. IsFiniteSet(Users(x))
      BY UsersFinite, Zenon
    <3> QED
      BY <2>1, <3>1, FS_AddElement, Zenon
  <2> QED
    BY <1>4, <2>1, <2>2, <2>3, Zenon DEF BufInv, RefInv
<1>6. BufType'
  <2>1. /\ blockno' \in [Bufs -> Blocks \cup {NoBlock}] /\ data' \in [Bufs -> Values] /\ disk' \in [Blocks -> Values]
        /\ valid' \subseteq Bufs /\ dirty' \subseteq valid' /\ owner' \in [Bufs -> Procs \cup {NoProc}] /\ idequeue' \in Seq(Bufs)
    BY <1>0, <1>1, Zenon
  <2>2. lru' \in [Bufs -> Bufs] /\ \A y \in Bufs : \E k \in Bufs : lru'[k] = y
    <3>1. lru' = lru
      BY <1>1, Zenon
    <3> QED
      BY <1>0, <1>onto, <3>1, ZenonT(60)
  <2> QED
    BY <1>2, <1>3, <1>4, <2>1, <2>2, ZenonT(60) DEF BufType
<1>7. OwnInv' /\ FlagInv' /\ QueueInv'
  BY <1>1, <1>2, <1>3, OwnersKept, Zenon DEF Holding
<1>8. BlockInv'
  BY <1>1, <1>2, <1>3 DEF BufInv, BlockInv, OneBufferPerBlock
<1> QED
  BY <1>1, <1>5, <1>6, <1>7, <1>8, Zenon DEF BufInv, BuffersInOrder

\* bget recycles a buffer: nobody refers to it, so it is not locked, not queued
\* and not dirty, and its new block has no buffer.
LEMMA RecycledStep ==
  ASSUME BufInv, NEW p \in Procs, NEW b \in Blocks, pc[p] = "out", Cached(b) = {},
         NEW i \in Recyclable, Recycled(p, b, i)
  PROVE  BufInv'
<1>0. /\ pc \in [Procs -> Places] /\ buf \in [Procs -> Bufs] /\ owner \in [Bufs -> Procs \cup {NoProc}]
      /\ idequeue \in Seq(Bufs) /\ disk \in [Blocks -> Values] /\ data \in [Bufs -> Values]
      /\ blockno \in [Bufs -> Blocks \cup {NoBlock}] /\ refcnt \in [Bufs -> Nat] /\ valid \subseteq Bufs /\ dirty \subseteq valid
      /\ lru \in [Bufs -> Bufs]
  BY DEF BufInv, BufType
<1>onto. \A y \in Bufs : \E k \in Bufs : lru[k] = y
  BY Zenon DEF BufInv, BufType
<1> PICK x \in Bufs : x = lru[i] /\ refcnt[x] = 0 /\ x \notin dirty
  BY <1>0, Zenon DEF Recyclable
<1>1. /\ refcnt' = [refcnt EXCEPT ![x] = 1] /\ blockno' = [blockno EXCEPT ![x] = b]
      /\ valid' = valid \ {x} /\ dirty' = dirty \ {x}
      /\ pc' = [pc EXCEPT ![p] = "acquiresleep"] /\ buf' = [buf EXCEPT ![p] = x]
      /\ UNCHANGED <<lru, data, owner, idequeue, disk, panicked>>
  BY Zenon DEF Recycled, Goto, ide
<1>2. /\ pc' \in [Procs -> Places] /\ pc'[p] = "acquiresleep" /\ \A q \in Procs : q # p => pc'[q] = pc[q]
  BY <1>0, <1>1, Zenon DEF Places
<1>3. /\ buf' \in [Procs -> Bufs] /\ buf'[p] = x /\ \A q \in Procs : q # p => buf'[q] = buf[q]
  BY <1>0, <1>1, Zenon
<1>4. /\ refcnt' \in [Bufs -> Nat] /\ refcnt'[x] = 1 /\ \A y \in Bufs : y # x => refcnt'[y] = refcnt[y]
  <2>1. refcnt \in [Bufs -> Nat]
    BY <1>0, Zenon
  <2> QED
    BY <1>1, <2>1, Zenon
<1>5. /\ blockno' \in [Bufs -> Blocks \cup {NoBlock}] /\ blockno'[x] = b
      /\ \A y \in Bufs : y # x => blockno'[y] = blockno[y]
  BY <1>0, <1>1, Zenon
<1>6. Users(x) = {} /\ \A y \in Bufs : refcnt[y] = Cardinality(Users(y))
  <2>1. \A y \in Bufs : refcnt[y] = Cardinality(Users(y))
    BY Zenon DEF BufInv, RefInv
  <2>2. Cardinality(Users(x)) = 0
    BY <2>1, Zenon
  <2> QED
    BY <2>1, <2>2, UsersFinite, FS_EmptySet, ZenonT(60)
<1>7. \A q \in Procs : buf[q] = x => pc[q] = "out"
  BY <1>6, Zenon DEF Users
<1>8. owner[x] = NoProc
  <2> SUFFICES ASSUME owner[x] # NoProc PROVE FALSE
    BY Zenon
  <2>1. owner[x] \in Procs /\ pc[owner[x]] \in Holding /\ buf[owner[x]] = x
    BY <1>0 DEF BufInv, OwnInv
  <2> QED
    BY <1>7, <2>1, Zenon DEF Holding
<1>9. RefInv'
  <2>1. Users(x)' = {p}
    BY <1>2, <1>3, <1>7, Zenon DEF Users
  <2>2. \A y \in Bufs : y # x => Users(y)' = Users(y)
    BY <1>2, <1>3, Zenon DEF Users
  <2>3. ASSUME NEW y \in Bufs PROVE refcnt'[y] = Cardinality(Users(y)')
    <3>1. CASE y = x
      BY <1>4, <2>1, <3>1, FS_Singleton, ZenonT(60)
    <3>2. CASE y # x
      BY <1>4, <1>6, <2>2, <3>2, Zenon
    <3> QED
      BY <3>1, <3>2, Zenon
  <2> QED
    BY <2>3, ZenonT(60) DEF RefInv
<1>10. BufType'
  <2>1. /\ data' \in [Bufs -> Values] /\ disk' \in [Blocks -> Values]
        /\ valid' \subseteq Bufs /\ dirty' \subseteq valid' /\ owner' \in [Bufs -> Procs \cup {NoProc}] /\ idequeue' \in Seq(Bufs)
    BY <1>0, <1>1, Zenon
  <2>2. lru' \in [Bufs -> Bufs] /\ \A y \in Bufs : \E k \in Bufs : lru'[k] = y
    <3>1. lru' = lru
      BY <1>1, Zenon
    <3> QED
      BY <1>0, <1>onto, <3>1, ZenonT(60)
  <2> QED
    BY <1>2, <1>3, <1>4, <1>5, <2>1, <2>2, ZenonT(60) DEF BufType
<1>11. OwnInv' /\ FlagInv' /\ QueueInv'
  BY <1>1, <1>2, <1>3, <1>8, OwnersKept, Zenon DEF Holding
<1>12. BlockInv'
  <2>1. \A y \in Bufs : blockno[y] # b
    BY <1>onto, Zenon DEF Cached
  <2>2. OneBufferPerBlock'
    BY <1>5, <2>1 DEF BufInv, BlockInv, OneBufferPerBlock
  <2>3. \A q \in Procs : pc'[q] # "out" => blockno'[buf'[q]] \in Blocks
    <3> TAKE q \in Procs
    <3> HAVE pc'[q] # "out"
    <3>1. CASE q = p
      BY <1>3, <1>5, <3>1, Zenon
    <3>2. CASE q # p
      <4>1. pc[q] # "out" /\ buf'[q] = buf[q] /\ buf[q] \in Bufs
        BY <1>0, <1>2, <1>3, <3>2, Zenon
      <4>2. buf[q] # x /\ blockno[buf[q]] \in Blocks
        BY <1>7, <4>1, Zenon DEF BufInv, BlockInv
      <4> QED
        BY <1>5, <4>1, <4>2, Zenon
    <3> QED
      BY <3>1, <3>2, Zenon
  <2>4. \A y \in valid' : blockno'[y] \in Blocks
    BY <1>0, <1>1, <1>5, Zenon DEF BufInv, BlockInv
  <2> QED
    BY <2>2, <2>3, <2>4, Zenon DEF BlockInv
<1> QED
  BY <1>1, <1>9, <1>10, <1>11, <1>12, Zenon DEF BufInv, BuffersInOrder

-----------------------------------------------------------------------------
LEMMA BufInitial == BufInit => BufInv
<1> SUFFICES ASSUME BufInit PROVE BufInv
  BY Zenon
<1> USE DEF BufInit, binit
<1>1. BufType
  <2>1. \A y \in Bufs : \E k \in Bufs : lru[k] = y
    <3> TAKE y \in Bufs
    <3>1. NBUF + 1 - y \in Bufs /\ NBUF + 1 - (NBUF + 1 - y) = y
      BY BufConstants
    <3> QED
      BY <3>1, Zenon
  <2>2. lru \in [Bufs -> Bufs]
    BY BufConstants
  <2>3. /\ blockno \in [Bufs -> Blocks \cup {NoBlock}] /\ refcnt \in [Bufs -> Nat] /\ data \in [Bufs -> Values]
        /\ valid \subseteq Bufs /\ dirty \subseteq valid
    BY Zenon DEF Values
  <2>4. /\ owner \in [Bufs -> Procs \cup {NoProc}] /\ idequeue \in Seq(Bufs) /\ disk \in [Blocks -> Values]
    BY DEF Values
  <2>5. pc \in [Procs -> Places] /\ buf \in [Procs -> Bufs]
    BY BufConstants, Zenon DEF Places
  <2> QED
    BY <2>1, <2>2, <2>3, <2>4, <2>5, Zenon DEF BufType
<1>2. RefInv
  <2>1. \A x : Users(x) = {}
    BY Zenon DEF Users
  <2>2. \A x \in Bufs : refcnt[x] = 0
    BY Zenon
  <2> QED
    BY <2>1, <2>2, FS_EmptySet, Zenon DEF RefInv
<1>3. OwnInv
  BY Zenon DEF OwnInv, Holding
<1>4. BlockInv
  BY Zenon DEF BlockInv, OneBufferPerBlock
<1>5. FlagInv /\ QueueInv /\ BuffersInOrder
  BY DEF FlagInv, QueueInv, QueueOwned, BuffersInOrder
<1> QED
  BY <1>1, <1>2, <1>3, <1>4, <1>5, Zenon DEF BufInv

LEMMA BufSteps == BufInv /\ [BufNext]_bufVars => BufInv'
<1> SUFFICES ASSUME BufInv, [BufNext]_bufVars PROVE BufInv'
  BY Zenon
<1>1. CASE halted \/ UNCHANGED bufVars
  <2>1. UNCHANGED <<blockno, refcnt, lru, valid, dirty, data, owner, idequeue, disk, pc, buf, panicked>>
    BY <1>1, Zenon DEF halted, bufVars, bcache, ide
  <2>2. panic(panicked) /\ panicked \in {"no", "bget"}
    BY <2>1, Zenon DEF panic, bcache, ide, BufInv, BuffersInOrder
  <2> QED
    BY <2>2, PanicStep, Zenon
<1>2. CASE \E error \in DriveErrors : ideintr(error)
  BY <1>2, IntrStep, BufAssumption, Zenon
<1>3. ASSUME NEW p \in Procs, BufStep(p) PROVE BufInv'
  BY <1>3, AcquireStep, IderwStep, LoopStep, UnlockStep, UnrefStep, Zenon DEF BufStep
<1>4. ASSUME NEW p \in Procs, kill(p) PROVE BufInv'
  BY <1>4, LoopStep, Zenon
<1>5. ASSUME NEW p \in Procs, NEW b \in Blocks, bget(p, b) PROVE BufInv'
  <2>1. pc[p] = "out"
    BY <1>5, Zenon DEF bget
  <2>2. CASE \E i \in Cached(b) : Found(p, i)
    BY <2>1, <2>2, FoundStep, Zenon
  <2>3. CASE Cached(b) = {} /\ \E i \in Recyclable : Recycled(p, b, i)
    BY <2>1, <2>3, RecycledStep, Zenon
  <2>4. CASE panic("bget")
    BY <2>4, PanicStep, Zenon
  <2> QED
    BY <1>5, <2>2, <2>3, <2>4, Zenon DEF bget
<1>6. ASSUME NEW p \in Procs, NEW v \in Writes(blockno[buf[p]]), bwrite(p, v) \/ log_write(p, v) PROVE BufInv'
  <2>1. v \in Values
    BY Zenon DEF Writes, Values
  <2> QED
    BY <1>6, <2>1, WriteStep, Zenon
<1> QED
  BY <1>1, <1>2, <1>3, <1>4, <1>5, <1>6, Zenon DEF BufNext

\* A full list of referenced or dirty buffers has as many users and dirty
\* buffers as there are buffers, since every reference is a process's.
LEMMA Counting == BufInv => BufferLeft
<1> DEFINE Active == {p \in Procs : pc[p] # "out"}
           InUse == {x \in Bufs : Users(x) # {}}
           f == [p \in Active |-> buf[p]]
<1> SUFFICES ASSUME BufInv, Recyclable = {} PROVE ~(Cardinality(Active) + Cardinality(dirty) < NBUF)
  BY Zenon DEF BufferLeft
<1>0. /\ buf \in [Procs -> Bufs] /\ dirty \subseteq Bufs /\ refcnt \in [Bufs -> Nat]
      /\ lru \in [Bufs -> Bufs] /\ \A y \in Bufs : \E k \in Bufs : lru[k] = y
  BY Zenon DEF BufInv, BufType
<1>1. IsFiniteSet(Bufs) /\ Cardinality(Bufs) = NBUF
  BY BufConstants, FS_Interval
<1>2. IsFiniteSet(dirty) /\ Cardinality(dirty) \in Nat
  <2>1. IsFiniteSet(dirty)
    BY <1>0, <1>1, FS_Subset, Zenon
  <2> QED
    BY <2>1, FS_CardinalityType, Zenon
<1>3. IsFiniteSet(Active) /\ Cardinality(Active) \in Nat
  <2>1. IsFiniteSet(Active)
    <3>1. Active \in SUBSET Procs
      BY Zenon
    <3> QED
      BY <3>1, BufConstants, FS_Subset, Zenon
  <2> QED
    BY <2>1, FS_CardinalityType, Zenon
<1>4. f \in Surjection(Active, InUse)
  <2>1. \A p \in Active : buf[p] \in InUse
    BY <1>0, Zenon DEF Users
  <2>2. \A x \in InUse : \E p \in Active : buf[p] = x
    BY Zenon DEF Users
  <2> QED
    BY <2>1, <2>2, Zenon DEF Surjection
<1> HIDE DEF f, Active
<1>5. IsFiniteSet(InUse) /\ Cardinality(InUse) <= Cardinality(Active) /\ Cardinality(InUse) \in Nat
  <2>1. IsFiniteSet(InUse) /\ Cardinality(InUse) <= Cardinality(Active)
    BY <1>3, <1>4, FS_Surjection, Zenon
  <2> QED
    BY <2>1, FS_CardinalityType, Zenon
<1>6. Bufs = InUse \cup dirty
  <2>1. ASSUME NEW y \in Bufs, y \notin dirty PROVE y \in InUse
    <3>1. refcnt[y] # 0
      BY <1>0, <2>1, Zenon DEF Recyclable
    <3>2. Cardinality(Users(y)) # 0
      BY <3>1, Zenon DEF BufInv, RefInv
    <3> QED
      BY <3>2, FS_EmptySet, Zenon
  <2> QED
    BY <1>0, <2>1, Zenon
<1> HIDE DEF InUse
<1>7. Cardinality(InUse \cup dirty) = Cardinality(InUse) + Cardinality(dirty) - Cardinality(InUse \cap dirty)
  BY <1>2, <1>5, FS_Union, Zenon
<1>8. Cardinality(InUse \cap dirty) \in Nat
  <2>1. IsFiniteSet(InUse \cap dirty)
    BY <1>2, FS_Subset, Zenon
  <2> QED
    BY <2>1, FS_CardinalityType, Zenon
<1>9. NBUF = Cardinality(InUse) + Cardinality(dirty) - Cardinality(InUse \cap dirty)
  BY <1>1, <1>6, <1>7, Zenon
<1> QED
  BY <1>2, <1>3, <1>5, <1>8, <1>9, BufConstants

\* bio.c, ide.c, sleeplock.c: for any number of processes, buffers and blocks,
\* iderw and brelse never panic, a block has one buffer, the disk queue holds
\* each buffer once and for a process that waits for it, and bget finds a buffer
\* while the users and the pinned blocks are fewer than NBUF.
THEOREM CacheIsSound == BufSpec => []CacheSound
<1>1. BufInv => CacheSound
  BY Counting, Zenon DEF CacheSound, BufInv, BlockInv, QueueInv
<1> QED
  BY <1>1, BufInitial, BufSteps, PTL DEF BufSpec

-----------------------------------------------------------------------------
\* The store.

\* What is valid and not dirty is on the disk, and so is what the disk is
\* writing now.
CopyInv ==
  /\ \A x \in valid \ dirty : data[x] = disk[blockno[x]]
  /\ idequeue # <<>> /\ idequeue[1] \in dirty => data[idequeue[1]] = disk[blockno[idequeue[1]]]

-----------------------------------------------------------------------------
\* The facts about types and the queue that the steps of the refinement use.
LEMMA Facts ==
  ASSUME BufInv
  PROVE  /\ blockno \in [Bufs -> Blocks \cup {NoBlock}] /\ data \in [Bufs -> Values] /\ disk \in [Blocks -> Values]
         /\ valid \subseteq Bufs /\ dirty \subseteq valid /\ owner \in [Bufs -> Procs \cup {NoProc}]
         /\ idequeue \in Seq(Bufs) /\ pc \in [Procs -> Places] /\ buf \in [Procs -> Bufs]
         /\ \A x \in valid : blockno[x] \in Blocks
         /\ \A x, y \in Bufs : x # y /\ blockno[x] \in Blocks => blockno[x] # blockno[y]
<1>1. \A x, y \in Bufs : x # y /\ blockno[x] \in Blocks => blockno[x] # blockno[y]
  BY BufConstants, Zenon DEF BufInv, BlockInv, OneBufferPerBlock
<1>2. \A x \in valid : blockno[x] \in Blocks
  BY Zenon DEF BufInv, BlockInv
<1> QED
  BY <1>1, <1>2, Zenon DEF BufInv, BufType

LEMMA QueueFacts ==
  ASSUME BufInv, NEW i \in 1 .. Len(idequeue)
  PROVE  LET x == idequeue[i]
         IN /\ x \in Bufs /\ owner[x] \in Procs /\ buf[owner[x]] = x /\ pc[owner[x]] \in {"disksleep", "iderw_loop"}
            /\ blockno[x] \in Blocks /\ ~Served(x)
            /\ \A j \in 1 .. Len(idequeue) : j # i => idequeue[j] # x
<1> DEFINE x == idequeue[i]
<1>1. x \in Bufs
  BY Facts
<1>2. owner[x] \in Procs /\ buf[owner[x]] = x /\ pc[owner[x]] \in {"disksleep", "iderw_loop"}
  BY <1>1, Facts DEF BufInv, QueueInv, QueueOwned
<1>3. blockno[x] \in Blocks
  BY <1>2, Zenon DEF BufInv, BlockInv
<1>4. ~Served(x) /\ \A j \in 1 .. Len(idequeue) : j # i => idequeue[j] # x
  BY Zenon DEF BufInv, QueueInv, QueueOwned
<1> QED
  BY <1>1, <1>2, <1>3, <1>4, Zenon

\* iderw starts the disk on a write: its block gets the buffer's data, the
\* others keep theirs.
LEMMA CopyIderw ==
  ASSUME BufInv, CopyInv, NEW p \in Procs, iderw(p)
  PROVE  CopyInv'
<1>0. PICK x \in Bufs : x = buf[p]
  BY Facts, Zenon
<1>1. pc[p] = "iderw" /\ owner[x] = p /\ ~Served(x) /\ blockno[x] \in Blocks
  BY <1>0, Zenon DEF iderw, BufInv, OwnInv, FlagInv, Holding, BlockInv
<1>2. /\ idequeue' = Append(idequeue, x) /\ UNCHANGED <<blockno, valid, dirty, data>>
      /\ IF idequeue = <<>> THEN idestart(x) ELSE disk' = disk
  BY <1>0, <1>1, Zenon DEF iderw, Served, bcache
<1>3. CASE idequeue # <<>>
  <2>1. idequeue' # <<>> /\ idequeue'[1] = idequeue[1]
    BY <1>2, <1>3, Facts
  <2> QED
    BY <1>2, <1>3, <2>1, Zenon DEF CopyInv
<1>4. CASE idequeue = <<>>
  <2>1. idequeue'[1] = x
    BY <1>2, <1>4, Facts
  <2>2. CASE x \in dirty
    <3>1. disk'[blockno[x]] = data[x] /\ \A b \in Blocks : b # blockno[x] => disk'[b] = disk[b]
      BY <1>1, <1>2, <1>4, <2>2, Facts, Zenon DEF idestart
    <3>2. \A y \in valid \ dirty : y # x /\ blockno[y] \in Blocks /\ blockno[y] # blockno[x]
      BY <1>1, <2>2, Facts, Zenon
    <3> QED
      BY <1>2, <2>1, <3>1, <3>2 DEF CopyInv
  <2>3. CASE x \notin dirty
    BY <1>2, <1>4, <2>1, <2>3, Zenon DEF CopyInv, idestart
  <2> QED
    BY <2>2, <2>3, Zenon
<1> QED
  BY <1>3, <1>4, Zenon

\* ideintr: what was read, or written, is now in both places; the disk starts
\* on another block.
LEMMA CopyIntr ==
  ASSUME BufInv, CopyInv, ideintr(FALSE)
  PROVE  CopyInv'
<1> DEFINE x == idequeue[1]
           y == idequeue[2]
<1>0. Len(idequeue) \in Nat \ {0} /\ x = Head(idequeue)
  BY Facts DEF ideintr
<1>1. x \in Bufs /\ blockno[x] \in Blocks /\ ~Served(x)
  BY <1>0, QueueFacts
<1>2. /\ valid' = valid \cup {x} /\ dirty' = dirty \ {x} /\ blockno' = blockno /\ idequeue' = Tail(idequeue)
      /\ data' = IF x \in dirty THEN data ELSE [data EXCEPT ![x] = disk[blockno[x]]]
  BY <1>0, Zenon DEF ideintr, bcache
<1>3. data'[x] = disk[blockno[x]] /\ \A z \in Bufs : z # x => data'[z] = data[z]
  <2>1. x \in dirty => data[x] = disk[blockno[x]]
    BY <1>0 DEF CopyInv
  <2> QED
    BY <1>1, <1>2, <2>1, Facts, Zenon
<1>4. \A z \in valid' \ dirty' : z \in Bufs /\ data'[z] = disk[blockno[z]]
  BY <1>1, <1>2, <1>3, Facts, ZenonT(60) DEF CopyInv
<1>5. CASE Len(idequeue) > 1
  <2>1. y \in Bufs /\ blockno[y] \in Blocks /\ ~Served(y) /\ y # x /\ idequeue'[1] = y
    <3>1. y \in Bufs /\ blockno[y] \in Blocks /\ ~Served(y)
      BY <1>5, QueueFacts, Facts
    <3>2. y # x
      BY <1>0, <1>5 DEF BufInv, QueueInv, QueueOwned
    <3>3. idequeue'[1] = y
      BY <1>2, <1>5, Facts
    <3> QED
      BY <3>1, <3>2, <3>3, Zenon
  <2>2. disk' = IF y \in dirty THEN [disk EXCEPT ![blockno[y]] = data[y]] ELSE disk
    BY <1>5, Zenon DEF ideintr, idestart
  <2> HIDE DEF x, y
  <2>3. (y \in dirty => disk'[blockno[y]] = data[y]) /\ \A b \in Blocks : b # blockno[y] \/ y \notin dirty => disk'[b] = disk[b]
    BY <2>1, <2>2, Facts, Zenon
  <2>4. ASSUME NEW z \in valid' \ dirty' PROVE data'[z] = disk'[blockno'[z]]
    <3>1. z \in Bufs /\ data'[z] = disk[blockno[z]] /\ blockno[z] \in Blocks
      BY <1>1, <1>2, <1>4, Facts, Zenon
    <3>2. CASE y \in dirty
      <4>1. y \in dirty' /\ z # y
        BY <1>2, <2>1, <2>4, <3>2, Zenon
      <4>2. blockno[z] # blockno[y]
        BY <2>1, <3>1, <4>1, Facts, Zenon
      <4> QED
        BY <1>2, <2>3, <3>1, <4>2, Zenon
    <3>3. CASE y \notin dirty
      BY <1>2, <2>3, <3>1, <3>3, Zenon
    <3> QED
      BY <3>2, <3>3, Zenon
  <2>5. idequeue'[1] \in dirty' => data'[idequeue'[1]] = disk'[blockno'[idequeue'[1]]]
    <3>1. y \in dirty' => y \in dirty
      BY <1>2, Zenon
    <3>2. data'[y] = data[y] /\ blockno'[y] = blockno[y]
      BY <1>2, <1>3, <2>1, Zenon
    <3>3. y \in dirty' => data'[y] = disk'[blockno'[y]]
      BY <2>3, <3>1, <3>2, Zenon
    <3> QED
      BY <2>1, <3>3, Zenon
  <2> QED
    BY <2>4, <2>5, Zenon DEF CopyInv
<1>6. CASE Len(idequeue) = 1
  <2>1. disk' = disk /\ idequeue' = <<>>
    BY <1>2, <1>6, Facts DEF ideintr
  <2> QED
    BY <1>2, <1>4, <2>1, Zenon DEF CopyInv
<1>7. Len(idequeue) > 1 \/ Len(idequeue) = 1
  <2>1. \A n \in Nat \ {0} : n > 1 \/ n = 1
    OBVIOUS
  <2> QED
    BY <1>0, <2>1, Zenon
<1> QED
  BY <1>5, <1>6, <1>7, Zenon

\* A holder's buffer is dirty once it has written to it, and not in the queue.
LEMMA CopyWrite ==
  ASSUME BufInv, CopyInv, NEW p \in Procs, NEW v \in Values, bwrite(p, v) \/ log_write(p, v)
  PROVE  CopyInv'
<1>0. PICK x \in Bufs : x = buf[p]
  BY Facts, Zenon
<1>1. /\ pc[p] = "using" /\ dirty' = dirty \cup {x} /\ data' = [data EXCEPT ![x] = v]
      /\ UNCHANGED <<blockno, valid, idequeue, disk>>
  BY <1>0, Zenon DEF bwrite, log_write, bcache, ide
<1>2. \A y \in Bufs : y # x => data'[y] = data[y]
  BY <1>1, Facts, Zenon
<1>3. owner[x] = p
  BY <1>0, <1>1, Zenon DEF BufInv, OwnInv, Holding
<1>4. idequeue # <<>> => idequeue[1] # x /\ idequeue[1] \in Bufs
  <2> HAVE idequeue # <<>>
  <2>1. 1 \in 1 .. Len(idequeue)
    BY Facts
  <2> QED
    BY <1>1, <1>3, <2>1, QueueFacts, Zenon
<1> QED
  BY <1>1, <1>2, <1>4, Facts, ZenonT(60) DEF CopyInv

LEMMA CopyRecycled ==
  ASSUME BufInv, CopyInv, NEW p \in Procs, NEW b \in Blocks, NEW i \in Recyclable, Recycled(p, b, i), BufInv'
  PROVE  CopyInv'
<1>0. PICK x \in Bufs : x = lru[i] /\ x \notin dirty
  BY Zenon DEF Recyclable, BufInv, BufType
<1>1. /\ blockno' = [blockno EXCEPT ![x] = b] /\ valid' = valid \ {x} /\ dirty' = dirty \ {x}
      /\ UNCHANGED <<data, idequeue, disk>>
  BY <1>0, Zenon DEF Recycled, ide
<1>2. \A y \in Bufs : y # x => blockno'[y] = blockno[y]
  BY <1>1, Facts, Zenon
<1>3. idequeue # <<>> => idequeue[1] \in Bufs
  BY Facts
<1> QED
  BY <1>0, <1>1, <1>2, <1>3, Facts DEF CopyInv

\* Only a read that ends with an error could make a valid buffer differ from
\* its block.
LEMMA CopySteps ==
  ASSUME TRUE \notin DriveErrors
  PROVE  BufInv /\ CopyInv /\ [BufNext]_bufVars => CopyInv'
<1> SUFFICES ASSUME BufInv, CopyInv, [BufNext]_bufVars PROVE CopyInv'
  BY Zenon
<1>1. ASSUME UNCHANGED <<blockno, valid, dirty, data, idequeue, disk>> PROVE CopyInv'
  BY <1>1, Zenon DEF CopyInv
<1>2. CASE halted \/ UNCHANGED bufVars
  BY <1>1, <1>2, Zenon DEF halted, bufVars, bcache, ide
<1>3. CASE \E error \in DriveErrors : ideintr(error)
  <2>1. ideintr(FALSE)
    BY <1>3, BufAssumption, Zenon
  <2> QED
    BY <2>1, CopyIntr, Zenon
<1>4. ASSUME NEW p \in Procs, BufStep(p) \/ kill(p) PROVE CopyInv'
  <2>1. CASE iderw(p)
    BY <2>1, CopyIderw, Zenon
  <2>2. CASE acquiresleep(p) \/ iderw_loop(p) \/ brelse_unlock(p) \/ brelse_unref(p) \/ kill(p)
    <3>1. UNCHANGED <<blockno, valid, dirty, data, idequeue, disk>>
      BY <2>2, Zenon DEF acquiresleep, iderw_loop, brelse_unlock, panic, brelse_unref, kill, bcache, ide
    <3> QED
      BY <1>1, <3>1, Zenon
  <2> QED
    BY <1>4, <2>1, <2>2, Zenon DEF BufStep
<1>5. ASSUME NEW p \in Procs, NEW b \in Blocks, bget(p, b) PROVE CopyInv'
  <2>1. CASE \E i \in Cached(b) : Found(p, i)
    BY <1>1, <2>1, Zenon DEF Found, ide
  <2>2. CASE \E i \in Recyclable : Recycled(p, b, i)
    BY <2>2, CopyRecycled, BufSteps, Zenon
  <2>3. CASE panic("bget")
    BY <1>1, <2>3, Zenon DEF panic, bcache, ide
  <2> QED
    BY <1>5, <2>1, <2>2, <2>3, Zenon DEF bget
<1>6. ASSUME NEW p \in Procs, NEW v \in Writes(blockno[buf[p]]), bwrite(p, v) \/ log_write(p, v) PROVE CopyInv'
  <2>1. v \in Values
    BY Zenon DEF Writes, Values
  <2> QED
    BY <1>6, <2>1, CopyWrite, Zenon
<1> QED
  BY <1>2, <1>3, <1>4, <1>5, <1>6, Zenon DEF BufNext

-----------------------------------------------------------------------------
\* Content in terms of the one buffer a block may have.
ContentInv ==
  /\ \A x \in valid : Content[blockno[x]] = data[x]
  /\ \A b \in Blocks : (\A x \in valid : blockno[x] # b) => Content[b] = disk[b]

LEMMA ContentIs == BufInv => ContentInv
<1> SUFFICES ASSUME BufInv PROVE ContentInv
  BY Zenon
<1>1. ASSUME NEW x \in valid PROVE Content[blockno[x]] = data[x]
  <2> DEFINE y == CHOOSE z \in Bufs : blockno[z] = blockno[x] /\ z \in valid
  <2>1. x \in Bufs /\ blockno[x] \in Blocks
    BY Facts, Zenon
  <2>2. y \in Bufs /\ blockno[y] = blockno[x]
    BY <2>1, Zenon
  <2>3. y = x
    BY <2>1, <2>2, Facts, Zenon
  <2>4. Content[blockno[x]] = data[y]
    BY <2>1, Zenon DEF Content
  <2> HIDE DEF y
  <2> QED
    BY <2>3, <2>4, Zenon
<1>2. ASSUME NEW b \in Blocks, \A x \in valid : blockno[x] # b PROVE Content[b] = disk[b]
  BY <1>2, Zenon DEF Content
<1> QED
  BY <1>1, <1>2, Zenon DEF ContentInv

\* Two contents that agree on every block are the same.
LEMMA SameContent ==
  ASSUME \A b \in Blocks : Content'[b] = Content[b]
  PROVE  Content' = Content
<1>1. Content = [b \in Blocks |-> Content[b]] /\ Content' = [b \in Blocks |-> Content'[b]]
  BY Zenon DEF Content
<1> QED
  BY <1>1, Zenon

\* Has in terms of the lock.
LEMMA HasIs ==
  ASSUME NEW p \in Procs
  PROVE  /\ owner[buf[p]] = p /\ buf[p] \in valid => Has[p] = blockno[buf[p]]
         /\ owner[buf[p]] # p \/ buf[p] \notin valid => Has[p] = NoBlock
BY Zenon DEF Has

LEMMA SameHas ==
  ASSUME \A p \in Procs : Has'[p] = Has[p]
  PROVE  Has' = Has
<1>1. Has = [p \in Procs |-> Has[p]] /\ Has' = [p \in Procs |-> Has'[p]]
  BY Zenon DEF Has
<1> QED
  BY <1>1, Zenon

\* A step that leaves the buffers' content alone.
LEMMA ContentKept ==
  ASSUME UNCHANGED <<blockno, valid, data, disk>>
  PROVE  Content' = Content
BY Zenon DEF Content

\* A process that gets no lock and gives none back has what it had, also when it
\* turns to another buffer.
LEMMA HasKept ==
  ASSUME BufInv, BufInv', UNCHANGED owner, NEW p \in Procs, pc[p] \notin Holding, pc'[p] \notin Holding,
         \A q \in Procs : q # p => buf'[q] = buf[q],
         \A y \in Bufs : owner[y] # NoProc => (y \in valid' <=> y \in valid) /\ blockno'[y] = blockno[y]
  PROVE  Has' = Has
<1>1. buf \in [Procs -> Bufs] /\ buf' \in [Procs -> Bufs]
  BY Zenon DEF BufInv, BufType
<1>2. ASSUME NEW q \in Procs PROVE Has'[q] = Has[q]
  <2>1. CASE q = p
    <3>1. owner[buf[p]] # p /\ owner'[buf'[p]] # p
      BY <1>1, BufConstants DEF BufInv, OwnInv
    <3> QED
      BY <2>1, <3>1, ZenonT(60) DEF Has
  <2>2. CASE q # p /\ owner[buf[q]] = q
    <3>1. buf'[q] = buf[q] /\ buf[q] \in Bufs /\ owner[buf[q]] # NoProc
      BY <1>1, <2>2, BufConstants
    <3>2. owner'[buf'[q]] = q /\ (buf'[q] \in valid' <=> buf[q] \in valid) /\ blockno'[buf'[q]] = blockno[buf[q]]
      BY <2>2, <3>1, Zenon
    <3> QED
      BY <2>2, <3>2, Zenon DEF Has
  <2>3. CASE q # p /\ owner[buf[q]] # q
    BY <2>3, Zenon DEF Has
  <2> QED
    BY <2>1, <2>2, <2>3, Zenon
<1> QED
  BY <1>2, SameHas, Zenon

\* acquiresleep takes the block of a valid buffer.
LEMMA StoreAcquire ==
  ASSUME BufInv, BufInv', NEW p \in Procs, acquiresleep(p)
  PROVE  Store!Next \/ UNCHANGED <<Content, Has>>
<1>0. PICK x \in Bufs : x = buf[p]
  BY Facts, Zenon
<1>1. UNCHANGED <<blockno, valid, data, disk, buf>>
  BY Zenon DEF acquiresleep, bcache, ide
<1>2. Content' = Content
  BY <1>1, ContentKept, Zenon
<1>3. CASE owner' = owner
  BY <1>1, <1>2, <1>3, Zenon DEF Has
<1>4. CASE owner' # owner
  <2>1. owner[x] = NoProc /\ owner' = [owner EXCEPT ![x] = p]
    BY <1>0, <1>4, Zenon DEF acquiresleep
  <2>2. owner'[x] = p /\ \A y \in Bufs : y # x => owner'[y] = owner[y]
    BY <2>1, Facts, Zenon
  <2>3. \A q \in Procs : q # p => Has'[q] = Has[q]
    <3> SUFFICES ASSUME NEW q \in Procs, q # p PROVE Has'[q] = Has[q]
      BY Zenon
    <3>1. owner'[buf[q]] = q <=> owner[buf[q]] = q
      BY <2>1, <2>2, BufConstants, Facts
    <3> QED
      BY <1>1, <3>1, Zenon DEF Has
  <2>4. Has[p] = NoBlock
    BY <1>0, <2>1, BufConstants, Zenon DEF Has
  <2>5. CASE x \notin valid
    <3>1. Has'[p] = NoBlock
      BY <1>0, <1>1, <2>5, Zenon DEF Has
    <3>2. \A q \in Procs : Has'[q] = Has[q]
      BY <2>3, <2>4, <3>1, Zenon
    <3> QED
      BY <1>2, <3>2, SameHas, Zenon
  <2>6. CASE x \in valid
    <3>1. blockno[x] \in Blocks /\ Has'[p] = blockno[x]
      BY <1>0, <1>1, <2>2, <2>6, Facts, Zenon DEF Has
    <3>2. \A q \in Procs : Has[q] # blockno[x]
      <4> SUFFICES ASSUME NEW q \in Procs, Has[q] = blockno[x] PROVE FALSE
        BY Zenon
      <4>1. owner[buf[q]] = q /\ blockno[buf[q]] = blockno[x]
        BY <3>1, BufConstants, Zenon DEF Has
      <4>2. buf[q] = x
        BY <3>1, <4>1, Facts, Zenon
      <4> QED
        BY <2>1, <4>1, <4>2, BufConstants, Zenon
    <3>3. Has' = [Has EXCEPT ![p] = blockno[x]]
      <4>1. Has = [q \in Procs |-> Has[q]] /\ Has' = [q \in Procs |-> Has'[q]]
        BY Zenon DEF Has
      <4> QED
        BY <2>3, <3>1, <4>1, Zenon
    <3>4. Store!Take(p, blockno[x])
      BY <1>2, <2>4, <3>2, <3>3, Zenon DEF Store!Take
    <3> QED
      BY <3>1, <3>4, Zenon DEF Store!Next
  <2> QED
    BY <2>5, <2>6, Zenon
<1> QED
  BY <1>3, <1>4, Zenon

\* ideintr: a process whose block was read has it from now on; a write changes
\* only the disk's copy.
LEMMA StoreIntr ==
  ASSUME BufInv, BufInv', CopyInv, ideintr(FALSE)
  PROVE  Store!Next \/ UNCHANGED <<Content, Has>>
<1> DEFINE x == idequeue[1]
           y == idequeue[2]
           o == owner[x]
<1>0. Len(idequeue) \in Nat \ {0} /\ x = Head(idequeue)
  BY Facts DEF ideintr
<1>1. x \in Bufs /\ blockno[x] \in Blocks /\ ~Served(x) /\ o \in Procs /\ buf[o] = x
  BY <1>0, QueueFacts
<1>2. /\ valid' = valid \cup {x} /\ blockno' = blockno /\ owner' = owner /\ buf' = buf
      /\ data' = IF x \in dirty THEN data ELSE [data EXCEPT ![x] = disk[blockno[x]]]
  BY <1>0, Zenon DEF ideintr, bcache
<1>3. /\ x \in dirty => data'[x] = data[x]
      /\ x \notin dirty => data'[x] = disk[blockno[x]]
      /\ \A z \in Bufs : z # x => data'[z] = data[z]
  BY <1>1, <1>2, Facts, Zenon
\* The disk changes where a dirty buffer covers it.
<1>4. \A b \in Blocks : (\A z \in valid : blockno[z] # b) => disk'[b] = disk[b]
  <2>1. CASE Len(idequeue) > 1
    <3>1. disk' = IF y \in dirty THEN [disk EXCEPT ![blockno[y]] = data[y]] ELSE disk
      BY <2>1, Zenon DEF ideintr, idestart
    <3> HIDE DEF y
    <3> QED
      BY <3>1, Facts, Zenon
  <2>2. CASE ~(Len(idequeue) > 1)
    BY <2>2, Zenon DEF ideintr
  <2> QED
    BY <2>1, <2>2, Zenon
<1> HIDE DEF x, y, o
<1>5. ContentInv /\ ContentInv'
  <2>1. BufInv' => ContentInv'
    BY ContentIs, PTL
  <2> QED
    BY <2>1, ContentIs, Zenon
<1>6. Content' = Content
  <2> SUFFICES ASSUME NEW b \in Blocks PROVE Content'[b] = Content[b]
    BY SameContent, Zenon
  <2>1. CASE b = blockno[x]
    <3>1. Content'[b] = data'[x]
      BY <1>2, <1>5, <2>1, Zenon DEF ContentInv
    <3>2. CASE x \in valid
      <4>1. x \in dirty /\ Content[b] = data[x]
        BY <1>1, <1>5, <2>1, <3>2, Zenon DEF ContentInv, Served
      <4> QED
        BY <1>3, <3>1, <4>1, Zenon
    <3>3. CASE x \notin valid
      <4>1. x \notin dirty /\ \A z \in valid : blockno[z] # b
        BY <1>1, <2>1, <3>3, Facts, Zenon
      <4>2. Content[b] = disk[b]
        BY <1>5, <4>1, Zenon DEF ContentInv
      <4> QED
        BY <1>3, <2>1, <3>1, <4>1, <4>2, Zenon
    <3> QED
      BY <3>2, <3>3, Zenon
  <2>2. CASE b # blockno[x] /\ \E z \in valid : blockno[z] = b
    <3>1. PICK z \in valid : blockno[z] = b
      BY <2>2, Zenon
    <3>2. Content[b] = data[z]
      BY <1>5, <3>1, Zenon DEF ContentInv
    <3>3. Content'[b] = data'[z]
      BY <1>2, <1>5, <3>1, Zenon DEF ContentInv
    <3>4. z # x /\ z \in Bufs
      BY <2>2, <3>1, Facts, Zenon
    <3> QED
      BY <1>3, <3>2, <3>3, <3>4, Zenon
  <2>3. CASE b # blockno[x] /\ \A z \in valid : blockno[z] # b
    <3>1. Content[b] = disk[b]
      BY <1>5, <2>3, Zenon DEF ContentInv
    <3>2. \A z \in valid' : blockno'[z] # b
      BY <1>2, <2>3, Zenon
    <3>3. Content'[b] = disk'[b]
      BY <1>5, <3>2, Zenon DEF ContentInv
    <3> QED
      BY <1>4, <2>3, <3>1, <3>3, Zenon
  <2> QED
    BY <2>1, <2>2, <2>3, Zenon
<1>7. \A q \in Procs : q # o => Has'[q] = Has[q]
  <2> SUFFICES ASSUME NEW q \in Procs, q # o PROVE Has'[q] = Has[q]
    BY Zenon
  <2>1. owner[buf[q]] = q => buf[q] # x
    BY Zenon DEF o
  <2> QED
    BY <1>2, <2>1, Zenon DEF Has
<1>8. owner[x] = o /\ Has'[o] = blockno[x]
  BY <1>1, <1>2, Zenon DEF Has, o
<1>9. CASE x \in valid
  <2>1. Has[o] = blockno[x]
    BY <1>1, <1>8, <1>9, Zenon DEF Has
  <2>2. \A q \in Procs : Has'[q] = Has[q]
    BY <1>7, <1>8, <2>1, Zenon
  <2> QED
    BY <1>6, <2>2, SameHas, Zenon
<1>10. CASE x \notin valid
  <2>1. Has[o] = NoBlock
    BY <1>1, <1>10, Zenon DEF Has
  <2>2. \A q \in Procs : Has[q] # blockno[x]
    <3> SUFFICES ASSUME NEW q \in Procs, Has[q] = blockno[x] PROVE FALSE
      BY Zenon
    <3>1. buf[q] \in valid /\ buf[q] \in Bufs /\ blockno[buf[q]] = blockno[x]
      BY <1>1, BufConstants, Facts, Zenon DEF Has
    <3> QED
      BY <1>1, <1>10, <3>1, Facts, Zenon
  <2>3. Has' = [Has EXCEPT ![o] = blockno[x]]
    <3>1. Has = [q \in Procs |-> Has[q]] /\ Has' = [q \in Procs |-> Has'[q]]
      BY Zenon DEF Has
    <3> QED
      BY <1>1, <1>7, <1>8, <3>1, Zenon
  <2>4. Store!Take(o, blockno[x])
    BY <1>6, <2>1, <2>2, <2>3, Zenon DEF Store!Take
  <2> QED
    BY <1>1, <2>4, Zenon DEF Store!Next
<1> QED
  BY <1>9, <1>10, Zenon

\* A holder's write changes its block.
LEMMA StoreWrite ==
  ASSUME BufInv, BufInv', NEW p \in Procs, NEW v \in Values, bwrite(p, v) \/ log_write(p, v)
  PROVE  Store!Next \/ UNCHANGED <<Content, Has>>
<1>0. PICK x \in Bufs : x = buf[p]
  BY Facts, Zenon
<1>1. /\ pc[p] = "using" /\ data' = [data EXCEPT ![x] = v]
      /\ UNCHANGED <<blockno, valid, owner, disk, buf>>
  BY <1>0, Zenon DEF bwrite, log_write, bcache, ide
<1>2. owner[x] = p /\ x \in valid /\ blockno[x] \in Blocks
  BY <1>0, <1>1, Facts, Zenon DEF BufInv, OwnInv, FlagInv, Holding
<1>3. data'[x] = v /\ \A y \in Bufs : y # x => data'[y] = data[y]
  BY <1>1, Facts, Zenon
<1>4. Has' = Has
  BY <1>1, Zenon DEF Has
<1>5. Has[p] = blockno[x] /\ Has[p] # NoBlock
  BY <1>0, <1>2, BufConstants, Zenon DEF Has
<1>6. ContentInv /\ ContentInv'
  <2>1. BufInv' => ContentInv'
    BY ContentIs, PTL
  <2> QED
    BY <2>1, ContentIs, Zenon
<1>7. Content'[blockno[x]] = v
  BY <1>1, <1>2, <1>3, <1>6, Zenon DEF ContentInv
<1>8. ASSUME NEW b \in Blocks, b # blockno[x] PROVE Content'[b] = Content[b]
  <2>1. CASE \E z \in valid : blockno[z] = b
    <3>1. PICK z \in valid : blockno[z] = b
      BY <2>1, Zenon
    <3>2. Content[b] = data[z]
      BY <1>6, <3>1, Zenon DEF ContentInv
    <3>3. Content'[b] = data'[z]
      BY <1>1, <1>6, <3>1, Zenon DEF ContentInv
    <3>4. z # x /\ z \in Bufs
      BY <1>8, <3>1, Facts, Zenon
    <3> QED
      BY <1>3, <3>2, <3>3, <3>4, Zenon
  <2>2. CASE \A z \in valid : blockno[z] # b
    BY <1>1, <1>6, <2>2, Zenon DEF ContentInv
  <2> QED
    BY <2>1, <2>2, Zenon
<1>9. Content' = [Content EXCEPT ![blockno[x]] = v]
  <2>1. Content = [b \in Blocks |-> Content[b]] /\ Content' = [b \in Blocks |-> Content'[b]]
    BY Zenon DEF Content
  <2> QED
    BY <1>2, <1>7, <1>8, <2>1, Zenon
<1>10. Store!Change(p, v)
  BY <1>4, <1>5, <1>9, Zenon DEF Store!Change
<1> QED
  BY <1>10, Zenon DEF Store!Next

\* brelse gives the block back.
LEMMA StoreUnlock ==
  ASSUME BufInv, BufInv', NEW p \in Procs, brelse_unlock(p)
  PROVE  Store!Next \/ UNCHANGED <<Content, Has>>
<1>0. PICK x \in Bufs : x = buf[p]
  BY Facts, Zenon
<1>1. pc[p] = "using" /\ owner[x] = p /\ x \in valid /\ blockno[x] \in Blocks
  BY <1>0, Facts, Zenon DEF brelse_unlock, BufInv, OwnInv, FlagInv, Holding
<1>2. owner' = [owner EXCEPT ![x] = NoProc] /\ UNCHANGED <<blockno, valid, data, disk, buf>>
  BY <1>0, <1>1, Zenon DEF brelse_unlock, bcache, ide
<1>3. owner'[x] = NoProc /\ \A y \in Bufs : y # x => owner'[y] = owner[y]
  BY <1>2, Facts, Zenon
<1>4. Content' = Content
  BY <1>2, ContentKept, Zenon
<1>5. Has[p] = blockno[x] /\ Has[p] # NoBlock
  BY <1>0, <1>1, BufConstants, Zenon DEF Has
<1>6. Has'[p] = NoBlock
  BY <1>0, <1>2, <1>3, BufConstants DEF Has
<1>7. \A q \in Procs : q # p => Has'[q] = Has[q]
  <2> SUFFICES ASSUME NEW q \in Procs, q # p PROVE Has'[q] = Has[q]
    BY Zenon
  <2>1. owner'[buf[q]] = q <=> owner[buf[q]] = q
    BY <1>1, <1>3, BufConstants, Facts, ZenonT(60)
  <2> QED
    BY <1>2, <2>1, Zenon DEF Has
<1>8. Has' = [Has EXCEPT ![p] = NoBlock]
  <2>1. Has = [q \in Procs |-> Has[q]] /\ Has' = [q \in Procs |-> Has'[q]]
    BY Zenon DEF Has
  <2> QED
    BY <1>6, <1>7, <2>1, Zenon
<1>9. Store!Give(p)
  BY <1>4, <1>5, <1>8, Zenon DEF Store!Give
<1> QED
  BY <1>9, Zenon DEF Store!Next

\* iderw writes a dirty buffer's data under the buffer, where nobody looks.
LEMMA StoreIderw ==
  ASSUME BufInv, BufInv', NEW p \in Procs, iderw(p)
  PROVE  UNCHANGED <<Content, Has>>
<1>0. PICK x \in Bufs : x = buf[p]
  BY Facts, Zenon
<1>1. pc[p] = "iderw" /\ owner[x] = p /\ ~Served(x) /\ blockno[x] \in Blocks
  BY <1>0, Zenon DEF iderw, BufInv, OwnInv, FlagInv, Holding, BlockInv
<1>2. /\ UNCHANGED <<blockno, valid, data, owner, buf>>
      /\ disk' = disk \/ (x \in dirty /\ disk' = [disk EXCEPT ![blockno[x]] = data[x]])
  BY <1>0, <1>1, Zenon DEF iderw, Served, idestart, bcache
<1>3. Has' = Has
  BY <1>2, Zenon DEF Has
<1>4. \A b \in Blocks : (\A z \in valid : blockno[z] # b) => disk'[b] = disk[b]
  BY <1>2, Facts, Zenon
<1>5. ContentInv /\ ContentInv'
  <2>1. BufInv' => ContentInv'
    BY ContentIs, PTL
  <2> QED
    BY <2>1, ContentIs, Zenon
<1>6. ASSUME NEW b \in Blocks PROVE Content'[b] = Content[b]
  <2>1. CASE \E z \in valid : blockno[z] = b
    <3>1. PICK z \in valid : blockno[z] = b
      BY <2>1, Zenon
    <3> QED
      BY <1>2, <1>5, <3>1, ZenonT(60) DEF ContentInv
  <2>2. CASE \A z \in valid : blockno[z] # b
    BY <1>2, <1>4, <1>5, <2>2, Zenon DEF ContentInv
  <2> QED
    BY <2>1, <2>2, Zenon
<1> QED
  BY <1>3, <1>6, SameContent, Zenon

\* A buffer that is recycled was a copy of its block; the new block's content is
\* on the disk until it is read.
LEMMA StoreRecycled ==
  ASSUME BufInv, BufInv', CopyInv, NEW p \in Procs, NEW b \in Blocks, pc[p] = "out", Cached(b) = {},
         NEW i \in Recyclable, Recycled(p, b, i)
  PROVE  UNCHANGED <<Content, Has>>
<1>0. PICK x \in Bufs : x = lru[i] /\ x \notin dirty /\ refcnt[x] = 0
  BY Zenon DEF Recyclable, BufInv, BufType
<1>1. /\ blockno' = [blockno EXCEPT ![x] = b] /\ valid' = valid \ {x} /\ pc' = [pc EXCEPT ![p] = "acquiresleep"]
      /\ buf' = [buf EXCEPT ![p] = x] /\ UNCHANGED <<data, disk, owner>>
  BY <1>0, Zenon DEF Recycled, Goto, ide
<1>2. \A y \in Bufs : y # x => blockno'[y] = blockno[y]
  BY <1>1, Facts, Zenon
<1>3. \A y \in Bufs : blockno[y] # b
  <2>1. lru \in [Bufs -> Bufs] /\ \A y \in Bufs : \E k \in Bufs : lru[k] = y
    BY Zenon DEF BufInv, BufType
  <2> QED
    BY <2>1, Zenon DEF Cached
<1>4. owner[x] = NoProc
  <2> SUFFICES ASSUME owner[x] # NoProc PROVE FALSE
    BY ZenonT(60)
  <2>0. owner[x] \in Procs /\ pc[owner[x]] \in Holding /\ buf[owner[x]] = x
    BY Facts DEF BufInv, OwnInv
  <2>1. owner[x] \in Users(x)
    BY <2>0, Zenon DEF Users, Holding
  <2>2. Cardinality(Users(x)) = 0
    BY <1>0, Zenon DEF BufInv, RefInv
  <2> QED
    BY <2>1, <2>2, UsersFinite, FS_EmptySet, Zenon
<1>5. Has' = Has
  <2>1. pc[p] \notin Holding /\ pc'[p] \notin Holding
    BY <1>1, Facts, Zenon DEF Holding
  <2>2. \A q \in Procs : q # p => buf'[q] = buf[q]
    BY <1>1, Facts, Zenon
  <2>3. \A y \in Bufs : owner[y] # NoProc => (y \in valid' <=> y \in valid) /\ blockno'[y] = blockno[y]
    BY <1>1, <1>2, <1>4, Zenon
  <2> QED
    BY <1>1, <2>1, <2>2, <2>3, HasKept, Zenon
<1>6. ContentInv /\ ContentInv'
  <2>1. BufInv' => ContentInv'
    BY ContentIs, PTL
  <2> QED
    BY <2>1, ContentIs, Zenon
<1>7. ASSUME NEW c \in Blocks PROVE Content'[c] = Content[c]
  <2>1. CASE \E z \in valid : blockno[z] = c
    <3>1. PICK z \in valid : blockno[z] = c
      BY <2>1, Zenon
    <3>2. Content[c] = data[z] /\ z \in Bufs
      BY <1>6, <3>1, Facts, Zenon DEF ContentInv
    <3>3. CASE z = x
      <4>1. data[z] = disk[c]
        BY <1>0, <3>1, <3>3, Zenon DEF CopyInv
      <4>2. \A y \in valid' : blockno'[y] # c
        BY <1>1, <1>2, <3>1, <3>2, <3>3, Facts, Zenon
      <4>3. Content'[c] = disk'[c]
        BY <1>6, <4>2, Zenon DEF ContentInv
      <4> QED
        BY <1>1, <3>2, <4>1, <4>3, Zenon
    <3>4. CASE z # x
      <4>1. z \in valid' /\ blockno'[z] = c
        BY <1>1, <1>2, <3>1, <3>2, <3>4, Zenon
      <4>2. Content'[c] = data'[z]
        BY <1>6, <4>1, Zenon DEF ContentInv
      <4> QED
        BY <1>1, <3>2, <4>2, Zenon
    <3> QED
      BY <3>3, <3>4, Zenon
  <2>2. CASE \A z \in valid : blockno[z] # c
    <3>1. \A z \in valid' : blockno'[z] # c
      BY <1>1, <1>2, <2>2, Facts, Zenon
    <3> QED
      BY <1>1, <1>6, <2>2, <3>1, Zenon DEF ContentInv
  <2> QED
    BY <2>1, <2>2, Zenon
<1> QED
  BY <1>5, <1>7, SameContent, Zenon

\* A reference that comes or goes changes nothing a caller sees.
LEMMA StoreRefs ==
  ASSUME BufInv, BufInv', NEW p \in Procs,
         brelse_unref(p) \/ (pc[p] = "out" /\ \E i \in Bufs : Found(p, i))
  PROVE  UNCHANGED <<Content, Has>>
<1>1. /\ UNCHANGED <<blockno, valid, data, disk, owner>> /\ pc[p] \in {"out", "unref"}
      /\ \E l \in {"out", "acquiresleep"} : pc' = [pc EXCEPT ![p] = l]
      /\ \E y : buf' = [buf EXCEPT ![p] = y]
  BY Zenon DEF brelse_unref, Found, Goto, ide
<1>2. pc[p] \notin Holding /\ pc'[p] \notin Holding
  BY <1>1, Facts, Zenon DEF Holding
<1>3. \A q \in Procs : q # p => buf'[q] = buf[q]
  BY <1>1, Facts, Zenon
<1>4. Has' = Has
  BY <1>1, <1>2, <1>3, HasKept, Zenon
<1> QED
  BY <1>1, <1>4, ContentKept, Zenon

LEMMA StoreSteps ==
  ASSUME TRUE \notin DriveErrors
  PROVE  BufInv /\ BufInv' /\ CopyInv /\ [BufNext]_bufVars => [Store!Next]_<<Content, Has>>
<1> SUFFICES ASSUME BufInv, BufInv', CopyInv, [BufNext]_bufVars
             PROVE  Store!Next \/ UNCHANGED <<Content, Has>>
  BY Zenon
<1>1. ASSUME UNCHANGED <<blockno, valid, data, disk, owner, buf>> PROVE UNCHANGED <<Content, Has>>
  BY <1>1, ContentKept, Zenon DEF Has
<1>2. CASE halted \/ UNCHANGED bufVars
  BY <1>1, <1>2, Zenon DEF halted, bufVars, bcache, ide
<1>3. CASE \E error \in DriveErrors : ideintr(error)
  <2>1. ideintr(FALSE)
    BY <1>3, BufAssumption, Zenon
  <2> QED
    BY <2>1, StoreIntr, Zenon
<1>4. ASSUME NEW p \in Procs, BufStep(p) \/ kill(p) PROVE Store!Next \/ UNCHANGED <<Content, Has>>
  <2>1. CASE iderw_loop(p) \/ kill(p)
    BY <1>1, <2>1, Zenon DEF iderw_loop, kill, bcache, ide
  <2> QED
    BY <1>4, <2>1, StoreIderw, StoreAcquire, StoreUnlock, StoreRefs, ZenonT(60) DEF BufStep
<1>5. ASSUME NEW p \in Procs, NEW b \in Blocks, bget(p, b) PROVE Store!Next \/ UNCHANGED <<Content, Has>>
  <2>1. pc[p] = "out"
    BY <1>5, Zenon DEF bget
  <2>2. CASE \E i \in Cached(b) : Found(p, i)
    BY <2>1, <2>2, StoreRefs, Zenon DEF Cached
  <2>3. CASE Cached(b) = {} /\ \E i \in Recyclable : Recycled(p, b, i)
    BY <2>1, <2>3, StoreRecycled, Zenon
  <2>4. CASE panic("bget")
    BY <1>1, <2>4, Zenon DEF panic, bcache, ide
  <2> QED
    BY <1>5, <2>2, <2>3, <2>4, ZenonT(60) DEF bget
<1>6. ASSUME NEW p \in Procs, NEW v \in Writes(blockno[buf[p]]), bwrite(p, v) \/ log_write(p, v)
      PROVE  Store!Next \/ UNCHANGED <<Content, Has>>
  <2>1. v \in Values
    BY Zenon DEF Writes, Values
  <2> QED
    BY <1>6, <2>1, StoreWrite, Zenon
<1> QED
  BY <1>2, <1>3, <1>4, <1>5, <1>6, Zenon DEF BufNext

LEMMA StoreInitial == BufInit => CopyInv /\ Store!Init
<1> SUFFICES ASSUME BufInit PROVE CopyInv /\ Store!Init
  BY Zenon
<1>1. CopyInv
  BY Zenon DEF BufInit, CopyInv
<1>2. \A b \in Blocks : Content[b] \in Values
  BY Zenon DEF BufInit, Content, Values
<1>3. Content \in [Blocks -> Values]
  BY <1>2, Zenon DEF Content
<1>4. Has = [p \in Procs |-> NoBlock]
  BY Zenon DEF BufInit, Has
<1> QED
  BY <1>1, <1>3, <1>4, Zenon DEF Store!Init

\* bio.c, ide.c, sleeplock.c: while the drive reports no error, for any number of
\* processes, buffers and blocks, what bread returns is what was last written to
\* the block, and only the process that has a block changes it.
THEOREM CacheIsStore == ASSUME TRUE \notin DriveErrors PROVE BufSpec => ImplementsBlockStore
<1>1. BufInit => BufInv /\ CopyInv /\ Store!Init
  BY BufInitial, StoreInitial, Zenon
<1>2. BufInv /\ CopyInv /\ [BufNext]_bufVars => BufInv' /\ CopyInv' /\ [Store!Next]_<<Content, Has>>
  BY BufSteps, CopySteps, StoreSteps, Zenon
<1> QED
  BY <1>1, <1>2, PTL DEF BufSpec, ImplementsBlockStore, Store!Spec
=============================================================================
