------------------------------ MODULE LogProofs ------------------------------
(***************************************************************************)
(* The log's properties for any number of calls, blocks and log sizes.     *)
(*                                                                         *)
(* LogInv is inductive by itself and gives the three invariants.  For the  *)
(* refinement AtomicInv adds what each stage of commit and recovery finds  *)
(* on disk.  The abstract disk is what recovery would make of the disk     *)
(* now: only write_head changes it, all at once; installing a block again  *)
(* changes nothing, since no block is noted twice.                         *)
(***************************************************************************)
EXTENDS Log, FiniteSetTheorems, TLAPS

USE SMTT(30)

LogType ==
  /\ DOMAIN disk = Addrs /\ DOMAIN cache = Addrs
  /\ header \in Seq(Homes) /\ lh \in Seq(Homes)
  /\ outstanding \in Nat
  /\ pc \in [Ops -> Places] /\ arg \in [Ops -> Homes \X Values]
  /\ stage \in Stages /\ tail \in Nat

\* Where commit() and recovery are, and that no call is active meanwhile.
StageInv ==
  /\ committing => stage \in {"write_log", "write_head", "install", "clear", "done"} /\ Active = {}
  /\ ~committing => stage \in {"none", "read_head", "install", "clear"}
  /\ Booting => \A p \in Ops : pc[p] = "out"

LogInv == LogType /\ StageInv /\ outstanding = Cardinality(Active) /\ Pinned /\ SleepersMustWait

\* No block is noted twice.
OneToOne(s) == \A i, j \in 1 .. Len(s) : s[i] = s[j] => i = j

\* The header that each stage finds on disk.
HeaderInv ==
  /\ stage \in {"none", "write_log", "write_head", "done"} => header = <<>>
  /\ stage \in {"install", "clear"} => header = lh
  /\ stage = "done" => lh = <<>>
  /\ stage \in {"write_log", "install"} => tail < Len(lh)
  /\ stage = "write_head" => Len(lh) > 0

\* Only noted blocks are dirty, and those no longer that are installed.
DirtyInv ==
  /\ dirty \subseteq Homes
  /\ \A b \in dirty : \E i \in 1 .. Len(lh) : lh[i] = b /\ (stage = "install" => i > tail)
  /\ stage \in {"clear", "done"} \/ Booting => dirty = {}

\* The log on disk: what write_log has copied, and what install_trans has.
CopyInv ==
  /\ stage = "write_log" => \A i \in 1 .. tail : disk[i] = cache[lh[i]]
  /\ stage \in {"write_head", "install", "clear"} /\ committing
       => \A i \in 1 .. Len(lh) : disk[i] = cache[lh[i]]
  /\ stage = "install" => \A i \in 1 .. tail : disk[lh[i]] = disk[i]
  /\ stage = "clear" => \A i \in 1 .. Len(lh) : disk[lh[i]] = disk[i]

ValuesInv == disk \in [Addrs -> Values] /\ cache \in [Addrs -> Values]

AtomicInv == /\ LogInv /\ ValuesInv /\ OneToOne(lh) /\ OneToOne(header)
             /\ HeaderInv /\ DirtyInv /\ CopyInv /\ Len(header) <= nlog - 1

-----------------------------------------------------------------------------
LEMMA LogConstants ==
  /\ NHOME \in Nat \ {0} /\ MAXOPBLOCKS \in Nat \ {0} /\ nlog \in Nat \ {0} /\ LOGSIZE \in Nat
  /\ IsFiniteSet(Ops) /\ nlog \in Homes /\ Homes \subseteq Addrs
  /\ NoArgs \in [Ops -> Homes \X Values]
<1>1. /\ NHOME \in Nat \ {0} /\ MAXOPBLOCKS \in Nat \ {0} /\ nlog \in Nat \ {0} /\ LOGSIZE \in Nat
      /\ IsFiniteSet(Ops) /\ Values # {}
  BY LogAssumption, Zenon
<1>2. nlog \in Homes /\ Homes \subseteq Addrs
  BY <1>1 DEF Homes, Addrs
<1>3. (CHOOSE v \in Values : TRUE) \in Values
  BY <1>1, Zenon
<1> QED
  BY <1>1, <1>2, <1>3, Zenon DEF NoArgs

\* Counting the calls: a set of calls with one more and with one less.
LEMMA CountIn ==
  ASSUME NEW S \in SUBSET Ops, NEW p \in Ops
  PROVE  /\ Cardinality(S) \in Nat
         /\ p \notin S => Cardinality(S \cup {p}) = Cardinality(S) + 1
         /\ p \in S => Cardinality(S \ {p}) = Cardinality(S) - 1 /\ Cardinality(S) > 0
<1>1. IsFiniteSet(S)
  BY LogConstants, FS_Subset, Zenon
<1>2. Cardinality(S) \in Nat
  BY <1>1, FS_CardinalityType, Zenon
<1>3. p \notin S => Cardinality(S \cup {p}) = Cardinality(S) + 1
  BY <1>1, FS_AddElement, Zenon
<1>4. p \in S => Cardinality(S \ {p}) = Cardinality(S) - 1
  BY <1>1, FS_RemoveElement, Zenon
<1>5. p \in S => Cardinality(S) # 0
  BY <1>1, FS_EmptySet, Zenon
<1> QED
  BY <1>2, <1>3, <1>4, <1>5

LEMMA LogStarts == Init => LogInv
<1> SUFFICES ASSUME Init PROVE LogInv
  BY Zenon
<1>1. Active = {}
  BY Zenon DEF Init, Active, NoCalls
<1>2. Cardinality(Active) = 0
  BY <1>1, FS_EmptySet, Zenon
<1>3. LogType
  <2>1. DOMAIN disk = Addrs /\ DOMAIN cache = Addrs
    BY Zenon DEF Init
  <2>2. pc \in [Ops -> Places] /\ arg \in [Ops -> Homes \X Values]
    BY LogConstants, Zenon DEF Init, NoCalls, Places
  <2> QED
    BY <2>1, <2>2 DEF Init, LogType, Stages
<1> QED
  BY <1>1, <1>2, <1>3, Zenon DEF Init, LogInv, StageInv, Booting, Pinned, SleepersMustWait, NoCalls

\* log.c:124-141: begin_op counts the call in, or puts it to sleep with a reason.
LEMMA BeginKeeps ==
  ASSUME LogInv, NEW p \in Ops, begin_op(p)
  PROVE  LogInv' /\ Active' = (IF pc'[p] = "op" THEN Active \cup {p} ELSE Active) /\ p \notin Active
<1>1. LogType'
  BY DEF LogInv, LogType, begin_op, stable, Places
<1>2. p \notin Active /\ Active' = IF pc'[p] = "op" THEN Active \cup {p} ELSE Active
  BY Zenon DEF LogInv, LogType, begin_op, Active
<1>3. outstanding' = Cardinality(Active')
  <2>1. Active \in SUBSET Ops
    BY Zenon DEF Active
  <2> QED
    BY <1>2, <2>1, CountIn, Zenon DEF LogInv, LogType, begin_op
<1>4. StageInv'
  BY <1>2, Zenon DEF LogInv, LogType, StageInv, Booting, begin_op
<1>5. Pinned'
  BY Zenon DEF LogInv, Pinned, begin_op, stable
<1>6. SleepersMustWait'
  <2>1. outstanding \in Nat /\ Len(lh) \in Nat /\ lh' = lh /\ committing' = committing
    BY DEF LogInv, LogType, begin_op
  <2>2. CASE committing \/ Len(lh) + (outstanding + 1) * MAXOPBLOCKS > LOGSIZE
    BY <2>1, <2>2 DEF LogInv, LogType, SleepersMustWait, begin_op
  <2>3. CASE ~(committing \/ Len(lh) + (outstanding + 1) * MAXOPBLOCKS > LOGSIZE)
    <3>1. \A q \in Ops : pc[q] # "asleep"
      BY <2>3, Zenon DEF LogInv, SleepersMustWait
    <3> QED
      BY <2>3, <3>1, Zenon DEF LogInv, LogType, SleepersMustWait, begin_op
  <2> QED
    BY <2>2, <2>3, Zenon
<1> QED
  BY <1>1, <1>2, <1>3, <1>4, <1>5, <1>6, Zenon DEF LogInv

\* log.c:213-222: looking at the size of the log changes no count.
LEMMA CheckKeeps ==
  ASSUME LogInv, NEW p \in Ops, NEW b \in Homes, NEW v \in Values, log_write_check(p, b, v)
  PROVE  LogInv' /\ Active' = Active
<1>1. LogType'
  <2>1. pc' \in [Ops -> Places]
    <3>1. pc' = pc \/ pc' = [pc EXCEPT ![p] = "logging"]
      BY Zenon DEF log_write_check, calls
    <3> QED
      BY <3>1, Zenon DEF LogInv, LogType, Places
  <2>2. arg' \in [Ops -> Homes \X Values]
    BY DEF LogInv, LogType, log_write_check, calls
  <2> QED
    BY <2>1, <2>2, Zenon DEF LogInv, LogType, log_write_check, stable
<1>2. Active' = Active
  BY Zenon DEF LogInv, LogType, log_write_check, Active, calls
<1>3. StageInv'
  BY <1>2, Zenon DEF LogInv, LogType, StageInv, Booting, log_write_check, calls
<1>4. Pinned'
  BY Zenon DEF LogInv, Pinned, log_write_check, stable
<1>5. SleepersMustWait'
  BY Zenon DEF LogInv, LogType, SleepersMustWait, log_write_check, calls
<1> QED
  BY <1>1, <1>2, <1>3, <1>4, <1>5, Zenon DEF LogInv, log_write_check

\* log.c:223-233: log_write pins the block it has noted.
LEMMA WriteKeeps ==
  ASSUME LogInv, NEW p \in Ops, log_write(p)
  PROVE  LogInv' /\ Active' = Active /\ p \in Active
<1>0. arg[p][1] \in Homes
  BY Zenon DEF LogInv, LogType
<1>1. lh' \in Seq(Homes) /\ Len(lh') \in Nat /\ Len(lh') >= Len(lh)
  BY <1>0 DEF LogInv, LogType, log_write
<1>2. LogType'
  <2>1. pc' \in [Ops -> Places]
    BY Zenon DEF LogInv, LogType, log_write, Places
  <2>2. arg' \in [Ops -> Homes \X Values]
    <3>1. NoArgs[p] \in Homes \X Values
      BY LogConstants, Zenon
    <3>2. arg' = [arg EXCEPT ![p] = NoArgs[p]] /\ arg \in [Ops -> Homes \X Values]
      BY Zenon DEF LogInv, LogType, log_write
    <3> QED
      BY <3>1, <3>2, Zenon
  <2>3. DOMAIN cache' = Addrs
    BY Zenon DEF LogInv, LogType, log_write
  <2> QED
    BY <1>1, <2>1, <2>2, <2>3, Zenon DEF LogInv, LogType, log_write, stable
<1>3. Active' = Active /\ p \in Active
  BY Zenon DEF LogInv, LogType, log_write, Active
<1>4. StageInv'
  BY <1>3, Zenon DEF LogInv, LogType, StageInv, Booting, log_write
<1>5. Pinned'
  BY <1>0, Zenon DEF LogInv, LogType, Pinned, log_write, stable
<1>6. SleepersMustWait'
  <2>1. (outstanding + 1) * MAXOPBLOCKS \in Nat /\ Len(lh) \in Nat
    BY LogConstants DEF LogInv, LogType
  <2>2. /\ SleepersMustWait /\ outstanding' = outstanding /\ committing' = committing
        /\ \A q \in Ops : pc'[q] = "asleep" => pc[q] = "asleep"
    BY Zenon DEF LogInv, LogType, log_write
  <2>3. Len(lh') \in Nat /\ Len(lh') >= Len(lh)
    BY <1>1, <2>1 DEF log_write
  <2> QED
    BY <2>1, <2>2, <2>3, LogConstants DEF SleepersMustWait
<1> QED
  BY <1>2, <1>3, <1>4, <1>5, <1>6, Zenon DEF LogInv, log_write

\* log.c:145-163: the last call out starts the commit, another wakes the rest.
LEMMA EndKeeps ==
  ASSUME LogInv, NEW p \in Ops, end_op(p)
  PROVE  LogInv' /\ Active' = Active \ {p} /\ p \in Active /\ ~committing /\ stage = "none"
<1>e. /\ pc[p] = "op" /\ outstanding' = outstanding - 1
      /\ \/ /\ outstanding = 1 /\ committing' /\ tail' = 0 /\ pc' = [pc EXCEPT ![p] = "end"]
            /\ stage' = IF Len(lh) > 0 THEN "write_log" ELSE "done"
         \/ /\ outstanding # 1 /\ UNCHANGED <<committing, stage, tail>>
            /\ pc' = [Woken EXCEPT ![p] = "out"]
      /\ UNCHANGED <<stable, cache, dirty, lh, arg>>
  BY Zenon DEF end_op
<1>1. p \in Active /\ ~committing /\ stage = "none"
  BY <1>e, Zenon DEF LogInv, LogType, StageInv, Booting, Active
<1>w. /\ pc' \in [Ops -> Places] /\ pc'[p] \in {"out", "end"}
      /\ \A q \in Ops \ {p} : \/ pc'[q] = pc[q] /\ outstanding = 1
                              \/ /\ outstanding # 1
                                 /\ pc'[q] = IF pc[q] = "asleep" THEN "awake" ELSE pc[q]
  <2>0. pc \in [Ops -> Places]
    BY Zenon DEF LogInv, LogType
  <2>1. CASE outstanding = 1 /\ pc' = [pc EXCEPT ![p] = "end"]
    BY <2>0, <2>1, Zenon DEF Places
  <2>2. CASE outstanding # 1 /\ pc' = [Woken EXCEPT ![p] = "out"]
    BY <2>0, <2>2, Zenon DEF Places, Woken
  <2> QED
    BY <1>e, <2>1, <2>2, Zenon
<1>2. Active' = Active \ {p}
  BY <1>w, Zenon DEF Active
<1>3. outstanding' = Cardinality(Active') /\ outstanding' \in Nat /\ (outstanding = 1 => Active' = {})
  <2>1. Active \in SUBSET Ops /\ Active' \in SUBSET Ops
    BY Zenon DEF Active
  <2>2. outstanding \in Nat /\ outstanding = Cardinality(Active)
    BY Zenon DEF LogInv, LogType
  <2>3. Cardinality(Active \ {p}) = Cardinality(Active) - 1 /\ Cardinality(Active) > 0
    BY <1>1, <2>1, CountIn, Zenon
  <2>4. outstanding' = Cardinality(Active') /\ outstanding' \in Nat
    BY <1>e, <1>2, <2>2, <2>3
  <2>5. IsFiniteSet(Active')
    BY <2>1, LogConstants, FS_Subset, Zenon
  <2>6. Cardinality(Active') = 0 => Active' = {}
    BY <2>5, FS_EmptySet, Zenon
  <2> QED
    BY <1>e, <2>2, <2>4, <2>6
<1>4. LogType'
  BY <1>e, <1>w, <1>3 DEF LogInv, LogType, stable, Stages
<1>5. StageInv'
  BY <1>e, <1>1, <1>3 DEF LogInv, LogType, StageInv, Booting
<1>6. Pinned'
  BY <1>e, Zenon DEF LogInv, Pinned, stable
<1>7. SleepersMustWait'
  <2>1. CASE outstanding = 1
    BY <1>e, <2>1, Zenon DEF SleepersMustWait
  <2>2. CASE outstanding # 1
    BY <1>w, <2>2, Zenon DEF LogInv, LogType, SleepersMustWait
  <2> QED
    BY <2>1, <2>2, Zenon
<1> QED
  BY <1>1, <1>2, <1>3, <1>4, <1>5, <1>6, <1>7, Zenon DEF LogInv

\* bio.c:108-116: a written block is the same in the cache and on the disk.
LEMMA BwriteKeeps ==
  ASSUME LogInv, NEW a, NEW v, bwrite(a, v)
  PROVE  /\ DOMAIN disk' = Addrs /\ DOMAIN cache' = Addrs
         /\ Pinned'
<1>1. DOMAIN disk' = Addrs
  BY Zenon DEF LogInv, LogType, bwrite
<1>2. DOMAIN cache' = Addrs
  BY Zenon DEF LogInv, LogType, bwrite
<1>3. Pinned'
  BY Zenon DEF LogInv, LogType, bwrite, Pinned
<1> QED
  BY <1>1, <1>2, <1>3, Zenon

\* log.c:68-122, 176-202: the steps of commit() and recovery move no call.
LEMMA CommitKeeps ==
  ASSUME LogInv, write_log \/ write_head \/ read_head \/ install_trans \/ clear_head
  PROVE  LogInv' /\ Active' = Active
<1>1. Active' = Active
  BY Zenon DEF Active, write_log, write_head, read_head, install_trans, clear_head, calls
<1>2. Pinned' /\ DOMAIN disk' = Addrs /\ DOMAIN cache' = Addrs
  <2>1. CASE write_log \/ install_trans
    BY <2>1, BwriteKeeps, Zenon DEF write_log, install_trans
  <2>2. CASE ~(write_log \/ install_trans)
    BY <2>2, Zenon DEF LogInv, LogType, Pinned, write_head, read_head, clear_head, stable
  <2> QED
    BY <2>1, <2>2, Zenon
<1>3. LogType'
  <2>1. header' \in Seq(Homes) /\ lh' \in Seq(Homes)
    <3>1. header \in Seq(Homes) /\ lh \in Seq(Homes) /\ <<>> \in Seq(Homes)
      BY DEF LogInv, LogType
    <3>2. /\ header' = header \/ header' = lh \/ header' = <<>>
          /\ lh' = header \/ lh' = lh \/ lh' = <<>>
      <4>1. CASE write_log \/ install_trans
        BY <4>1, Zenon DEF write_log, install_trans
      <4>2. CASE write_head \/ read_head \/ clear_head
        BY <4>2, Zenon DEF write_head, read_head, clear_head, stable
      <4> QED
        BY <4>1, <4>2, Zenon
    <3> QED
      BY <3>1, <3>2, Zenon
  <2>2. stage' \in Stages /\ tail' \in Nat
    BY DEF LogInv, LogType, write_log, write_head, read_head, install_trans, clear_head, Stages
  <2> QED
    BY <1>2, <2>1, <2>2, Zenon
    DEF LogInv, LogType, write_log, write_head, read_head, install_trans, clear_head, calls
<1>4. StageInv'
  BY <1>1 DEF LogInv, LogType, StageInv, Booting, write_log, write_head, read_head, install_trans,
              clear_head, calls
<1>5. SleepersMustWait'
  BY Zenon DEF LogInv, LogType, StageInv, Booting, SleepersMustWait, write_log, write_head, read_head,
         install_trans, clear_head, calls
<1>6. outstanding' = outstanding
  BY Zenon DEF write_log, write_head, read_head, install_trans, clear_head
<1> QED
  BY <1>1, <1>2, <1>3, <1>4, <1>5, <1>6, Zenon DEF LogInv

\* log.c:165-174: the end of a commit wakes everyone.
LEMMA EndCommitKeeps ==
  ASSUME LogInv, NEW p \in Ops, end_commit(p)
  PROVE  LogInv' /\ Active' = Active
<1>1. Active' = Active
  BY Zenon DEF LogInv, LogType, end_commit, Active, Woken
<1>2. LogType'
  BY Zenon DEF LogInv, LogType, end_commit, Woken, Places, Stages, stable
<1>3. StageInv'
  BY <1>1, Zenon DEF LogInv, LogType, StageInv, Booting, end_commit
<1>4. Pinned'
  BY Zenon DEF LogInv, Pinned, end_commit, stable
<1>5. SleepersMustWait'
  BY Zenon DEF LogInv, LogType, SleepersMustWait, end_commit, Woken
<1> QED
  BY <1>1, <1>2, <1>3, <1>4, <1>5, Zenon DEF LogInv, end_commit

\* bio.c:78-106: a recycled buffer holds what the disk does, which is what it held.
LEMMA EvictKeeps ==
  ASSUME LogInv, NEW a \in Addrs, evict(a)
  PROVE  LogInv' /\ \A x \in Addrs : cache'[x] = cache[x]
<1>1. DOMAIN cache' = Addrs /\ \A x \in Addrs : cache'[x] = cache[x]
  BY Zenon DEF LogInv, LogType, Pinned, evict
<1> QED
  BY <1>1, Zenon DEF evict, LogInv, LogType, StageInv, Booting, Active, Pinned, SleepersMustWait, stable, calls

\* log.c:115-122: a crash leaves the disk and nothing else.
LEMMA CrashKeeps ==
  ASSUME LogInv, Crash
  PROVE  LogInv' /\ Active' = {}
<1>1. Active' = {}
  BY Zenon DEF Crash, Active, NoCalls
<1>2. Cardinality(Active') = 0
  BY <1>1, FS_EmptySet, Zenon
<1>3. LogType'
  <2>1. pc' \in [Ops -> Places] /\ arg' \in [Ops -> Homes \X Values]
    BY LogConstants, Zenon DEF Crash, NoCalls, Places
  <2> QED
    BY <2>1 DEF LogInv, LogType, Crash, Stages, stable
<1> QED
  BY <1>1, <1>2, <1>3, Zenon DEF LogInv, StageInv, Booting, Pinned, SleepersMustWait, Crash, NoCalls, stable

LEMMA LogKeeps == LogInv /\ [Next]_vars => LogInv'
<1> SUFFICES ASSUME LogInv, [Next]_vars PROVE LogInv'
  BY Zenon
<1>1. CASE \E p \in Ops : Call(p)
  BY <1>1, BeginKeeps, CheckKeeps, WriteKeeps, EndKeeps, EndCommitKeeps, Zenon DEF Call
<1>2. CASE write_log \/ write_head \/ read_head \/ install_trans \/ clear_head
  BY <1>2, CommitKeeps, Zenon
<1>3. CASE \E a \in Addrs : evict(a)
  BY <1>3, EvictKeeps, Zenon
<1>4. CASE Crash
  BY <1>4, CrashKeeps, Zenon
<1>5. CASE UNCHANGED vars
  BY <1>5, Zenon DEF vars, stable, calls, LogInv, LogType, StageInv, Booting, Active, Pinned, SleepersMustWait
<1> QED
  BY <1>1, <1>2, <1>3, <1>4, <1>5, Zenon DEF Next

-----------------------------------------------------------------------------
LEMMA LogSafe == Spec => []LogInv
  BY LogStarts, LogKeeps, PTL DEF Spec

\* log.c:124-174: outstanding counts the calls that are active, and a commit
\* runs only while there is none, for any number of calls and any log size.
THEOREM CommitIsAlone == Spec => []CommitsAlone
<1>1. LogInv => CommitsAlone
  BY Zenon DEF LogInv, StageInv, CommitsAlone
<1> QED
  BY LogSafe, <1>1, PTL

\* log.c:232, bio.c:82: only pinned blocks differ from the disk, so that
\* recycling a buffer loses nothing.
THEOREM UpdatesPinned == Spec => []Pinned
<1>1. LogInv => Pinned
  BY Zenon DEF LogInv
<1> QED
  BY LogSafe, <1>1, PTL

\* log.c:128-136, 158-171: whoever sleeps in begin_op waits for a commit that
\* is going on or for space that is not there.
THEOREM NoNeedlessSleep == Spec => []SleepersMustWait
<1>1. LogInv => SleepersMustWait
  BY Zenon DEF LogInv
<1> QED
  BY LogSafe, <1>1, PTL
-----------------------------------------------------------------------------
\* What recovery makes of a header h and the blocks d.
Rec(h, d) ==
  [b \in Homes |-> IF \E i \in 1 .. Len(h) : h[i] = b
                   THEN d[CHOOSE i \in 1 .. Len(h) : h[i] = b]
                   ELSE d[b]]

\* The blocks that the calls see.
Mem == IF Booting THEN Recovered ELSE [b \in Homes |-> cache[b]]

\* Recovery yields f, if f is the log's copy where there is one.
LEMMA RecIs ==
  ASSUME NEW h \in Seq(Homes), OneToOne(h), NEW d, NEW f,
         \A i \in 1 .. Len(h) : f[h[i]] = d[i],
         \A b \in Homes : (\A i \in 1 .. Len(h) : h[i] # b) => f[b] = d[b]
  PROVE  Rec(h, d) = [b \in Homes |-> f[b]]
<1>1. ASSUME NEW b \in Homes
      PROVE  (IF \E i \in 1 .. Len(h) : h[i] = b
              THEN d[CHOOSE i \in 1 .. Len(h) : h[i] = b]
              ELSE d[b]) = f[b]
  <2>1. CASE \E i \in 1 .. Len(h) : h[i] = b
    <3>1. PICK j : j = CHOOSE i \in 1 .. Len(h) : h[i] = b
      BY Zenon
    <3>2. j \in 1 .. Len(h) /\ h[j] = b
      BY <2>1, <3>1, Zenon
    <3> QED
      BY <2>1, <3>1, <3>2, Zenon
  <2>2. CASE ~\E i \in 1 .. Len(h) : h[i] = b
    BY <2>2, Zenon
  <2> QED
    BY <2>1, <2>2, Zenon
<1> QED
  BY <1>1 DEF Rec

\* The log's copies, and the blocks without one, are what recovery yields.
LEMMA RecAt ==
  ASSUME NEW h \in Seq(Homes), OneToOne(h), NEW d
  PROVE  /\ \A i \in 1 .. Len(h) : Rec(h, d)[h[i]] = d[i]
         /\ \A b \in Homes : (\A i \in 1 .. Len(h) : h[i] # b) => Rec(h, d)[b] = d[b]
<1>1. ASSUME NEW k \in 1 .. Len(h)
      PROVE  Rec(h, d)[h[k]] = d[k]
  <2>1. PICK j : j = CHOOSE i \in 1 .. Len(h) : h[i] = h[k]
    BY Zenon
  <2>2. j \in 1 .. Len(h) /\ h[j] = h[k]
    BY <2>1, Zenon
  <2>3. j = k
    BY <2>2, Zenon DEF OneToOne
  <2>4. h[k] \in Homes
    OBVIOUS
  <2> QED
    BY <2>1, <2>3, <2>4, Zenon DEF Rec
<1>2. ASSUME NEW b \in Homes, \A i \in 1 .. Len(h) : h[i] # b
      PROVE  Rec(h, d)[b] = d[b]
  <2>1. ~\E i \in 1 .. Len(h) : h[i] = b
    BY <1>2, Zenon
  <2> QED
    BY <2>1, Zenon DEF Rec
<1> QED
  BY <1>1, <1>2, Zenon

\* Recovery reads the log's copies and the blocks without one, and no others.
LEMMA RecSame ==
  ASSUME NEW h \in Seq(Homes), OneToOne(h), NEW d, NEW e,
         \A i \in 1 .. Len(h) : d[i] = e[i],
         \A b \in Homes : (\A i \in 1 .. Len(h) : h[i] # b) => d[b] = e[b]
  PROVE  Rec(h, d) = Rec(h, e)
<1>1. Rec(h, d) = [b \in Homes |-> Rec(h, e)[b]]
  BY RecAt, RecIs
<1>2. Rec(h, e) = [b \in Homes |-> Rec(h, e)[b]]
  BY Zenon DEF Rec
<1> QED
  BY <1>1, <1>2, Zenon

LEMMA RecNone ==
  ASSUME NEW d PROVE Rec(<<>>, d) = [b \in Homes |-> d[b]]
<1>1. Len(<<>>) = 0
  BY Zenon
<1> QED
  BY <1>1 DEF Rec

LEMMA RecoveredIs == Recovered = Rec(header, disk) /\ Recovered' = Rec(header', disk')
BY Zenon DEF Recovered, Rec

\* The blocks of the log are no blocks of the file system.
LEMMA LogBlocks ==
  ASSUME NEW n \in Nat, n <= nlog - 1, NEW i \in 1 .. n
  PROVE  i \in Addrs /\ i \notin Homes
BY LogConstants DEF Addrs, Homes

\* A step that leaves the disk, the cache and the commit alone.
LEMMA FrameKeeps ==
  ASSUME AtomicInv, LogInv', UNCHANGED <<disk, header, cache, dirty, lh, stage, tail, committing>>
  PROVE  AtomicInv' /\ Mem' = Mem /\ Recovered' = Recovered
<1>1. ValuesInv' /\ OneToOne(lh)' /\ OneToOne(header)' /\ Len(header') <= nlog - 1
  BY Zenon DEF AtomicInv, ValuesInv, OneToOne
<1>2. HeaderInv' /\ DirtyInv' /\ CopyInv'
  BY DEF AtomicInv, HeaderInv, DirtyInv, CopyInv, Booting
<1>3. Mem' = Mem /\ Recovered' = Recovered
  BY Zenon DEF Mem, Recovered, Booting
<1> QED
  BY <1>1, <1>2, <1>3, Zenon DEF AtomicInv

LEMMA AtomicStarts == Init => AtomicInv
<1> SUFFICES ASSUME Init PROVE AtomicInv
  BY Zenon
<1>1. LogInv
  BY LogStarts, Zenon
<1>2. ValuesInv
  BY Zenon DEF Init, ValuesInv
<1>3. Len(lh) = 0 /\ Len(header) = 0
  BY Zenon DEF Init
<1>4. OneToOne(lh) /\ OneToOne(header) /\ Len(header) <= nlog - 1
  BY <1>3, LogConstants DEF OneToOne
<1>5. HeaderInv /\ DirtyInv /\ CopyInv
  BY <1>3, Zenon DEF Init, HeaderInv, DirtyInv, CopyInv, Booting
<1> QED
  BY <1>1, <1>2, <1>4, <1>5, Zenon DEF AtomicInv

\* log.c:223-233: log_write is the call's write, and notes each block once.
LEMMA AtomicWrite ==
  ASSUME AtomicInv, NEW p \in Ops, log_write(p)
  PROVE  /\ AtomicInv' /\ Recovered' = Recovered
         /\ Mem' = [Mem EXCEPT ![arg[p][1]] = arg[p][2]]
<1> DEFINE b == arg[p][1]
           v == arg[p][2]
<1>1. LogInv' /\ p \in Active
  BY WriteKeeps, Zenon DEF AtomicInv
<1>2. b \in Homes /\ v \in Values /\ lh \in Seq(Homes) /\ lh' \in Seq(Homes)
  BY <1>1, Zenon DEF AtomicInv, LogInv, LogType
<1>3. ~Booting /\ ~committing /\ stage = "none" /\ UNCHANGED <<disk, header, stage, tail, committing>>
  BY <1>1, Zenon DEF AtomicInv, LogInv, StageInv, Booting, Active, log_write, stable
<1>4. ~Booting'
  BY <1>3, Zenon DEF Booting
<1>5. b \in Addrs /\ cache' = [cache EXCEPT ![b] = v] /\ dirty' = dirty \cup {b}
  <2>1. b \in Addrs
    BY <1>2, LogConstants, ZenonT(60)
  <2> QED
    BY <2>1, Zenon DEF log_write
<1>6. ValuesInv'
  BY <1>2, <1>3, <1>5, Zenon DEF AtomicInv, ValuesInv
<1>7. lh' = IF \E i \in 1 .. Len(lh) : lh[i] = b THEN lh ELSE Append(lh, b)
  BY Zenon DEF log_write
<1> HIDE DEF b, v
<1>8. OneToOne(lh)' /\ (\E i \in 1 .. Len(lh') : lh'[i] = b)
                    /\ \A i \in 1 .. Len(lh) : i \in 1 .. Len(lh') /\ lh'[i] = lh[i]
  BY <1>2, <1>7 DEF AtomicInv, OneToOne
<1>9. HeaderInv' /\ CopyInv' /\ OneToOne(header)' /\ Len(header') <= nlog - 1
  BY <1>3 DEF AtomicInv, HeaderInv, CopyInv, OneToOne
<1>10. DirtyInv'
  BY <1>2, <1>3, <1>4, <1>5, <1>8, Zenon DEF AtomicInv, DirtyInv
<1>11. Recovered' = Recovered
  BY <1>3, Zenon DEF Recovered
<1>12. Mem' = [Mem EXCEPT ![b] = v]
  <2>1. Mem = [x \in Homes |-> cache[x]] /\ Mem' = [x \in Homes |-> cache'[x]]
    BY <1>3, <1>4, Zenon DEF Mem
  <2>2. \A x \in Homes : cache'[x] = IF x = b THEN v ELSE cache[x]
    BY <1>5, LogConstants, Zenon DEF AtomicInv, ValuesInv
  <2>3. [[x \in Homes |-> cache[x]] EXCEPT ![b] = v] = [x \in Homes |-> IF x = b THEN v ELSE cache[x]]
    BY Zenon
  <2>4. [x \in Homes |-> cache'[x]] = [x \in Homes |-> IF x = b THEN v ELSE cache[x]]
    BY <2>2, Zenon
  <2> QED
    BY <2>1, <2>3, <2>4, ZenonT(60)
<1> QED
  BY <1>1, <1>6, <1>8, <1>9, <1>10, <1>11, <1>12, Zenon DEF AtomicInv, b, v

\* log.c:145-163: the end of a call changes no block.
LEMMA AtomicEnd ==
  ASSUME AtomicInv, NEW p \in Ops, end_op(p)
  PROVE  AtomicInv' /\ Recovered' = Recovered /\ Mem' = Mem
<1>1. LogInv' /\ ~committing /\ stage = "none"
  BY EndKeeps, Zenon DEF AtomicInv
<1>2. /\ UNCHANGED <<disk, header, cache, dirty, lh>>
      /\ \/ committing' /\ tail' = 0 /\ stage' = IF Len(lh) > 0 THEN "write_log" ELSE "done"
         \/ committing' = committing /\ stage' = stage /\ tail' = tail
  <2>1. UNCHANGED <<disk, header, cache, dirty, lh>>
    BY Zenon DEF end_op, stable
  <2>2. \/ committing' /\ tail' = 0 /\ stage' = IF Len(lh) > 0 THEN "write_log" ELSE "done"
        \/ committing' = committing /\ stage' = stage /\ tail' = tail
    BY Zenon DEF end_op
  <2> QED
    BY <2>1, <2>2, Zenon
<1>3. lh \in Seq(Homes) /\ Len(lh) \in Nat /\ (Len(lh) = 0 => lh = <<>>)
  BY DEF AtomicInv, LogInv, LogType
<1>4. ~Booting /\ ~Booting'
  BY <1>1, <1>2, Zenon DEF Booting
<1>5. HeaderInv' /\ CopyInv'
  BY <1>1, <1>2, <1>3 DEF AtomicInv, HeaderInv, CopyInv
<1>6. DirtyInv'
  BY <1>1, <1>2, <1>3, <1>4 DEF AtomicInv, DirtyInv
<1>7. Recovered' = Recovered /\ Mem' = Mem
  BY <1>2, <1>4, Zenon DEF Recovered, Mem
<1> QED
  BY <1>1, <1>2, <1>5, <1>6, <1>7, Zenon DEF AtomicInv, ValuesInv, OneToOne

\* log.c:165-174: the end of a commit changes no block.
LEMMA AtomicEndCommit ==
  ASSUME AtomicInv, NEW p \in Ops, end_commit(p)
  PROVE  AtomicInv' /\ Recovered' = Recovered /\ Mem' = Mem
<1>1. LogInv'
  BY EndCommitKeeps, Zenon DEF AtomicInv
<1>2. /\ UNCHANGED <<disk, header, cache, dirty, lh, tail>> /\ ~committing' /\ committing
      /\ stage = "done" /\ stage' = "none"
  BY Zenon DEF end_commit, stable, AtomicInv, LogInv, StageInv
<1>3. ~Booting /\ ~Booting'
  BY <1>2, Zenon DEF Booting
<1>4. HeaderInv' /\ CopyInv' /\ DirtyInv'
  BY <1>2, <1>3, Zenon DEF AtomicInv, HeaderInv, CopyInv, DirtyInv
<1>5. Recovered' = Recovered /\ Mem' = Mem
  BY <1>2, <1>3, Zenon DEF Recovered, Mem
<1> QED
  BY <1>1, <1>2, <1>4, <1>5, Zenon DEF AtomicInv, ValuesInv, OneToOne

\* log.c:176-190: write_log writes into the log only, whose header is empty.
LEMMA AtomicWriteLog ==
  ASSUME AtomicInv, LogFits, write_log
  PROVE  AtomicInv' /\ Recovered' = Recovered /\ Mem' = Mem
<1> DEFINE n == tail + 1
           v == cache[lh[tail + 1]]
<1>1. LogInv'
  BY CommitKeeps, Zenon DEF AtomicInv
<1>2. lh \in Seq(Homes) /\ Len(lh) \in Nat /\ tail \in Nat /\ tail < Len(lh) /\ Len(lh) <= nlog - 1
  BY DEF AtomicInv, LogInv, LogType, HeaderInv, LogFits, write_log
<1>3. n \in 1 .. Len(lh) /\ n \in Addrs /\ n \notin Homes /\ lh[n] \in Homes /\ v \in Values
  <2>1. n \in 1 .. Len(lh) /\ lh[n] \in Homes
    BY <1>2
  <2>2. n \in Addrs /\ n \notin Homes
    BY <1>2, <2>1, LogBlocks, Zenon
  <2>3. lh[n] \in Addrs
    BY <2>1, LogConstants, ZenonT(60)
  <2> QED
    BY <2>1, <2>2, <2>3, Zenon DEF AtomicInv, ValuesInv
<1>4. /\ stage = "write_log" /\ committing /\ committing' /\ UNCHANGED <<header, lh>> /\ header = <<>>
      /\ tail' = n /\ stage' = IF n = Len(lh) THEN "write_head" ELSE "write_log"
      /\ disk' = [disk EXCEPT ![n] = v] /\ cache' = [cache EXCEPT ![n] = v] /\ dirty' = dirty \ {n}
  BY Zenon DEF AtomicInv, LogInv, StageInv, HeaderInv, write_log, bwrite
<1> HIDE DEF n, v
<1>5. ValuesInv'
  BY <1>3, <1>4, Zenon DEF AtomicInv, ValuesInv
<1>6. \A x \in Homes : disk'[x] = disk[x] /\ cache'[x] = cache[x]
  BY <1>3, <1>4, LogConstants, Zenon DEF AtomicInv, ValuesInv
<1>7. ~Booting /\ ~Booting'
  BY <1>4, Zenon DEF Booting
<1>8. HeaderInv' /\ OneToOne(lh)' /\ OneToOne(header)' /\ Len(header') <= nlog - 1
  BY <1>2, <1>3, <1>4 DEF AtomicInv, HeaderInv, OneToOne, n
<1>9. DirtyInv'
  BY <1>4, <1>7, Zenon DEF AtomicInv, DirtyInv
<1>10. CopyInv'
  <2>1. ASSUME NEW i \in 1 .. n
        PROVE  disk'[i] = cache'[lh[i]]
    <3>1. i \in 1 .. Len(lh) /\ lh[i] \in Homes /\ i \in Addrs
      BY <1>2, <1>3, LogBlocks DEF n
    <3>2. cache'[lh[i]] = cache[lh[i]]
      BY <1>6, <3>1, Zenon
    <3>3. CASE i = n
      BY <1>3, <1>4, <3>2, <3>3, Zenon DEF AtomicInv, ValuesInv, n, v
    <3>4. CASE i # n
      <4>1. i \in 1 .. tail
        BY <1>2, <3>4 DEF n
      <4>2. disk'[i] = disk[i]
        BY <1>4, <3>1, <3>4, Zenon DEF AtomicInv, ValuesInv
      <4> QED
        BY <1>4, <3>2, <4>1, <4>2, Zenon DEF AtomicInv, CopyInv
    <3> QED
      BY <3>3, <3>4, Zenon
  <2> QED
    BY <1>4, <2>1, Zenon DEF CopyInv
<1>11. Recovered' = Recovered
  <2>1. Rec(<<>>, disk') = Rec(<<>>, disk)
    BY <1>6, RecNone, Zenon
  <2> QED
    BY <1>4, <2>1, RecoveredIs, Zenon
<1>12. Mem' = Mem
  BY <1>6, <1>7, Zenon DEF Mem
<1> QED
  BY <1>1, <1>5, <1>8, <1>9, <1>10, <1>11, <1>12, Zenon DEF AtomicInv

\* log.c:98-113: the header makes what the calls see what a crash leaves.
LEMMA AtomicWriteHead ==
  ASSUME AtomicInv, LogFits, write_head
  PROVE  AtomicInv' /\ Recovered' = Mem /\ Mem' = Mem /\ Active = {}
<1>1. LogInv' /\ Active = {}
  BY CommitKeeps, Zenon DEF AtomicInv, LogInv, StageInv, write_head
<1>2. /\ stage = "write_head" /\ committing /\ committing' /\ header' = lh /\ stage' = "install" /\ tail' = 0
      /\ UNCHANGED <<disk, cache, dirty, lh>>
  BY Zenon DEF AtomicInv, LogInv, StageInv, write_head
<1>3. lh \in Seq(Homes) /\ Len(lh) \in Nat /\ Len(lh) <= nlog - 1 /\ OneToOne(lh)
  BY DEF AtomicInv, LogInv, LogType, LogFits
<1>4. ~Booting /\ ~Booting'
  BY <1>2, Zenon DEF Booting
<1>5. Rec(lh, disk) = [b \in Homes |-> cache[b]]
  <2>1. \A i \in 1 .. Len(lh) : cache[lh[i]] = disk[i]
    BY <1>2, Zenon DEF AtomicInv, CopyInv
  <2>2. ASSUME NEW b \in Homes, \A i \in 1 .. Len(lh) : lh[i] # b
        PROVE  cache[b] = disk[b]
    <3>1. b \notin dirty /\ b \in Addrs
      BY <2>2, LogConstants, Zenon DEF AtomicInv, DirtyInv
    <3> QED
      BY <3>1, Zenon DEF AtomicInv, LogInv, Pinned
  <2> QED
    BY <1>3, <2>1, <2>2, RecIs
<1>6. HeaderInv' /\ Len(lh) > 0
  BY <1>2, <1>3, Zenon DEF AtomicInv, HeaderInv
<1>7. DirtyInv' /\ CopyInv'
  BY <1>2, <1>3, <1>4 DEF AtomicInv, DirtyInv, CopyInv
<1>8. ValuesInv' /\ OneToOne(lh)' /\ OneToOne(header)' /\ Len(header') <= nlog - 1
  BY <1>2, <1>3, ZenonT(60) DEF AtomicInv, ValuesInv, OneToOne
<1>9. Recovered' = Mem /\ Mem' = Mem
  BY <1>2, <1>4, <1>5, RecoveredIs, Zenon DEF Mem
<1> QED
  BY <1>1, <1>6, <1>7, <1>8, <1>9, Zenon DEF AtomicInv

\* log.c:84-96: reading the header changes no block.
LEMMA AtomicReadHead ==
  ASSUME AtomicInv, read_head
  PROVE  AtomicInv' /\ Recovered' = Recovered /\ Mem' = Mem
<1>1. LogInv'
  BY CommitKeeps, Zenon DEF AtomicInv
<1>2. /\ stage = "read_head" /\ lh' = header /\ tail' = 0 /\ ~committing /\ ~committing'
      /\ stage' = IF Len(header) > 0 THEN "install" ELSE "clear"
      /\ UNCHANGED <<disk, header, cache, dirty>>
  BY Zenon DEF AtomicInv, LogInv, StageInv, read_head, stable
<1>3. header \in Seq(Homes) /\ Len(header) \in Nat
  BY DEF AtomicInv, LogInv, LogType
<1>4. Booting /\ Booting'
  BY <1>2, Zenon DEF Booting
<1>5. HeaderInv'
  BY <1>2, <1>3, Zenon DEF HeaderInv
<1>6. DirtyInv'
  BY <1>2, <1>4, Zenon DEF AtomicInv, DirtyInv
<1>7. CopyInv'
  BY <1>2, <1>3 DEF CopyInv
<1>8. ValuesInv' /\ OneToOne(lh)' /\ OneToOne(header)' /\ Len(header') <= nlog - 1
  BY <1>2, Zenon DEF AtomicInv, ValuesInv, OneToOne
<1>9. Recovered' = Recovered /\ Mem' = Mem
  BY <1>2, <1>4, Zenon DEF Mem, Recovered
<1> QED
  BY <1>1, <1>5, <1>6, <1>7, <1>8, <1>9, Zenon DEF AtomicInv

\* log.c:68-82: installing a block changes neither what recovery yields, as
\* the header is still there, nor what the calls see.
LEMMA AtomicInstall ==
  ASSUME AtomicInv, install_trans
  PROVE  AtomicInv' /\ Recovered' = Recovered /\ Mem' = Mem
<1> DEFINE n == tail + 1
           h == lh[tail + 1]
           v == cache[tail + 1]
<1>1. LogInv'
  BY CommitKeeps, Zenon DEF AtomicInv
<1>2. /\ stage = "install" /\ UNCHANGED <<header, lh, committing>> /\ header = lh
      /\ tail' = n /\ stage' = IF n = Len(lh) THEN "clear" ELSE "install"
      /\ disk' = [disk EXCEPT ![h] = v] /\ cache' = [cache EXCEPT ![h] = v] /\ dirty' = dirty \ {h}
  BY Zenon DEF AtomicInv, HeaderInv, install_trans, bwrite
<1>3. /\ lh \in Seq(Homes) /\ Len(lh) \in Nat /\ tail \in Nat /\ tail < Len(lh) /\ Len(lh) <= nlog - 1
      /\ OneToOne(lh)
  BY <1>2 DEF AtomicInv, LogInv, LogType, HeaderInv
<1>4. \A i \in 1 .. Len(lh) : i \in Addrs /\ i \notin Homes /\ lh[i] \in Homes /\ lh[i] \in Addrs
  <2>1. \A i \in 1 .. Len(lh) : lh[i] \in Homes
    BY <1>3
  <2>2. \A i \in 1 .. Len(lh) : i \in Addrs /\ i \notin Homes
    BY <1>3, LogBlocks, Zenon
  <2> QED
    BY <2>1, <2>2, LogConstants, Zenon
<1>5. n \in 1 .. Len(lh) /\ h = lh[n] /\ v = cache[n]
  BY <1>3
<1>6. v = disk[n] /\ v \in Values
  BY <1>4, <1>5, Zenon DEF AtomicInv, LogInv, Pinned, DirtyInv, ValuesInv
<1> HIDE DEF n, h, v
<1>7. ValuesInv'
  BY <1>2, <1>4, <1>5, <1>6, Zenon DEF AtomicInv, ValuesInv
<1>8. \A x \in Addrs : disk'[x] = IF x = h THEN v ELSE disk[x]
  BY <1>2, Zenon DEF AtomicInv, ValuesInv
<1>9. \A x \in Addrs : cache'[x] = IF x = h THEN v ELSE cache[x]
  BY <1>2, Zenon DEF AtomicInv, ValuesInv
<1>10. \A i \in 1 .. Len(lh) : disk'[i] = disk[i]
  BY <1>4, <1>5, <1>8, Zenon
<1>11. Booting' <=> Booting
  BY <1>2, Zenon DEF Booting
<1>12. HeaderInv' /\ OneToOne(lh)' /\ OneToOne(header)' /\ Len(header') <= nlog - 1
  BY <1>2, <1>3, <1>5 DEF HeaderInv, OneToOne, n
<1>13. DirtyInv'
  <2>1. ASSUME NEW b \in dirty'
        PROVE  \E i \in 1 .. Len(lh) : lh[i] = b /\ i > n
    <3>1. b \in dirty /\ b # h
      BY <1>2, <2>1, Zenon
    <3>2. PICK i \in 1 .. Len(lh) : lh[i] = b /\ i > tail
      BY <1>2, <3>1, Zenon DEF AtomicInv, DirtyInv
    <3>3. i # n
      BY <1>5, <3>1, <3>2, Zenon
    <3> QED
      BY <1>3, <3>2, <3>3 DEF n
  <2>2. dirty' \subseteq Homes
    BY <1>2, Zenon DEF AtomicInv, DirtyInv
  <2>3. n = Len(lh) => dirty' = {}
    BY <1>3, <2>1
  <2>4. Booting' => dirty' = {}
    BY <1>2, <1>11, Zenon DEF AtomicInv, DirtyInv
  <2> QED
    BY <1>2, <2>1, <2>2, <2>3, <2>4, Zenon DEF DirtyInv
<1>14. committing => \A i \in 1 .. Len(lh) : disk'[i] = cache'[lh[i]]
  <2> SUFFICES ASSUME committing, NEW i \in 1 .. Len(lh)
               PROVE  disk'[i] = cache'[lh[i]]
    BY Zenon
  <2>1. disk'[i] = disk[i] /\ disk[i] = cache[lh[i]]
    BY <1>2, <1>10, Zenon DEF AtomicInv, CopyInv
  <2>2. CASE lh[i] = h
    <3>1. i = n
      BY <1>3, <1>5, <2>2, Zenon DEF OneToOne
    <3> QED
      BY <1>4, <1>6, <1>9, <2>1, <2>2, <3>1, Zenon
  <2>3. CASE lh[i] # h
    BY <1>4, <1>9, <2>1, <2>3, Zenon
  <2> QED
    BY <2>2, <2>3, Zenon
<1>15. \A i \in 1 .. n : disk'[lh[i]] = disk'[i]
  <2> SUFFICES ASSUME NEW i \in 1 .. n
               PROVE  disk'[lh[i]] = disk'[i]
    BY Zenon
  <2>1. i \in 1 .. Len(lh) /\ (i # n => i \in 1 .. tail)
    BY <1>3, <1>5 DEF n
  <2>2. CASE i = n
    BY <1>4, <1>5, <1>6, <1>8, <1>10, <2>1, <2>2, Zenon
  <2>3. CASE i # n
    <3>1. lh[i] # h
      BY <1>3, <1>5, <2>1, <2>3, Zenon DEF OneToOne
    <3>2. disk[lh[i]] = disk[i]
      BY <1>2, <2>1, <2>3, Zenon DEF AtomicInv, CopyInv
    <3> QED
      BY <1>4, <1>8, <1>10, <2>1, <3>1, <3>2, Zenon
  <2> QED
    BY <2>2, <2>3, Zenon
<1>16. CopyInv'
  BY <1>2, <1>14, <1>15 DEF CopyInv
<1>17. Recovered' = Recovered
  <2>1. \A b \in Homes : (\A i \in 1 .. Len(lh) : lh[i] # b) => disk'[b] = disk[b]
    BY <1>5, <1>8, LogConstants, Zenon
  <2>2. Rec(lh, disk') = Rec(lh, disk)
    BY <1>3, <1>10, <2>1, RecSame, Zenon
  <2> QED
    BY <1>2, <2>2, RecoveredIs, Zenon
<1>18. Mem' = Mem
  <2>1. CASE Booting
    BY <1>11, <1>17, <2>1, Zenon DEF Mem
  <2>2. CASE ~Booting
    <3>1. committing
      BY <1>2, <2>2, Zenon DEF Booting
    <3>2. cache[h] = v
      BY <1>2, <1>5, <1>6, <3>1, Zenon DEF AtomicInv, CopyInv
    <3>3. \A b \in Homes : cache'[b] = cache[b]
      <4>1. \A b \in Homes : b \in Addrs
        BY LogConstants, Zenon
      <4> QED
        BY <1>9, <3>2, <4>1, Zenon
    <3> QED
      BY <1>11, <2>2, <3>3, Zenon DEF Mem
  <2> QED
    BY <2>1, <2>2, Zenon
<1> QED
  BY <1>1, <1>7, <1>12, <1>13, <1>16, <1>17, <1>18, Zenon DEF AtomicInv

\* log.c:192-202: once all blocks are installed the header is not needed.
LEMMA AtomicClear ==
  ASSUME AtomicInv, clear_head
  PROVE  AtomicInv' /\ Recovered' = Recovered /\ Mem' = Mem
<1>1. LogInv'
  BY CommitKeeps, Zenon DEF AtomicInv
<1>2. /\ stage = "clear" /\ UNCHANGED <<disk, cache, dirty, committing>> /\ header = lh
      /\ lh' = <<>> /\ header' = <<>> /\ tail' = 0
      /\ stage' = IF committing THEN "done" ELSE "none"
  BY Zenon DEF AtomicInv, HeaderInv, clear_head
<1>3. lh \in Seq(Homes) /\ OneToOne(lh) /\ Len(lh') = 0 /\ Len(header') = 0 /\ dirty = {}
  BY <1>2, Zenon DEF AtomicInv, LogInv, LogType, DirtyInv
<1>4. Rec(<<>>, disk) = Rec(lh, disk)
  <2>1. \A i \in 1 .. Len(lh) : disk[lh[i]] = disk[i]
    BY <1>2, Zenon DEF AtomicInv, CopyInv
  <2>2. Rec(lh, disk) = [b \in Homes |-> disk[b]]
    BY <1>3, <2>1, RecIs
  <2> QED
    BY <2>2, RecNone, Zenon
<1>5. Recovered' = Recovered
  BY <1>2, <1>4, RecoveredIs, Zenon
<1>6. Mem' = Mem
  <2>0. ~Booting'
    BY <1>2, Zenon DEF Booting
  <2>1. CASE committing
    BY <1>2, <2>0, <2>1, Zenon DEF Mem, Booting
  <2>2. CASE ~committing
    <3>1. Mem = Recovered /\ Mem' = [b \in Homes |-> cache[b]]
      BY <1>2, <2>0, <2>2, Zenon DEF Mem, Booting
    <3>2. \A b \in Homes : cache[b] = disk[b]
      <4>1. \A b \in Homes : b \in Addrs
        BY LogConstants, Zenon
      <4> QED
        BY <1>3, <4>1, Zenon DEF AtomicInv, LogInv, Pinned
    <3>3. [b \in Homes |-> cache[b]] = [b \in Homes |-> disk[b]]
      BY <3>2, Zenon
    <3>4. Recovered = [b \in Homes |-> disk[b]]
      BY <1>2, <1>4, RecNone, RecoveredIs, Zenon
    <3> QED
      BY <3>1, <3>3, <3>4, Zenon
  <2> QED
    BY <2>1, <2>2, Zenon
<1>7. HeaderInv' /\ CopyInv' /\ DirtyInv'
  BY <1>2, <1>3, Zenon DEF HeaderInv, CopyInv, DirtyInv
<1>8. ValuesInv' /\ OneToOne(lh)' /\ OneToOne(header)' /\ Len(header') <= nlog - 1
  BY <1>2, <1>3, LogConstants DEF AtomicInv, ValuesInv, OneToOne
<1> QED
  BY <1>1, <1>5, <1>6, <1>7, <1>8, Zenon DEF AtomicInv

\* log.c:115-122: a crash leaves the calls what recovery yields.
LEMMA AtomicCrash ==
  ASSUME AtomicInv, Crash
  PROVE  AtomicInv' /\ Recovered' = Recovered /\ Mem' = Recovered /\ Active' = {}
<1>1. LogInv' /\ Active' = {}
  BY CrashKeeps, Zenon DEF AtomicInv
<1>2. /\ UNCHANGED <<disk, header>> /\ cache' = disk /\ dirty' = {} /\ lh' = <<>>
      /\ stage' = "read_head" /\ ~committing' /\ tail' = 0
  BY Zenon DEF Crash, stable
<1>3. Len(lh') = 0
  BY <1>2, Zenon
<1>4. Booting'
  BY <1>2, Zenon DEF Booting
<1>5. Recovered' = Recovered /\ Mem' = Recovered
  BY <1>2, <1>4, Zenon DEF Recovered, Mem
<1>6. HeaderInv' /\ CopyInv' /\ DirtyInv'
  BY <1>2, Zenon DEF HeaderInv, CopyInv, DirtyInv
<1>7. ValuesInv' /\ OneToOne(lh)' /\ OneToOne(header)' /\ Len(header') <= nlog - 1
  BY <1>2, <1>3 DEF AtomicInv, ValuesInv, OneToOne
<1> QED
  BY <1>1, <1>5, <1>6, <1>7, Zenon DEF AtomicInv

\* Every step of the log is a step of the atomic disk, or none.
LEMMA AtomicStep ==
  ASSUME AtomicInv, LogFits, [Next]_vars
  PROVE  AtomicInv' /\ [A!ANext]_(A!avars)
<1> DEFINE same == Recovered' = Recovered /\ Mem' = Mem /\ Active' = Active
<1>0. ASSUME same
      PROVE  UNCHANGED A!avars
  BY <1>0, Zenon DEF A!avars, Mem
<1>1. ASSUME NEW p \in Ops, begin_op(p)
      PROVE  AtomicInv' /\ [A!ANext]_(A!avars)
  <2>1. LogInv' /\ Active' = (IF pc'[p] = "op" THEN Active \cup {p} ELSE Active) /\ p \notin Active
    BY <1>1, BeginKeeps, Zenon DEF AtomicInv
  <2>2. AtomicInv' /\ Mem' = Mem /\ Recovered' = Recovered
    BY <1>1, <2>1, FrameKeeps, Zenon DEF begin_op, stable
  <2>3. CASE pc'[p] = "op"
    <3>1. A!Begin(p)
      BY <2>1, <2>2, <2>3, Zenon DEF A!Begin, Mem
    <3> QED
      BY <2>2, <3>1, Zenon DEF A!ANext
  <2>4. CASE pc'[p] # "op"
    BY <1>0, <2>1, <2>2, <2>4, Zenon
  <2> QED
    BY <2>3, <2>4, Zenon
<1>2. ASSUME NEW p \in Ops, NEW b \in Homes, NEW v \in Values, log_write_check(p, b, v)
      PROVE  AtomicInv' /\ [A!ANext]_(A!avars)
  <2>1. LogInv' /\ Active' = Active
    BY <1>2, CheckKeeps, Zenon DEF AtomicInv
  <2>2. AtomicInv' /\ Mem' = Mem /\ Recovered' = Recovered
    BY <1>2, <2>1, FrameKeeps, Zenon DEF log_write_check, stable
  <2> QED
    BY <1>0, <2>1, <2>2, Zenon
<1>3. ASSUME NEW p \in Ops, log_write(p)
      PROVE  AtomicInv' /\ [A!ANext]_(A!avars)
  <2>1. Active' = Active /\ p \in Active /\ arg[p][1] \in Homes /\ arg[p][2] \in Values
    <3>1. Active' = Active /\ p \in Active
      BY <1>3, WriteKeeps, Zenon DEF AtomicInv
    <3>2. arg[p][1] \in Homes /\ arg[p][2] \in Values
      BY Zenon DEF AtomicInv, LogInv, LogType
    <3> QED
      BY <3>1, <3>2, Zenon
  <2>2. AtomicInv' /\ Recovered' = Recovered /\ Mem' = [Mem EXCEPT ![arg[p][1]] = arg[p][2]]
    BY <1>3, AtomicWrite, Zenon
  <2>3. PICK b \in Homes, v \in Values : b = arg[p][1] /\ v = arg[p][2]
    BY <2>1, Zenon
  <2>4. A!Write(p, b, v)
    BY <2>1, <2>2, <2>3, Zenon DEF A!Write, Mem
  <2> QED
    BY <2>2, <2>4, Zenon DEF A!ANext
<1>4. ASSUME NEW p \in Ops, end_op(p)
      PROVE  AtomicInv' /\ [A!ANext]_(A!avars)
  <2>1. Active' = Active \ {p} /\ p \in Active
    BY <1>4, EndKeeps, Zenon DEF AtomicInv
  <2>2. AtomicInv' /\ Recovered' = Recovered /\ Mem' = Mem
    BY <1>4, AtomicEnd, Zenon
  <2>3. A!End(p)
    BY <2>1, <2>2, Zenon DEF A!End, Mem
  <2> QED
    BY <2>2, <2>3, Zenon DEF A!ANext
<1>5. ASSUME NEW p \in Ops, end_commit(p)
      PROVE  AtomicInv' /\ [A!ANext]_(A!avars)
  <2>1. Active' = Active
    BY <1>5, EndCommitKeeps, Zenon DEF AtomicInv
  <2> QED
    BY <1>0, <1>5, <2>1, AtomicEndCommit, Zenon
<1>6. CASE write_head
  <2>1. AtomicInv' /\ Recovered' = Mem /\ Mem' = Mem /\ Active = {} /\ Active' = Active
    BY <1>6, AtomicWriteHead, CommitKeeps, Zenon DEF AtomicInv
  <2>2. A!Commit
    BY <2>1, Zenon DEF A!Commit, Mem
  <2> QED
    BY <2>1, <2>2, Zenon DEF A!ANext
<1>7. CASE write_log \/ read_head \/ install_trans \/ clear_head
  <2>1. Active' = Active
    BY <1>7, CommitKeeps, Zenon DEF AtomicInv
  <2> QED
    BY <1>0, <1>7, <2>1, AtomicWriteLog, AtomicReadHead, AtomicInstall, AtomicClear, Zenon
<1>8. ASSUME NEW a \in Addrs, evict(a)
      PROVE  AtomicInv' /\ [A!ANext]_(A!avars)
  <2>1. LogInv' /\ \A x \in Addrs : cache'[x] = cache[x]
    BY <1>8, EvictKeeps, Zenon DEF AtomicInv
  <2>2. cache' = cache
    BY <1>8, <2>1, Zenon DEF evict, AtomicInv, ValuesInv
  <2>3. UNCHANGED <<disk, header, dirty, lh, stage, tail, committing>> /\ Active' = Active
    BY <1>8, Zenon DEF evict, stable, calls, Active
  <2> QED
    BY <1>0, <2>1, <2>2, <2>3, FrameKeeps, Zenon
<1>9. CASE Crash
  <2>1. AtomicInv' /\ Recovered' = Recovered /\ Mem' = Recovered /\ Active' = {}
    BY <1>9, AtomicCrash, Zenon
  <2>2. A!Crash
    BY <2>1, Zenon DEF A!Crash, Mem
  <2> QED
    BY <2>1, <2>2, Zenon DEF A!ANext
<1>10. CASE UNCHANGED vars
  <2>1. LogInv' /\ Active' = Active /\ UNCHANGED <<disk, header, cache, dirty, lh, stage, tail, committing>>
    BY <1>10, LogKeeps, Zenon DEF AtomicInv, vars, stable, calls, Active
  <2> QED
    BY <1>0, <2>1, FrameKeeps, Zenon
<1> QED
  BY <1>1, <1>2, <1>3, <1>4, <1>5, <1>6, <1>7, <1>8, <1>9, <1>10, ZenonT(60) DEF Next, Call

\* log.c: as long as the noted blocks fit into the log on disk, the log makes
\* file system calls atomic: what a crash at any point of commit() or of an
\* earlier recovery leaves is the file system of a moment without active
\* calls; for any number of calls, blocks, values and any size of the log.
THEOREM CallsAreAtomic == Spec /\ []LogFits => ImplementsAtomicDisk
<1>1. Init => A!AInit
  <2> SUFFICES ASSUME Init PROVE A!AInit
    BY Zenon
  <2>1. Booting /\ Active = {}
    BY Zenon DEF Init, Booting, Active, NoCalls
  <2>2. Recovered = [b \in Homes |-> disk[b]]
    BY RecoveredIs, RecNone, Zenon DEF Init
  <2>3. Recovered \in [Homes -> Values]
    BY <2>2, LogConstants, Zenon DEF Init
  <2> QED
    BY <2>1, <2>3, Zenon DEF A!AInit
<1> QED
  BY <1>1, AtomicStarts, AtomicStep, PTL DEF Spec, ImplementsAtomicDisk, A!ASpec
=============================================================================
