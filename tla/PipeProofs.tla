----------------------------- MODULE PipeProofs -----------------------------
(***************************************************************************)
(* A pipe's properties for any number of processes, any size of the ring   *)
(* and any width of its counters.                                          *)
(*                                                                         *)
(* PipeInv: whoever decides to sleep holds the lock, so its reason stays   *)
(* until it sleeps; a sleeper has a reason, or the holder of the lock is   *)
(* about to wake it.  For the refinement the ring stands for the bytes     *)
(* from nread to nwrite; as the size of the ring divides the range of the  *)
(* counters, a counter that wraps goes on at the next place of the ring.   *)
(***************************************************************************)
EXTENDS Pipe, TLAPS

USE SMTT(30)

PipeType ==
  /\ nread \in 0 .. UintSize - 1 /\ nwrite \in 0 .. UintSize - 1 /\ Used <= PIPESIZE
  /\ at \in [PipeProcs -> {"out", "call", "wait", "asleep", "close", "gone"}]
  /\ ring \in [0 .. PIPESIZE - 1 -> Bytes]
  /\ DOMAIN killed = PipeProcs /\ bytes \in [PipeProcs -> Seq(Bytes)]

\* Who is about to sleep holds the lock, and has a reason that cannot go away.
WaitInv ==
  /\ \A p \in PipeProcs : at[p] = "wait" <=> lock = {p}
  /\ lock # {} => \E p \in PipeProcs : lock = {p}
  /\ \A w \in Writers : at[w] = "wait" => Used = PIPESIZE /\ readopen
  /\ \A r \in Readers : at[r] = "wait" => Used = 0 /\ writeopen

\* Who is asleep has a reason, or a writer that holds the lock is about to wake it.
SleepInv ==
  /\ \A w \in Writers : at[w] = "asleep" => Used = PIPESIZE /\ readopen
  /\ \A r \in Readers : at[r] = "asleep" =>
       /\ writeopen
       /\ Used = 0 \/ (\E w \in Writers : killed[w]) \/ (\E w \in Writers : lock = {w})

\* An end is open as long as somebody holds it, and the last one closes it.
EndsInv ==
  /\ \A p, q \in Writers : at[p] = "close" /\ q # p => at[q] = "gone"
  /\ \A p, q \in Readers : at[p] = "close" /\ q # p => at[q] = "gone"
  /\ ~writeopen => \A w \in Writers : at[w] = "gone"
  /\ ~readopen => \A r \in Readers : at[r] = "gone"

PipeInv == PipeType /\ WaitInv /\ SleepInv /\ EndsInv

-----------------------------------------------------------------------------
\* Sequences of the same length with the same elements are the same.
LEMMA SeqsAgree ==
  ASSUME NEW S, NEW s \in Seq(S), NEW t \in Seq(S), Len(s) = Len(t), \A i \in 1..Len(s) : s[i] = t[i]
  PROVE  s = t
OBVIOUS

\* The length and the elements of two sequences put one after the other.
LEMMA Joined ==
  ASSUME NEW S, NEW s \in Seq(S), NEW t \in Seq(S)
  PROVE  /\ s \o t \in Seq(S) /\ Len(s \o t) = Len(s) + Len(t)
         /\ \A i \in 1..(Len(s) + Len(t)) : (s \o t)[i] = IF i <= Len(s) THEN s[i] ELSE t[i - Len(s)]
OBVIOUS

\* The empty sequence, on its own and at either end of another one.
LEMMA Nothing ==
  ASSUME NEW S
  PROVE  /\ <<>> \in Seq(S) /\ Len(<<>>) = 0
         /\ \A s \in Seq(S) : s \o <<>> = s /\ <<>> \o s = s /\ (s # <<>> => Len(s) \in Nat \ {0})
OBVIOUS

\* All of a sequence.
LEMMA Whole ==
  ASSUME NEW S, NEW s \in Seq(S)
  PROVE  SubSeq(s, 1, Len(s)) = s
OBVIOUS

LEMMA PipeConstants ==
  /\ PIPESIZE \in Nat \ {0} /\ UintSize \in Nat \ {0} /\ UintSize > PIPESIZE
  /\ Writers \cap Readers = {}
BY PipeAssumption

\* Two counters below t: how far one is ahead of the other.
LEMMA Distance ==
  ASSUME NEW t \in Nat \ {0}, NEW a \in 0 .. t - 1, NEW b \in 0 .. t - 1
  PROVE  (a - b) % t = IF a < b THEN a - b + t ELSE a - b
OBVIOUS

\* pipe.c:94: nwrite moves away from nread by what is written.
LEMMA WriteAdvances ==
  ASSUME NEW t \in Nat \ {0}, NEW a \in 0 .. t - 1, NEW b \in 0 .. t - 1, NEW k \in Nat, ((a - b) % t) + k < t
  PROVE  (a + k) % t \in 0 .. t - 1 /\ (((a + k) % t) - b) % t = ((a - b) % t) + k
<1>1. (a - b) % t = IF a < b THEN a - b + t ELSE a - b
  BY Distance, Zenon
<1>2. k \in 0 .. t - 1
  BY <1>1
<1>3. (a + k) % t = IF a + k < t THEN a + k ELSE a + k - t
  BY <1>2
<1>4. PICK c \in 0 .. t - 1 : c = (a + k) % t
  BY <1>2, <1>3
<1>5. (c - b) % t = IF c < b THEN c - b + t ELSE c - b
  BY Distance, Zenon
<1>6. (c - b) % t = ((a - b) % t) + k
  BY <1>1, <1>2, <1>3, <1>4, <1>5
<1> QED
  BY <1>4, <1>6, Zenon

\* pipe.c:116: nread comes closer to nwrite by what is read.
LEMMA ReadAdvances ==
  ASSUME NEW t \in Nat \ {0}, NEW a \in 0 .. t - 1, NEW b \in 0 .. t - 1, NEW k \in Nat, k <= (a - b) % t
  PROVE  (b + k) % t \in 0 .. t - 1 /\ (a - ((b + k) % t)) % t = ((a - b) % t) - k
<1>1. (a - b) % t = IF a < b THEN a - b + t ELSE a - b
  BY Distance, Zenon
<1>2. k \in 0 .. t - 1
  BY <1>1
<1>3. (b + k) % t = IF b + k < t THEN b + k ELSE b + k - t
  BY <1>2
<1>4. PICK c \in 0 .. t - 1 : c = (b + k) % t
  BY <1>2, <1>3
<1>5. (a - c) % t = IF a < c THEN a - c + t ELSE a - c
  BY Distance, Zenon
<1>6. (a - c) % t = ((a - b) % t) - k
  BY <1>1, <1>2, <1>3, <1>4, <1>5
<1> QED
  BY <1>4, <1>6, Zenon

LEMMA InputsAreSequences == Inputs \subseteq Seq(Bytes)
BY DEF Inputs

LEMMA EmptyIsSequence == <<>> \in Seq(Bytes)
OBVIOUS

LEMMA UsedNat == PipeType => Used \in 0 .. PIPESIZE
<1> SUFFICES ASSUME PipeType PROVE Used \in 0 .. PIPESIZE
  BY Zenon
<1>1. PICK t \in Nat \ {0} : t = UintSize
  BY PipeConstants, Zenon
<1>2. PICK a \in 0 .. t - 1, b \in 0 .. t - 1 : a = nwrite /\ b = nread
  BY <1>1, Zenon DEF PipeType
<1>3. (a - b) % t = IF a < b THEN a - b + t ELSE a - b
  BY Distance, Zenon
<1> QED
  BY <1>1, <1>2, <1>3, PipeConstants DEF PipeType, Used

LEMMA NoHolder == \A p, q : {p} # {} /\ ({p} = {q} => p = q)
BY Zenon

LEMMA PipeStarts == PipeInit => PipeInv
<1> SUFFICES ASSUME PipeInit PROVE PipeInv
  BY Zenon
<1>1. Used = 0
  <2>1. Used = IF 0 < 0 THEN 0 - 0 + UintSize ELSE 0 - 0
    BY PipeConstants, Distance DEF PipeInit, Used
  <2> QED
    BY <2>1
<1>2. PipeType
  BY <1>1, PipeConstants DEF PipeInit, PipeType
<1>3. readopen /\ writeopen
  BY Zenon DEF PipeInit
<1>4. /\ lock = {} /\ \A p \in PipeProcs : at[p] = "out"
      /\ \A w \in Writers : w \in PipeProcs /\ at[w] = "out"
      /\ \A r \in Readers : r \in PipeProcs /\ at[r] = "out"
  BY Zenon DEF PipeInit, PipeProcs
<1>5. WaitInv
  BY <1>4, NoHolder, Zenon DEF WaitInv
<1> QED
  BY <1>2, <1>3, <1>4, <1>5, Zenon DEF PipeInv, SleepInv, EndsInv

-----------------------------------------------------------------------------
LEMMA Ends ==
  /\ \A w \in Writers : w \in PipeProcs /\ w \notin Readers
  /\ \A r \in Readers : r \in PipeProcs /\ r \notin Writers
  /\ \A p \in PipeProcs : p \in Writers \/ p \in Readers
BY PipeConstants, Zenon DEF PipeProcs

\* A process outside the pipe starts a call, or closes its descriptor.
LEMMA OutsideKeeps ==
  ASSUME PipeInv, NEW p \in PipeProcs, NEW place \in {"call", "close", "gone"}, NEW s \in Seq(Bytes),
         at[p] = "out", at' = [at EXCEPT ![p] = place], bytes' = [bytes EXCEPT ![p] = s],
         UNCHANGED <<pipe, lock, killed>>,
         place = "close" => /\ p \in Writers => \A q \in Writers \ {p} : at[q] = "gone"
                            /\ p \in Readers => \A q \in Readers \ {p} : at[q] = "gone"
  PROVE  PipeInv'
<1> USE Ends
<1>1. /\ at'[p] = place /\ \A q \in PipeProcs : q # p => at'[q] = at[q]
      /\ UNCHANGED <<ring, nread, nwrite, readopen, writeopen, lock, killed, Used>>
  BY Zenon DEF PipeInv, PipeType, pipe, Used
<1>2. PipeType'
  BY <1>1, Zenon DEF PipeInv, PipeType
<1>3. WaitInv'
  BY <1>1 DEF PipeInv, WaitInv
<1>4. SleepInv'
  BY <1>1, Zenon DEF PipeInv, SleepInv
<1>5. EndsInv'
  BY <1>1 DEF PipeInv, EndsInv
<1> QED
  BY <1>2, <1>3, <1>4, <1>5, Zenon DEF PipeInv

LEMMA WriteCallKeeps ==
  ASSUME PipeInv, NEW w \in Writers, NEW s \in Inputs, write(w, s)
  PROVE  PipeInv'
<1>1. s \in Seq(Bytes)
  BY InputsAreSequences, Zenon
<1>2. w \in PipeProcs
  BY Ends, Zenon
<1>3. PICK place \in {"call", "close", "gone"} : place = "call"
  BY Zenon
<1>4. place # "close"
  BY <1>3, Zenon
<1> QED
  BY <1>1, <1>2, <1>3, <1>4, OutsideKeeps, Zenon DEF write

LEMMA ReadCallKeeps ==
  ASSUME PipeInv, NEW r \in Readers, read(r)
  PROVE  PipeInv'
<1>1. PICK s \in Seq(Bytes) : s = <<>>
  BY EmptyIsSequence, Zenon
<1>2. r \in PipeProcs
  BY Ends, Zenon
<1>3. PICK place \in {"call", "close", "gone"} : place = "call"
  BY Zenon
<1>4. place # "close"
  BY <1>3, Zenon
<1> QED
  BY <1>1, <1>2, <1>3, <1>4, OutsideKeeps, Zenon DEF read

LEMMA CloseCallKeeps ==
  ASSUME PipeInv, NEW p \in PipeProcs, fileclose(p)
  PROVE  PipeInv'
<1>1. PICK s \in Seq(Bytes) : s = <<>>
  BY EmptyIsSequence, Zenon
<1> DEFINE end == IF p \in Writers THEN Writers ELSE Readers
<1>2. CASE \A q \in end \ {p} : at[q] = "gone"
  <2>1. /\ p \in Writers => \A q \in Writers \ {p} : at[q] = "gone"
        /\ p \in Readers => \A q \in Readers \ {p} : at[q] = "gone"
    BY <1>2, Ends, Zenon
  <2>2. at' = [at EXCEPT ![p] = "close"]
    BY <1>2, Zenon DEF fileclose
  <2>3. PICK place \in {"call", "close", "gone"} : place = "close"
    BY Zenon
  <2> QED
    BY <1>1, <2>1, <2>2, <2>3, OutsideKeeps, Zenon DEF fileclose
<1>3. CASE ~\A q \in end \ {p} : at[q] = "gone"
  <2>1. at' = [at EXCEPT ![p] = "gone"]
    BY <1>3, Zenon DEF fileclose
  <2>2. PICK place \in {"call", "close", "gone"} : place = "gone" /\ place # "close"
    BY Zenon
  <2> QED
    BY <1>1, <2>1, <2>2, OutsideKeeps, Zenon DEF fileclose
<1> QED
  BY <1>2, <1>3, Zenon

LEMMA WriterSleepKeeps ==
  ASSUME PipeInv, NEW w \in Writers, pipewrite_sleep(w)
  PROVE  PipeInv'
<1> USE Ends
<1>1. /\ at'[w] = "asleep" /\ at[w] = "wait" /\ lock = {w} /\ lock' = {}
      /\ \A q \in PipeProcs : q # w => at'[q] = IF q \in Readers /\ at[q] = "asleep" THEN "call" ELSE at[q]
      /\ UNCHANGED <<ring, nread, nwrite, readopen, writeopen, killed, bytes, Used>>
  BY Zenon DEF pipewrite_sleep, Wake, pipe, Used
<1>2. \A q \in PipeProcs : at[q] = "wait" => q = w
  BY <1>1, NoHolder, Zenon DEF PipeInv, WaitInv
<1>3. PipeType'
  BY <1>1, Zenon DEF PipeInv, PipeType, pipewrite_sleep, Wake
<1>4. WaitInv'
  BY <1>1, <1>2, NoHolder, Zenon DEF WaitInv
<1>5. SleepInv'
  BY <1>1, Zenon DEF PipeInv, WaitInv, SleepInv
<1>6. EndsInv'
  BY <1>1, Zenon DEF PipeInv, EndsInv
<1> QED
  BY <1>3, <1>4, <1>5, <1>6, Zenon DEF PipeInv

LEMMA ReaderSleepKeeps ==
  ASSUME PipeInv, NEW r \in Readers, piperead_sleep(r)
  PROVE  PipeInv'
<1> USE Ends
<1>1. /\ at'[r] = "asleep" /\ at[r] = "wait" /\ lock = {r} /\ lock' = {}
      /\ \A q \in PipeProcs : q # r => at'[q] = at[q]
      /\ UNCHANGED <<ring, nread, nwrite, readopen, writeopen, killed, bytes, Used>>
  BY Zenon DEF PipeInv, PipeType, piperead_sleep, pipe, Used
<1>2. \A q \in PipeProcs : at[q] = "wait" => q = r
  BY <1>1, NoHolder, Zenon DEF PipeInv, WaitInv
<1>3. PipeType'
  BY <1>1, Zenon DEF PipeInv, PipeType, piperead_sleep
<1>4. WaitInv'
  BY <1>1, <1>2, NoHolder, Zenon DEF WaitInv
<1>5. SleepInv'
  <2>1. Used = 0 /\ writeopen
    BY <1>1, Zenon DEF PipeInv, WaitInv
  <2> QED
    BY <1>1, <2>1, Zenon DEF PipeInv, SleepInv
<1>6. EndsInv'
  BY <1>1, Zenon DEF PipeInv, EndsInv
<1> QED
  BY <1>3, <1>4, <1>5, <1>6, Zenon DEF PipeInv

LEMMA KillKeeps ==
  ASSUME PipeInv, NEW p \in PipeProcs, pipe_kill(p)
  PROVE  PipeInv'
<1> USE Ends
<1>1. /\ at'[p] = IF at[p] = "asleep" THEN "call" ELSE at[p]
      /\ \A q \in PipeProcs : q # p => at'[q] = at[q]
      /\ UNCHANGED <<ring, nread, nwrite, readopen, writeopen, lock, bytes, Used>>
  BY Zenon DEF PipeInv, PipeType, pipe_kill, pipe, Used
<1>2. \A q \in PipeProcs : killed[q] => killed'[q]
  BY Zenon DEF PipeInv, PipeType, pipe_kill
<1>3. PipeType'
  <2>1. DOMAIN killed' = PipeProcs
    BY Zenon DEF PipeInv, PipeType, pipe_kill
  <2> QED
    BY <1>1, <2>1, Zenon DEF PipeInv, PipeType, pipe_kill
<1>4. WaitInv'
  BY <1>1, Zenon DEF PipeInv, WaitInv
<1>5. SleepInv'
  BY <1>1, <1>2, Zenon DEF PipeInv, SleepInv
<1>6. EndsInv'
  BY <1>1 DEF PipeInv, EndsInv
<1> QED
  BY <1>3, <1>4, <1>5, <1>6, Zenon DEF PipeInv

\* pipewrite puts k bytes in: all it has, or all that fit.
LEMMA WriteBounds ==
  ASSUME PipeInv, NEW w \in Writers, pipewrite(w)
  PROVE  \E k \in Nat :
           /\ k = (IF Len(bytes[w]) <= Room THEN Len(bytes[w]) ELSE Room)
           /\ k <= Len(bytes[w]) /\ Used + k <= PIPESIZE /\ (k # Len(bytes[w]) => Used + k = PIPESIZE)
           /\ nwrite' = Advanced(nwrite, k) /\ nwrite' \in 0 .. UintSize - 1
           /\ Used' = Used + k /\ Used \in 0 .. PIPESIZE /\ bytes[w] \in Seq(Bytes)
<1>1. Used \in 0 .. PIPESIZE /\ bytes[w] \in Seq(Bytes) /\ Len(bytes[w]) \in Nat
  BY UsedNat, Ends DEF PipeInv, PipeType
<1>2. PICK k \in Nat : k = (IF Len(bytes[w]) <= Room THEN Len(bytes[w]) ELSE Room)
  BY <1>1, PipeConstants DEF Room
<1>3. k <= Len(bytes[w]) /\ Used + k <= PIPESIZE /\ (k # Len(bytes[w]) => Used + k = PIPESIZE)
  BY <1>1, <1>2, PipeConstants DEF Room
<1>4. nwrite' = Advanced(nwrite, k) /\ nread' = nread
  BY <1>2, Zenon DEF pipewrite
<1>5. PICK t \in Nat \ {0} : t = UintSize
  BY PipeConstants, Zenon
<1>6. PICK a \in 0 .. t - 1, b \in 0 .. t - 1 : a = nwrite /\ b = nread
  BY <1>5, Zenon DEF PipeInv, PipeType
<1>7. Used = (a - b) % t
  BY <1>5, <1>6, Zenon DEF Used
<1>8. ((a - b) % t) + k < t
  BY <1>1, <1>3, <1>5, <1>7, PipeConstants
<1>9. (a + k) % t \in 0 .. t - 1 /\ (((a + k) % t) - b) % t = ((a - b) % t) + k
  BY <1>8, WriteAdvances
<1>10. nwrite' \in 0 .. UintSize - 1 /\ Used' = Used + k
  BY <1>4, <1>5, <1>6, <1>7, <1>9, Zenon DEF Advanced, Used
<1> QED
  BY <1>1, <1>2, <1>3, <1>4, <1>10, Zenon

LEMMA WriteKeepsRing ==
  ASSUME PipeInv, NEW w \in Writers, pipewrite(w)
  PROVE  ring' \in [0 .. PIPESIZE - 1 -> Bytes]
<1>1. PICK k \in Nat :
        /\ k = (IF Len(bytes[w]) <= Room THEN Len(bytes[w]) ELSE Room)
        /\ k <= Len(bytes[w]) /\ Used + k <= PIPESIZE /\ (k # Len(bytes[w]) => Used + k = PIPESIZE)
        /\ nwrite' = Advanced(nwrite, k) /\ nwrite' \in 0 .. UintSize - 1
        /\ Used' = Used + k /\ Used \in 0 .. PIPESIZE /\ bytes[w] \in Seq(Bytes)
  BY WriteBounds, Zenon
<1>2. ring' = [i \in 0 .. PIPESIZE - 1 |->
                 IF ((i - nwrite) % PIPESIZE) + 1 <= k THEN bytes[w][((i - nwrite) % PIPESIZE) + 1] ELSE ring[i]]
  <2>1. DOMAIN ring = 0 .. PIPESIZE - 1
    BY Zenon DEF PipeInv, PipeType
  <2> QED
    BY <1>1, <2>1, Zenon DEF pipewrite
<1>3. ASSUME NEW i \in 0 .. PIPESIZE - 1, NEW j \in Nat, j + 1 <= k
      PROVE  bytes[w][j + 1] \in Bytes
  <2>1. j + 1 \in 1 .. Len(bytes[w])
    BY <1>1, <1>3
  <2> QED
    BY <1>1, <2>1
<1>4. ASSUME NEW i \in 0 .. PIPESIZE - 1 PROVE (i - nwrite) % PIPESIZE \in Nat
  BY PipeConstants DEF PipeInv, PipeType
<1>5. ASSUME NEW i \in 0 .. PIPESIZE - 1 PROVE ring[i] \in Bytes
  BY Zenon DEF PipeInv, PipeType
<1> QED
  BY <1>2, <1>3, <1>4, <1>5, Zenon

LEMMA PipewriteKeeps ==
  ASSUME PipeInv, NEW w \in Writers, pipewrite(w)
  PROVE  PipeInv'
<1> USE Ends
<1>1. PICK k \in Nat :
        /\ k = (IF Len(bytes[w]) <= Room THEN Len(bytes[w]) ELSE Room)
        /\ k <= Len(bytes[w]) /\ Used + k <= PIPESIZE /\ (k # Len(bytes[w]) => Used + k = PIPESIZE)
        /\ nwrite' = Advanced(nwrite, k) /\ nwrite' \in 0 .. UintSize - 1
        /\ Used' = Used + k /\ Used \in 0 .. PIPESIZE /\ bytes[w] \in Seq(Bytes)
  BY WriteBounds, Zenon
<1> DEFINE done == k = Len(bytes[w])
           fail == ~done /\ (~readopen \/ killed[w])
<1>2. /\ at[w] = "call" /\ lock = {} /\ UNCHANGED <<nread, readopen, writeopen, killed>>
      /\ bytes' = [bytes EXCEPT ![w] = IF fail THEN <<>> ELSE SubSeq(@, k + 1, Len(@))]
      /\ at' = IF done THEN Wake(Readers, w, "out") ELSE [at EXCEPT ![w] = IF fail THEN "out" ELSE "wait"]
      /\ lock' = IF done \/ fail THEN {} ELSE {w}
  BY <1>1, Zenon DEF pipewrite
<1>3. \A q \in PipeProcs : at[q] # "wait"
  BY <1>2, NoHolder, Zenon DEF PipeInv, WaitInv
<1>4. bytes' \in [PipeProcs -> Seq(Bytes)]
  <2>1. <<>> \in Seq(Bytes) /\ SubSeq(bytes[w], k + 1, Len(bytes[w])) \in Seq(Bytes)
    BY <1>1
  <2> QED
    BY <1>2, <2>1, Zenon DEF PipeInv, PipeType
<1>5. \A q \in Writers : at[q] = "asleep" => Used' = PIPESIZE /\ readopen
  BY <1>1, PipeConstants DEF PipeInv, SleepInv
<1>ring. ring' \in [0 .. PIPESIZE - 1 -> Bytes]
  BY WriteKeepsRing
<1>6. CASE done
  <2>1. /\ lock' = {} /\ at'[w] = "out"
        /\ \A q \in PipeProcs : q # w => at'[q] = IF q \in Readers /\ at[q] = "asleep" THEN "call" ELSE at[q]
    BY <1>2, <1>6, Zenon DEF Wake
  <2>2. at' \in [PipeProcs -> {"out", "call", "wait", "asleep", "close", "gone"}]
    BY <1>2, <1>6, Zenon DEF Wake, PipeInv, PipeType
  <2>3. PipeType'
    BY <1>1, <1>2, <1>4, <1>ring, <2>2, Zenon DEF PipeInv, PipeType
  <2>4. WaitInv'
    BY <1>3, <2>1, NoHolder, Zenon DEF WaitInv
  <2>5. SleepInv'
    BY <1>2, <1>5, <2>1, Zenon DEF SleepInv
  <2>6. EndsInv'
    BY <1>2, <2>1 DEF PipeInv, EndsInv
  <2> QED
    BY <2>3, <2>4, <2>5, <2>6, Zenon DEF PipeInv
<1>7. CASE fail
  <2>1. /\ lock' = {} /\ at'[w] = "out" /\ \A q \in PipeProcs : q # w => at'[q] = at[q]
    BY <1>2, <1>7, Zenon DEF PipeInv, PipeType
  <2>2. at' \in [PipeProcs -> {"out", "call", "wait", "asleep", "close", "gone"}]
    BY <1>2, <1>7, Zenon DEF PipeInv, PipeType
  <2>3. PipeType'
    BY <1>1, <1>2, <1>4, <1>ring, <2>2, Zenon DEF PipeInv, PipeType
  <2>4. WaitInv'
    BY <1>3, <2>1, NoHolder, Zenon DEF WaitInv
  <2>5. ASSUME NEW r \in Readers, at[r] = "asleep" PROVE writeopen /\ killed[w]
    BY <1>7, <2>5, Zenon DEF PipeInv, SleepInv, EndsInv
  <2>6. SleepInv'
    BY <1>2, <1>5, <2>1, <2>5, Zenon DEF SleepInv
  <2>7. EndsInv'
    BY <1>2, <2>1 DEF PipeInv, EndsInv
  <2> QED
    BY <2>3, <2>4, <2>6, <2>7, Zenon DEF PipeInv
<1>8. CASE ~done /\ ~fail
  <2>1. /\ lock' = {w} /\ at'[w] = "wait" /\ \A q \in PipeProcs : q # w => at'[q] = at[q]
    BY <1>2, <1>8, Zenon DEF PipeInv, PipeType
  <2>2. at' \in [PipeProcs -> {"out", "call", "wait", "asleep", "close", "gone"}]
    BY <1>2, <1>8, Zenon DEF PipeInv, PipeType
  <2>3. PipeType'
    BY <1>1, <1>2, <1>4, <1>ring, <2>2, Zenon DEF PipeInv, PipeType
  <2>4. Used' = PIPESIZE /\ readopen'
    BY <1>1, <1>2, <1>8, Zenon
  <2>5. WaitInv'
    BY <1>3, <2>1, <2>4, NoHolder, Zenon DEF WaitInv
  <2>6. SleepInv'
    BY <1>2, <1>5, <2>1, Zenon DEF PipeInv, SleepInv
  <2>7. EndsInv'
    BY <1>2, <2>1 DEF PipeInv, EndsInv
  <2> QED
    BY <2>3, <2>5, <2>6, <2>7, Zenon DEF PipeInv
<1> QED
  BY <1>6, <1>7, <1>8, Zenon

\* piperead of n bytes takes k out: n, or all there are.
LEMMA ReadBounds ==
  ASSUME PipeInv, NEW r \in Readers, NEW n \in 0 .. MaxIO, piperead(r, n), ~(Used = 0 /\ writeopen)
  PROVE  \E k \in Nat :
           /\ k = (IF n <= Used THEN n ELSE Used) /\ k <= Used
           /\ nread' = Advanced(nread, k) /\ nread' \in 0 .. UintSize - 1
           /\ Used' = Used - k /\ Used \in 0 .. PIPESIZE
<1>1. Used \in 0 .. PIPESIZE /\ n \in Nat
  BY UsedNat, PipeAssumption DEF PipeInv
<1>2. PICK k \in Nat : k = (IF n <= Used THEN n ELSE Used)
  BY <1>1
<1>3. k <= Used
  BY <1>1, <1>2
<1>4. nread' = Advanced(nread, k) /\ nwrite' = nwrite
  BY <1>2, Zenon DEF piperead
<1>5. PICK t \in Nat \ {0} : t = UintSize
  BY PipeConstants, Zenon
<1>6. PICK a \in 0 .. t - 1, b \in 0 .. t - 1 : a = nwrite /\ b = nread
  BY <1>5, Zenon DEF PipeInv, PipeType
<1>7. Used = (a - b) % t
  BY <1>5, <1>6, Zenon DEF Used
<1>8. k <= (a - b) % t
  BY <1>3, <1>7, Zenon
<1>9. (b + k) % t \in 0 .. t - 1 /\ (a - ((b + k) % t)) % t = ((a - b) % t) - k
  BY <1>8, ReadAdvances
<1>10. nread' \in 0 .. UintSize - 1 /\ Used' = Used - k
  BY <1>4, <1>5, <1>6, <1>7, <1>9, Zenon DEF Advanced, Used
<1> QED
  BY <1>1, <1>2, <1>3, <1>4, <1>10, Zenon

LEMMA ContentsAreBytes ==
  PipeType => Contents \in Seq(Bytes) /\ Len(Contents) = Used
<1> SUFFICES ASSUME PipeType PROVE Contents \in Seq(Bytes) /\ Len(Contents) = Used
  BY Zenon
<1>1. Used \in Nat
  BY UsedNat, PipeConstants
<1>2. \A i \in 1 .. Used : ring[(nread + i - 1) % PIPESIZE] \in Bytes
  BY <1>1, PipeConstants DEF PipeType
<1> QED
  BY <1>1, <1>2 DEF Contents

LEMMA ContentsStayBytes ==
  (PipeType => Contents \in Seq(Bytes) /\ Len(Contents) = Used)'
BY ContentsAreBytes, PTL

LEMMA PipereadKeeps ==
  ASSUME PipeInv, NEW r \in Readers, NEW n \in 0 .. MaxIO, piperead(r, n)
  PROVE  PipeInv'
<1> USE Ends
<1>1. /\ at[r] = "call" /\ lock = {} /\ UNCHANGED <<ring, nwrite, readopen, writeopen, killed>>
      /\ \A q \in PipeProcs : at[q] # "wait"
  <2>1. at[r] = "call" /\ lock = {} /\ UNCHANGED <<ring, nwrite, readopen, writeopen, killed>>
    BY Zenon DEF piperead
  <2> QED
    BY <2>1, NoHolder, Zenon DEF PipeInv, WaitInv
<1>2. CASE Used = 0 /\ writeopen
  <2>1. nread' = nread /\ bytes' = bytes /\ Used' = Used
    BY <1>1, <1>2, Zenon DEF piperead, Used
  <2>2. CASE killed[r]
    <3>1. lock' = {} /\ at' = [at EXCEPT ![r] = "out"]
      BY <1>2, <2>2, Zenon DEF piperead
    <3>2. at'[r] = "out" /\ \A q \in PipeProcs : q # r => at'[q] = at[q]
      BY <3>1, Zenon DEF PipeInv, PipeType
    <3>3. PipeType'
      BY <1>1, <2>1, <3>1, Zenon DEF PipeInv, PipeType
    <3>4. WaitInv'
      BY <1>1, <3>1, <3>2, NoHolder, Zenon DEF WaitInv
    <3>5. SleepInv'
      BY <1>1, <1>2, <2>1, <3>2, Zenon DEF PipeInv, SleepInv
    <3>6. EndsInv'
      BY <1>1, <3>2 DEF PipeInv, EndsInv
    <3> QED
      BY <3>3, <3>4, <3>5, <3>6, Zenon DEF PipeInv
  <2>3. CASE ~killed[r]
    <3>1. lock' = {r} /\ at' = [at EXCEPT ![r] = "wait"]
      BY <1>2, <2>3, Zenon DEF piperead
    <3>2. at'[r] = "wait" /\ \A q \in PipeProcs : q # r => at'[q] = at[q]
      BY <3>1, Zenon DEF PipeInv, PipeType
    <3>3. PipeType'
      BY <1>1, <2>1, <3>1, Zenon DEF PipeInv, PipeType
    <3>4. WaitInv'
      BY <1>1, <1>2, <2>1, <3>1, <3>2, NoHolder, Zenon DEF WaitInv
    <3>5. SleepInv'
      BY <1>1, <1>2, <2>1, <3>2, Zenon DEF PipeInv, SleepInv
    <3>6. EndsInv'
      BY <1>1, <3>2 DEF PipeInv, EndsInv
    <3> QED
      BY <3>3, <3>4, <3>5, <3>6, Zenon DEF PipeInv
  <2> QED
    BY <2>2, <2>3, Zenon
<1>3. CASE ~(Used = 0 /\ writeopen)
  <2>1. PICK k \in Nat :
          /\ k = (IF n <= Used THEN n ELSE Used) /\ k <= Used
          /\ nread' = Advanced(nread, k) /\ nread' \in 0 .. UintSize - 1
          /\ Used' = Used - k /\ Used \in 0 .. PIPESIZE
    BY <1>3, ReadBounds, Zenon
  <2>2. /\ lock' = {} /\ at' = Wake(Writers, r, "out")
        /\ bytes' = [bytes EXCEPT ![r] = SubSeq(Contents, 1, k)]
    BY <1>3, <2>1, Zenon DEF piperead, Returns
  <2>3. /\ at'[r] = "out"
        /\ \A q \in PipeProcs : q # r => at'[q] = IF q \in Writers /\ at[q] = "asleep" THEN "call" ELSE at[q]
    BY <2>2, Zenon DEF Wake
  <2>4. at' \in [PipeProcs -> {"out", "call", "wait", "asleep", "close", "gone"}]
    BY <2>2, Zenon DEF Wake, PipeInv, PipeType
  <2>5. bytes' \in [PipeProcs -> Seq(Bytes)]
    <3>1. SubSeq(Contents, 1, k) \in Seq(Bytes)
      BY <2>1, ContentsAreBytes DEF PipeInv
    <3> QED
      BY <2>2, <3>1, Zenon DEF PipeInv, PipeType
  <2>6. PipeType'
    BY <1>1, <2>1, <2>4, <2>5, PipeConstants DEF PipeInv, PipeType
  <2>7. WaitInv'
    BY <1>1, <2>2, <2>3, NoHolder, Zenon DEF WaitInv
  <2>8. SleepInv'
    <3>1. ASSUME NEW q \in Readers, at[q] = "asleep"
          PROVE  writeopen /\ (Used' = 0 \/ \E w \in Writers : killed[w])
      BY <1>1, <2>1, <3>1, NoHolder DEF PipeInv, SleepInv
    <3> QED
      BY <1>1, <2>3, <3>1, Zenon DEF SleepInv
  <2>9. EndsInv'
    BY <1>1, <2>3 DEF PipeInv, EndsInv
  <2> QED
    BY <2>6, <2>7, <2>8, <2>9, Zenon DEF PipeInv
<1> QED
  BY <1>2, <1>3, Zenon

LEMMA PipecloseKeeps ==
  ASSUME PipeInv, NEW p \in PipeProcs, pipeclose(p)
  PROVE  PipeInv'
<1> USE Ends
<1>1. /\ at[p] = "close" /\ lock = {} /\ UNCHANGED <<ring, nread, nwrite, lock, killed, bytes, Used>>
      /\ \A q \in PipeProcs : at[q] # "wait"
  <2>1. at[p] = "close" /\ lock = {} /\ UNCHANGED <<ring, nread, nwrite, lock, killed, bytes, Used>>
    BY Zenon DEF pipeclose, Used
  <2> QED
    BY <2>1, NoHolder, Zenon DEF PipeInv, WaitInv
<1>2. CASE p \in Writers
  <2>1. ~writeopen' /\ at' = Wake(Readers, p, "gone") /\ readopen' = readopen
    BY <1>2, Zenon DEF pipeclose
  <2>2. /\ at'[p] = "gone"
        /\ \A q \in PipeProcs : q # p => at'[q] = IF q \in Readers /\ at[q] = "asleep" THEN "call" ELSE at[q]
    BY <2>1, Zenon DEF Wake
  <2>3. PipeType'
    BY <1>1, <2>1, Zenon DEF Wake, PipeInv, PipeType
  <2>4. WaitInv'
    BY <1>1, <2>2, NoHolder, Zenon DEF WaitInv
  <2>5. SleepInv'
    BY <1>1, <2>1, <2>2, Zenon DEF PipeInv, SleepInv
  <2>6. EndsInv'
    BY <1>1, <1>2, <2>1, <2>2 DEF PipeInv, EndsInv
  <2> QED
    BY <2>3, <2>4, <2>5, <2>6, Zenon DEF PipeInv
<1>3. CASE p \in Readers
  <2>1. ~readopen' /\ at' = Wake(Writers, p, "gone") /\ writeopen' = writeopen
    <3>1. p \notin Writers
      BY <1>3, Zenon
    <3> QED
      BY <3>1, Zenon DEF pipeclose
  <2>2. /\ at'[p] = "gone"
        /\ \A q \in PipeProcs : q # p => at'[q] = IF q \in Writers /\ at[q] = "asleep" THEN "call" ELSE at[q]
    BY <2>1, Zenon DEF Wake
  <2>3. PipeType'
    BY <1>1, <2>1, Zenon DEF Wake, PipeInv, PipeType
  <2>4. WaitInv'
    BY <1>1, <2>2, NoHolder, Zenon DEF WaitInv
  <2>5. SleepInv'
    BY <1>1, <2>1, <2>2, Zenon DEF PipeInv, SleepInv
  <2>6. EndsInv'
    BY <1>1, <1>3, <2>1, <2>2 DEF PipeInv, EndsInv
  <2> QED
    BY <2>3, <2>4, <2>5, <2>6, Zenon DEF PipeInv
<1> QED
  BY <1>2, <1>3, Zenon

LEMMA PipeKeeps == PipeInv /\ [PipeNext]_pipeVars => PipeInv'
<1> SUFFICES ASSUME PipeInv, [PipeNext]_pipeVars PROVE PipeInv'
  BY Zenon
<1>1. CASE UNCHANGED pipeVars
  <2>1. UNCHANGED <<ring, nread, nwrite, readopen, writeopen, lock, at, killed, bytes, Used>>
    BY <1>1, Zenon DEF pipeVars, pipe, Used
  <2>2. PipeType' /\ WaitInv'
    BY <2>1, Zenon DEF PipeInv, PipeType, WaitInv
  <2>3. SleepInv' /\ EndsInv'
    BY <2>1, Zenon DEF PipeInv, SleepInv, EndsInv
  <2> QED
    BY <2>2, <2>3, Zenon DEF PipeInv
<1>2. ASSUME NEW p \in PipeProcs, PipeStep(p) PROVE PipeInv'
  <2>1. CASE p \in Writers /\ pipewrite(p)
    BY <2>1, PipewriteKeeps, Zenon
  <2>2. CASE p \in Writers /\ pipewrite_sleep(p)
    BY <2>2, WriterSleepKeeps, Zenon
  <2>3. ASSUME p \in Readers, NEW n \in 0 .. MaxIO, piperead(p, n) PROVE PipeInv'
    BY <2>3, PipereadKeeps, Zenon
  <2>4. CASE p \in Readers /\ piperead_sleep(p)
    BY <2>4, ReaderSleepKeeps, Zenon
  <2>5. CASE pipeclose(p)
    BY <2>5, PipecloseKeeps, Zenon
  <2> QED
    BY <1>2, <2>1, <2>2, <2>3, <2>4, <2>5, Zenon DEF PipeStep
<1>3. ASSUME NEW p \in PipeProcs, fileclose(p) PROVE PipeInv'
  BY <1>3, CloseCallKeeps, Zenon
<1>4. ASSUME NEW p \in PipeProcs, pipe_kill(p) PROVE PipeInv'
  BY <1>4, KillKeeps, Zenon
<1>5. ASSUME NEW p \in Writers, NEW s \in Inputs, write(p, s) PROVE PipeInv'
  BY <1>5, WriteCallKeeps, Zenon
<1>6. ASSUME NEW p \in Readers, read(p) PROVE PipeInv'
  BY <1>6, ReadCallKeeps, Zenon
<1> QED
  BY <1>1, <1>2, <1>3, <1>4, <1>5, <1>6, Zenon DEF PipeNext

LEMMA PipeSafe == PipeSpec => []PipeInv
<1>1. PipeInit => PipeInv
  BY PipeStarts, Zenon
<1>2. PipeInv /\ [PipeNext]_pipeVars => PipeInv'
  BY PipeKeeps, Zenon
<1> QED
  BY <1>1, <1>2, PTL DEF PipeSpec

\* Nobody is left asleep on a pipe that could be used: the wakeups of
\* pipewrite, piperead and pipeclose reach every sleeper whose reason to
\* sleep has gone, however kill, which takes no lock of the pipe, interferes.
THEOREM NobodyStranded == PipeSpec => []NoStrandedSleeper
<1>1. PipeInv => NoStrandedSleeper
  <2> SUFFICES ASSUME PipeInv, lock = {}
               PROVE  /\ \A w \in Writers : at[w] = "asleep" => Used = PIPESIZE /\ readopen
                      /\ \A r \in Readers : at[r] = "asleep" =>
                           writeopen /\ (Used = 0 \/ \E w \in Writers : killed[w])
    BY Zenon DEF NoStrandedSleeper
  <2> QED
    BY NoHolder, Zenon DEF PipeInv, SleepInv
<1> QED
  BY <1>1, PipeSafe, PTL

-----------------------------------------------------------------------------
(***************************************************************************)
(* The ring is a stream.                                                   *)
(***************************************************************************)
\* Quotient and remainder.
LEMMA DivMod ==
  ASSUME NEW P \in Nat \ {0}, NEW x \in Int
  PROVE  \E d \in Int, m \in 0 .. P - 1 : x = (P * d) + m /\ m = x % P
<1>1. /\ x \div P \in Int /\ x % P \in 0 .. P - 1
      /\ x = (P * (x \div P)) + (x % P)
  OBVIOUS
<1> QED
  BY <1>1, Zenon

LEMMA Distributes ==
  ASSUME NEW P \in Int, NEW c \in Int, NEW d \in Int
  PROVE  P * (d - c) = (P * d) - (P * c) /\ P * (d + c) = (P * d) + (P * c)
         /\ P * c \in Int /\ P * d \in Int
OBVIOUS

\* A multiple of P less than P away from 0 is 0.
LEMMA NearZero ==
  ASSUME NEW P \in Nat \ {0}, NEW z \in Int, P * z < P, P * z > -P
  PROVE z = 0
<1>1. CASE z >= 1
  <2>1. P * z >= P
    BY <1>1
  <2> QED
    BY <2>1
<1>2. CASE z <= -1
  <2>1. P * z <= -P
    BY <1>2
  <2> QED
    BY <2>1
<1> QED
  BY <1>1, <1>2

\* The remainder is determined.
LEMMA OneRemainder ==
  ASSUME NEW P \in Nat \ {0}, NEW c \in Int, NEW r \in 0 .. P - 1,
         NEW d \in Int, NEW m \in 0 .. P - 1, (P * c) + r = (P * d) + m
  PROVE r = m
<1>1. P * (d - c) = (P * d) - (P * c) /\ P * c \in Int /\ P * d \in Int
  BY Distributes
<1>2. PICK Pd \in Int, Pc \in Int : Pd = P * d /\ Pc = P * c
  BY <1>1, Zenon
<1>3. Pc + r = Pd + m
  BY <1>2, Zenon
<1>4. PICK z \in Int : z = d - c
  OBVIOUS
<1>5. P * z = Pd - Pc
  BY <1>1, <1>2, <1>4, Zenon
<1>6. Pd - Pc < P /\ Pd - Pc > -P
  BY <1>3
<1>7. P * z < P /\ P * z > -P
  BY <1>5, <1>6, Zenon
<1>8. z = 0
  BY <1>7, NearZero, Zenon
<1>9. P * 0 = 0
  OBVIOUS
<1>10. Pd - Pc = 0
  BY <1>5, <1>8, <1>9, Zenon
<1> QED
  BY <1>3, <1>10

\* Whole laps around the ring lead back to the same place.
LEMMA WholeLaps ==
  ASSUME NEW P \in Nat \ {0}, NEW x \in Int, NEW c \in Int
  PROVE (x + (P * c)) % P = x % P
<1>1. PICK d \in Int, m \in 0 .. P - 1 : x = (P * d) + m /\ m = x % P
  BY DivMod, Zenon
<1>2. P * c \in Int /\ P * d \in Int /\ P * (d + c) = (P * d) + (P * c)
  BY Distributes
<1>3. PICK Pd \in Int, Pc \in Int : Pd = P * d /\ Pc = P * c
  BY <1>2, Zenon
<1>4. PICK y \in Int : y = x + Pc
  OBVIOUS
<1>5. PICK e \in Int, n \in 0 .. P - 1 : y = (P * e) + n /\ n = y % P
  BY DivMod, Zenon
<1>6. PICK g \in Int : g = d + c
  OBVIOUS
<1>7. P * g = Pd + Pc
  BY <1>2, <1>3, <1>6, Zenon
<1>8. x = Pd + m
  BY <1>1, <1>3, Zenon
<1>9. y = (Pd + Pc) + m
  BY <1>8, <1>4
<1>10. (P * g) + m = (P * e) + n
  BY <1>5, <1>7, <1>9, Zenon
<1>11. m = n
  BY <1>10, OneRemainder, Zenon
<1> QED
  BY <1>1, <1>3, <1>4, <1>5, <1>11, Zenon

\* nread + k may wrap around at UintSize, a multiple of PIPESIZE: the place in
\* the ring does not notice.
LEMMA RingShift ==
  ASSUME NEW P \in Nat \ {0}, NEW U \in Nat \ {0}, \E m \in Int : U = P * m,
         NEW b \in 0 .. U - 1, NEW k \in 0 .. U - 1, NEW i \in Int
  PROVE  (((b + k) % U) + i - 1) % P = (b + (k + i) - 1) % P
<1>1. (b + k) % U = IF b + k < U THEN b + k ELSE b + k - U
  OBVIOUS
<1>2. PICK c \in Int : c = (b + k) % U
  BY <1>1
<1>3. PICK x \in Int, y \in Int : x = c + i - 1 /\ y = b + (k + i) - 1
  OBVIOUS
<1>4. CASE b + k < U
  BY <1>1, <1>2, <1>4
<1>5. CASE ~(b + k < U)
  <2>1. y = x + U
    BY <1>1, <1>2, <1>3, <1>5
  <2>2. y % P = x % P
    <3>1. PICK m \in Int : U = P * m
      BY Zenon
    <3>2. (x + (P * m)) % P = x % P
      BY WholeLaps, Zenon
    <3> QED
      BY <2>1, <3>1, <3>2, Zenon
  <2> QED
    BY <1>2, <1>3, <2>2, Zenon
<1> QED
  BY <1>4, <1>5, Zenon

LEMMA Laps == \E m \in Int : UintSize = PIPESIZE * m
<1>1. UintSize \in Int /\ PIPESIZE \in Nat \ {0} /\ UintSize % PIPESIZE = 0
  BY PipeAssumption
<1>2. PICK d \in Int, r \in 0 .. PIPESIZE - 1 : UintSize = (PIPESIZE * d) + r /\ r = UintSize % PIPESIZE
  BY <1>1, DivMod, Zenon
<1>3. PIPESIZE * d \in Int
  BY <1>1
<1>4. UintSize = (PIPESIZE * d) + 0
  BY <1>1, <1>2, Zenon
<1>5. \A x \in Int : x + 0 = x
  OBVIOUS
<1> QED
  BY <1>3, <1>4, <1>5, Zenon

\* The place of byte i of the stream in the ring, counted from nwrite: the
\* bytes that are in the pipe come last, and the free places first.
LEMMA PlaceOf ==
  ASSUME PipeType, NEW i \in 1 .. PIPESIZE
  PROVE  \E x \in 0 .. PIPESIZE - 1, j \in Int :
           /\ x = (nread + i - 1) % PIPESIZE /\ j = (x - nwrite) % PIPESIZE
           /\ j = IF i > Used THEN i - 1 - Used ELSE PIPESIZE + i - 1 - Used
<1>1. PICK P \in Nat \ {0}, U \in Nat \ {0}, m \in Int : P = PIPESIZE /\ U = UintSize /\ U = P * m
  BY PipeConstants, Laps, Zenon
<1>2. PICK a \in 0 .. U - 1, b \in 0 .. U - 1, u \in 0 .. P, h \in 1 .. P :
        a = nwrite /\ b = nread /\ u = Used /\ u = (a - b) % U /\ h = i
  BY <1>1, UsedNat, Zenon DEF PipeType, Used
<1>3. U = P * m
  BY <1>1, Zenon
<1>4. u = (a - b) % U
  BY <1>2, Zenon
<1>5. (((b + h - 1) % P) - a) % P = IF h > u THEN h - 1 - u ELSE P + h - 1 - u
  <2>1. (a - b) % U = IF a < b THEN a - b + U ELSE a - b
    BY Distance, Zenon
  <2>2. u = IF a < b THEN a - b + U ELSE a - b
    BY <1>4, <2>1, Zenon
  <2>3. PICK y \in Int : y = b + h - 1
    OBVIOUS
  <2>4. PICK q \in Int, x \in 0 .. P - 1 : y = (P * q) + x /\ x = y % P
    BY DivMod, Zenon
  <2>5. PICK v \in Int : v = h - 1 - u
    OBVIOUS
  <2>6. \E e \in Int : x - a = v + (P * e)
    <3>1. P * q \in Int /\ P * m \in Int /\ P * 0 = 0 /\ P * (m - q) = (P * m) - (P * q) /\ P * (0 - q) = (P * 0) - (P * q)
      BY Distributes
    <3>2. PICK A \in Int : A = P * q
      BY <3>1, Zenon
    <3>3. y = A + x
      BY <2>4, <3>2, Zenon
    <3>4. P * (m - q) = U - A
      BY <1>3, <3>1, <3>2, Zenon
    <3>5. P * (0 - q) = 0 - A
      BY <3>1, <3>2, Zenon
    <3>6. CASE a < b
      <4>1. x - a = v + (U - A)
        BY <2>2, <2>3, <2>5, <3>3, <3>6
      <4>2. m - q \in Int
        OBVIOUS
      <4> QED
        BY <3>4, <4>1, <4>2, Zenon
    <3>7. CASE ~(a < b)
      <4>1. x - a = v + (0 - A)
        BY <2>2, <2>3, <2>5, <3>3, <3>7
      <4>2. 0 - q \in Int
        OBVIOUS
      <4> QED
        BY <3>5, <4>1, <4>2, Zenon
    <3> QED
      BY <3>6, <3>7, Zenon
  <2>7. PICK e \in Int : x - a = v + (P * e)
    BY <2>6, Zenon
  <2>8. (v + (P * e)) % P = v % P
    BY WholeLaps, Zenon
  <2>9. v % P = IF h > u THEN h - 1 - u ELSE P + h - 1 - u
    BY <2>5
  <2> QED
    BY <2>3, <2>4, <2>7, <2>8, <2>9, Zenon
<1>6. (b + h - 1) % P \in 0 .. P - 1
  OBVIOUS
<1>7. (((b + h - 1) % P) - a) % P \in Int
  OBVIOUS
<1> QED
  BY <1>1, <1>2, <1>5, <1>6, <1>7, Zenon

LEMMA WriteAppends ==
  ASSUME PipeInv, NEW w \in Writers, pipewrite(w), NEW k \in Nat,
         k = (IF Len(bytes[w]) <= Room THEN Len(bytes[w]) ELSE Room),
         k <= Len(bytes[w]), Used + k <= PIPESIZE, Used' = Used + k, PipeInv'
  PROVE  Contents' = Contents \o SubSeq(bytes[w], 1, k)
<1> DEFINE s == bytes[w]
<1>1. Used \in 0 .. PIPESIZE /\ s \in Seq(Bytes) /\ Len(s) \in Nat
  BY UsedNat, Ends DEF PipeInv, PipeType
<1>2. Contents \in Seq(Bytes) /\ Len(Contents) = Used
  BY ContentsAreBytes, Zenon DEF PipeInv
<1>3. Contents' \in Seq(Bytes) /\ Len(Contents') = Used + k
  BY ContentsStayBytes, Zenon DEF PipeInv
<1>4. /\ SubSeq(s, 1, k) \in Seq(Bytes) /\ Len(SubSeq(s, 1, k)) = k
      /\ \A i \in 1 .. k : SubSeq(s, 1, k)[i] = s[i]
  BY <1>1
<1>5. /\ Contents \o SubSeq(s, 1, k) \in Seq(Bytes) /\ Len(Contents \o SubSeq(s, 1, k)) = Used + k
      /\ \A i \in 1 .. Used + k :
           (Contents \o SubSeq(s, 1, k))[i] = IF i <= Used THEN Contents[i] ELSE s[i - Used]
  <2>1. PICK c, t \in Seq(Bytes) : c = Contents /\ t = SubSeq(s, 1, k)
    BY <1>2, <1>4, Zenon
  <2>2. /\ c \o t \in Seq(Bytes) /\ Len(c \o t) = Len(c) + Len(t)
        /\ \A i \in 1 .. Len(c) + Len(t) : (c \o t)[i] = IF i <= Len(c) THEN c[i] ELSE t[i - Len(c)]
    BY Joined
  <2>3. Len(c) = Used /\ Len(t) = k
    BY <1>2, <1>4, <2>1, Zenon
  <2>4. ASSUME NEW i \in 1 .. Used + k, ~(i <= Used)
        PROVE  t[i - Used] = s[i - Used]
    <3>1. i - Used \in 1 .. k
      BY <1>1, <2>4
    <3> QED
      BY <1>4, <2>1, <3>1, Zenon
  <2>5. \A i \in 1 .. Used + k : (c \o t)[i] = IF i <= Used THEN c[i] ELSE s[i - Used]
    BY <2>2, <2>3, <2>4, Zenon
  <2> QED
    BY <2>1, <2>2, <2>3, <2>5, Zenon
<1>6. ring' = [i \in 0 .. PIPESIZE - 1 |->
                 IF ((i - nwrite) % PIPESIZE) + 1 <= k THEN s[((i - nwrite) % PIPESIZE) + 1] ELSE ring[i]]
  <2>1. DOMAIN ring = 0 .. PIPESIZE - 1
    BY Zenon DEF PipeInv, PipeType
  <2> QED
    BY <2>1, ZenonT(60) DEF pipewrite
<1>7. ASSUME NEW i \in 1 .. Used + k
      PROVE  Contents'[i] = IF i <= Used THEN Contents[i] ELSE s[i - Used]
  <2>3. i \in 1 .. PIPESIZE
    BY <1>1, PipeConstants
  <2>4. PICK x \in 0 .. PIPESIZE - 1, j \in Int :
          /\ x = (nread + i - 1) % PIPESIZE /\ j = (x - nwrite) % PIPESIZE
          /\ j = IF i > Used THEN i - 1 - Used ELSE PIPESIZE + i - 1 - Used
    BY <2>3, PlaceOf, Zenon DEF PipeInv
  <2>5. j = IF i > Used THEN i - 1 - Used ELSE PIPESIZE + i - 1 - Used
    BY <2>4, Zenon
  <2>7. ring'[x] = IF j + 1 <= k THEN s[j + 1] ELSE ring[x]
    BY <1>6, <2>4, Zenon
  <2>8. Contents'[i] = ring'[x]
    <3>1. i \in 1 .. Used' /\ nread' = nread
      BY <1>7, Zenon DEF pipewrite
    <3> QED
      BY <2>4, <3>1, Zenon DEF Contents
  <2>9. CASE i <= Used
    <3>1. ~(j + 1 <= k) /\ i \in 1 .. Used
      BY <1>1, <2>5, <2>9, PipeConstants
    <3>2. Contents[i] = ring[x]
      BY <2>4, <3>1, Zenon DEF Contents
    <3> QED
      BY <2>7, <2>8, <2>9, <3>1, <3>2, Zenon
  <2>10. CASE ~(i <= Used)
    <3>1. j + 1 <= k /\ j + 1 = i - Used
      BY <1>1, <2>5, <2>10, PipeConstants
    <3> QED
      BY <2>7, <2>8, <2>10, <3>1, Zenon
  <2> QED
    BY <2>9, <2>10, Zenon
<1>8. PICK c, d \in Seq(Bytes) : c = Contents' /\ d = Contents \o SubSeq(s, 1, k)
  BY <1>3, <1>5, Zenon
<1>9. Len(c) = Len(d) /\ \A i \in 1 .. Len(c) : c[i] = d[i]
  BY <1>3, <1>5, <1>7, <1>8, Zenon
<1>10. c = d
  BY <1>9, SeqsAgree, Zenon
<1> QED
  BY <1>8, <1>10, Zenon

LEMMA ReadTakes ==
  ASSUME PipeInv, NEW k \in Nat, k <= Used, nread' = Advanced(nread, k), ring' = ring, Used' = Used - k, PipeInv'
  PROVE  Contents' = SubSeq(Contents, k + 1, Len(Contents))
<1>1. Used \in 0 .. PIPESIZE
  BY UsedNat, Zenon DEF PipeInv
<1>2. Contents \in Seq(Bytes) /\ Len(Contents) = Used
  BY ContentsAreBytes, Zenon DEF PipeInv
<1>3. Contents' \in Seq(Bytes) /\ Len(Contents') = Used - k
  BY ContentsStayBytes, Zenon DEF PipeInv
<1>4. PICK c \in Seq(Bytes) : c = Contents /\ Len(c) = Used
  BY <1>2, Zenon
<1>5. /\ SubSeq(c, k + 1, Len(c)) \in Seq(Bytes) /\ Len(SubSeq(c, k + 1, Len(c))) = Used - k
      /\ \A i \in 1 .. Used - k : SubSeq(c, k + 1, Len(c))[i] = c[k + i]
  BY <1>1, <1>4
<1>6. ASSUME NEW i \in 1 .. Used - k PROVE Contents'[i] = c[k + i]
  <2>1. PICK P \in Nat \ {0}, U \in Nat \ {0} : P = PIPESIZE /\ U = UintSize
    BY PipeConstants, Zenon
  <2>2. k \in 0 .. UintSize - 1 /\ k + i \in 1 .. Used /\ i \in Int
    BY <1>1, <1>6, PipeConstants
  <2>3. PICK b \in 0 .. U - 1, d \in 0 .. U - 1, h \in Int : b = nread /\ d = k /\ h = i
    BY <2>1, <2>2, Zenon DEF PipeInv, PipeType
  <2>4. \E m \in Int : U = P * m
    BY <2>1, Laps, Zenon
  <2>5. (((b + d) % U) + h - 1) % P = (b + (d + h) - 1) % P
    BY <2>4, RingShift, ZenonT(60)
  <2>6. Contents'[i] = ring[(((nread + k) % UintSize) + i - 1) % PIPESIZE]
    <3>1. i \in 1 .. Used'
      BY <1>6, Zenon
    <3>2. Contents'[i] = ring'[(nread' + i - 1) % PIPESIZE]
      BY <3>1, Zenon DEF Contents
    <3> QED
      BY <3>2, Zenon DEF Advanced
  <2>7. c[k + i] = ring[(nread + (k + i) - 1) % PIPESIZE]
    BY <1>4, <2>2, Zenon DEF Contents
  <2> QED
    BY <2>1, <2>3, <2>5, <2>6, <2>7, Zenon
<1>7. PICK d, e \in Seq(Bytes) : d = Contents' /\ e = SubSeq(c, k + 1, Len(c))
  BY <1>3, <1>5, Zenon
<1>8. Len(d) = Len(e) /\ \A i \in 1 .. Len(d) : d[i] = e[i]
  BY <1>3, <1>5, <1>6, <1>7, Zenon
<1>9. d = e
  BY <1>8, SeqsAgree, Zenon
<1> QED
  BY <1>4, <1>7, <1>9, Zenon

\* What one process does to its bytes the streams of the others do not see.
LEMMA OneWriter ==
  ASSUME DOMAIN bytes = PipeProcs, NEW w \in Writers, NEW s, bytes' = [bytes EXCEPT ![w] = s]
  PROVE  /\ [v \in Writers |-> bytes'[v]] = [[v \in Writers |-> bytes[v]] EXCEPT ![w] = s]
         /\ [r \in Readers |-> bytes'[r]] = [r \in Readers |-> bytes[r]]
<1>1. \A v \in Writers : bytes'[v] = IF v = w THEN s ELSE bytes[v]
  BY Ends, Zenon
<1>2. \A r \in Readers : bytes'[r] = bytes[r]
  BY Ends, Zenon
<1>3. [v \in Writers |-> bytes'[v]] = [v \in Writers |-> IF v = w THEN s ELSE bytes[v]]
  BY <1>1, Zenon
<1>4. [[v \in Writers |-> bytes[v]] EXCEPT ![w] = s] = [v \in Writers |-> IF v = w THEN s ELSE bytes[v]]
  BY Zenon
<1> QED
  BY <1>2, <1>3, <1>4, ZenonT(60)

LEMMA OneReader ==
  ASSUME DOMAIN bytes = PipeProcs, NEW r \in Readers, NEW s, bytes' = [bytes EXCEPT ![r] = s]
  PROVE  /\ [v \in Readers |-> bytes'[v]] = [[v \in Readers |-> bytes[v]] EXCEPT ![r] = s]
         /\ [w \in Writers |-> bytes'[w]] = [w \in Writers |-> bytes[w]]
<1>1. \A v \in Readers : bytes'[v] = IF v = r THEN s ELSE bytes[v]
  BY Ends, Zenon
<1>2. \A w \in Writers : bytes'[w] = bytes[w]
  BY Ends, Zenon
<1>3. [v \in Readers |-> bytes'[v]] = [v \in Readers |-> IF v = r THEN s ELSE bytes[v]]
  BY <1>1, Zenon
<1>4. [[v \in Readers |-> bytes[v]] EXCEPT ![r] = s] = [v \in Readers |-> IF v = r THEN s ELSE bytes[v]]
  BY Zenon
<1> QED
  BY <1>2, <1>3, <1>4, ZenonT(60)

LEMMA ContentsKept ==
  ASSUME UNCHANGED <<ring, nread, nwrite>>
  PROVE  Contents' = Contents /\ Used' = Used
<1>1. Used' = Used
  BY Zenon DEF Used
<1> QED
  BY <1>1, Zenon DEF Contents

LEMMA StreamStarts == PipeInit => B!BInit
<1> SUFFICES ASSUME PipeInit PROVE B!BInit
  BY Zenon
<1>1. PipeInv
  BY PipeStarts, Zenon
<1>2. Used = 0
  <2>1. (0 - 0) % UintSize = 0
    BY PipeConstants
  <2> QED
    BY <2>1, Zenon DEF PipeInit, Used
<1>3. Contents \in Seq(Bytes) /\ Len(Contents) = 0
  BY <1>1, <1>2, ContentsAreBytes, Zenon DEF PipeInv
<1>4. Contents = <<>>
  BY <1>3, Nothing, Zenon
<1>5. \A p \in PipeProcs : bytes[p] = <<>>
  BY Zenon DEF PipeInit
<1>6. /\ [w \in Writers |-> bytes[w]] = [w \in Writers |-> <<>>]
      /\ [r \in Readers |-> bytes[r]] = [r \in Readers |-> <<>>]
  BY <1>5, Ends, Zenon
<1> QED
  BY <1>4, <1>6, Zenon DEF B!BInit

\* A call of a writer begins, or is given up.
LEMMA OfferStep ==
  ASSUME DOMAIN bytes = PipeProcs, NEW w \in Writers, NEW s \in Inputs, bytes' = [bytes EXCEPT ![w] = s], Contents' = Contents
  PROVE  B!BNext
<1>1. B!Offer(w, s)
  BY OneWriter, Zenon DEF B!Offer
<1> QED
  BY <1>1, Zenon DEF B!BNext

LEMMA SendStep ==
  ASSUME PipeInv, PipeInv', NEW w \in Writers, pipewrite(w)
  PROVE  [B!BNext]_(B!bvars)
<1> DEFINE unsent == [v \in Writers |-> bytes[v]]
<1>0. DOMAIN bytes = PipeProcs
  BY Zenon DEF PipeInv, PipeType
<1>1. PICK k \in Nat :
        /\ k = (IF Len(bytes[w]) <= Room THEN Len(bytes[w]) ELSE Room)
        /\ k <= Len(bytes[w]) /\ Used + k <= PIPESIZE /\ (k # Len(bytes[w]) => Used + k = PIPESIZE)
        /\ nwrite' = Advanced(nwrite, k) /\ nwrite' \in 0 .. UintSize - 1
        /\ Used' = Used + k /\ Used \in 0 .. PIPESIZE /\ bytes[w] \in Seq(Bytes)
  BY WriteBounds, Zenon
<1>2. Contents' = Contents \o SubSeq(bytes[w], 1, k) /\ Len(Contents) = Used
  BY <1>1, WriteAppends, ContentsAreBytes, Zenon DEF PipeInv
<1>3. unsent[w] = bytes[w]
  BY Zenon
<1>4. PICK rest \in {<<>>, SubSeq(bytes[w], k + 1, Len(bytes[w]))} : bytes' = [bytes EXCEPT ![w] = rest]
  <2>1. CASE k # Len(bytes[w]) /\ (~readopen \/ killed[w])
    BY <1>1, <2>1, Zenon DEF pipewrite
  <2>2. CASE ~(k # Len(bytes[w]) /\ (~readopen \/ killed[w]))
    BY <1>1, <2>2, Zenon DEF pipewrite
  <2> QED
    BY <2>1, <2>2, Zenon
<1>5. /\ [v \in Writers |-> bytes'[v]] = [unsent EXCEPT ![w] = rest]
      /\ [r \in Readers |-> bytes'[r]] = [r \in Readers |-> bytes[r]]
  BY <1>0, <1>4, OneWriter, Zenon
<1>6. CASE k # 0
  <2>1. k \in 1 .. Len(unsent[w]) /\ Len(Contents) + k <= PIPESIZE
    BY <1>1, <1>2, <1>3, <1>6
  <2>2. \/ [v \in Writers |-> bytes'[v]] = [unsent EXCEPT ![w] = SubSeq(unsent[w], k + 1, Len(unsent[w]))]
        \/ [v \in Writers |-> bytes'[v]] = [unsent EXCEPT ![w] = <<>>]
    BY <1>3, <1>4, <1>5, Zenon
  <2>3. Contents' = Contents \o SubSeq(unsent[w], 1, k)
    BY <1>2, <1>3, Zenon
  <2>4. B!Send(w, k)
    BY <1>5, <2>1, <2>2, <2>3, Zenon DEF B!Send
  <2> QED
    BY <2>1, <2>4, Zenon DEF B!BNext
<1>7. CASE k = 0
  <2>1. Contents' = Contents
    <3>1. PICK c, t \in Seq(Bytes) : c = Contents /\ t = bytes[w]
      BY <1>1, ContentsAreBytes, Zenon DEF PipeInv
    <3>2. SubSeq(t, 1, 0) = <<>> /\ c \o <<>> = c
      BY Nothing
    <3> QED
      BY <1>2, <1>7, <3>1, <3>2, Zenon
  <2>2. CASE rest = <<>>
    <3>1. <<>> \in Inputs
      BY PipeAssumption DEF Inputs
    <3> QED
      BY <1>0, <1>4, <2>1, <2>2, <3>1, OfferStep, Zenon
  <2>3. CASE rest = SubSeq(bytes[w], k + 1, Len(bytes[w]))
    <3>1. rest = bytes[w]
      BY <1>1, <1>7, <2>3, Whole
    <3>2. bytes' = bytes
      BY <1>4, <3>1, Ends, Zenon DEF PipeInv, PipeType
    <3> QED
      BY <2>1, <3>2, Zenon DEF B!bvars
  <2> QED
    BY <2>2, <2>3, Zenon
<1> QED
  BY <1>6, <1>7, Zenon

\* A reader returns with k bytes; none, when its call begins or it closes.
LEMMA ReceiveStep ==
  ASSUME PipeInv, NEW r \in Readers, NEW k \in 0 .. Used,
         bytes' = [bytes EXCEPT ![r] = SubSeq(Contents, 1, k)],
         Contents' = SubSeq(Contents, k + 1, Len(Contents))
  PROVE  B!BNext
<1>1. DOMAIN bytes = PipeProcs /\ Len(Contents) = Used
  BY ContentsAreBytes, Zenon DEF PipeInv, PipeType
<1>2. PICK s : s = SubSeq(Contents, 1, k)
  BY Zenon
<1>3. B!Receive(r, k)
  BY <1>1, <1>2, OneReader, Zenon DEF B!Receive
<1> QED
  BY <1>1, <1>3, Zenon DEF B!BNext

LEMMA ReceiveNothing ==
  ASSUME PipeInv, NEW r \in Readers, bytes' = [bytes EXCEPT ![r] = <<>>], Contents' = Contents
  PROVE  B!BNext
<1>1. PICK c \in Seq(Bytes) : c = Contents
  BY ContentsAreBytes, Zenon DEF PipeInv
<1>2. SubSeq(c, 1, 0) = <<>> /\ SubSeq(c, 0 + 1, Len(c)) = c
  BY Whole
<1>3. 0 \in 0 .. Used
  BY UsedNat, PipeConstants DEF PipeInv
<1>4. /\ bytes' = [bytes EXCEPT ![r] = SubSeq(Contents, 1, 0)]
      /\ Contents' = SubSeq(Contents, 0 + 1, Len(Contents))
  BY <1>1, <1>2, Zenon
<1> QED
  BY <1>3, <1>4, ReceiveStep, Zenon

LEMMA ReadStep ==
  ASSUME PipeInv, PipeInv', NEW r \in Readers, NEW n \in 0 .. MaxIO, piperead(r, n)
  PROVE  [B!BNext]_(B!bvars)
<1>1. CASE Used = 0 /\ writeopen
  <2>1. UNCHANGED <<ring, nread, nwrite>> /\ bytes' = bytes
    BY <1>1, Zenon DEF piperead
  <2> QED
    BY <2>1, ContentsKept, Zenon DEF B!bvars
<1>2. CASE ~(Used = 0 /\ writeopen)
  <2>1. PICK k \in Nat :
          /\ k = (IF n <= Used THEN n ELSE Used) /\ k <= Used
          /\ nread' = Advanced(nread, k) /\ nread' \in 0 .. UintSize - 1
          /\ Used' = Used - k /\ Used \in 0 .. PIPESIZE
    BY <1>2, ReadBounds, Zenon
  <2>2. ring' = ring /\ bytes' = [bytes EXCEPT ![r] = SubSeq(Contents, 1, k)]
    BY <1>2, <2>1, Zenon DEF piperead
  <2>3. Contents' = SubSeq(Contents, k + 1, Len(Contents))
    BY <2>1, <2>2, ReadTakes, Zenon
  <2>4. k \in 0 .. Used
    BY <2>1
  <2> QED
    BY <2>2, <2>3, <2>4, ReceiveStep, Zenon
<1> QED
  BY <1>1, <1>2, Zenon

LEMMA CloseStep ==
  ASSUME PipeInv, NEW p \in PipeProcs, bytes' = [bytes EXCEPT ![p] = <<>>], Contents' = Contents
  PROVE  B!BNext
<1>1. CASE p \in Writers
  <2>1. DOMAIN bytes = PipeProcs
    BY Zenon DEF PipeInv, PipeType
  <2>2. <<>> \in Inputs
    BY PipeAssumption DEF Inputs
  <2> QED
    BY <1>1, <2>1, <2>2, OfferStep, Zenon
<1>2. CASE p \in Readers
  BY <1>2, ReceiveNothing, Zenon
<1> QED
  BY <1>1, <1>2, Ends, Zenon

LEMMA StreamStep == PipeInv /\ PipeInv' /\ [PipeNext]_pipeVars => [B!BNext]_(B!bvars)
<1> SUFFICES ASSUME PipeInv, PipeInv', [PipeNext]_pipeVars PROVE [B!BNext]_(B!bvars)
  BY Zenon
<1>0. ASSUME UNCHANGED <<ring, nread, nwrite, bytes>> PROVE UNCHANGED B!bvars
  BY <1>0, ContentsKept, Zenon DEF B!bvars
<1>1. CASE UNCHANGED pipeVars
  BY <1>0, <1>1, Zenon DEF pipeVars, pipe
<1>2. ASSUME NEW p \in PipeProcs, PipeStep(p) PROVE [B!BNext]_(B!bvars)
  <2>1. CASE p \in Writers /\ pipewrite(p)
    BY <2>1, SendStep, Zenon
  <2>2. CASE p \in Writers /\ pipewrite_sleep(p)
    BY <1>0, <2>2, Zenon DEF pipewrite_sleep, pipe
  <2>3. ASSUME p \in Readers, NEW n \in 0 .. MaxIO, piperead(p, n) PROVE [B!BNext]_(B!bvars)
    BY <2>3, ReadStep, Zenon
  <2>4. CASE p \in Readers /\ piperead_sleep(p)
    BY <1>0, <2>4, Zenon DEF piperead_sleep, pipe
  <2>5. CASE pipeclose(p)
    BY <1>0, <2>5, Zenon DEF pipeclose
  <2> QED
    BY <1>2, <2>1, <2>2, <2>3, <2>4, <2>5, Zenon DEF PipeStep
<1>3. ASSUME NEW p \in PipeProcs, fileclose(p) PROVE B!BNext
  <2>1. bytes' = [bytes EXCEPT ![p] = <<>>] /\ Contents' = Contents
    BY <1>3, ContentsKept, Zenon DEF fileclose, pipe
  <2> QED
    BY <2>1, CloseStep, Zenon
<1>4. ASSUME NEW p \in PipeProcs, pipe_kill(p) PROVE UNCHANGED B!bvars
  BY <1>0, <1>4, Zenon DEF pipe_kill, pipe
<1>5. ASSUME NEW p \in Writers, NEW s \in Inputs, write(p, s) PROVE B!BNext
  <2>1. bytes' = [bytes EXCEPT ![p] = s] /\ Contents' = Contents
    BY <1>5, ContentsKept, Zenon DEF write, pipe
  <2>2. DOMAIN bytes = PipeProcs
    BY Zenon DEF PipeInv, PipeType
  <2> QED
    BY <2>1, <2>2, OfferStep, Zenon
<1>6. ASSUME NEW p \in Readers, read(p) PROVE B!BNext
  <2>1. bytes' = [bytes EXCEPT ![p] = <<>>] /\ Contents' = Contents
    BY <1>6, ContentsKept, Zenon DEF read, pipe
  <2> QED
    BY <2>1, ReceiveNothing, Zenon
<1> QED
  BY <1>1, <1>2, <1>3, <1>4, <1>5, <1>6, Zenon DEF PipeNext

\* The ring with its wrapping counters is a bounded stream of bytes: whatever
\* the width of the counters, as long as the size of the ring divides their
\* range, the bytes of every write arrive once and in order (pipewrite,
\* piperead).
THEOREM PipeIsStream == PipeSpec => ImplementsByteStream
<1>1. PipeInit => B!BInit
  BY StreamStarts, Zenon
<1>2. PipeInv /\ PipeInv' /\ [PipeNext]_pipeVars => [B!BNext]_(B!bvars)
  BY StreamStep, Zenon
<1> QED
  BY <1>1, <1>2, PipeSafe, PTL DEF PipeSpec, ImplementsByteStream, B!BSpec
=============================================================================
