---- MODULE DeviceProofs ----
(***************************************************************************)
(* The clock's and the console's properties for every value of their       *)
(* constants: every width of the tick counter and of the console's         *)
(* indices, every number of sleepers and readers, every size of the input  *)
(* buffer and of the screen.                                               *)
(*                                                                         *)
(* ClockInv ties the wrapped counters to age, the ticks that really passed *)
(* since the call: age never reaches a whole turn, because a call that     *)
(* still sleeps is younger than n and a woken one is at most late ticks    *)
(* older; so ticks - ticks0, taken modulo TICKS, is age.                   *)
(*                                                                         *)
(* ConInv: whoever copies has something to copy, and holds the lock; the   *)
(* finished lines and the line being edited fit into the buffer, so that   *)
(* the distances between the wrapping indices are their lengths; and the   *)
(* line being edited holds nothing that finishes it.                       *)
(***************************************************************************)
EXTENDS Clock, Console, TLAPS

USE SMTT(30)

ClockSpec == ClockInit /\ [][ClockNext]_clockVars

ClockType == /\ now \in 0..(TICKS - 1) /\ nap \in [Sleepers -> {"user", "test", "asleep"}]
             /\ ticks0 \in [Sleepers -> 0..(TICKS - 1)] /\ naptime \in [Sleepers -> Nat]
             /\ doomed \in [Sleepers -> BOOLEAN] /\ late \in [Sleepers -> Nat] /\ age \in [Sleepers -> Nat]

\* The call of p began at ticks0 and has lasted for age ticks, fewer than a turn.
InTime(p) ==
  /\ nap[p] = "user" => late[p] = 0 /\ age[p] = 0
  /\ nap[p] # "user" => /\ naptime[p] + MaxLate < TICKS
                        /\ now = ticks0[p] + age[p] \/ now = ticks0[p] + age[p] - TICKS
  /\ nap[p] = "asleep" => age[p] < naptime[p] /\ late[p] = 0
  /\ nap[p] = "test" => late[p] <= MaxLate /\ age[p] <= naptime[p] + late[p]

ClockInv == ClockType /\ \A p \in Sleepers : InTime(p)
\* Sequences of the same length with the same elements are the same.
LEMMA SeqsAgree ==
  ASSUME NEW S, NEW s \in Seq(S), NEW t \in Seq(S), Len(s) = Len(t), \A i \in 1..Len(s) : s[i] = t[i]
  PROVE  s = t
OBVIOUS

\* The length and the elements of two sequences put one after the other.
LEMMA Joined ==
  ASSUME NEW S, NEW s \in Seq(S), NEW t \in Seq(S)
  PROVE  /\ s \o t \in Seq(S) /\ Len(s \o t) = Len(s) + Len(t)
         /\ \A i \in 1..(Len(s) + Len(t)) : (s \o t)[i] = IF i <= Len(s) THEN s[i] ELSE t[i - Len(s)]
OBVIOUS

LEMMA Constants == /\ TICKS \in Nat \ {0, 1} /\ MaxLate \in Nat
                   /\ \A n \in Naps : n \in Nat /\ n + MaxLate < TICKS
BY ClockAssumption

\* The remainders that trap.c and sysproc.c take, within one turn of the counter.
LEMMA Turn ==
  ASSUME NEW t \in Nat \ {0}, NEW u \in 0..(t - 1), NEW v \in 0..(t - 1)
  PROVE  /\ (u + 1) % t = IF u + 1 < t THEN u + 1 ELSE u + 1 - t
         /\ (u - v) % t = IF u < v THEN u - v + t ELSE u - v
OBVIOUS

\* sysproc.c:69: the unsigned difference of the counters is the time that passed.
LEMMA Elapsed ==
  ASSUME ClockInv, NEW p \in Sleepers, nap[p] = "test"
  PROVE  NotYet(now, ticks0[p], naptime[p]) <=> age[p] < naptime[p]
<1>a. /\ ticks0[p] \in 0..(TICKS - 1) /\ now \in 0..(TICKS - 1) /\ age[p] \in Nat
      /\ naptime[p] \in Nat /\ late[p] \in Nat
  BY DEF ClockInv, ClockType
<1>i. InTime(p)
  BY DEF ClockInv
<1>b. /\ naptime[p] + MaxLate < TICKS /\ late[p] <= MaxLate /\ age[p] <= naptime[p] + late[p]
      /\ now = ticks0[p] + age[p] \/ now = ticks0[p] + age[p] - TICKS
  BY <1>a, <1>i, Constants DEF InTime
<1>1. age[p] < TICKS
  BY <1>a, <1>b, Constants
<1>2. (now - ticks0[p]) % TICKS = IF now < ticks0[p] THEN now - ticks0[p] + TICKS ELSE now - ticks0[p]
  <2>1. PICK t0 \in 0..(TICKS - 1) : t0 = ticks0[p]
    BY <1>a
  <2>2. TICKS \in Nat \ {0}
    BY Constants
  <2>3. (now - t0) % TICKS = IF now < t0 THEN now - t0 + TICKS ELSE now - t0
    BY <1>a, <2>2, Turn
  <2> QED
    BY <2>1, <2>3
<1>3. (now - ticks0[p]) % TICKS = age[p]
  BY <1>a, <1>b, <1>1, <1>2, Constants
<1> QED
  BY <1>3 DEF NotYet

LEMMA ClockStarts == ClockInit => ClockInv
BY Constants DEF ClockInit, ClockInv, ClockType, InTime

\* trap.c:54-56: a tick keeps the clock and every call together.
LEMMA TickKeeps ==
  ASSUME ClockInv, tick
  PROVE  ClockInv'
<1>1. now' = IF now + 1 < TICKS THEN now + 1 ELSE now + 1 - TICKS
  BY Constants, Turn DEF ClockInv, ClockType, tick
<1>2. ClockType'
  BY <1>1, Constants DEF ClockInv, ClockType, tick, Older
<1>3. ASSUME NEW p \in Sleepers
      PROVE  InTime(p)'
  <2>1. CASE nap[p] = "user"
    BY <2>1 DEF ClockInv, ClockType, tick, InTime
  <2>a. /\ ticks0[p] \in 0..(TICKS - 1) /\ now \in 0..(TICKS - 1) /\ age[p] \in Nat
        /\ naptime[p] \in Nat /\ late[p] \in Nat
    BY DEF ClockInv, ClockType
  <2>2. CASE nap[p] = "asleep"
    <3>1. /\ nap'[p] = "test" /\ late'[p] = late[p] /\ age'[p] = Older(age[p])
          /\ ticks0'[p] = ticks0[p] /\ naptime'[p] = naptime[p]
      BY <2>2 DEF tick
    <3>2. InTime(p)
      BY DEF ClockInv
    <3> QED
      BY <1>1, <2>2, <2>a, <3>1, <3>2, Constants DEF InTime, Older
  <2>3. CASE nap[p] = "test"
    <3>1. /\ nap'[p] = "test" /\ late'[p] = late[p] + 1 /\ age'[p] = Older(age[p])
          /\ ticks0'[p] = ticks0[p] /\ naptime'[p] = naptime[p] /\ late[p] < MaxLate
      BY <2>3 DEF tick
    <3>2. InTime(p)
      BY DEF ClockInv
    <3> QED
      BY <1>1, <2>3, <2>a, <3>1, <3>2, Constants DEF InTime, Older
  <2> QED
    BY <2>1, <2>2, <2>3 DEF ClockInv, ClockType
<1> QED
  BY <1>2, <1>3 DEF ClockInv

LEMMA ClockKeeps == ClockInv /\ [ClockNext]_clockVars => ClockInv'
<1> SUFFICES ASSUME ClockInv, [ClockNext]_clockVars
             PROVE  ClockInv'
  OBVIOUS
<1>1. CASE tick
  BY <1>1, TickKeeps
<1>2. ASSUME NEW p \in Sleepers, NEW n \in Naps, sys_sleep(p, n)
      PROVE  ClockInv'
  BY <1>2, Constants DEF ClockInv, ClockType, InTime, sys_sleep
<1>3. ASSUME NEW p \in Sleepers, sys_sleep_wait(p)
      PROVE  ClockInv'
  <2>1. age[p] < naptime[p]
    BY <1>3, Elapsed DEF sys_sleep_wait
  <2> QED
    BY <1>3, <2>1, Constants DEF ClockInv, ClockType, InTime, sys_sleep_wait
<1>4. ASSUME NEW p \in Sleepers, sys_sleep_return(p)
      PROVE  ClockInv'
  BY <1>4, Constants DEF ClockInv, ClockType, InTime, sys_sleep_return
<1>5. ASSUME NEW p \in Sleepers, clock_kill(p)
      PROVE  ClockInv'
  BY <1>5, Constants DEF ClockInv, ClockType, InTime, clock_kill
<1>6. CASE UNCHANGED clockVars
  BY <1>6 DEF clockVars, napVars, ClockInv, ClockType, InTime
<1> QED
  BY <1>1, <1>2, <1>3, <1>4, <1>5, <1>6 DEF ClockNext

\* sysproc.c:67-74, trap.c:54-56: sleep(n) does not return before n ticks have
\* passed to a process that was not killed, and nobody is asleep whose time is
\* over, for every width of the counter and also while it wraps.
THEOREM SleepIsExact == ClockSpec => SleepsExactly
<1> DEFINE Waited == \A p \in Sleepers : nap[p] = "test" /\ nap'[p] = "user" /\ ~doomed[p]
                                           => age[p] >= naptime[p]
<1>1. ASSUME ClockInv, [ClockNext]_clockVars
      PROVE  [Waited]_clockVars
  <2> SUFFICES ASSUME ClockNext, NEW p \in Sleepers, nap[p] = "test", nap'[p] = "user", ~doomed[p]
               PROVE  age[p] >= naptime[p]
    BY <1>1 DEF clockVars
  <2>1. nap \in [Sleepers -> {"user", "test", "asleep"}] /\ age[p] \in Nat /\ naptime[p] \in Nat
    BY <1>1 DEF ClockInv, ClockType
  <2>2. ~tick
    BY <2>1 DEF tick
  <2>3. ASSUME NEW q \in Sleepers, NEW n \in Naps
        PROVE  ~sys_sleep(q, n)
    BY <2>1 DEF sys_sleep
  <2>4. ASSUME NEW q \in Sleepers
        PROVE  ~sys_sleep_wait(q) /\ ~clock_kill(q)
    BY <2>1 DEF sys_sleep_wait, clock_kill
  <2>5. ASSUME NEW q \in Sleepers, sys_sleep_return(q)
        PROVE  ~NotYet(now, ticks0[p], naptime[p])
    BY <2>1, <2>5 DEF sys_sleep_return
  <2> QED
    BY <1>1, <2>1, <2>2, <2>3, <2>4, <2>5, Elapsed DEF ClockNext
<1>2. ClockInv => WokenInTime
  BY DEF ClockInv, InTime, WokenInTime
<1> HIDE DEF Waited
<1>3. SleepsLongEnough <=> [][Waited]_clockVars
  BY DEF SleepsLongEnough, Waited
<1> QED
  BY ClockStarts, ClockKeeps, <1>1, <1>2, <1>3, PTL DEF ClockSpec, SleepsExactly

----
(***************************************************************************)
(* The console's indices and places in the buffer.                         *)
(***************************************************************************)
Index == 0..(IDX - 1)

LEMMA ConConstants == /\ INPUT_BUF \in Nat \ {0} /\ IDX \in Nat \ {0} /\ INPUT_BUF < IDX
                      /\ COLS \in Nat \ {0} /\ ROWS \in Nat \ {0} /\ IDX % INPUT_BUF = 0
BY ConAssumption

LEMMA DistIs ==
  ASSUME NEW a \in Index, NEW b \in Index
  PROVE  /\ Dist(a, b) = IF b < a THEN b - a + IDX ELSE b - a
         /\ Dist(a, b) \in Index /\ (Dist(a, b) = 0 <=> a = b)
<1>1. Dist(a, b) = IF b < a THEN b - a + IDX ELSE b - a
  BY ConConstants, Turn DEF Dist, Index
<1> QED
  BY <1>1, ConConstants DEF Index

LEMMA DistSum ==
  ASSUME NEW a \in Index, NEW b \in Index, NEW c \in Index, Dist(a, b) + Dist(b, c) < IDX
  PROVE  Dist(a, c) = Dist(a, b) + Dist(b, c)
<1>1. /\ Dist(a, b) = IF b < a THEN b - a + IDX ELSE b - a
      /\ Dist(b, c) = IF c < b THEN c - b + IDX ELSE c - b
      /\ Dist(a, c) = IF c < a THEN c - a + IDX ELSE c - a
  BY DistIs
<1> QED
  BY <1>1, ConConstants DEF Index

LEMMA DistForth ==
  ASSUME NEW a \in Index, NEW b \in Index
  PROVE  /\ (b + 1) % IDX \in Index
         /\ Dist(a, b) + 1 < IDX => Dist(a, (b + 1) % IDX) = Dist(a, b) + 1
         /\ a # b => Dist((a + 1) % IDX, b) = Dist(a, b) - 1
<1>1. /\ (a + 1) % IDX = IF a + 1 < IDX THEN a + 1 ELSE a + 1 - IDX
      /\ (b + 1) % IDX = IF b + 1 < IDX THEN b + 1 ELSE b + 1 - IDX
  BY ConConstants, Turn DEF Index
<1>2. PICK c \in Index, d \in Index : c = (a + 1) % IDX /\ d = (b + 1) % IDX
  BY <1>1, ConConstants DEF Index
<1>3. /\ Dist(a, d) = IF d < a THEN d - a + IDX ELSE d - a
      /\ Dist(a, b) = IF b < a THEN b - a + IDX ELSE b - a
      /\ Dist(c, b) = IF b < c THEN b - c + IDX ELSE b - c
  BY DistIs
<1>4. Dist(a, b) + 1 < IDX => Dist(a, d) = Dist(a, b) + 1
  BY <1>1, <1>2, <1>3, ConConstants DEF Index
<1>5. a # b => Dist(c, b) = Dist(a, b) - 1
  BY <1>1, <1>2, <1>3, ConConstants DEF Index
<1> QED
  BY <1>2, <1>4, <1>5, Zenon

LEMMA DistBack ==
  ASSUME NEW a \in Index, NEW b \in Index, NEW k \in 0..Dist(a, b)
  PROVE  (b - k) % IDX \in Index /\ Dist(a, (b - k) % IDX) = Dist(a, b) - k
<1>1. Dist(a, b) = (IF b < a THEN b - a + IDX ELSE b - a) /\ Dist(a, b) \in Index
  BY DistIs
<1>2. k \in Index
  BY <1>1, ConConstants DEF Index
<1>3. (b - k) % IDX = IF b < k THEN b - k + IDX ELSE b - k
  BY <1>2, ConConstants, Turn DEF Index
<1>4. PICK c \in Index : c = (b - k) % IDX
  BY <1>2, <1>3, ConConstants DEF Index
<1>5. Dist(a, c) = IF c < a THEN c - a + IDX ELSE c - a
  BY DistIs
<1>6. Dist(a, c) = Dist(a, b) - k
  BY <1>1, <1>2, <1>3, <1>4, <1>5, ConConstants DEF Index
<1> QED
  BY <1>4, <1>6, Zenon

\* console.c:221: the test for a full buffer.
LEMMA DistFull ==
  ASSUME NEW a \in Index, NEW b \in Index
  PROVE  b = (a + INPUT_BUF) % IDX <=> Dist(a, b) = INPUT_BUF
<1>1. (a + INPUT_BUF) % IDX = IF a + INPUT_BUF < IDX THEN a + INPUT_BUF ELSE a + INPUT_BUF - IDX
  <2>1. ASSUME NEW t \in Nat \ {0}, NEW u \in 0..(t - 1), NEW v \in 0..(t - 1)
        PROVE  (u + v) % t = IF u + v < t THEN u + v ELSE u + v - t
    OBVIOUS
  <2>2. INPUT_BUF \in 0..(IDX - 1) /\ a \in 0..(IDX - 1) /\ IDX \in Nat \ {0}
    BY ConConstants DEF Index
  <2> QED
    BY <2>1, <2>2, Zenon
<1>2. Dist(a, b) = IF b < a THEN b - a + IDX ELSE b - a
  BY DistIs
<1> QED
  BY <1>1, <1>2, ConConstants DEF Index

\* Quotient and remainder.
LEMMA Quotient ==
  ASSUME NEW m \in Nat \ {0}, NEW x \in Int
  PROVE  /\ x \div m \in Int /\ x % m \in 0..(m - 1) /\ m * (x \div m) \in Int
         /\ x = (m * (x \div m)) + (x % m)
OBVIOUS

\* Numbers with the same remainder that are less than m apart are equal.
LEMMA Apart ==
  ASSUME NEW m \in Nat \ {0}, NEW x \in Int, NEW k \in 1..(m - 1)
  PROVE  (x + k) % m # x % m
<1> SUFFICES ASSUME (x + k) % m = x % m PROVE FALSE
  OBVIOUS
<1>a. x + k \in Int
  OBVIOUS
<1>1. PICK c \in Int, d \in Int : c = x \div m /\ d = (x + k) \div m
  BY <1>a, Quotient, Zenon
<1>2. x = (m * c) + (x % m) /\ m * c \in Int /\ x % m \in Int
  BY <1>1, Quotient
<1>3. x + k = (m * d) + ((x + k) % m) /\ m * d \in Int
  BY <1>1, Quotient
<1>4. (m * d) - (m * c) = k
  BY <1>2, <1>3
<1>5. PICK z \in Int : z = d - c
  OBVIOUS
<1>6. m * z = (m * d) - (m * c)
  BY <1>5
<1>7. m * z \in 1..(m - 1)
  BY <1>4, <1>6
<1>8. CASE z >= 1
  <2>1. m * z >= m
    BY <1>8
  <2> QED
    BY <1>7, <2>1
<1>9. CASE z <= 0
  <2>1. m * z <= 0
    BY <1>9
  <2> QED
    BY <1>7, <2>1
<1> QED
  BY <1>8, <1>9

\* An index that wraps at IDX, a multiple of INPUT_BUF, goes on at the next place.
LEMMA Lap == ASSUME NEW x \in Int PROVE (x + IDX) % INPUT_BUF = x % INPUT_BUF
<1>1. PICK m \in Nat \ {0}, y \in Int : m = INPUT_BUF /\ y = x + IDX
  BY ConConstants
<1>2. PICK q \in Int : q = IDX \div m
  BY <1>1, ConConstants, Quotient
<1>3. IDX = m * q
  BY <1>1, <1>2, ConConstants, Quotient
<1>4. PICK c \in Int, d \in Int, r \in 0..(m - 1), s \in 0..(m - 1) :
        c = x \div m /\ d = y \div m /\ r = x % m /\ s = y % m
  BY Quotient, Zenon
<1>5. x = (m * c) + r /\ y = (m * d) + s
  BY <1>4, Quotient
<1>6. PICK z \in Int : z = (d - c) - q
  OBVIOUS
<1>7. m * z = ((m * d) - (m * c)) - (m * q) /\ m * d \in Int /\ m * c \in Int /\ m * q \in Int
  BY <1>6
<1>8. m * z = r - s
  BY <1>1, <1>3, <1>5, <1>7
<1>9. z = 0
  <2>1. z >= 1 => m * z >= m
    OBVIOUS
  <2>2. z <= -1 => m * z <= -m
    OBVIOUS
  <2> QED
    BY <1>8, <2>1, <2>2
<1>10. m * z = 0
  BY <1>9
<1> QED
  BY <1>1, <1>4, <1>8, <1>10

\* Going from a to b and on by i is going on from b.
LEMMA Walk ==
  ASSUME NEW a \in Index, NEW b \in Index, NEW i \in Int
  PROVE  (a + Dist(a, b) + i) % INPUT_BUF = (b + i) % INPUT_BUF
<1>1. Dist(a, b) = IF b < a THEN b - a + IDX ELSE b - a
  BY DistIs
<1>2. CASE b < a
  <2>1. PICK x \in Int : x = b + i
    BY DEF Index
  <2>2. a + Dist(a, b) + i = x + IDX
    BY <1>1, <1>2, <2>1, ConConstants DEF Index
  <2> QED
    BY <2>1, <2>2, Lap
<1>3. CASE ~(b < a)
  <2>1. a + Dist(a, b) + i = b + i
    BY <1>1, <1>3, ConConstants DEF Index
  <2> QED
    BY <2>1
<1> QED
  BY <1>2, <1>3

ConSpec == ConInit /\ [][ConNext]_conVars

Chars == {"x", "\n", "^D"}

Inputs == [buf : [0..(INPUT_BUF - 1) -> Chars], r : Index, w : Index, e : Index]
Reads == [pc : {"user", "test", "copy", "asleep"}, n : Nat, target : Nat, killed : BOOLEAN]
ConType == input \in Inputs /\ con \in [ConReaders -> Reads]

\* Who copies holds the lock, and there is something to copy.
Copying == \A p \in ConReaders : con[p].pc = "copy" =>
             input.r # input.w /\ \A q \in ConReaders : con[q].pc = "copy" => q = p

\* The lines fit into the buffer.
Filled == Dist(input.r, input.w) + Dist(input.w, input.e) <= INPUT_BUF

\* Nothing in the line that is edited finishes it.
Editing == \A i \in 0..(Dist(input.w, input.e) - 1) : At(input.w + i) = "x"

ConInv == ConType /\ Copying /\ ReadersSleepOnNothing /\ Filled /\ Editing

LEMMA Indices == \A a, b \in Index : a \in Int /\ Dist(a, b) \in Nat
BY DistIs, ConConstants DEF Index

LEMMA InputType ==
  ASSUME ConType
  PROVE  /\ input.r \in Index /\ input.w \in Index /\ input.e \in Index
         /\ input.buf \in [0..(INPUT_BUF - 1) -> Chars]
BY DEF ConType, Inputs

LEMMA ConStarts == ConInit => ConInv
<1> SUFFICES ASSUME ConInit PROVE ConInv
  OBVIOUS
<1>1. /\ input.r = 0 /\ input.w = 0 /\ input.e = 0
      /\ \A p \in ConReaders : con[p].pc = "user"
  BY DEF ConInit, NoRead
<1>2. ConType
  BY ConConstants DEF ConInit, ConType, Inputs, Reads, Index, NoRead, Chars
<1>3. 0 \in Index
  BY ConConstants DEF Index
<1>4. Dist(0, 0) = 0
  BY <1>3, DistIs
<1>5. Filled
  BY <1>1, <1>4, ConConstants DEF Filled
<1>6. Editing
  BY <1>1, <1>4 DEF Editing
<1> QED
  BY <1>1, <1>2, <1>5, <1>6 DEF ConInv, Copying, ReadersSleepOnNothing

\* console.c:207-210: Control-U goes back to w, as the line has no newline.
LEMMA KilledIsLine ==
  ASSUME ConInv
  PROVE  Killed = Dist(input.w, input.e)
<1>a. input.w \in Index /\ input.e \in Index
  BY InputType DEF ConInv
<1>1. PICK m \in Nat : m = Dist(input.w, input.e)
  BY <1>a, Indices, Zenon
<1>b. PICK w \in Int, e \in Int : w = input.w /\ e = input.e
  BY <1>a, Indices, Zenon
<1>2. ASSUME NEW i \in 0..(m - 1)
      PROVE  At(input.e - i - 1) = "x"
  <2>1. PICK j \in 0..(m - 1) : j = m - i - 1
    OBVIOUS
  <2>2. PICK d \in Int : d = -(i + 1)
    OBVIOUS
  <2>3. (input.w + Dist(input.w, input.e) + d) % INPUT_BUF = (input.e + d) % INPUT_BUF
    BY InputType, Walk DEF ConInv
  <2>4. w + m + d = w + j /\ e + d = e - i - 1
    BY <2>1, <2>2
  <2>5. At(input.e - i - 1) = At(input.w + j)
    BY <1>1, <1>b, <2>3, <2>4, Zenon DEF At
  <2>6. At(input.w + j) = "x"
    BY <1>1 DEF ConInv, Editing
  <2> QED
    BY <2>5, <2>6
<1> DEFINE stops == {i \in 0..m : i = m \/ At(input.e - i - 1) = "\n"}
<1>3. stops = {m}
  BY <1>2
<1>4. Killed = CHOOSE i \in stops : \A j \in stops : i <= j
  BY <1>1, Zenon DEF Killed
<1> HIDE DEF stops
<1>5. \E i \in stops : \A j \in stops : i <= j
  BY <1>3
<1>6. Killed \in stops
  BY <1>4, <1>5, Zenon
<1> QED
  BY <1>1, <1>3, <1>6

\* Deleting k characters of the line.
LEMMA Deleting ==
  ASSUME ConInv, NEW k \in 0..Dist(input.w, input.e),
         input' = [input EXCEPT !.e = (@ - k) % IDX]
  PROVE  /\ input'.r = input.r /\ input'.w = input.w /\ input'.buf = input.buf /\ input'.e \in Index
         /\ Dist(input.w, input'.e) = Dist(input.w, input.e) - k
         /\ input' \in Inputs
<1>1. PICK f \in Index : f = (input.e - k) % IDX /\ Dist(input.w, f) = Dist(input.w, input.e) - k
  BY InputType, DistBack DEF ConInv
<1>2. input' = [input EXCEPT !.e = f]
  BY <1>1
<1>3. input' \in Inputs
  BY <1>2 DEF ConInv, ConType, Inputs
<1>4. input'.r = input.r /\ input'.w = input.w /\ input'.buf = input.buf /\ input'.e = f
  BY <1>2 DEF ConInv, ConType, Inputs
<1> QED
  BY <1>1, <1>3, <1>4

LEMMA Stored ==
  ASSUME NEW S, NEW T, NEW s \in [S -> T], NEW x \in S, NEW c \in T
  PROVE  /\ [s EXCEPT ![x] = c] \in [S -> T]
         /\ \A z \in S : [s EXCEPT ![x] = c][z] = IF z = x THEN c ELSE s[z]
OBVIOUS

LEMMA Fields ==
  ASSUME NEW B, NEW s \in [buf : B, r : Index, w : Index, e : Index],
         NEW c \in B, NEW f \in Index, NEW g \in Index,
         NEW t, t = [s EXCEPT !.buf = c, !.e = f, !.w = g]
  PROVE  /\ t \in [buf : B, r : Index, w : Index, e : Index]
         /\ t.r = s.r /\ t.e = f /\ t.w = g /\ t.buf = c
BY Zenon

\* consoleintr puts ch at e.
Put(ch, f, done) ==
  input' = [input EXCEPT !.buf[input.e % INPUT_BUF] = ch, !.e = f, !.w = IF done THEN f ELSE @]

\* Adding a character: the others stay where they are.
LEMMA Adding ==
  ASSUME ConInv, NEW ch \in Chars, Space(input.e), NEW f, f = (input.e + 1) % IDX, NEW done \in BOOLEAN,
         Put(ch, f, done), NEW n \in Nat, NEW m \in Nat, n = Dist(input.r, input.w), m = Dist(input.w, input.e)
  PROVE  /\ n + m < INPUT_BUF
         /\ f \in Index /\ Dist(input.r, f) = n + m + 1 /\ Dist(input.w, f) = m + 1
         /\ input' \in Inputs
         /\ input'.r = input.r /\ input'.e = f /\ input'.w = IF done THEN f ELSE input.w
         /\ \A i \in 0..(n + m) : input'.buf[(input.r + i) % INPUT_BUF] = IF i = n + m THEN ch ELSE At(input.r + i)
<1>1. /\ input.r \in Index /\ input.w \in Index /\ input.e \in Index
      /\ input.buf \in [0..(INPUT_BUF - 1) -> Chars] /\ n + m <= INPUT_BUF
  BY InputType DEF ConInv, Filled
<1>2. Dist(input.r, input.e) = n + m
  <2>1. Dist(input.r, input.w) + Dist(input.w, input.e) < IDX
    BY <1>1, ConConstants
  <2> QED
    BY <1>1, <2>1, DistSum
<1>3. n + m < INPUT_BUF
  BY <1>2 DEF Space
<1>4. f \in Index /\ Dist(input.r, f) = n + m + 1 /\ Dist(input.w, f) = m + 1
  <2>1. Dist(input.r, input.e) + 1 < IDX /\ Dist(input.w, input.e) + 1 < IDX
    BY <1>2, <1>3, ConConstants
  <2> QED
    BY <1>1, <1>2, <2>1, DistForth
<1>a. PICK r \in Int, e \in Int : r = input.r /\ e = input.e
  BY <1>1, Indices, Zenon
<1>5. PICK x \in 0..(INPUT_BUF - 1) : x = input.e % INPUT_BUF
  <2>1. e % INPUT_BUF \in 0..(INPUT_BUF - 1)
    BY ConConstants
  <2> QED
    BY <1>a, <2>1, Zenon
<1>6. PICK g \in Index : g = IF done THEN f ELSE input.w
  BY <1>1, <1>4, Zenon
<1>7. /\ input' \in Inputs
      /\ input'.r = input.r /\ input'.e = f /\ input'.w = (IF done THEN f ELSE input.w)
      /\ input'.buf = [input.buf EXCEPT ![x] = ch]
  <2>1. PICK c \in [0..(INPUT_BUF - 1) -> Chars] : c = [input.buf EXCEPT ![x] = ch]
    BY <1>1, Stored, Zenon
  <2>2. input' = [input EXCEPT !.buf = c, !.e = f, !.w = g]
    BY <1>5, <1>6, <2>1 DEF Put
  <2>3. input \in Inputs
    BY DEF ConInv, ConType, Inputs
  <2>4. /\ input' \in Inputs
        /\ input'.r = input.r /\ input'.e = f /\ input'.w = g /\ input'.buf = c
    BY <1>4, <2>2, <2>3, Fields, Zenon DEF Inputs
  <2> QED
    BY <1>6, <2>1, <2>4, Zenon
<1>8. ASSUME NEW i \in 0..(n + m)
      PROVE  input'.buf[(input.r + i) % INPUT_BUF] = IF i = n + m THEN ch ELSE At(input.r + i)
  <2>1. PICK y \in Int, u \in Int : y = r + i /\ u = r + (n + m)
    OBVIOUS
  <2>2. u % INPUT_BUF = x
    <3>1. (input.r + Dist(input.r, input.e) + 0) % INPUT_BUF = (input.e + 0) % INPUT_BUF
      BY <1>1, Walk
    <3>2. r + (n + m) + 0 = u /\ e + 0 = e
      BY <2>1
    <3> QED
      BY <1>2, <1>5, <1>a, <3>1, <3>2, ZenonT(60)
  <2>3. y % INPUT_BUF \in 0..(INPUT_BUF - 1)
    BY ConConstants
  <2>4. i # n + m => y % INPUT_BUF # x
    <3> SUFFICES ASSUME i # n + m PROVE y % INPUT_BUF # x
      OBVIOUS
    <3>1. PICK k \in 1..(INPUT_BUF - 1) : k = n + m - i
      BY <1>3, ConConstants
    <3>2. y + k = u
      BY <2>1, <3>1
    <3>3. (y + k) % INPUT_BUF # y % INPUT_BUF
      BY ConConstants, Apart, Zenon
    <3> QED
      BY <2>2, <3>2, <3>3, Zenon
  <2>5. i = n + m => y = u
    BY <2>1
  <2>6. input'.buf[y % INPUT_BUF] = IF i = n + m THEN ch ELSE input.buf[y % INPUT_BUF]
    <3>1. PICK z \in 0..(INPUT_BUF - 1) : z = y % INPUT_BUF
      BY <2>3
    <3>2. IF i = n + m THEN z = x ELSE z # x
      BY <2>2, <2>4, <2>5, <3>1, Zenon
    <3>3. input'.buf[z] = IF z = x THEN ch ELSE input.buf[z]
      BY <1>1, <1>7, Stored, ZenonT(60)
    <3> QED
      BY <3>1, <3>2, <3>3, Zenon
  <2> QED
    BY <1>a, <2>1, <2>6, Zenon DEF At
<1> QED
  BY <1>3, <1>4, <1>7, <1>8, Zenon

\* wakeup(&input.r)
LEMMA Woken ==
  ASSUME con \in [ConReaders -> Reads], WakeReaders
  PROVE  /\ con' \in [ConReaders -> Reads]
         /\ \A p \in ConReaders : con'[p].pc = IF con[p].pc = "asleep" THEN "test" ELSE con[p].pc
<1> DEFINE up(s) == IF s.pc = "asleep" THEN [s EXCEPT !.pc = "test"] ELSE s
<1>1. ASSUME NEW s \in Reads
      PROVE  up(s) \in Reads /\ up(s).pc = IF s.pc = "asleep" THEN "test" ELSE s.pc
  BY DEF Reads
<1>2. con' = [p \in ConReaders |-> up(con[p])]
  BY Zenon DEF WakeReaders
<1> HIDE DEF up
<1> QED
  BY <1>1, <1>2

\* The lock's holder, the sleepers and the line after a deletion or nothing.
LEMMA DeletingKeeps ==
  ASSUME ConInv, NEW k \in 0..Dist(input.w, input.e),
         input' = [input EXCEPT !.e = (@ - k) % IDX], con' = con
  PROVE  ConInv'
<1>1. /\ input'.r = input.r /\ input'.w = input.w /\ input'.buf = input.buf /\ input'.e \in Index
      /\ Dist(input.w, input'.e) = Dist(input.w, input.e) - k
      /\ input' \in Inputs
  BY Deleting
<1>2. PICK n \in Nat, m \in Nat : n = Dist(input.r, input.w) /\ m = Dist(input.w, input.e)
  BY InputType, Indices, Zenon DEF ConInv
<1>3. Dist(input'.r, input'.w) = n /\ Dist(input'.w, input'.e) = m - k
  BY <1>1, <1>2, Zenon
<1>4. ConType'
  BY <1>1, Zenon DEF ConInv, ConType
<1>5. Copying' /\ ReadersSleepOnNothing'
  BY <1>1, Zenon DEF ConInv, Copying, ReadersSleepOnNothing
<1>6. Filled'
  <2>1. n + m <= INPUT_BUF
    BY <1>2 DEF ConInv, Filled
  <2>2. n + (m - k) <= INPUT_BUF
    BY <1>2, <2>1, ConConstants
  <2> QED
    BY <1>3, <2>2, Zenon DEF Filled
<1>7. Editing'
  <2>1. ASSUME NEW i \in 0..(m - k - 1) PROVE At(input.w + i) = "x"
    <3>1. i \in 0..(m - 1)
      BY <1>2
    <3> QED
      BY <1>2, <3>1 DEF ConInv, Editing
  <2>2. \A i : At(input.w + i)' = At(input.w + i)
    BY <1>1, Zenon DEF At
  <2>3. \A i \in 0..(m - k - 1) : At(input.w + i)' = "x"
    BY <2>1, <2>2, Zenon
  <2> QED
    BY <1>3, <2>3, Zenon DEF Editing
<1> QED
  BY <1>4, <1>5, <1>6, <1>7, Zenon DEF ConInv

LEMMA FinishesIff ==
  ASSUME ConInv, NEW ch \in Chars, NEW f \in Index
  PROVE  Finishes(ch, f) <=> ch \in {"\n", "^D"} \/ Dist(input.r, f) = INPUT_BUF
BY InputType, DistFull, Zenon DEF ConInv, Finishes

LEMMA AddingKeeps ==
  ASSUME ConInv, \A p \in ConReaders : con[p].pc # "copy",
         NEW ch \in Chars, Space(input.e), NEW f, f = (input.e + 1) % IDX,
         Put(ch, f, Finishes(ch, f)), IF Finishes(ch, f) THEN WakeReaders ELSE con' = con
  PROVE  ConInv'
<1>1. PICK n \in Nat, m \in Nat : n = Dist(input.r, input.w) /\ m = Dist(input.w, input.e)
  BY InputType, Indices, ZenonT(60) DEF ConInv
<1> DEFINE done == Finishes(ch, f)
<1>2. /\ n + m < INPUT_BUF
      /\ f \in Index /\ Dist(input.r, f) = n + m + 1 /\ Dist(input.w, f) = m + 1
      /\ input' \in Inputs
      /\ input'.r = input.r /\ input'.e = f /\ input'.w = IF done THEN f ELSE input.w
      /\ \A i \in 0..(n + m) : input'.buf[(input.r + i) % INPUT_BUF] = IF i = n + m THEN ch ELSE At(input.r + i)
  <2>1. done \in BOOLEAN
    BY Zenon DEF Finishes
  <2>2. Put(ch, f, done)
    OBVIOUS
  <2> HIDE DEF done
  <2> QED
    BY <1>1, <2>1, <2>2, Adding
<1>3. done <=> ch \in {"\n", "^D"} \/ n + m + 1 = INPUT_BUF
  BY <1>2, FinishesIff, Zenon
<1> HIDE DEF done
<1>4. /\ con' \in [ConReaders -> Reads]
      /\ \A p \in ConReaders : con'[p].pc # "copy" /\ (con'[p].pc = "asleep" => ~done /\ con[p].pc = "asleep")
  <2>1. CASE done
    BY <2>1, Woken DEF ConInv, ConType, done
  <2>2. CASE ~done
    BY <2>2 DEF ConInv, ConType, done
  <2> QED
    BY <2>1, <2>2
<1>5. ConType' /\ Copying'
  BY <1>2, <1>4, Zenon DEF ConType, Copying
<1>6. ReadersSleepOnNothing'
  BY <1>2, <1>4, Zenon DEF ConInv, ReadersSleepOnNothing
<1>7. CASE done
  <2>1. Dist(input'.r, input'.w) = n + m + 1 /\ Dist(input'.w, input'.e) = 0
    BY <1>2, <1>7, DistIs
  <2>2. (n + m + 1) + 0 <= INPUT_BUF
    BY <1>2, ConConstants
  <2>3. Filled'
    BY <2>1, <2>2, Zenon DEF Filled
  <2>4. Editing'
    BY <2>1 DEF Editing
  <2> QED
    BY <1>5, <1>6, <2>3, <2>4, ZenonT(60) DEF ConInv
<1>8. CASE ~done
  <2>1. Dist(input'.r, input'.w) = n /\ Dist(input'.w, input'.e) = m + 1
    BY <1>1, <1>2, <1>8, ZenonT(60)
  <2>2. n + (m + 1) <= INPUT_BUF
    BY <1>2, ConConstants
  <2>3. Filled'
    BY <2>1, <2>2, Zenon DEF Filled
  <2>4. ch = "x"
    BY <1>3, <1>8 DEF Chars
  <2>5. PICK r \in Int, w \in Int : r = input.r /\ w = input.w
    BY InputType, Indices, Zenon DEF ConInv
  <2>6. ASSUME NEW i \in 0..m
        PROVE  input'.buf[(input.w + i) % INPUT_BUF] = "x"
    <3>1. PICK j \in 0..(n + m) : j = n + i
      OBVIOUS
    <3>2. (r + j) % INPUT_BUF = (w + i) % INPUT_BUF
      <4>1. (input.r + Dist(input.r, input.w) + i) % INPUT_BUF = (input.w + i) % INPUT_BUF
        BY InputType, Walk DEF ConInv
      <4>2. r + n + i = r + j
        BY <3>1
      <4> QED
        BY <1>1, <2>5, <4>1, <4>2, ZenonT(60)
    <3>3. input'.buf[(w + i) % INPUT_BUF] = IF j = n + m THEN ch ELSE At(r + j)
      BY <1>2, <2>5, <3>2, Zenon
    <3>4. At(r + j) = At(w + i)
      BY <3>2, Zenon DEF At
    <3>5. j # n + m => i \in 0..(m - 1)
      BY <3>1
    <3>6. i \in 0..(m - 1) => At(w + i) = "x"
      BY <1>1, <2>5, Zenon DEF ConInv, Editing
    <3>7. input'.buf[(w + i) % INPUT_BUF] = "x"
      BY <2>4, <3>3, <3>4, <3>5, <3>6, ZenonT(60)
    <3> QED
      BY <2>5, <3>7, Zenon
  <2>7. 0..((m + 1) - 1) = 0..m
    OBVIOUS
  <2>8. input'.w = input.w
    BY <1>2, <1>8, Zenon
  <2>9. Editing'
    BY <2>1, <2>6, <2>7, <2>8, Zenon DEF Editing, At
  <2> QED
    BY <1>5, <1>6, <2>3, <2>9, Zenon DEF ConInv
<1> QED
  BY <1>7, <1>8

\* consoleintr: what the three cases do.
LEMMA IntrKeeps ==
  ASSUME ConInv, NEW c \in {"x", "\n", "\r", "^D", "^U", "^H"}, consoleintr(c)
  PROVE  ConInv'
<1>1. PICK m \in Nat : m = Dist(input.w, input.e) /\ (m = 0 <=> input.w = input.e)
  <2>1. input.w \in Index /\ input.e \in Index
    BY InputType, Zenon DEF ConInv
  <2>2. Dist(input.w, input.e) \in Nat /\ (Dist(input.w, input.e) = 0 <=> input.w = input.e)
    BY <2>1, Indices, DistIs, Zenon
  <2> QED
    BY <2>2, Zenon
<1>2. CASE c = "^U"
  <2>1. input' = [input EXCEPT !.e = (@ - Killed) % IDX] /\ con' = con
    BY <1>2 DEF consoleintr
  <2>2. Killed \in 0..Dist(input.w, input.e)
    BY <1>1, KilledIsLine
  <2> QED
    BY <2>1, <2>2, DeletingKeeps
<1>3. CASE c = "^H"
  <2>1. input.e # input.w /\ input' = [input EXCEPT !.e = (@ - 1) % IDX] /\ con' = con
    BY <1>3 DEF consoleintr
  <2>2. 1 \in 0..Dist(input.w, input.e)
    BY <1>1, <2>1
  <2> QED
    BY <2>1, <2>2, DeletingKeeps
<1>4. CASE c \notin {"^U", "^H"}
  <2>1. PICK ch \in Chars : ch = IF c = "\r" THEN "\n" ELSE c
    BY <1>4 DEF Chars
  <2>2. PICK f : f = (input.e + 1) % IDX
    OBVIOUS
  <2>3. /\ \A p \in ConReaders : con[p].pc # "copy"
        /\ Space(input.e) /\ Put(ch, f, Finishes(ch, f))
        /\ IF Finishes(ch, f) THEN WakeReaders ELSE con' = con
    BY <1>4, <2>1, <2>2 DEF consoleintr, Put
  <2> QED
    BY <2>2, <2>3, AddingKeeps
<1> QED
  BY <1>2, <1>3, <1>4

LEMMA StringsDiffer == /\ "user" # "asleep" /\ "user" # "copy" /\ "test" # "asleep" /\ "test" # "copy" /\ "copy" # "asleep"
                       /\ {"copy", "asleep"} \subseteq {"user", "test", "copy", "asleep"}
OBVIOUS

LEMMA PcSet ==
  ASSUME NEW s \in Reads, NEW z \in {"user", "test", "copy", "asleep"}
  PROVE  [s EXCEPT !.pc = z] \in Reads /\ [s EXCEPT !.pc = z].pc = z
BY Zenon DEF Reads

LEMMA CountSet ==
  ASSUME NEW s \in Reads, NEW z \in {"user", "test", "copy", "asleep"}, NEW k \in Nat
  PROVE  [s EXCEPT !.n = k, !.pc = z] \in Reads /\ [s EXCEPT !.n = k, !.pc = z].pc = z
BY Zenon DEF Reads

LEMMA CallSet ==
  ASSUME NEW s \in Reads, NEW k \in Nat
  PROVE  /\ [s EXCEPT !.pc = "test", !.n = k, !.target = k] \in Reads
         /\ [s EXCEPT !.pc = "test", !.n = k, !.target = k].pc = "test"
<1>1. "test" \in {"user", "test", "copy", "asleep"}
  OBVIOUS
<1> QED
  BY <1>1, Zenon DEF Reads

LEMMA ReturnSet ==
  ASSUME NEW s \in Reads
  PROVE  [NoRead EXCEPT !.killed = s.killed] \in Reads /\ [NoRead EXCEPT !.killed = s.killed].pc = "user"
<1>1. s.killed \in BOOLEAN /\ NoRead \in Reads /\ NoRead.pc = "user"
  BY DEF NoRead, Reads
<1> QED
  BY <1>1, Zenon DEF Reads

\* A reader's own step that leaves the input alone.
LEMMA ReaderKeeps ==
  ASSUME ConInv, input' = input, NEW p \in ConReaders, NEW s \in Reads, con' = [con EXCEPT ![p] = s],
         s.pc = "asleep" => input.r = input.w,
         s.pc = "copy" => input.r # input.w /\ \A q \in ConReaders : con[q].pc = "copy" => q = p
  PROVE  ConInv'
<1>1. con \in [ConReaders -> Reads] /\ input \in Inputs
  BY Zenon DEF ConInv, ConType
<1>2. /\ con' \in [ConReaders -> Reads]
      /\ \A q \in ConReaders : con'[q] = IF q = p THEN s ELSE con[q]
  BY <1>1, Stored, Zenon
<1>3. ConType'
  BY <1>1, <1>2, Zenon DEF ConType
<1>4. ReadersSleepOnNothing'
  BY <1>2, Zenon DEF ConInv, ReadersSleepOnNothing
<1>5. ASSUME NEW q \in ConReaders, con'[q].pc = "copy"
      PROVE  input.r # input.w /\ \A t \in ConReaders : con'[t].pc = "copy" => t = q
  <2>1. CASE s.pc = "copy"
    BY <1>2, <1>5, <2>1, Zenon
  <2>2. CASE s.pc # "copy"
    BY <1>2, <1>5, <2>2, Zenon DEF ConInv, Copying
  <2> QED
    BY <2>1, <2>2
<1>6. Copying'
  BY <1>5, Zenon DEF Copying
<1>7. Filled' /\ Editing'
  BY Zenon DEF ConInv, Filled, Editing, At
<1> QED
  BY <1>3, <1>4, <1>6, <1>7, Zenon DEF ConInv

\* consoleread takes a character, or leaves a ^D.
LEMMA CopyKeeps ==
  ASSUME ConInv, NEW p \in ConReaders, consoleread_copy(p)
  PROVE  ConInv'
<1>1. con \in [ConReaders -> Reads] /\ input \in Inputs
  BY Zenon DEF ConInv, ConType
<1>2. input.r # input.w /\ \A q \in ConReaders : con[q].pc = "copy" => q = p
  BY Zenon DEF ConInv, Copying, consoleread_copy
<1>3. PICK g : g = IF At(input.r) # "^D" \/ TakesEof(p) THEN (input.r + 1) % IDX ELSE input.r
  OBVIOUS
<1>4. input' = [input EXCEPT !.r = g]
  BY <1>3 DEF consoleread_copy
<1>a. input.r \in Index /\ input.w \in Index /\ input.e \in Index
  BY InputType DEF ConInv
<1>5. PICK n \in Nat, m \in Nat : n = Dist(input.r, input.w) /\ m = Dist(input.w, input.e)
  BY <1>a, Indices, Zenon
<1>6. g \in Index /\ Dist(g, input.w) \in {n, n - 1}
  <2>1. (input.r + 1) % IDX \in Index /\ Dist((input.r + 1) % IDX, input.w) = n - 1
    BY <1>2, <1>a, <1>5, DistForth, Zenon
  <2> QED
    BY <1>3, <1>5, <1>a, <2>1, Zenon
<1>7. input' \in Inputs /\ input'.r = g /\ input'.w = input.w /\ input'.e = input.e /\ input'.buf = input.buf
  BY <1>1, <1>4, <1>6 DEF Inputs
<1>8. PICK s \in Reads : con' = [con EXCEPT ![p] = s] /\ s.pc # "asleep" /\ (s.pc = "copy" => g # input.w)
  <2>1. con[p] \in Reads /\ con[p].n \in Nat
    BY <1>1 DEF Reads
  <2>2. CASE Returned(p)
    BY <2>1, <2>2, ReturnSet, StringsDiffer, Zenon DEF Returned
  <2>3. CASE /\ con[p].n > 1
             /\ con' = [con EXCEPT ![p] = [con[p] EXCEPT !.n = @ - 1, !.pc = IF input'.r # input.w THEN "copy" ELSE "test"]]
    <3>1. PICK k \in Nat : k = con[p].n - 1
      BY <2>1, <2>3
    <3>2. PICK z \in {"user", "test", "copy", "asleep"} : z = IF g # input.w THEN "copy" ELSE "test"
      OBVIOUS
    <3>3. con' = [con EXCEPT ![p] = [con[p] EXCEPT !.n = k, !.pc = z]]
      BY <1>7, <2>3, <3>1, <3>2, Zenon
    <3>4. z # "asleep" /\ (z = "copy" => g # input.w)
      BY <3>2
    <3> QED
      BY <2>1, <3>3, <3>4, CountSet, Zenon
  <2> QED
    BY <2>2, <2>3, Zenon DEF consoleread_copy
<1>9. /\ con' \in [ConReaders -> Reads]
      /\ \A q \in ConReaders : con'[q] = IF q = p THEN s ELSE con[q]
  BY <1>1, <1>8, Stored, Zenon
<1>10. ConType'
  BY <1>7, <1>9, Zenon DEF ConType
<1>11. \A q \in ConReaders : con'[q].pc # "asleep" /\ (con'[q].pc = "copy" => q = p /\ g # input.w)
  BY <1>2, <1>8, <1>9, Zenon DEF ConInv, ReadersSleepOnNothing
<1>12. Copying' /\ ReadersSleepOnNothing'
  BY <1>7, <1>11, Zenon DEF Copying, ReadersSleepOnNothing
<1>13. Filled'
  <2>1. n + m <= INPUT_BUF
    BY <1>5 DEF ConInv, Filled
  <2>2. Dist(g, input.w) + m <= INPUT_BUF
    BY <1>6, <2>1, ConConstants
  <2> QED
    BY <1>5, <1>7, <2>2, Zenon DEF Filled
<1>14. Editing'
  BY <1>7, Zenon DEF ConInv, Editing, At
<1> QED
  BY <1>10, <1>12, <1>13, <1>14, Zenon DEF ConInv

LEMMA ConKeeps == ConInv /\ [ConNext]_conVars => ConInv'
<1> SUFFICES ASSUME ConInv, [ConNext]_conVars PROVE ConInv'
  OBVIOUS
<1>1. ASSUME NEW c \in {"x", "\n", "\r", "^D", "^U", "^H"}, consoleintr(c) PROVE ConInv'
  BY <1>1, IntrKeeps
<1>2. \A p \in ConReaders : con[p] \in Reads
  BY DEF ConInv, ConType
<1>3. ASSUME NEW p \in ConReaders, NEW n \in {1, 3}, consoleread(p, n) PROVE ConInv'
  <2>1. n \in Nat
    OBVIOUS
  <2>2. PICK s \in Reads : con' = [con EXCEPT ![p] = s] /\ s.pc = "test" /\ input' = input
    BY <1>2, <1>3, <2>1, CallSet, Zenon DEF consoleread
  <2> QED
    BY <2>2, ReaderKeeps, StringsDiffer, Zenon
<1>4. ASSUME NEW p \in ConReaders, consoleread_test(p) PROVE ConInv'
  <2>1. input' = input /\ \A q \in ConReaders : con[q].pc # "copy"
    BY <1>4, Zenon DEF consoleread_test
  <2>3. PICK s \in Reads : con' = [con EXCEPT ![p] = s] /\ (s.pc = "copy" => input.r # input.w)
                           /\ (s.pc = "asleep" => input.r = input.w)
    <3>1. CASE input.r # input.w
      BY <1>2, <1>4, <3>1, PcSet, StringsDiffer, Zenon DEF consoleread_test
    <3>2. CASE input.r = input.w /\ con[p].killed
      BY <1>2, <1>4, <3>2, ReturnSet, StringsDiffer, Zenon DEF consoleread_test, Returned
    <3>3. CASE input.r = input.w /\ ~con[p].killed
      BY <1>2, <1>4, <3>3, PcSet, StringsDiffer, Zenon DEF consoleread_test
    <3> QED
      BY <3>1, <3>2, <3>3, Zenon
  <2> QED
    BY <2>1, <2>3, ReaderKeeps, Zenon
<1>5. ASSUME NEW p \in ConReaders, consoleread_copy(p) PROVE ConInv'
  BY <1>5, CopyKeeps
<1>6. ASSUME NEW p \in ConReaders, con_kill(p) PROVE ConInv'
  <2>1. PICK z \in {"user", "test", "copy", "asleep"} : z = IF con[p].pc = "asleep" THEN "test" ELSE con[p].pc
    BY <1>2 DEF Reads
  <2>2. con' = [con EXCEPT ![p] = [con[p] EXCEPT !.killed = TRUE, !.pc = z]] /\ input' = input
    BY <1>6, <2>1, Zenon DEF con_kill
  <2> DEFINE u == [con[p] EXCEPT !.killed = TRUE, !.pc = z]
  <2>3. u \in Reads /\ u.pc = z /\ con' = [con EXCEPT ![p] = u]
    <3>1. PICK c \in Reads : c = con[p]
      BY <1>2, Zenon
    <3>2. [c EXCEPT !.killed = TRUE, !.pc = z] \in Reads /\ [c EXCEPT !.killed = TRUE, !.pc = z].pc = z
      <4>1. TRUE \in BOOLEAN
        OBVIOUS
      <4> QED
        BY <4>1, Zenon DEF Reads
    <3> QED
      BY <2>2, <3>1, <3>2
  <2> HIDE DEF u
  <2>4. PICK s \in Reads : con' = [con EXCEPT ![p] = s] /\ s.pc = z
    BY <2>3, Zenon
  <2>5. z # "asleep" /\ (z = "copy" => con[p].pc = "copy")
    BY <2>1
  <2>6. con[p].pc = "copy" => input.r # input.w /\ \A q \in ConReaders : con[q].pc = "copy" => q = p
    BY Zenon DEF ConInv, Copying
  <2> QED
    BY <2>2, <2>4, <2>5, <2>6, ReaderKeeps, Zenon
<1>7. CASE UNCHANGED conVars
  BY <1>7 DEF conVars, ConInv, ConType, Copying, ReadersSleepOnNothing, Filled, Editing, At
<1> QED
  BY <1>1, <1>3, <1>4, <1>5, <1>6, <1>7, Zenon DEF ConNext

----
(***************************************************************************)
(* The screen.                                                             *)
(***************************************************************************)
Cells == 0..((ROWS + 1) * COLS - 1)
ScreenInv == screen \in [crt : [Cells -> BOOLEAN], pos : Int] /\ CursorOnScreen

\* Rows and columns: A is the number of cells that are shown.
LEMMA Rows ==
  ASSUME NEW R \in Nat \ {0}, NEW C \in Nat \ {0}
  PROVE  /\ R * C \in Nat /\ R * C >= C
         /\ (R + 1) * C = (R * C) + C /\ (R - 1) * C = (R * C) - C
<1>1. R * C \in Nat
  OBVIOUS
<1>2. (R + 1) * C = (R * C) + C /\ (R - 1) * C = (R * C) - C
  OBVIOUS
<1>3. R * C >= C
  OBVIOUS
<1> QED
  BY <1>1, <1>2, <1>3

LEMMA RowOf ==
  ASSUME NEW R \in Nat \ {0}, NEW C \in Nat \ {0}, NEW p \in Nat
  PROVE  /\ p \div C >= R <=> p >= R * C
         /\ p < R * C => p + (C - (p % C)) \in (p + 1)..(R * C)
<1>a. p \in Int
  OBVIOUS
<1>1. PICK q \in Int, m \in 0..(C - 1) : q = p \div C /\ m = p % C
  BY <1>a, Quotient, Zenon
<1>2. p = (C * q) + m /\ C * q \in Int
  BY <1>1, <1>a, Quotient, Zenon
<1>3. PICK A \in Nat, B \in Int : A = R * C /\ B = C * q
  BY <1>2
<1>4. q >= R => B >= A
  BY <1>3
<1>5. q <= R - 1 => B <= A - C
  <2>1. q <= R - 1 => C * q <= C * (R - 1)
    OBVIOUS
  <2>2. C * (R - 1) = A - C
    BY <1>3
  <2> QED
    BY <1>3, <2>1, <2>2
<1>6. p = B + m
  BY <1>2, <1>3
<1>7. q >= R <=> p >= A
  BY <1>4, <1>5, <1>6
<1>8. p < A => p + (C - m) \in (p + 1)..A
  BY <1>4, <1>5, <1>6
<1> QED
  BY <1>1, <1>3, <1>7, <1>8, Zenon

LEMMA ScreenStarts == ScreenInit => ScreenInv
<1> SUFFICES ASSUME ScreenInit PROVE ScreenInv
  OBVIOUS
<1>1. ROWS * COLS \in Nat /\ ROWS * COLS >= COLS
  BY ConConstants, Rows
<1>2. screen \in [crt : [Cells -> BOOLEAN], pos : Int] /\ screen.pos = 0
  BY DEF ScreenInit, Cells
<1>3. \A k \in DOMAIN screen.crt : ~screen.crt[k]
  BY Zenon DEF ScreenInit
<1>4. screen.pos \in 0..(ROWS * COLS - 1)
  BY <1>1, <1>2, ConConstants
<1> QED
  BY <1>2, <1>3, <1>4, Zenon DEF ScreenInv, CursorOnScreen

LEMMA Blanked ==
  ASSUME NEW S, NEW s \in [S -> BOOLEAN], NEW x \in S
  PROVE  /\ [s EXCEPT ![x] = FALSE] \in [S -> BOOLEAN]
         /\ \A z \in S : [s EXCEPT ![x] = FALSE][z] => s[z] /\ z # x
OBVIOUS

LEMMA ScreenKeeps ==
  ASSUME ScreenInv, NEW c \in {"x", "\n", "BACKSPACE"}, cgaputc(c)
  PROVE  ScreenInv'
<1>1. PICK A \in Nat : A = ROWS * COLS /\ A >= COLS /\ (ROWS + 1) * COLS = A + COLS /\ (ROWS - 1) * COLS = A - COLS
  BY ConConstants, Rows, ZenonT(60)
<1>2. /\ screen.crt \in [Cells -> BOOLEAN] /\ screen.pos \in 0..(A - 1)
      /\ \A k \in Cells : screen.crt[k] => k < screen.pos
  BY <1>1 DEF ScreenInv, CursorOnScreen
<1>3. Cells = 0..(A + COLS - 1) /\ COLS \in Nat \ {0}
  BY <1>1, ConConstants DEF Cells
<1>4. PICK old \in 0..(A - 1), crt \in [Cells -> BOOLEAN] : old = screen.pos /\ crt = screen.crt
  BY <1>2, Zenon
<1>5. PICK pos \in 0..A : pos = Advance(c, old) /\ (c # "BACKSPACE" => pos > old)
                          /\ (c = "BACKSPACE" => (pos = old - 1 \/ (pos = 0 /\ old = 0)))
  <2>1. CASE c = "\n"
    <3>0. old \in Nat /\ old < ROWS * COLS
      BY <1>1
    <3>1. old + (COLS - (old % COLS)) \in (old + 1)..A
      BY <1>1, <3>0, ConConstants, RowOf, Zenon
    <3> QED
      BY <2>1, <3>1 DEF Advance
  <2>2. CASE c = "BACKSPACE"
    BY <2>2, <1>1 DEF Advance
  <2>3. CASE c = "x"
    BY <2>3 DEF Advance
  <2> QED
    BY <2>1, <2>2, <2>3
<1>6. PICK wr \in [Cells -> BOOLEAN] : wr = (IF c = "x" THEN [crt EXCEPT ![old] = TRUE] ELSE crt)
  <2>1. old \in Cells /\ TRUE \in BOOLEAN
    BY <1>3
  <2> QED
    BY <2>1, Stored, Zenon
<1>b. \A k \in Cells : wr[k] => k <= old
  BY <1>2, <1>3, <1>4, <1>6
<1>7. \A k \in Cells : wr[k] => k < pos \/ k = pos
  BY <1>2, <1>3, <1>4, <1>5, <1>6
<1>8. pos \div COLS >= ROWS <=> pos = A
  <2>1. pos \div COLS >= ROWS <=> pos >= ROWS * COLS
    BY ConConstants, RowOf
  <2> QED
    BY <1>1, <2>1
<1>a. ASSUME NEW end \in 0..(A - 1), NEW g \in [Cells -> BOOLEAN], screen' = [pos |-> end, crt |-> [g EXCEPT ![end] = FALSE]],
             \A k \in Cells : g[k] => k < end \/ k = end
      PROVE  ScreenInv'
  <2>1. end \in Cells /\ end \in Int
    BY <1>3
  <2> DEFINE h == [g EXCEPT ![end] = FALSE]
  <2>2. h \in [Cells -> BOOLEAN] /\ \A k \in Cells : h[k] => g[k] /\ k # end
    BY <2>1, Blanked
  <2>3. screen' = [pos |-> end, crt |-> h]
    BY <1>a, Zenon
  <2> HIDE DEF h
  <2>4. screen'.pos = end /\ screen'.crt = h /\ screen' \in [crt : [Cells -> BOOLEAN], pos : Int]
    BY <2>1, <2>2, <2>3
  <2>5. \A k \in Cells : h[k] => k < end
    BY <1>a, <2>2, Zenon
  <2>6. DOMAIN h = Cells
    BY <2>2
  <2> QED
    BY <1>1, <2>4, <2>5, <2>6, ZenonT(60) DEF ScreenInv, CursorOnScreen
<1>9. CASE pos = A
  <2>1. PICK end \in 0..(A - 1) : end = pos - COLS
    BY <1>1, <1>3, <1>9
  <2>2. screen' = [pos |-> end, crt |-> [Scrolled(wr, pos) EXCEPT ![end] = FALSE]]
    BY <1>4, <1>5, <1>6, <1>8, <1>9, <2>1, ZenonT(60) DEF cgaputc
  <2>3. PICK g : g = Scrolled(wr, pos)
    BY Zenon
  <2>4. g = [k \in Cells |-> IF k >= pos - COLS /\ k < ROWS * COLS THEN FALSE
                             ELSE IF k < (ROWS - 1) * COLS THEN wr[k + COLS] ELSE wr[k]]
    BY <2>3 DEF Scrolled
  <2>5. ASSUME NEW k \in Cells
        PROVE  g[k] \in BOOLEAN /\ (g[k] => k < end)
    <3>1. k \in 0..(A + COLS - 1) /\ pos - COLS = A - COLS /\ ROWS * COLS = A /\ (ROWS - 1) * COLS = A - COLS
      BY <1>1, <1>3, <1>9
    <3>2. CASE k >= A - COLS /\ k < A
      BY <2>4, <3>1, <3>2, Zenon
    <3>3. CASE k < A - COLS
      <4>1. k + COLS \in Cells /\ ~(k >= A - COLS /\ k < A) /\ k < end
        BY <1>1, <1>3, <1>9, <2>1, <3>1, <3>3
      <4>2. g[k] = wr[k + COLS]
        BY <2>4, <3>1, <3>3, <4>1, Zenon
      <4> QED
        BY <4>1, <4>2, Zenon
    <3>4. CASE k >= A
      <4>1. ~(k >= A - COLS /\ k < A) /\ ~(k < A - COLS)
        BY <1>1, <1>3, <3>1, <3>4
      <4>2. g[k] = wr[k]
        BY <2>4, <3>1, <4>1, ZenonT(60)
      <4>3. ~wr[k]
        BY <1>b, <3>1, <3>4
      <4> QED
        BY <4>2, <4>3, Zenon
    <3> QED
      BY <1>3, <3>1, <3>2, <3>3, <3>4
  <2>6. g \in [Cells -> BOOLEAN]
    BY <2>4, <2>5, Zenon
  <2> QED
    BY <1>a, <2>2, <2>3, <2>5, <2>6, ZenonT(60)
<1>10. CASE pos # A
  <2>1. pos \in 0..(A - 1)
    BY <1>10
  <2>2. screen' = [pos |-> pos, crt |-> [wr EXCEPT ![pos] = FALSE]]
    BY <1>4, <1>5, <1>6, <1>8, <1>10, ZenonT(60) DEF cgaputc
  <2> QED
    BY <1>7, <1>a, <2>1, <2>2, Zenon
<1> QED
  BY <1>9, <1>10

----
(***************************************************************************)
(* The keyboard.                                                           *)
(***************************************************************************)
\* A modifier's flag is set only while one of its keys is down.
KbdInv == /\ down \subseteq Keys \X BOOLEAN
          /\ kbd \subseteq {"CTL", "ALT", "SHIFT", "CAPSLOCK"}
          /\ "CTL" \in kbd => \E b \in BOOLEAN : <<"ctl", b>> \in down
          /\ "ALT" \in kbd => \E b \in BOOLEAN : <<"alt", b>> \in down
          /\ "SHIFT" \in kbd => <<"shift", FALSE>> \in down

\* The prefix byte is taken into account and forgotten.
LEMMA MeantKey ==
  ASSUME KbdInv, NEW key \in Keys, NEW right \in BOOLEAN
  PROVE  /\ Meant(Prefixed(right), key) = IF right /\ key \notin {"ctl", "alt"} THEN "d" ELSE key
         /\ Prefixed(right) \ {"E0ESC"} = kbd
BY DEF KbdInv, Meant, Prefixed

LEMMA KbdKeeps == KbdInv /\ [KbdNext]_<<kbd, down>> => KbdInv'
<1> SUFFICES ASSUME KbdInv, [KbdNext]_<<kbd, down>> PROVE KbdInv'
  OBVIOUS
<1>1. ASSUME NEW key \in Keys, NEW right \in BOOLEAN, kbdgetc_press(key, right) PROVE KbdInv'
  <2>1. PICK k : k = Meant(Prefixed(right), key)
    BY Zenon
  <2>2. k = IF right /\ key \notin {"ctl", "alt"} THEN "d" ELSE key
    BY <2>1, MeantKey, Zenon
  <2>3. \A f \in kbd' : f \in kbd \/ f \in shiftcode(k) \/ f \in togglecode(k)
    BY <1>1, <2>1, MeantKey DEF kbdgetc_press
  <2>4. /\ shiftcode(k) \cup togglecode(k) \subseteq {"CTL", "ALT", "SHIFT", "CAPSLOCK"}
        /\ "CTL" \in shiftcode(k) \cup togglecode(k) => key = "ctl"
        /\ "ALT" \in shiftcode(k) \cup togglecode(k) => key = "alt"
        /\ "SHIFT" \in shiftcode(k) \cup togglecode(k) => key = "shift" /\ ~right
    BY <2>2 DEF shiftcode, togglecode, Keys
  <2>5. down' = down \cup {<<key, right>>}
    BY <1>1 DEF kbdgetc_press
  <2>6. down' \subseteq Keys \X BOOLEAN /\ kbd' \subseteq {"CTL", "ALT", "SHIFT", "CAPSLOCK"}
    <3>1. <<key, right>> \in Keys \X BOOLEAN
      BY Zenon
    <3>2. \A f \in kbd' : f \in {"CTL", "ALT", "SHIFT", "CAPSLOCK"}
      BY <2>3, <2>4, Zenon DEF KbdInv
    <3> QED
      BY <2>5, <3>1, <3>2, Zenon DEF KbdInv
  <2>7. "CTL" \in kbd' => \E b \in BOOLEAN : <<"ctl", b>> \in down'
    BY <2>3, <2>4, <2>5, Zenon DEF KbdInv
  <2>8. "ALT" \in kbd' => \E b \in BOOLEAN : <<"alt", b>> \in down'
    BY <2>3, <2>4, <2>5, Zenon DEF KbdInv
  <2>9. "SHIFT" \in kbd' => <<"shift", FALSE>> \in down'
    <3>1. key = "shift" /\ ~right => <<"shift", FALSE>> = <<key, right>>
      <4>1. ~right => right = FALSE
        OBVIOUS
      <4> QED
        BY <4>1, Zenon
    <3> QED
      BY <2>3, <2>4, <2>5, <3>1, Zenon DEF KbdInv
  <2> QED
    BY <2>6, <2>7, <2>8, <2>9, Zenon DEF KbdInv
<1>2. ASSUME NEW key \in Keys, NEW right \in BOOLEAN, kbdgetc_release(key, right) PROVE KbdInv'
  <2>1. PICK k : k = Meant(Prefixed(right), key)
    BY Zenon
  <2>2. k = IF right /\ key \notin {"ctl", "alt"} THEN "d" ELSE key
    BY <2>1, MeantKey, Zenon
  <2>3. kbd' \subseteq kbd /\ \A f \in kbd' : f \notin shiftcode(k)
    BY <1>2, <2>1, MeantKey DEF kbdgetc_release, Released
  <2>4. /\ "CTL" \in kbd' => key # "ctl"
        /\ "ALT" \in kbd' => key # "alt"
        /\ "SHIFT" \in kbd' => key # "shift" \/ right
    BY <2>2, <2>3 DEF shiftcode
  <2>5. down' = down \ {<<key, right>>}
    BY <1>2 DEF kbdgetc_release
  <2>6. down' \subseteq Keys \X BOOLEAN /\ kbd' \subseteq {"CTL", "ALT", "SHIFT", "CAPSLOCK"}
    BY <2>3, <2>5 DEF KbdInv
  <2>a. \A a, b : a # key => <<a, b>> # <<key, right>>
    BY Zenon
  <2>7. "CTL" \in kbd' => \E b \in BOOLEAN : <<"ctl", b>> \in down'
    BY <2>3, <2>4, <2>5, <2>a, Zenon DEF KbdInv
  <2>8. "ALT" \in kbd' => \E b \in BOOLEAN : <<"alt", b>> \in down'
    BY <2>3, <2>4, <2>5, <2>a, Zenon DEF KbdInv
  <2>9. "SHIFT" \in kbd' => <<"shift", FALSE>> \in down'
    <3>1. key # "shift" \/ right => ~("shift" = key /\ FALSE = right)
      BY Zenon
    <3>3. <<"shift", FALSE>> = <<key, right>> => "shift" = key /\ FALSE = right
      BY Zenon
    <3>2. "SHIFT" \in kbd' => <<"shift", FALSE>> \in down
      BY <2>3, Zenon DEF KbdInv
    <3> QED
      BY <2>4, <2>5, <3>1, <3>2, <3>3, Zenon
  <2> QED
    BY <2>6, <2>7, <2>8, <2>9, Zenon DEF KbdInv
<1>3. CASE UNCHANGED <<kbd, down>>
  <2>1. kbd' = kbd /\ down' = down
    BY <1>3
  <2> QED
    BY <2>1, Zenon DEF KbdInv
<1> QED
  BY <1>1, <1>2, <1>3, Zenon DEF KbdNext
LEMMA KbdStarts == KbdInit => KbdInv
BY DEF KbdInit, KbdInv

----
(***************************************************************************)
(* The driver: the input, the screen and the keyboard share no state.      *)
(***************************************************************************)
ConsoleSpec == /\ ConSpec
               /\ ScreenInit /\ [][ScreenNext]_screen
               /\ KbdInit /\ [][KbdNext]_<<kbd, down>>

\* console.c:244-250, console.c:149-162, kbd.c:23-35: no reader sleeps while a
\* finished line is there, the cursor stays on the screen with nothing behind
\* it, and no modifier is stuck when all keys are up: for any number of readers
\* and any size of the input buffer, of its indices and of the screen.
THEOREM ConsoleIsSound == ConsoleSpec => []ConsoleSound
<1>1. ConInv => ReadersSleepOnNothing
  BY Zenon DEF ConInv
<1>2. ScreenInv /\ [ScreenNext]_screen => ScreenInv'
  <2>1. ScreenInv /\ UNCHANGED screen => ScreenInv'
    BY Zenon DEF ScreenInv, CursorOnScreen
  <2> QED
    BY <2>1, ScreenKeeps, Zenon DEF ScreenNext
<1>3. ScreenInv => CursorOnScreen
  BY Zenon DEF ScreenInv
<1>4. KbdInv => NoStuckModifier
  BY DEF KbdInv, NoStuckModifier
<1>5. ConSpec => []ConInv
  BY ConStarts, ConKeeps, PTL DEF ConSpec
<1>6. ScreenInit /\ [][ScreenNext]_screen => []ScreenInv
  BY ScreenStarts, <1>2, PTL
<1>7. KbdInit /\ [][KbdNext]_<<kbd, down>> => []KbdInv
  BY KbdStarts, KbdKeeps, PTL
<1> QED
  BY <1>1, <1>3, <1>4, <1>5, <1>6, <1>7, PTL DEF ConsoleSpec, ConsoleSound

----
(***************************************************************************)
(* The input buffer is a terminal.                                         *)
(***************************************************************************)
Ready == Part(input.r, input.w)
Line == Part(input.w, input.e)

LEMMA PartIs ==
  ASSUME ConType, NEW a \in Index, NEW b \in Index
  PROVE  /\ Part(a, b) \in Seq(Chars) /\ Len(Part(a, b)) = Dist(a, b) /\ Dist(a, b) \in Nat
         /\ \A i \in 1..Dist(a, b) : Part(a, b)[i] = At(a + i - 1)
<1>1. PICK d \in Nat, x \in Int : d = Dist(a, b) /\ x = a
  BY Indices, Zenon
<1>2. ASSUME NEW i \in 1..d PROVE At(a + i - 1) \in Chars
  <2>1. (x + i - 1) % INPUT_BUF \in 0..(INPUT_BUF - 1)
    BY ConConstants
  <2> QED
    BY <1>1, <2>1, InputType, Zenon DEF At
<1>3. Part(a, b) = [i \in 1..d |-> At(a + i - 1)]
  BY <1>1, Zenon DEF Part
<1>4. Part(a, b) \in [1..d -> Chars]
  BY <1>2, <1>3, Zenon
<1>5. Part(a, b) \in Seq(Chars) /\ Len(Part(a, b)) = d
  BY <1>4
<1> QED
  BY <1>1, <1>3, <1>5, Zenon

\* Two sequences with the same elements.
LEMMA SameSeq ==
  ASSUME NEW s \in Seq(Chars), NEW t \in Seq(Chars), Len(s) = Len(t), \A i \in 1..Len(s) : s[i] = t[i]
  PROVE  s = t
BY SeqsAgree

\* d characters of the buffer from index a on.
From(buf, a, d) == [i \in 1..d |-> buf[(a + i - 1) % INPUT_BUF]]

PartsFact ==
  \E n \in Nat, m \in Nat :
     /\ n = Dist(input.r, input.w) /\ m = Dist(input.w, input.e) /\ n + m <= INPUT_BUF
     /\ input.r \in Index /\ input.w \in Index /\ input.e \in Index
     /\ Ready = From(input.buf, input.r, n) /\ Line = From(input.buf, input.w, m)
     /\ Ready \in Seq(Chars) /\ Len(Ready) = n
     /\ Line \in Seq(Chars) /\ Len(Line) = m

LEMMA PartsOf == ConInv => PartsFact
<1> SUFFICES ASSUME ConInv PROVE PartsFact
  OBVIOUS
<1>1. ConType /\ input.r \in Index /\ input.w \in Index /\ input.e \in Index
  BY InputType, Zenon DEF ConInv
<1>2. Dist(input.r, input.w) + Dist(input.w, input.e) <= INPUT_BUF
  BY Zenon DEF ConInv, Filled
<1>3. /\ Ready = From(input.buf, input.r, Dist(input.r, input.w))
      /\ Line = From(input.buf, input.w, Dist(input.w, input.e))
  BY Zenon DEF Ready, Line, Part, From, At
<1>4. /\ Ready \in Seq(Chars) /\ Len(Ready) = Dist(input.r, input.w) /\ Dist(input.r, input.w) \in Nat
      /\ Line \in Seq(Chars) /\ Len(Line) = Dist(input.w, input.e) /\ Dist(input.w, input.e) \in Nat
  BY <1>1, PartIs, Zenon DEF Ready, Line
<1> QED
  BY <1>1, <1>2, <1>3, <1>4, Zenon DEF PartsFact

\* Deleting takes characters off the end of the line.
LEMMA DeletingShortens ==
  ASSUME PartsFact, PartsFact', NEW k \in Nat, input'.r = input.r, input'.w = input.w, input'.buf = input.buf,
         Dist(input.w, input'.e) = Dist(input.w, input.e) - k
  PROVE  Ready' = Ready /\ Line' = SubSeq(Line, 1, Len(Line) - k)
<1>1. PICK n \in Nat, m \in Nat :
        /\ n = Dist(input.r, input.w) /\ m = Dist(input.w, input.e)
        /\ Ready = From(input.buf, input.r, n) /\ Line = From(input.buf, input.w, m)
        /\ Line \in Seq(Chars) /\ Len(Line) = m
  BY Zenon DEF PartsFact
<1>2. PICK j \in Nat :
        /\ j = Dist(input.w, input'.e)
        /\ Ready' = From(input.buf, input.r, n) /\ Line' = From(input.buf, input.w, j)
        /\ Line' \in Seq(Chars) /\ Len(Line') = j
  BY <1>1, ZenonT(60) DEF PartsFact
<1>3. j = m - k /\ j <= m
  BY <1>1, <1>2
<1>4. PICK s \in Seq(Chars), t \in Seq(Chars) : s = Line /\ t = Line' /\ Len(s) = m /\ Len(t) = j
  BY <1>1, <1>2, ZenonT(60)
<1>5. /\ SubSeq(s, 1, j) \in Seq(Chars) /\ Len(SubSeq(s, 1, j)) = j
      /\ \A i \in 1..j : SubSeq(s, 1, j)[i] = s[i]
  BY <1>3, <1>4
<1>6. \A i \in 1..j : i \in 1..m
  BY <1>3
<1>7. \A i \in 1..j : t[i] = s[i]
  BY <1>1, <1>2, <1>4, <1>6, Zenon DEF From
<1>8. t = SubSeq(s, 1, j)
  <2>1. PICK u \in Seq(Chars) : u = SubSeq(s, 1, j) /\ Len(u) = j /\ \A i \in 1..j : u[i] = s[i]
    BY <1>5, Zenon
  <2>2. Len(t) = Len(u) /\ \A i \in 1..Len(t) : t[i] = u[i]
    BY <1>4, <1>7, <2>1, ZenonT(60)
  <2>3. t = u
    BY <2>2, SameSeq, Zenon
  <2> QED
    BY <2>1, <2>3, Zenon
<1> QED
  BY <1>1, <1>2, <1>3, <1>4, <1>8, ZenonT(60)

\* A reader takes the oldest character.
LEMMA TakingTail ==
  ASSUME PartsFact, PartsFact', input'.w = input.w, input'.e = input.e, input'.buf = input.buf,
         input.r # input.w, input'.r = (input.r + 1) % IDX
  PROVE  Ready # <<>> /\ Ready' = Tail(Ready) /\ Line' = Line
<1>1. PICK n \in Nat, m \in Nat :
        /\ n = Dist(input.r, input.w) /\ m = Dist(input.w, input.e) /\ n + m <= INPUT_BUF
        /\ input.r \in Index /\ input.w \in Index
        /\ Ready = From(input.buf, input.r, n) /\ Line = From(input.buf, input.w, m)
        /\ Ready \in Seq(Chars) /\ Len(Ready) = n
  BY Zenon DEF PartsFact
<1>2. PICK j \in Nat :
        /\ j = Dist(input'.r, input.w)
        /\ Ready' = From(input.buf, input'.r, j) /\ Line' = From(input.buf, input.w, m)
        /\ Ready' \in Seq(Chars) /\ Len(Ready') = j
  BY <1>1, ZenonT(60) DEF PartsFact
<1>3. j = n - 1 /\ n > 0
  BY <1>1, <1>2, DistForth
<1>4. PICK s \in Seq(Chars), t \in Seq(Chars) : s = Ready /\ t = Ready' /\ Len(s) = n /\ Len(t) = j
  BY <1>1, <1>2, ZenonT(60)
<1>5. /\ s # <<>> /\ Tail(s) \in Seq(Chars) /\ Len(Tail(s)) = j
      /\ \A i \in 1..j : Tail(s)[i] = s[i + 1]
  BY <1>3, <1>4
<1>6. PICK r \in Index, f \in Index : r = input.r /\ f = (r + 1) % IDX /\ Dist(r, f) = 1
  <2>1. PICK r \in Index : r = input.r
    BY <1>1, ZenonT(60)
  <2>2. Dist(r, r) = 0
    BY DistIs
  <2>3. Dist(r, r) + 1 < IDX /\ Dist(r, r) + 1 = 1
    BY <2>2, ConConstants
  <2>4. (r + 1) % IDX \in Index /\ Dist(r, (r + 1) % IDX) = 1
    BY <2>3, DistForth, Zenon
  <2> QED
    BY <2>1, <2>4, Zenon
<1>7. ASSUME NEW i \in 1..j PROVE t[i] = s[i + 1]
  <2>1. i + 1 \in 1..n
    BY <1>3
  <2>2. t[i] = input.buf[(f + i - 1) % INPUT_BUF] /\ s[i + 1] = input.buf[(r + (i + 1) - 1) % INPUT_BUF]
    BY <1>1, <1>2, <1>4, <1>6, <2>1, ZenonT(60) DEF From
  <2>6. i - 1 \in Int
    OBVIOUS
  <2>3. PICK x \in Int, y \in Int, d \in Int : x = r /\ y = f /\ d = i - 1
    BY <2>6, Indices, Zenon
  <2>4. (r + Dist(r, f) + d) % INPUT_BUF = (f + d) % INPUT_BUF
    BY Walk, ZenonT(60)
  <2>5. x + 1 + d = x + (i + 1) - 1 /\ y + d = y + i - 1
    BY <2>3
  <2> QED
    BY <1>6, <2>2, <2>3, <2>4, <2>5, ZenonT(60)
<1>8. t = Tail(s)
  <2>1. PICK u \in Seq(Chars) : u = Tail(s) /\ Len(u) = j /\ \A i \in 1..j : u[i] = s[i + 1]
    BY <1>5, Zenon
  <2>2. Len(t) = Len(u) /\ \A i \in 1..Len(t) : t[i] = u[i]
    BY <1>4, <1>7, <2>1, ZenonT(60)
  <2>3. t = u
    BY <2>2, SameSeq
  <2> QED
    BY <2>1, <2>3, Zenon
<1> QED
  BY <1>1, <1>2, <1>4, <1>5, <1>8, Zenon

\* A character is added to the line, which is finished or not.
LEMMA AddingAppends ==
  ASSUME ConInv, ConInv', NEW ch \in Chars, Space(input.e), NEW f, f = (input.e + 1) % IDX,
         NEW done \in BOOLEAN, Put(ch, f, done)
  PROVE  /\ Len(Ready) + Len(Line) < INPUT_BUF /\ Dist(input.r, f) = Len(Ready) + Len(Append(Line, ch))
         /\ done => Ready' = Ready \o Append(Line, ch) /\ Line' = <<>>
         /\ ~done => Ready' = Ready /\ Line' = Append(Line, ch)
<1>1. PICK n \in Nat, m \in Nat :
        /\ n = Dist(input.r, input.w) /\ m = Dist(input.w, input.e)
        /\ input.r \in Index /\ input.w \in Index
        /\ Ready = From(input.buf, input.r, n) /\ Line = From(input.buf, input.w, m)
        /\ Ready \in Seq(Chars) /\ Len(Ready) = n /\ Line \in Seq(Chars) /\ Len(Line) = m
  BY PartsOf, ZenonT(60) DEF PartsFact
<1>2. /\ n + m < INPUT_BUF
      /\ f \in Index /\ Dist(input.r, f) = n + m + 1 /\ Dist(input.w, f) = m + 1
      /\ input'.r = input.r /\ input'.e = f /\ input'.w = IF done THEN f ELSE input.w
      /\ \A i \in 0..(n + m) : input'.buf[(input.r + i) % INPUT_BUF] = IF i = n + m THEN ch ELSE At(input.r + i)
  <2>1. n = Dist(input.r, input.w) /\ m = Dist(input.w, input.e)
    BY <1>1, Zenon
  <2> QED
    BY <2>1, Adding
<1>3. PICK g \in Nat, h \in Nat :
        /\ g = Dist(input.r, input'.w) /\ h = Dist(input'.w, f)
        /\ Ready' = From(input'.buf, input.r, g) /\ Line' = From(input'.buf, input'.w, h)
        /\ Ready' \in Seq(Chars) /\ Len(Ready') = g /\ Line' \in Seq(Chars) /\ Len(Line') = h
  <2>1. PartsFact'
    BY PartsOf, PTL
  <2> QED
    BY <1>2, <2>1, Zenon DEF PartsFact
<1>4. PICK R \in Seq(Chars), L \in Seq(Chars), A \in Seq(Chars) :
        /\ R = Ready /\ L = Line /\ A = Append(Line, ch) /\ Len(A) = m + 1 /\ Len(R) = n /\ Len(L) = m
        /\ \A i \in 1..(m + 1) : A[i] = IF i = m + 1 THEN ch ELSE L[i]
  <2>1. PICK R \in Seq(Chars), L \in Seq(Chars) : R = Ready /\ L = Line /\ Len(R) = n /\ Len(L) = m
    BY <1>1, Zenon
  <2>2. /\ Append(L, ch) \in Seq(Chars) /\ Len(Append(L, ch)) = m + 1
        /\ \A i \in 1..(m + 1) : Append(L, ch)[i] = IF i = m + 1 THEN ch ELSE L[i]
    BY <2>1
  <2>3. PICK A \in Seq(Chars) : /\ A = Append(L, ch) /\ Len(A) = m + 1
                                /\ \A i \in 1..(m + 1) : A[i] = IF i = m + 1 THEN ch ELSE L[i]
    BY <2>2, Zenon
  <2>4. A = Append(Line, ch)
    BY <2>1, <2>3, Zenon
  <2> QED
    BY <2>1, <2>3, <2>4, ZenonT(60)
<1>5. PICK r \in Int, w \in Int : r = input.r /\ w = input.w
  BY <1>1, Indices, Zenon
<1>6. ASSUME NEW i \in 1..(m + 1)
      PROVE  /\ input'.buf[(r + (n + i) - 1) % INPUT_BUF] = A[i]
             /\ input'.buf[(w + i - 1) % INPUT_BUF] = A[i]
  <2>1. PICK j \in 0..(n + m), d \in Int : j = (n + i) - 1 /\ d = i - 1
    OBVIOUS
  <2>2. r + j = r + (n + i) - 1 /\ w + d = w + i - 1 /\ r + n + d = r + j
    BY <2>1
  <2>3. (input.r + Dist(input.r, input.w) + d) % INPUT_BUF = (input.w + d) % INPUT_BUF
    BY <1>1, Walk, Zenon
  <2>4. (r + (n + i) - 1) % INPUT_BUF = (w + i - 1) % INPUT_BUF
    BY <1>1, <1>5, <2>2, <2>3, Zenon
  <2>5. input'.buf[(r + (n + i) - 1) % INPUT_BUF] = IF j = n + m THEN ch ELSE At(r + j)
    BY <1>2, <1>5, <2>2, ZenonT(60)
  <2>6. j = n + m <=> i = m + 1
    BY <2>1
  <2>7. i # m + 1 => i \in 1..m
    OBVIOUS
  <2>8. i # m + 1 => L[i] = At(r + j)
    BY <1>1, <1>4, <1>5, <2>2, <2>4, <2>7, ZenonT(60) DEF From, At
  <2> QED
    BY <1>4, <2>4, <2>5, <2>6, <2>8, Zenon
<1>7. ASSUME NEW i \in 1..n
      PROVE  input'.buf[(r + i - 1) % INPUT_BUF] = R[i]
  <2>1. PICK j \in 0..(n + m) : j = i - 1 /\ j # n + m
    OBVIOUS
  <2>2. r + j = r + i - 1
    BY <2>1
  <2>3. input'.buf[(r + i - 1) % INPUT_BUF] = At(r + j)
    BY <1>2, <1>5, <2>1, <2>2, ZenonT(60)
  <2> QED
    BY <1>1, <1>4, <1>5, <2>2, <2>3, ZenonT(60) DEF From, At
<1>8. Len(Ready) + Len(Line) < INPUT_BUF /\ Dist(input.r, f) = Len(Ready) + Len(Append(Line, ch))
  <2>1. n + (m + 1) = n + m + 1
    OBVIOUS
  <2> QED
    BY <1>1, <1>2, <1>4, <2>1, ZenonT(60)
<1>9. ASSUME done PROVE Ready' = Ready \o Append(Line, ch) /\ Line' = <<>>
  <2>1. g = n + m + 1 /\ h = 0
    BY <1>2, <1>3, <1>9, DistIs
  <2>2. PICK s \in Seq(Chars), t \in Seq(Chars) : s = Ready' /\ t = Line' /\ Len(s) = n + m + 1 /\ Len(t) = 0
    BY <1>3, <2>1, ZenonT(60)
  <2>3. t = <<>>
    BY <2>2
  <2>4. /\ R \o A \in Seq(Chars) /\ Len(R \o A) = n + m + 1
        /\ \A i \in 1..(n + m + 1) : (R \o A)[i] = IF i <= n THEN R[i] ELSE A[i - n]
    <3>1. /\ R \o A \in Seq(Chars) /\ Len(R \o A) = Len(R) + Len(A)
          /\ \A i \in 1..(Len(R) + Len(A)) : (R \o A)[i] = IF i <= Len(R) THEN R[i] ELSE A[i - Len(R)]
      BY Joined
    <3>2. n + (m + 1) = n + m + 1
      OBVIOUS
    <3>3. Len(R) = n /\ Len(A) = m + 1 /\ Len(R) + Len(A) = n + m + 1
      BY <1>4, <3>2, Zenon
    <3> QED
      BY <3>1, <3>3, ZenonT(60)
  <2>5. ASSUME NEW i \in 1..(n + m + 1) PROVE s[i] = IF i <= n THEN R[i] ELSE A[i - n]
    <3>1. s[i] = input'.buf[(r + i - 1) % INPUT_BUF]
      BY <1>3, <1>5, <2>1, <2>2, ZenonT(60) DEF From
    <3>2. CASE i <= n
      <4>1. i \in 1..n
        BY <3>2
      <4> QED
        BY <1>7, <3>1, <3>2, <4>1, ZenonT(60)
    <3>3. CASE ~(i <= n)
      <4>1. PICK l \in 1..(m + 1) : l = i - n /\ n + l = i
        BY <3>3
      <4> QED
        BY <1>6, <3>1, <3>3, <4>1, ZenonT(60)
    <3> QED
      BY <3>2, <3>3, Zenon
  <2>6. PICK u \in Seq(Chars) : u = R \o A /\ Len(u) = n + m + 1 /\ \A i \in 1..(n + m + 1) : u[i] = IF i <= n THEN R[i] ELSE A[i - n]
    BY <2>4, ZenonT(60)
  <2>7. s = u
    <3>1. Len(s) = Len(u) /\ \A i \in 1..Len(s) : s[i] = u[i]
      BY <2>2, <2>5, <2>6, ZenonT(60)
    <3> QED
      BY <3>1, SameSeq
  <2> QED
    BY <1>4, <2>2, <2>3, <2>6, <2>7, ZenonT(60)
<1>10. ASSUME ~done PROVE Ready' = Ready /\ Line' = Append(Line, ch)
  <2>1. g = n /\ h = m + 1 /\ input'.w = input.w
    BY <1>1, <1>2, <1>3, <1>10, ZenonT(60)
  <2>2. PICK s \in Seq(Chars), t \in Seq(Chars) : s = Ready' /\ t = Line' /\ Len(s) = n /\ Len(t) = m + 1
    BY <1>3, <2>1, ZenonT(60)
  <2>3. \A i \in 1..n : s[i] = R[i]
    BY <1>3, <1>5, <1>7, <2>1, <2>2, ZenonT(60) DEF From
  <2>4. \A i \in 1..(m + 1) : t[i] = A[i]
    BY <1>3, <1>5, <1>6, <2>1, <2>2, ZenonT(60) DEF From
  <2>5. s = R /\ t = A
    BY <1>4, <2>2, <2>3, <2>4, SameSeq, ZenonT(60)
  <2> QED
    BY <1>4, <2>2, <2>5, Zenon
<1> QED
  BY <1>8, <1>9, <1>10, Zenon

LEMMA ReadersLeaveLines ==
  ASSUME PartsFact, PartsFact', input' = input
  PROVE  Ready' = Ready /\ Line' = Line
BY Zenon DEF PartsFact

\* console.c:191-230: an edit of the line is a step of the terminal.
LEMMA IntrStep ==
  ASSUME ConInv, ConInv', NEW c \in {"x", "\n", "\r", "^D", "^U", "^H"}, consoleintr(c)
  PROVE  Term!Next
<1>1. PartsFact /\ PartsFact'
  BY PartsOf, PTL
<1>2. PICK m \in Nat : m = Dist(input.w, input.e) /\ Line \in Seq(Chars) /\ Len(Line) = m
                       /\ input.w \in Index /\ input.e \in Index
  BY <1>1, Zenon DEF PartsFact
<1>a. PICK L \in Seq(Chars) : L = Line /\ Len(L) = m
  BY <1>2, Zenon
<1>3. CASE c = "^U"
  <2>1. input' = [input EXCEPT !.e = (@ - m) % IDX]
    BY <1>2, <1>3, KilledIsLine DEF consoleintr
  <2>2. m \in 0..Dist(input.w, input.e)
    BY <1>2
  <2>3. Ready' = Ready /\ Line' = SubSeq(L, 1, m - m)
    BY <1>1, <1>2, <1>a, <2>1, <2>2, Deleting, DeletingShortens
  <2>4. SubSeq(L, 1, m - m) = <<>>
    BY <1>a
  <2> QED
    BY <2>3, <2>4, Zenon DEF Term!Next, Term!Kill, Ready, Line
<1>4. CASE c = "^H"
  <2>1. input.e # input.w /\ input' = [input EXCEPT !.e = (@ - 1) % IDX]
    BY <1>4 DEF consoleintr
  <2>2. m > 0
    BY <1>2, <2>1, DistIs
  <2>3. 1 \in 0..Dist(input.w, input.e)
    BY <1>2, <2>2
  <2>4. Ready' = Ready /\ Line' = SubSeq(Line, 1, Len(Line) - 1)
    BY <1>1, <2>1, <2>3, Deleting, DeletingShortens
  <2>5. L # <<>>
    BY <1>a, <2>2
  <2> QED
    BY <1>a, <2>4, <2>5, Zenon DEF Term!Next, Term!Erase, Ready, Line
<1>5. CASE c \notin {"^U", "^H"}
  <2>1. PICK ch \in Chars : ch = IF c = "\r" THEN "\n" ELSE c
    BY <1>5 DEF Chars
  <2>2. PICK f : f = (input.e + 1) % IDX
    BY Zenon
  <2>3. Space(input.e) /\ Put(ch, f, Finishes(ch, f))
    BY <1>5, <2>1, <2>2 DEF consoleintr, Put
  <2>4. PICK done \in BOOLEAN : done = Finishes(ch, f)
    BY Zenon DEF Finishes
  <2>5. Put(ch, f, done)
    BY <2>3, <2>4, ZenonT(60)
  <2>6. /\ Len(Ready) + Len(Line) < INPUT_BUF /\ Dist(input.r, f) = Len(Ready) + Len(Append(Line, ch))
        /\ done => Ready' = Ready \o Append(Line, ch) /\ Line' = <<>>
        /\ ~done => Ready' = Ready /\ Line' = Append(Line, ch)
    BY <2>2, <2>3, <2>5, AddingAppends
  <2>7. f \in Index
    BY <1>2, <2>2, DistForth
  <2>8. done <=> ch \in {"\n", "^D"} \/ Len(Ready) + Len(Append(Line, ch)) = INPUT_BUF
    BY <2>4, <2>6, <2>7, FinishesIff, ZenonT(60)
  <2>9. ch \in {"x"} \cup {"\n", "^D"}
    BY DEF Chars
  <2> QED
    BY <2>6, <2>8, <2>9, ZenonT(60) DEF Term!Next, Term!Type, Term!Commit, Ready, Line
<1> QED
  BY <1>3, <1>4, <1>5, Zenon

\* console.c:233-271: a reader takes a character, or leaves the lines as they are.
LEMMA TermStep == ConInv /\ ConInv' /\ [ConNext]_conVars => [Term!Next]_<<Ready, Line>>
<1> SUFFICES ASSUME ConInv, ConInv', [ConNext]_conVars PROVE [Term!Next]_<<Ready, Line>>
  OBVIOUS
<1>1. PartsFact /\ PartsFact'
  BY PartsOf, PTL
<1>2. CASE input' = input
  BY <1>1, <1>2, ReadersLeaveLines
<1>3. ASSUME NEW c \in {"x", "\n", "\r", "^D", "^U", "^H"}, consoleintr(c)
      PROVE  Term!Next
  BY <1>3, IntrStep
<1>4. ASSUME NEW p \in ConReaders, consoleread_copy(p), input' # input
      PROVE  Term!Next
  <2>1. input.r # input.w
    BY <1>4, Zenon DEF ConInv, Copying, consoleread_copy
  <2>2. PICK g : g = IF At(input.r) # "^D" \/ TakesEof(p) THEN (input.r + 1) % IDX ELSE input.r
    BY Zenon
  <2>3. input' = [input EXCEPT !.r = g] /\ input \in Inputs
    BY <1>4, <2>2 DEF consoleread_copy, ConInv, ConType
  <2>4. input'.r = g /\ input'.w = input.w /\ input'.e = input.e /\ input'.buf = input.buf
    BY <2>3 DEF Inputs
  <2>5. g # input.r
    <3>1. [input EXCEPT !.r = input.r] = input
      BY <2>3 DEF Inputs
    <3> QED
      BY <1>4, <2>3, <3>1, Zenon
  <2>6. Ready # <<>> /\ Ready' = Tail(Ready) /\ Line' = Line
    BY <1>1, <2>1, <2>2, <2>4, <2>5, TakingTail, ZenonT(60)
  <2> QED
    BY <2>6, Zenon DEF Term!Next, Term!Take, Ready, Line
<1>5. \A p \in ConReaders : /\ \A n \in {1, 3} : consoleread(p, n) => input' = input
                            /\ consoleread_test(p) => input' = input
                            /\ con_kill(p) => input' = input
  BY Zenon DEF consoleread, consoleread_test, con_kill
<1>6. UNCHANGED conVars => input' = input
  BY DEF conVars
<1>7. CASE input' # input
  <2>1. ConNext
    BY <1>6, <1>7, Zenon
  <2>2. \/ \E c \in {"x", "\n", "\r", "^D", "^U", "^H"} : consoleintr(c)
        \/ \E p \in ConReaders : consoleread_copy(p)
    BY <1>5, <1>7, <2>1, Zenon DEF ConNext
  <2>3. Term!Next
    BY <1>3, <1>4, <1>7, <2>2, Zenon
  <2> QED
    BY <2>3, Zenon
<1> QED
  BY <1>2, <1>7, Zenon

\* console.c:191-271: the input buffer, with its wrapping indices, is a queue of
\* finished lines and one line being edited, for any number of readers and any
\* size of the buffer that divides the range of the indices.
THEOREM ConsoleIsTerminal == ConSpec => ImplementsTerminal
<1>1. ConInit => Ready = <<>> /\ Line = <<>>
  <2> SUFFICES ASSUME ConInit PROVE Ready = <<>> /\ Line = <<>>
    OBVIOUS
  <2>1. input.r = 0 /\ input.w = 0 /\ input.e = 0 /\ 0 \in Index
    BY ConConstants DEF ConInit, Index
  <2>2. Dist(0, 0) = 0
    BY <2>1, DistIs
  <2>3. Len(Ready) = 0 /\ Len(Line) = 0 /\ Ready \in Seq(Chars) /\ Line \in Seq(Chars)
    BY <2>1, <2>2, ConStarts, PartsOf, Zenon DEF PartsFact
  <2> QED
    BY <2>3
<1>2. ConInit => Term!Init
  BY <1>1, Zenon DEF Term!Init, Ready, Line
<1>3. ConInv /\ ConInv' /\ [ConNext]_conVars => [Term!Next]_<<Part(input.r, input.w), Part(input.w, input.e)>>
  BY TermStep, Zenon DEF Ready, Line
<1> QED
  BY <1>2, <1>3, ConStarts, ConKeeps, PTL DEF ConSpec, ImplementsTerminal, Term!Spec
====
