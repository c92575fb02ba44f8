---------------------------- MODULE InodeProofs -----------------------------
(***************************************************************************)
(* The inode cache is counted and true for any number of processes,        *)
(* inodes, names and cache entries, whatever the system calls that         *)
(* interleave.                                                             *)
(*                                                                         *)
(* CacheInv is inductive.  It says which local variables of a call own a   *)
(* reference at each of its places (Shape), so that the counts of icache   *)
(* are the pointers that processes have; which inodes a call has locked    *)
(* there (Held), so that nobody else writes them; and that a valid entry   *)
(* is what the disk has, whether it is locked or not, but for the inode    *)
(* that an iput is freeing (MemInv).  After a panic only the types and     *)
(* WriteThrough are kept.                                                  *)
(*                                                                         *)
(* The first sections say what the functions of fs.c do, field by field,   *)
(* and what is to be shown of a step (CacheStep, Stepped); then there is   *)
(* one lemma for each action.                                              *)
(***************************************************************************)
EXTENDS Inode, TLAPS

\* A leaf that names no other prover is for the SMT solver.
USE SMTT(30)

\* Facts about finite sets and numbers.  They are proved at the end, from the
\* library, whose theorems are so kept out of the context of the other proofs.
SetFacts ==
    /\ \A S : IsFiniteSet(S) => Cardinality(S) \in Nat
    /\ \A S, T : IsFiniteSet(S) /\ T \subseteq S => IsFiniteSet(T) /\ Cardinality(T) <= Cardinality(S)
    /\ \A S, x : IsFiniteSet(S) /\ x \notin S => Cardinality(S \cup {x}) = Cardinality(S) + 1
    /\ Cardinality({}) = 0 /\ IsFiniteSet(Inums \X Names) /\ IsFiniteSet(Inums)
    /\ \A S \in SUBSET Nat : S # {} => \E x \in S : \A y \in S : x <= y

\* The types of the variables.
Types == {"none", "file", "dir", "dev"}
AllNames == Names \cup {".", ".."}
Ptr == 0..NINODES
DiskRec == [type : Types, nlink : Int]
MemRec == [valid : BOOLEAN, type : Types, nlink : Int]
DirRec == [AllNames -> Ptr]
FsRec == [disk : [Inums -> DiskRec], dir : [Inums -> DirRec], ref : [Inums -> Int], mem : [Inums -> MemRec],
          lock : [Inums -> Procs \cup {NoProc}], panic : {"no", "iget", "ilock", "ialloc", "unlink"}]
Places == {"user", "namex", "open", "chdir", "link", "create", "mkdir", "mknod", "unlink", "link2",
           "create_old", "create_new", "create_end", "unlink_ip", "unlink_end", "unlink_bad",
           "link_exists", "link_end", "link_bad"}
CallRec == [pc : Places, op : Calls \cup {"none", "link2"}, path : Seq(AllNames), new : Seq(AllNames),
            ip : Ptr, dp : Ptr, old : Ptr, put : Ptr, stage : {"lock", "inval", "ref"}]
CType == c \in [Procs -> CallRec] /\ \A p \in Procs : c[p].stage # "lock" => c[p].put # 0
IType == SetFacts /\ fs \in FsRec /\ CType /\ cwd \in [Procs -> Inums] /\ ofile \in [Procs -> Ptr] /\ mix \in Mixes

\* Which local variables own a reference at each place of a call.
UsesIp == {"namex", "open", "chdir", "link", "create_old", "create_new", "create_end", "unlink_ip", "unlink_end"}
UsesDp == {"create", "mkdir", "mknod", "unlink", "link2", "create_new", "unlink_ip", "unlink_bad", "link_exists"}
MayPut == {"user", "namex", "create_old", "create_end", "unlink_end", "unlink_bad", "link_exists", "link_end", "link_bad"}
OpAt(r) ==
    /\ r.pc = "namex" => r.op \in (Calls \ {"close"}) \cup {"link2"}
    /\ r.pc \in {"open", "chdir", "link", "create", "mkdir", "mknod", "unlink"} => r.op = r.pc
    /\ r.pc \in {"create_old", "create_new", "create_end"} => r.op \in Creates
    /\ r.pc \in {"unlink_ip", "unlink_end", "unlink_bad"} => r.op = "unlink"
    /\ r.pc \in {"link2", "link_exists", "link_end", "link_bad"} => r.op = "link2"
Shape(r) ==
    /\ r.put # 0 => r.pc \in MayPut
    /\ r.ip # 0 <=> r.pc \in UsesIp
    /\ r.dp # 0 <=> r.pc \in UsesDp
    /\ r.old # 0 <=> r.op = "link2" /\ r.pc # "user"
    /\ r.dp # 0 => r.path # <<>>
    /\ OpAt(r)
    /\ r.stage = "inval" => /\ ~(r.pc \in {"create_new", "unlink_ip", "unlink_bad", "link_exists"} /\ r.put = r.dp)
                            /\ ~(r.pc \in {"create_end", "unlink_end"} /\ r.put = r.ip)
ShapeInv == \A p \in Procs : Shape(c[p])

\* The inodes that a call has locked.
Held(r) == {i \in Inums : \/ r.pc \in {"create_new", "unlink_ip", "unlink_bad", "link_exists"} /\ i = r.dp
                          \/ r.pc \in {"create_end", "unlink_end"} /\ i = r.ip
                          \/ r.stage = "inval" /\ i = r.put}
LockInv == \A p \in Procs, i \in Inums : fs.lock[i] = p <=> i \in Held(c[p])

\* A valid entry is what the disk has, but for an inode being freed.
Same(s, i) == s.disk[i] = [type |-> s.mem[i].type, nlink |-> s.mem[i].nlink]
Dying(i) == \E q \in Procs : c[q].put = i /\ c[q].stage = "inval"
MemInv == \A i \in Inums : fs.mem[i].valid => Dying(i) \/ (Same(fs, i) /\ fs.mem[i].type # "none")

CacheInv == IType /\ WriteThrough /\ (fs.panic = "no" => RefsCounted /\ ShapeInv /\ LockInv /\ MemInv)

----
(***************************************************************************)
(* What the operations on inodes do, field by field.                       *)
(***************************************************************************)
\* The parts of the file system's state.
LEMMA FsParts ==
  ASSUME NEW s \in FsRec
  PROVE  /\ s.disk \in [Inums -> DiskRec] /\ s.dir \in [Inums -> DirRec] /\ s.ref \in [Inums -> Int]
         /\ s.mem \in [Inums -> MemRec] /\ s.lock \in [Inums -> Procs \cup {NoProc}]
         /\ s.panic \in {"no", "iget", "ilock", "ialloc", "unlink"}
  BY Zenon DEF FsRec

\* A panic, and an inode's reference more.
LEMMA PanicDoes ==
  ASSUME NEW s \in FsRec, NEW why \in {"iget", "ilock", "ialloc", "unlink"}
  PROVE  /\ panic(s, why) \in FsRec
         /\ panic(s, why).disk = s.disk /\ panic(s, why).dir = s.dir /\ panic(s, why).mem = s.mem
         /\ panic(s, why).lock = s.lock /\ panic(s, why).ref = s.ref
         /\ panic(s, why).panic = IF s.panic = "no" THEN why ELSE s.panic
  BY Zenon DEF FsRec, panic

IgetDoes(s, i, t) ==
    /\ t \in FsRec /\ t.disk = s.disk /\ t.dir = s.dir /\ t.mem = s.mem /\ t.lock = s.lock
    /\ t.panic \in {s.panic, "iget"}
    /\ t.panic = "no" => s.panic = "no" /\ t.ref = [s.ref EXCEPT ![i] = s.ref[i] + 1]
\* iget gives out one more reference, or panics when the cache is full.
LEMMA Iget ==
  ASSUME NEW s \in FsRec, NEW i \in Inums
  PROVE  IgetDoes(s, i, iget(s, i))
<1>1. CASE s.ref[i] = 0 /\ Cardinality({j \in Inums : s.ref[j] > 0}) = NINODE
  <2> DEFINE t == panic(s, "iget")
  <2>1. iget(s, i) = t
    BY <1>1, Zenon DEF iget
  <2>2. /\ t \in FsRec /\ t.disk = s.disk /\ t.dir = s.dir /\ t.mem = s.mem /\ t.lock = s.lock
        /\ t.panic = IF s.panic = "no" THEN "iget" ELSE s.panic
    BY PanicDoes
  <2> HIDE DEF t
  <2>3. t.panic # "no" /\ t.panic \in {s.panic, "iget"}
    BY <2>2
  <2> QED
    BY <2>1, <2>2, <2>3, Zenon DEF IgetDoes
<1>2. CASE ~(s.ref[i] = 0 /\ Cardinality({j \in Inums : s.ref[j] > 0}) = NINODE)
  <2> DEFINE t == [s EXCEPT !.ref[i] = @ + 1]
  <2>1. iget(s, i) = t
    BY <1>2, Zenon DEF iget
  <2>2. t.ref = [s.ref EXCEPT ![i] = s.ref[i] + 1]
    BY Zenon DEF FsRec
  <2>3. t.ref \in [Inums -> Int]
    BY <2>2, FsParts
  <2>4. t.disk = s.disk /\ t.dir = s.dir /\ t.mem = s.mem /\ t.lock = s.lock /\ t.panic = s.panic
    BY Zenon DEF FsRec
  <2>5. t \in FsRec
    BY <2>3, Zenon DEF FsRec
  <2> HIDE DEF t
  <2> QED
    BY <2>1, <2>2, <2>4, <2>5, Zenon DEF IgetDoes
<1> QED
  BY <1>1, <1>2, Zenon

\* An inode as ilock leaves it in the cache
Loaded(s, i) == IF s.mem[i].valid THEN s.mem[i]
                ELSE [valid |-> TRUE, type |-> s.disk[i].type, nlink |-> s.disk[i].nlink]
IlockDoes(s, i, p, t) ==
    /\ t \in FsRec /\ t.disk = s.disk /\ t.dir = s.dir /\ t.ref = s.ref
    /\ t.mem = [s.mem EXCEPT ![i] = Loaded(s, i)] /\ t.lock = [s.lock EXCEPT ![i] = p]
    /\ t.panic \in {s.panic, "ilock"}
    /\ t.panic = "no" <=> s.panic = "no" /\ (s.mem[i].valid \/ s.disk[i].type # "none")
\* ilock takes the lock and loads the inode when the entry is not valid.
LEMMA Ilock ==
  ASSUME NEW s \in FsRec, NEW i \in Inums, NEW p \in Procs
  PROVE  IlockDoes(s, i, p, ilock(s, i, p))
<1> DEFINE t == [s EXCEPT !.lock[i] = p,
                          !.mem[i] = IF @.valid THEN @
                                     ELSE [valid |-> TRUE, type |-> s.disk[i].type, nlink |-> s.disk[i].nlink]]
<1>1. ilock(s, i, p) = IF ~s.mem[i].valid /\ s.disk[i].type = "none" THEN panic(t, "ilock") ELSE t
  BY Zenon DEF ilock
<1>2. t.mem = [s.mem EXCEPT ![i] = Loaded(s, i)] /\ t.lock = [s.lock EXCEPT ![i] = p]
  BY Zenon DEF FsRec, Loaded
<1>3. t.disk = s.disk /\ t.dir = s.dir /\ t.ref = s.ref /\ t.panic = s.panic
  BY Zenon DEF FsRec
<1>4. Loaded(s, i) \in MemRec
  <2>1. s.mem[i] \in MemRec /\ s.disk[i] \in DiskRec
    BY FsParts, Zenon
  <2>2. [valid |-> TRUE, type |-> s.disk[i].type, nlink |-> s.disk[i].nlink] \in MemRec
    BY <2>1, Zenon DEF MemRec, DiskRec
  <2> QED
    BY <2>1, <2>2, Zenon DEF Loaded
<1>5. t.mem \in [Inums -> MemRec] /\ t.lock \in [Inums -> Procs \cup {NoProc}]
  <2> HIDE DEF t
  <2>1. s.mem \in [Inums -> MemRec] /\ s.lock \in [Inums -> Procs \cup {NoProc}]
    BY FsParts, Zenon
  <2> QED
    BY <1>2, <1>4, <2>1
<1>6. t \in FsRec
  BY <1>5, Zenon DEF FsRec
<1> HIDE DEF t
<1>7. CASE ~s.mem[i].valid /\ s.disk[i].type = "none"
  <2> DEFINE u == panic(t, "ilock")
  <2>1. ilock(s, i, p) = u
    BY <1>1, <1>7, Zenon
  <2>2. u.panic = (IF s.panic = "no" THEN "ilock" ELSE s.panic)
    BY <1>3, <1>6, PanicDoes, ZenonT(60)
  <2>3. u \in FsRec /\ u.disk = t.disk /\ u.dir = t.dir /\ u.ref = t.ref /\ u.mem = t.mem /\ u.lock = t.lock
    BY <1>6, PanicDoes, Zenon
  <2> HIDE DEF u
  <2>4. u.panic # "no" /\ u.panic \in {s.panic, "ilock"}
    BY <2>2
  <2>5. IlockDoes(s, i, p, u)
    <3>1. u.disk = s.disk /\ u.dir = s.dir /\ u.ref = s.ref /\ u.mem = [s.mem EXCEPT ![i] = Loaded(s, i)] /\ u.lock = [s.lock EXCEPT ![i] = p]
      BY <2>3, <1>2, <1>3, Zenon
    <3> QED
      BY <1>7, <2>3, <2>4, <3>1, Zenon DEF IlockDoes
  <2> QED
    BY <2>1, <2>5, Zenon
<1>8. CASE ~(~s.mem[i].valid /\ s.disk[i].type = "none")
  BY <1>1, <1>2, <1>3, <1>6, <1>8, Zenon DEF IlockDoes
<1> QED
  BY <1>7, <1>8, Zenon

UnlockDoes(s, i, t) ==
    /\ t \in FsRec /\ t.disk = s.disk /\ t.dir = s.dir /\ t.ref = s.ref /\ t.mem = s.mem
    /\ t.lock = [s.lock EXCEPT ![i] = NoProc] /\ t.panic = s.panic
\* iunlock changes nothing but the lock.
LEMMA Iunlock ==
  ASSUME NEW s \in FsRec, NEW i \in Inums
  PROVE  UnlockDoes(s, i, iunlock(s, i))
<1> DEFINE t == iunlock(s, i)
<1>1. t.lock = [s.lock EXCEPT ![i] = NoProc]
  BY Zenon DEF FsRec, iunlock
<1>2. t.lock \in [Inums -> Procs \cup {NoProc}]
  BY <1>1, FsParts
<1>3. t.disk = s.disk /\ t.dir = s.dir /\ t.ref = s.ref /\ t.mem = s.mem /\ t.panic = s.panic
  BY Zenon DEF FsRec, iunlock
<1>4. t \in FsRec
  BY <1>2, Zenon DEF FsRec, iunlock
<1> QED
  BY <1>1, <1>3, <1>4, Zenon DEF UnlockDoes

\* Written through: an inode's new type and link count
WriteDoes(s, i, ty, n, t) ==
    /\ t \in FsRec /\ t.dir = s.dir /\ t.ref = s.ref /\ t.lock = s.lock /\ t.panic = s.panic
    /\ t.disk = [s.disk EXCEPT ![i] = [type |-> ty, nlink |-> n]]
    /\ t.mem[i].valid = s.mem[i].valid /\ t.mem[i].type = ty /\ t.mem[i].nlink = n
    /\ \A j \in Inums \ {i} : t.mem[j] = s.mem[j]
\* iupdate writes one inode, on disk and in the cache.
LEMMA Iupdate ==
  ASSUME NEW s \in FsRec, NEW i \in Inums, NEW ty \in Types, NEW n \in Int
  PROVE  WriteDoes(s, i, ty, n, iupdate(s, i, ty, n))
<1> DEFINE t == iupdate(s, i, ty, n)
<1>1. t.disk = [s.disk EXCEPT ![i] = [type |-> ty, nlink |-> n]]
  BY Zenon DEF FsRec, iupdate
<1> DEFINE m == [[s.mem[i] EXCEPT !.type = ty] EXCEPT !.nlink = n]
<1>2. m \in MemRec /\ m.valid = s.mem[i].valid /\ m.type = ty /\ m.nlink = n
  <2>1. s.mem[i] \in MemRec
    BY FsParts, Zenon
  <2> QED
    BY <2>1, Zenon DEF MemRec
<1>3. t.mem = [s.mem EXCEPT ![i] = m]
  BY FsParts, Zenon DEF FsRec, MemRec, iupdate
<1> HIDE DEF m
<1>4. /\ t.mem[i].valid = s.mem[i].valid /\ t.mem[i].type = ty /\ t.mem[i].nlink = n
      /\ \A j \in Inums \ {i} : t.mem[j] = s.mem[j]
  BY <1>2, <1>3, FsParts, Zenon
<1>5. t.disk \in [Inums -> DiskRec] /\ t.mem \in [Inums -> MemRec]
  <2>1. [type |-> ty, nlink |-> n] \in DiskRec
    BY Zenon DEF DiskRec
  <2>2. s.mem \in [Inums -> MemRec] /\ s.disk \in [Inums -> DiskRec]
    BY FsParts, Zenon
  <2> HIDE DEF t
  <2> QED
    BY <1>1, <1>2, <1>3, <2>1, <2>2
<1>6. t.dir = s.dir /\ t.ref = s.ref /\ t.lock = s.lock /\ t.panic = s.panic
  BY Zenon DEF FsRec, iupdate
<1>7. t \in FsRec
  BY <1>5, Zenon DEF FsRec, iupdate
<1> QED
  BY <1>1, <1>4, <1>6, <1>7, Zenon DEF WriteDoes

\* A function with one value replaced.
LEMMA FnSet == \A S, T, f, x, v : f \in [S -> T] /\ v \in T => [f EXCEPT ![x] = v] \in [S -> T]
  BY Zenon

\* An entry of a directory
EntryDoes(s, d, n, j, t) ==
    /\ t \in FsRec /\ t.disk = s.disk /\ t.ref = s.ref /\ t.mem = s.mem /\ t.lock = s.lock /\ t.panic = s.panic
    /\ \A e \in Inums, m \in AllNames : t.dir[e][m] = IF e = d /\ m = n THEN j ELSE s.dir[e][m]
\* dirlink writes one entry.
LEMMA Dirlink ==
  ASSUME NEW s \in FsRec, NEW d \in Inums, NEW n \in AllNames, NEW j \in Ptr
  PROVE  EntryDoes(s, d, n, j, dirlink(s, d, n, j))
<1> DEFINE t == dirlink(s, d, n, j)
           e == [s.dir[d] EXCEPT ![n] = j]
<1>1. t.dir = [s.dir EXCEPT ![d] = e]
  BY Zenon DEF FsRec, dirlink
<1>2. s.dir \in [Inums -> DirRec]
  BY FsParts, Zenon
<1>3. e \in DirRec
  BY <1>2 DEF DirRec
<1>4. t.disk = s.disk /\ t.ref = s.ref /\ t.mem = s.mem /\ t.lock = s.lock /\ t.panic = s.panic
  BY Zenon DEF FsRec, dirlink
<1>5. t.dir \in [Inums -> DirRec]
  <2> HIDE DEF t, e
  <2> QED
    BY <1>1, <1>2, <1>3
<1>6. t \in FsRec
  BY <1>5, Zenon DEF FsRec, dirlink
<1>7. \A b \in Inums, m \in AllNames : t.dir[b][m] = IF b = d /\ m = n THEN j ELSE s.dir[b][m]
  <2> HIDE DEF t
  <2>1. \A m \in AllNames : e[m] = IF m = n THEN j ELSE s.dir[d][m]
    BY <1>2 DEF DirRec
  <2> HIDE DEF e
  <2> QED
    BY <1>1, <1>2, <2>1
<1> QED
  BY <1>4, <1>6, <1>7, Zenon DEF EntryDoes

\* A free inode is found, if there is one.
LEMMA FirstFreeIs ==
  ASSUME SetFacts, NEW s \in FsRec, Free(s) # {}
  PROVE  FirstFree(s) \in Inums /\ s.disk[FirstFree(s)].type = "none"
<1>1. Free(s) \in SUBSET Nat
  BY DEF Free, Inums
<1>2. \E x \in Free(s) : \A y \in Free(s) : x <= y
  BY <1>1, Zenon DEF SetFacts
<1>3. FirstFree(s) \in Free(s)
  BY <1>2, Zenon DEF FirstFree
<1> QED
  BY <1>3, Zenon DEF Free

AllocDoes(s, ty, t) ==
    /\ t \in FsRec /\ t.dir = s.dir /\ t.mem = s.mem /\ t.lock = s.lock
    /\ t.panic \in {s.panic, "iget", "ialloc"}
    /\ \/ t.disk = s.disk /\ t.panic # "no"
       \/ /\ Free(s) # {} /\ t.disk = [s.disk EXCEPT ![FirstFree(s)] = [type |-> ty, nlink |-> 0]]
          /\ t.panic = "no" => s.panic = "no" /\ t.ref = [s.ref EXCEPT ![FirstFree(s)] = s.ref[FirstFree(s)] + 1]

\* ialloc takes the first free inode, or panics.
LEMMA Ialloc ==
  ASSUME SetFacts, NEW s \in FsRec, NEW ty \in Types
  PROVE  AllocDoes(s, ty, ialloc(s, ty))
<1>1. CASE Free(s) = {}
  <2> DEFINE t == panic(s, "ialloc")
  <2>1. ialloc(s, ty) = t
    BY <1>1, Zenon DEF ialloc
  <2>2. /\ t \in FsRec /\ t.disk = s.disk /\ t.dir = s.dir /\ t.mem = s.mem /\ t.lock = s.lock
        /\ t.panic = IF s.panic = "no" THEN "ialloc" ELSE s.panic
    BY PanicDoes
  <2> HIDE DEF t
  <2>3. t.panic # "no" /\ t.panic \in {s.panic, "iget", "ialloc"}
    BY <2>2
  <2> QED
    BY <2>1, <2>2, <2>3, Zenon DEF AllocDoes
<1>2. CASE Free(s) # {}
  <2>1. PICK f : f = FirstFree(s)
    BY Zenon
  <2>2. f \in Inums
    BY <1>2, <2>1, FirstFreeIs, Zenon
  <2> DEFINE u == [s EXCEPT !.disk[f] = [type |-> ty, nlink |-> 0]]
  <2>3. u.disk = [s.disk EXCEPT ![f] = [type |-> ty, nlink |-> 0]]
    BY Zenon DEF FsRec
  <2>4. u.dir = s.dir /\ u.ref = s.ref /\ u.mem = s.mem /\ u.lock = s.lock /\ u.panic = s.panic
    BY Zenon DEF FsRec
  <2>5. u.disk \in [Inums -> DiskRec]
    <3>0. 0 \in Int
      OBVIOUS
    <3>1. PICK r \in DiskRec : r = [type |-> ty, nlink |-> 0]
      BY <3>0, Zenon DEF DiskRec
    <3>2. s.disk \in [Inums -> DiskRec]
      BY FsParts, Zenon
    <3>3. u.disk = [s.disk EXCEPT ![f] = r]
      BY <2>3, <3>1, Zenon
    <3> HIDE DEF u
    <3> QED
      BY <3>2, <3>3, FnSet, Zenon
  <2>6. u \in FsRec
    BY <2>5, Zenon DEF FsRec
  <2>7. ialloc(s, ty) = iget(u, f)
    BY <1>2, <2>1, Zenon DEF ialloc
  <2> HIDE DEF u
  <2>8. IgetDoes(u, f, iget(u, f))
    BY <2>2, <2>6, Iget, Zenon
  <2> QED
    BY <1>2, <2>1, <2>3, <2>4, <2>7, <2>8, Zenon DEF IgetDoes, AllocDoes
<1> QED
  BY <1>1, <1>2, Zenon

----
(***************************************************************************)
(* Counting the pointers.                                                  *)
(***************************************************************************)
One(x, i) == IF x = i THEN 1 ELSE 0
\* A set of processes that changes at most by p
LEMMA CountAt ==
  ASSUME SetFacts, NEW A \in SUBSET Procs, NEW B \in SUBSET Procs, NEW p \in Procs,
         \A q \in Procs : q # p => (q \in A <=> q \in B)
  PROVE  Cardinality(B) = Cardinality(A) - (IF p \in A THEN 1 ELSE 0) + (IF p \in B THEN 1 ELSE 0)
<1>1. IsFiniteSet(Procs)
  BY InodeAssumption, Zenon
<1>2. PICK C : C = A \ {p}
  BY Zenon
<1>3. IsFiniteSet(C) /\ p \notin C /\ Cardinality(C) \in Int
  <2>1. C \subseteq Procs /\ p \notin C
    BY <1>2, Zenon
  <2>2. IsFiniteSet(C) /\ Cardinality(C) \in Nat
    BY <1>1, <2>1, Zenon DEF SetFacts
  <2> QED
    BY <2>1, <2>2
<1>4. Cardinality(C \cup {p}) = Cardinality(C) + 1
  BY <1>3, Zenon DEF SetFacts
<1>5. A = C \/ A = C \cup {p}
  BY <1>2
<1>b. B \ {p} = C
  BY <1>2
<1>6. B = C \/ B = C \cup {p}
  BY <1>b
<1>7. A = C \cup {p} <=> p \in A
  BY <1>3, <1>5, Zenon
<1>8. B = C \cup {p} <=> p \in B
  BY <1>3, <1>6, Zenon
<1>9. Cardinality(A) = Cardinality(C) + (IF p \in A THEN 1 ELSE 0)
  <2>1. CASE p \in A
    BY <2>1, <1>4, <1>7
  <2>2. CASE p \notin A
    BY <2>2, <1>3, <1>5, <1>7
  <2> QED
    BY <2>1, <2>2, Zenon
<1>10. Cardinality(B) = Cardinality(C) + (IF p \in B THEN 1 ELSE 0)
  <2>1. CASE p \in B
    BY <2>1, <1>4, <1>8
  <2>2. CASE p \notin B
    BY <2>2, <1>3, <1>6, <1>8
  <2> QED
    BY <2>1, <2>2, Zenon
<1> QED
  BY <1>3, <1>9, <1>10

\* The processes with value i in a local variable, before and after a step of p
LEMMA CountOf ==
  ASSUME SetFacts, NEW f \in [Procs -> Ptr], NEW g \in [Procs -> Ptr], NEW p \in Procs, NEW i,
         \A q \in Procs : q # p => f[q] = g[q]
  PROVE  Cardinality({q \in Procs : g[q] = i}) = Cardinality({q \in Procs : f[q] = i}) - One(f[p], i) + One(g[p], i)
<1>1. PICK A : A = {q \in Procs : f[q] = i}
  BY Zenon
<1>2. PICK B : B = {q \in Procs : g[q] = i}
  BY Zenon
<1>3. \A q \in Procs : q # p => (q \in A <=> q \in B)
  BY <1>1, <1>2, Zenon
<1>4. A \in SUBSET Procs /\ B \in SUBSET Procs
  BY <1>1, <1>2, Zenon
<1>5. Cardinality(B) = Cardinality(A) - (IF p \in A THEN 1 ELSE 0) + (IF p \in B THEN 1 ELSE 0)
  BY <1>3, <1>4, CountAt, Zenon
<1>6. (p \in A <=> f[p] = i) /\ (p \in B <=> g[p] = i)
  BY <1>1, <1>2, Zenon
<1>7. (IF p \in A THEN 1 ELSE 0) = One(f[p], i) /\ (IF p \in B THEN 1 ELSE 0) = One(g[p], i)
  BY <1>6, Zenon DEF One
<1> QED
  BY <1>1, <1>2, <1>5, <1>7, Zenon

\* Process p goes on with r as its call, w as its directory and o as its file.
Moves(p, r, w, o) ==
    /\ r \in CallRec /\ w \in Inums /\ o \in Ptr /\ (r.stage # "lock" => r.put # 0)
    /\ c' = [c EXCEPT ![p] = r] /\ cwd' = [cwd EXCEPT ![p] = w] /\ ofile' = [ofile EXCEPT ![p] = o] /\ mix' = mix
MovesFacts(p, r, w, o) ==
    /\ c'[p] = r /\ cwd'[p] = w /\ ofile'[p] = o
    /\ \A q \in Procs : q # p => c'[q] = c[q] /\ cwd'[q] = cwd[q] /\ ofile'[q] = ofile[q]
    /\ CType' /\ cwd' \in [Procs -> Inums] /\ ofile' \in [Procs -> Ptr] /\ mix' \in Mixes
\* What a step of process p leaves as it was.
LEMMA Moved ==
  ASSUME IType, NEW p \in Procs, NEW r, NEW w, NEW o, Moves(p, r, w, o)
  PROVE  MovesFacts(p, r, w, o)
<1>1. /\ c \in [Procs -> CallRec] /\ (\A q \in Procs : c[q].stage # "lock" => c[q].put # 0)
      /\ cwd \in [Procs -> Inums] /\ ofile \in [Procs -> Ptr] /\ mix \in Mixes
  BY Zenon DEF IType, CType
<1>2. /\ r \in CallRec /\ w \in Inums /\ o \in Ptr /\ (r.stage # "lock" => r.put # 0)
      /\ c' = [c EXCEPT ![p] = r] /\ cwd' = [cwd EXCEPT ![p] = w] /\ ofile' = [ofile EXCEPT ![p] = o] /\ mix' = mix
  BY Zenon DEF Moves
<1>3. c'[p] = r /\ cwd'[p] = w /\ ofile'[p] = o
  BY <1>1, <1>2, Zenon
<1>4. \A q \in Procs : q # p => c'[q] = c[q] /\ cwd'[q] = cwd[q] /\ ofile'[q] = ofile[q]
  BY <1>1, <1>2, Zenon
<1>5. c' \in [Procs -> CallRec] /\ cwd' \in [Procs -> Inums] /\ ofile' \in [Procs -> Ptr] /\ mix' \in Mixes
  BY <1>1, <1>2, FnSet, Zenon
<1>6. \A q \in Procs : c'[q].stage # "lock" => c'[q].put # 0
  BY <1>1, <1>2, <1>3, <1>4, Zenon
<1> QED
  BY <1>3, <1>4, <1>5, <1>6, Zenon DEF MovesFacts, CType

\* The pointers to i that a process has
Owns(r, w, o, i) == One(r.ip, i) + One(r.dp, i) + One(r.old, i) + One(r.put, i) + One(w, i) + One(o, i)
PointersMove(p, r, w, o, i) ==
    /\ Pointers(i) \in Int
    /\ Pointers(i)' = Pointers(i) - Owns(c[p], cwd[p], ofile[p], i) + Owns(r, w, o, i)
\* The pointers to an inode change by what process p takes and gives back.
LEMMA PointersStep ==
  ASSUME IType, NEW p \in Procs, NEW r, NEW w, NEW o, Moves(p, r, w, o), NEW i
  PROVE  PointersMove(p, r, w, o, i)
<1>1. MovesFacts(p, r, w, o)
  BY Moved, Zenon
<1>2. SetFacts /\ c \in [Procs -> CallRec] /\ cwd \in [Procs -> Inums] /\ ofile \in [Procs -> Ptr]
  BY Zenon DEF IType, CType
<1>3. c' \in [Procs -> CallRec] /\ cwd' \in [Procs -> Inums] /\ ofile' \in [Procs -> Ptr]
  BY <1>1, Zenon DEF MovesFacts, CType
<1>4. /\ c'[p] = r /\ cwd'[p] = w /\ ofile'[p] = o
      /\ \A q \in Procs : q # p => c'[q] = c[q] /\ cwd'[q] = cwd[q] /\ ofile'[q] = ofile[q]
  BY <1>1, Zenon DEF MovesFacts
<1>5. Inums \subseteq Ptr
  BY DEF Inums, Ptr
<1>6. Cardinality({q \in Procs : c'[q].ip = i}) = Cardinality({q \in Procs : c[q].ip = i}) - One(c[p].ip, i) + One(r.ip, i)
  <2>1. PICK f \in [Procs -> Ptr] : f = [q \in Procs |-> c[q].ip]
    BY <1>2, Zenon DEF CallRec
  <2>2. PICK g \in [Procs -> Ptr] : g = [q \in Procs |-> c'[q].ip]
    BY <1>3, Zenon DEF CallRec
  <2>3. \A q \in Procs : f[q] = c[q].ip /\ g[q] = c'[q].ip
    BY <2>1, <2>2, Zenon
  <2>4. \A q \in Procs : q # p => f[q] = g[q]
    BY <2>3, <1>4, Zenon
  <2>5. Cardinality({q \in Procs : g[q] = i}) = Cardinality({q \in Procs : f[q] = i}) - One(f[p], i) + One(g[p], i)
    BY <1>2, <2>4, CountOf, ZenonT(60)
  <2>6. {q \in Procs : g[q] = i} = {q \in Procs : c'[q].ip = i} /\ {q \in Procs : f[q] = i} = {q \in Procs : c[q].ip = i}
    BY <2>3, Zenon
  <2>7. f[p] = c[p].ip /\ g[p] = r.ip
    BY <2>3, <1>4, Zenon
  <2> QED
    BY <2>5, <2>6, <2>7, Zenon
<1>7. Cardinality({q \in Procs : c'[q].dp = i}) = Cardinality({q \in Procs : c[q].dp = i}) - One(c[p].dp, i) + One(r.dp, i)
  <2>1. PICK f \in [Procs -> Ptr] : f = [q \in Procs |-> c[q].dp]
    BY <1>2, Zenon DEF CallRec
  <2>2. PICK g \in [Procs -> Ptr] : g = [q \in Procs |-> c'[q].dp]
    BY <1>3, Zenon DEF CallRec
  <2>3. \A q \in Procs : f[q] = c[q].dp /\ g[q] = c'[q].dp
    BY <2>1, <2>2, Zenon
  <2>4. \A q \in Procs : q # p => f[q] = g[q]
    BY <2>3, <1>4, Zenon
  <2>5. Cardinality({q \in Procs : g[q] = i}) = Cardinality({q \in Procs : f[q] = i}) - One(f[p], i) + One(g[p], i)
    BY <1>2, <2>4, CountOf, ZenonT(60)
  <2>6. {q \in Procs : g[q] = i} = {q \in Procs : c'[q].dp = i} /\ {q \in Procs : f[q] = i} = {q \in Procs : c[q].dp = i}
    BY <2>3, Zenon
  <2>7. f[p] = c[p].dp /\ g[p] = r.dp
    BY <2>3, <1>4, Zenon
  <2> QED
    BY <2>5, <2>6, <2>7, Zenon
<1>8. Cardinality({q \in Procs : c'[q].old = i}) = Cardinality({q \in Procs : c[q].old = i}) - One(c[p].old, i) + One(r.old, i)
  <2>1. PICK f \in [Procs -> Ptr] : f = [q \in Procs |-> c[q].old]
    BY <1>2, Zenon DEF CallRec
  <2>2. PICK g \in [Procs -> Ptr] : g = [q \in Procs |-> c'[q].old]
    BY <1>3, Zenon DEF CallRec
  <2>3. \A q \in Procs : f[q] = c[q].old /\ g[q] = c'[q].old
    BY <2>1, <2>2, Zenon
  <2>4. \A q \in Procs : q # p => f[q] = g[q]
    BY <2>3, <1>4, Zenon
  <2>5. Cardinality({q \in Procs : g[q] = i}) = Cardinality({q \in Procs : f[q] = i}) - One(f[p], i) + One(g[p], i)
    BY <1>2, <2>4, CountOf, Zenon
  <2>6. {q \in Procs : g[q] = i} = {q \in Procs : c'[q].old = i} /\ {q \in Procs : f[q] = i} = {q \in Procs : c[q].old = i}
    BY <2>3, Zenon
  <2>7. f[p] = c[p].old /\ g[p] = r.old
    BY <2>3, <1>4, Zenon
  <2> QED
    BY <2>5, <2>6, <2>7, Zenon
<1>9. Cardinality({q \in Procs : c'[q].put = i}) = Cardinality({q \in Procs : c[q].put = i}) - One(c[p].put, i) + One(r.put, i)
  <2>1. PICK f \in [Procs -> Ptr] : f = [q \in Procs |-> c[q].put]
    BY <1>2, Zenon DEF CallRec
  <2>2. PICK g \in [Procs -> Ptr] : g = [q \in Procs |-> c'[q].put]
    BY <1>3, Zenon DEF CallRec
  <2>3. \A q \in Procs : f[q] = c[q].put /\ g[q] = c'[q].put
    BY <2>1, <2>2, Zenon
  <2>4. \A q \in Procs : q # p => f[q] = g[q]
    BY <2>3, <1>4, Zenon
  <2>5. Cardinality({q \in Procs : g[q] = i}) = Cardinality({q \in Procs : f[q] = i}) - One(f[p], i) + One(g[p], i)
    BY <1>2, <2>4, CountOf, Zenon
  <2>6. {q \in Procs : g[q] = i} = {q \in Procs : c'[q].put = i} /\ {q \in Procs : f[q] = i} = {q \in Procs : c[q].put = i}
    BY <2>3, Zenon
  <2>7. f[p] = c[p].put /\ g[p] = r.put
    BY <2>3, <1>4, Zenon
  <2> QED
    BY <2>5, <2>6, <2>7, Zenon
<1>10. Cardinality({q \in Procs : cwd'[q] = i}) = Cardinality({q \in Procs : cwd[q] = i}) - One(cwd[p], i) + One(w, i)
  <2>1. PICK f \in [Procs -> Ptr] : f = cwd
    BY <1>2, <1>5, Zenon
  <2>2. PICK g \in [Procs -> Ptr] : g = cwd'
    BY <1>3, <1>5, Zenon
  <2>3. \A q \in Procs : q # p => f[q] = g[q]
    BY <2>1, <2>2, <1>4, Zenon
  <2>4. Cardinality({q \in Procs : g[q] = i}) = Cardinality({q \in Procs : f[q] = i}) - One(f[p], i) + One(g[p], i)
    BY <1>2, <2>3, CountOf, Zenon
  <2> QED
    BY <2>1, <2>2, <2>4, <1>4, Zenon
<1>11. Cardinality({q \in Procs : ofile'[q] = i}) = Cardinality({q \in Procs : ofile[q] = i}) - One(ofile[p], i) + One(o, i)
  <2>1. PICK f \in [Procs -> Ptr] : f = ofile
    BY <1>2, <1>5, Zenon
  <2>2. PICK g \in [Procs -> Ptr] : g = ofile'
    BY <1>3, <1>5, Zenon
  <2>3. \A q \in Procs : q # p => f[q] = g[q]
    BY <2>1, <2>2, <1>4, Zenon
  <2>4. Cardinality({q \in Procs : g[q] = i}) = Cardinality({q \in Procs : f[q] = i}) - One(f[p], i) + One(g[p], i)
    BY <1>2, <2>3, CountOf, Zenon
  <2> QED
    BY <2>1, <2>2, <2>4, <1>4, Zenon
<1>12. \A S \in SUBSET Procs : Cardinality(S) \in Int
  <2>1. IsFiniteSet(Procs)
    BY InodeAssumption, Zenon
  <2>2. \A n \in Nat : n \in Int
    OBVIOUS
  <2> QED
    BY <1>2, <2>1, <2>2, Zenon DEF SetFacts
<1>13. \A x : One(x, i) \in Int
  BY DEF One
<1>14. PICK a1 \in Int : a1 = Cardinality({q \in Procs : c[q].ip = i})
  BY <1>12, Zenon
<1>15. PICK a2 \in Int : a2 = Cardinality({q \in Procs : c[q].dp = i})
  BY <1>12, Zenon
<1>16. PICK a3 \in Int : a3 = Cardinality({q \in Procs : c[q].old = i})
  BY <1>12, Zenon
<1>17. PICK a4 \in Int : a4 = Cardinality({q \in Procs : c[q].put = i})
  BY <1>12, Zenon
<1>18. PICK a5 \in Int : a5 = Cardinality({q \in Procs : cwd[q] = i})
  BY <1>12, Zenon
<1>19. PICK a6 \in Int : a6 = Cardinality({q \in Procs : ofile[q] = i})
  BY <1>12, Zenon
<1>20. Pointers(i) = a1 + a2 + a3 + a4 + a5 + a6
  BY <1>14, <1>15, <1>16, <1>17, <1>18, <1>19, Zenon DEF Pointers
<1>21. Pointers(i)' = (a1 - One(c[p].ip, i) + One(r.ip, i)) + (a2 - One(c[p].dp, i) + One(r.dp, i))
      + (a3 - One(c[p].old, i) + One(r.old, i)) + (a4 - One(c[p].put, i) + One(r.put, i))
      + (a5 - One(cwd[p], i) + One(w, i)) + (a6 - One(ofile[p], i) + One(o, i))
  BY <1>6, <1>7, <1>8, <1>9, <1>10, <1>11, <1>14, <1>15, <1>16, <1>17, <1>18, <1>19, Zenon DEF Pointers
<1>22. /\ One(c[p].ip, i) \in Int /\ One(c[p].dp, i) \in Int /\ One(c[p].old, i) \in Int /\ One(c[p].put, i) \in Int
      /\ One(cwd[p], i) \in Int /\ One(ofile[p], i) \in Int /\ One(r.ip, i) \in Int /\ One(r.dp, i) \in Int
      /\ One(r.old, i) \in Int /\ One(r.put, i) \in Int /\ One(w, i) \in Int /\ One(o, i) \in Int
  BY <1>13, Zenon
<1> HIDE DEF Pointers, One
<1> QED
  BY <1>20, <1>21, <1>22 DEF Owns, PointersMove

----
(***************************************************************************)
(* What keeps the invariant of the cache.                                  *)
(***************************************************************************)
\* An inode whose lock is free, or belongs to a call that frees nothing, is
\* not being freed.
LEMMA NotDying ==
  ASSUME IType, LockInv, NEW p \in Procs, NEW i \in Inums, fs.lock[i] \in {p, NoProc}, c[p].stage = "lock"
  PROVE  ~Dying(i)
<1> SUFFICES ASSUME NEW q \in Procs, c[q].put = i, c[q].stage = "inval" PROVE FALSE
  BY Zenon DEF Dying
<1>1. fs.lock[i] = q
  BY Zenon DEF LockInv, Held
<1>2. q # p
  OBVIOUS
<1> QED
  BY <1>1, <1>2, InodeAssumption, Zenon

\* A step of p may do this to inode i in the cache: nothing; leave what the
\* disk has; or leave an inode that is being freed as it is.
Good(s, i) == /\ s.mem[i].valid /\ s.lock[i] = NoProc => Same(s, i)
              /\ s.mem[i].valid /\ s.panic = "no" => Same(s, i) /\ s.mem[i].type # "none"
MemCase(s, t, i) ==
    \/ t.mem[i] = s.mem[i] /\ t.disk[i] = s.disk[i] /\ t.lock[i] = s.lock[i]
    \/ Good(t, i)
    \/ t.mem[i] = s.mem[i] /\ t.lock[i] = s.lock[i] /\ (s.mem[i].valid => Dying(i))
\* A step that changes valid entries only together with the disk keeps them true.
LEMMA MemStep ==
  ASSUME IType, WriteThrough, LockInv, MemInv, NEW p \in Procs, NEW r, NEW w, NEW o, Moves(p, r, w, o),
         c[p].stage = "lock", r.stage = "lock", fs.panic = "no", \A i \in Inums : MemCase(fs, fs', i)
  PROVE  WriteThrough' /\ (fs'.panic = "no" => MemInv')
<1>1. MovesFacts(p, r, w, o)
  BY Moved, Zenon
<1>2. \A i \in Inums : Dying(i) => Dying(i)'
  <2> SUFFICES ASSUME NEW i \in Inums, NEW q \in Procs, c[q].put = i, c[q].stage = "inval" PROVE Dying(i)'
    BY Zenon DEF Dying
  <2>1. q # p
    OBVIOUS
  <2>2. c'[q] = c[q]
    BY <1>1, <2>1, Zenon DEF MovesFacts
  <2> QED
    BY <2>2, Zenon DEF Dying
<1>3. \A i \in Inums : Dying(i) => fs.lock[i] # NoProc
  <2> SUFFICES ASSUME NEW i \in Inums, NEW q \in Procs, c[q].put = i, c[q].stage = "inval" PROVE fs.lock[i] # NoProc
    BY Zenon DEF Dying
  <2>1. fs.lock[i] = q
    BY Zenon DEF LockInv, Held
  <2> QED
    BY <2>1, InodeAssumption, Zenon
<1>4. ASSUME NEW i \in Inums, fs'.mem[i].valid, fs'.lock[i] = NoProc
      PROVE  Same(fs', i)
  <2>1. CASE fs'.mem[i] = fs.mem[i] /\ fs'.disk[i] = fs.disk[i] /\ fs'.lock[i] = fs.lock[i]
    BY <1>4, <2>1, Zenon DEF WriteThrough, Same
  <2>2. CASE Good(fs', i)
    BY <1>4, <2>2, Zenon DEF Good
  <2>3. CASE fs'.mem[i] = fs.mem[i] /\ fs'.lock[i] = fs.lock[i] /\ (fs.mem[i].valid => Dying(i))
    BY <1>3, <1>4, <2>3, Zenon
  <2> QED
    BY <2>1, <2>2, <2>3, Zenon DEF MemCase
<1>5. ASSUME fs'.panic = "no", NEW i \in Inums, fs'.mem[i].valid
      PROVE  Dying(i)' \/ (Same(fs', i) /\ fs'.mem[i].type # "none")
  <2>1. CASE fs'.mem[i] = fs.mem[i] /\ fs'.disk[i] = fs.disk[i] /\ fs'.lock[i] = fs.lock[i]
    BY <1>2, <1>5, <2>1, Zenon DEF MemInv, Same
  <2>2. CASE Good(fs', i)
    BY <1>5, <2>2, Zenon DEF Good
  <2>3. CASE fs'.mem[i] = fs.mem[i] /\ fs'.lock[i] = fs.lock[i] /\ (fs.mem[i].valid => Dying(i))
    BY <1>2, <1>5, <2>3, Zenon
  <2> QED
    BY <2>1, <2>2, <2>3, Zenon DEF MemCase
<1>6. WriteThrough'
  BY <1>4, Zenon DEF WriteThrough, Same
<1>7. fs'.panic = "no" => MemInv'
  BY <1>5, Zenon DEF MemInv
<1> QED
  BY <1>6, <1>7, Zenon

\* The locks follow the call of p, and the counts its pointers.
LocksMove(p, r) == \A i \in Inums : /\ fs'.lock[i] = p <=> i \in Held(r)
                                    /\ fs'.lock[i] # fs.lock[i] => fs.lock[i] \in {NoProc, p} /\ fs'.lock[i] \in {NoProc, p}
RefsMove(p, r, w, o) == \A i \in Inums :
    fs'.ref[i] = fs.ref[i] - Owns(c[p], cwd[p], ofile[p], i) + Owns(r, w, o, i)
\* What is to be shown of a step of process p for CacheInv.
LEMMA CacheStep ==
  ASSUME CacheInv, NEW p \in Procs, NEW r, NEW w, NEW o, Moves(p, r, w, o), fs' \in FsRec, WriteThrough',
         fs'.panic = "no" => /\ fs.panic = "no" /\ Shape(r) /\ MemInv'
                             /\ LocksMove(p, r) /\ RefsMove(p, r, w, o)
  PROVE  CacheInv'
<1>1. MovesFacts(p, r, w, o)
  BY Moved, Zenon DEF CacheInv
<1>2. IType'
  BY <1>1, Zenon DEF MovesFacts, IType, CacheInv
<1>3. ASSUME fs'.panic = "no" PROVE (RefsCounted /\ ShapeInv /\ LockInv)'
  <2>1. RefsCounted /\ ShapeInv /\ LockInv /\ IType /\ fs.panic = "no"
    BY <1>3, Zenon DEF CacheInv
  <2>2. ShapeInv'
    BY <1>1, <1>3, <2>1, Zenon DEF ShapeInv, MovesFacts
  <2>3. LockInv'
    <3> SUFFICES ASSUME NEW q \in Procs, NEW i \in Inums PROVE fs'.lock[i] = q <=> i \in Held(c'[q])
      BY Zenon DEF LockInv, Held
    <3>1. CASE q = p
      BY <1>1, <1>3, <3>1, Zenon DEF LocksMove, MovesFacts
    <3>2. CASE q # p
      <4>1. c'[q] = c[q]
        BY <1>1, <3>2, Zenon DEF MovesFacts
      <4>2. fs.lock[i] = q <=> i \in Held(c[q])
        BY <2>1, Zenon DEF LockInv
      <4>3. fs'.lock[i] = q <=> fs.lock[i] = q
        <5>1. q # NoProc
          BY InodeAssumption, Zenon
        <5>2. fs'.lock[i] # fs.lock[i] => fs.lock[i] \in {NoProc, p} /\ fs'.lock[i] \in {NoProc, p}
          BY <1>3, Zenon DEF LocksMove
        <5> QED
          BY <3>2, <5>1, <5>2, Zenon
      <4> QED
        BY <4>1, <4>2, <4>3, Zenon
    <3> QED
      BY <3>1, <3>2, Zenon
  <2>4. RefsCounted'
    <3> SUFFICES ASSUME NEW i \in Inums PROVE fs'.ref[i] = Pointers(i)'
      BY Zenon DEF RefsCounted
    <3>1. fs.ref[i] = Pointers(i)
      BY <2>1, Zenon DEF RefsCounted
    <3>2. Pointers(i)' = Pointers(i) - Owns(c[p], cwd[p], ofile[p], i) + Owns(r, w, o, i)
      <4>1. PointersMove(p, r, w, o, i)
        BY <2>1, PointersStep, Zenon
      <4> QED
        BY <4>1, Zenon DEF PointersMove
    <3>3. fs'.ref[i] = fs.ref[i] - Owns(c[p], cwd[p], ofile[p], i) + Owns(r, w, o, i)
      BY <1>3, Zenon DEF RefsMove
    <3> QED
      BY <3>1, <3>2, <3>3, Zenon
  <2> QED
    BY <2>2, <2>3, <2>4, Zenon
<1> QED
  BY <1>2, <1>3, Zenon DEF CacheInv

\* The step of a call that is not in iput.
LEMMA CallStep ==
  ASSUME CacheInv, NEW p \in Procs, NEW r, NEW w, NEW o, Moves(p, r, w, o), fs.panic = "no",
         c[p].stage = "lock", r.stage = "lock", fs' \in FsRec, \A i \in Inums : MemCase(fs, fs', i),
         fs'.panic = "no" => Shape(r) /\ LocksMove(p, r) /\ RefsMove(p, r, w, o)
  PROVE  CacheInv'
<1>1. IType /\ WriteThrough /\ LockInv /\ MemInv
  BY Zenon DEF CacheInv
<1>2. WriteThrough' /\ (fs'.panic = "no" => MemInv')
  BY <1>1, MemStep, Zenon
<1> QED
  BY <1>2, CacheStep, Zenon

\* References, without a change and with one more to j
RefSame(s, t) == t.panic = "no" => s.panic = "no" /\ t.ref = s.ref
RefGot(s, t, j) == t.panic = "no" => s.panic = "no" /\ t.ref = [s.ref EXCEPT ![j] = s.ref[j] + 1]
OwnsSame(p, r, w, o) == \A i \in Inums : Owns(r, w, o, i) = Owns(c[p], cwd[p], ofile[p], i)
OwnsMore(p, r, w, o, j) == \A i \in Inums : Owns(r, w, o, i) = Owns(c[p], cwd[p], ofile[p], i) + One(j, i)
\* One counts 0 or 1.
LEMMA OneFacts == /\ \A x, i : One(x, i) \in Int
                  /\ \A i \in Inums : One(0, i) = 0
  BY DEF One, Inums

\* What a process owns is a number.
LEMMA OwnsInt == \A r, w, o, i : Owns(r, w, o, i) \in Int
<1> SUFFICES ASSUME NEW r, NEW w, NEW o, NEW i PROVE Owns(r, w, o, i) \in Int
  BY Zenon
<1>1. /\ One(r.ip, i) \in Int /\ One(r.dp, i) \in Int /\ One(r.old, i) \in Int /\ One(r.put, i) \in Int
      /\ One(w, i) \in Int /\ One(o, i) \in Int
  BY OneFacts, Zenon
<1> HIDE DEF One
<1> QED
  BY <1>1 DEF Owns
\* Where a call keeps one reference more than before, to j: in ip or in put, the
\* reference that was in ip or in dp going to put or to old.
Gains(k, r, j) ==
    /\ k.put = 0
    /\ \/ k.ip = 0 /\ r.ip = j /\ r.dp = k.dp /\ r.old = k.old /\ r.put = 0
       \/ r.ip = k.ip /\ r.dp = k.dp /\ r.old = k.old /\ r.put = j
       \/ k.dp = 0 /\ r.ip = j /\ r.dp = 0 /\ r.old = k.old /\ r.put = k.ip
       \/ k.ip = 0 /\ r.ip = j /\ r.dp = 0 /\ r.old = k.old /\ r.put = k.dp
       \/ k.dp = 0 /\ k.old = 0 /\ r.ip = j /\ r.dp = 0 /\ r.old = k.ip /\ r.put = 0

\* Such a move owns one reference more, to j.
LEMMA GainsOne ==
  ASSUME NEW p, NEW r, NEW j, Gains(c[p], r, j)
  PROVE  OwnsMore(p, r, cwd[p], ofile[p], j)
<1> SUFFICES ASSUME NEW i \in Inums
             PROVE  Owns(r, cwd[p], ofile[p], i) = Owns(c[p], cwd[p], ofile[p], i) + One(j, i)
  BY Zenon DEF OwnsMore
<1>1. PICK a, b, d \in Int, x, y \in Int : a = One(c[p].ip, i) /\ b = One(c[p].dp, i) /\ d = One(c[p].old, i)
                                         /\ x = One(cwd[p], i) /\ y = One(ofile[p], i)
  BY OneFacts, Zenon
<1>2. PICK z \in Int : z = One(j, i)
  BY OneFacts, Zenon
<1>3. One(0, i) = 0
  BY OneFacts, Zenon
<1>4. Owns(c[p], cwd[p], ofile[p], i) = a + b + d + 0 + x + y
  BY <1>1, <1>3, Zenon DEF Gains, Owns
<1>5. \/ a = 0 /\ Owns(r, cwd[p], ofile[p], i) = z + b + d + 0 + x + y
      \/ Owns(r, cwd[p], ofile[p], i) = a + b + d + z + x + y
      \/ b = 0 /\ Owns(r, cwd[p], ofile[p], i) = z + 0 + d + a + x + y
      \/ a = 0 /\ Owns(r, cwd[p], ofile[p], i) = z + 0 + d + b + x + y
      \/ b = 0 /\ d = 0 /\ Owns(r, cwd[p], ofile[p], i) = z + 0 + a + 0 + x + y
  BY <1>1, <1>2, <1>3, ZenonT(60) DEF Gains, Owns
<1> HIDE DEF Owns, One
<1> QED
  BY <1>2, <1>4, <1>5

\* Nothing gained: the counts stay right.
LEMMA KeepRefs ==
  ASSUME fs \in FsRec, NEW p \in Procs, NEW r, NEW w, NEW o, RefSame(fs, fs'), OwnsSame(p, r, w, o), fs'.panic = "no"
  PROVE  RefsMove(p, r, w, o)
<1> SUFFICES ASSUME NEW i \in Inums
             PROVE  fs'.ref[i] = fs.ref[i] - Owns(c[p], cwd[p], ofile[p], i) + Owns(r, w, o, i)
  BY Zenon DEF RefsMove
<1>1. fs'.ref[i] = fs.ref[i] /\ Owns(r, w, o, i) = Owns(c[p], cwd[p], ofile[p], i)
  BY Zenon DEF RefSame, OwnsSame
<1>2. fs.ref[i] \in Int /\ Owns(r, w, o, i) \in Int
  BY FsParts, OwnsInt, Zenon
<1> HIDE DEF Owns
<1> QED
  BY <1>1, <1>2

\* One reference gained: the counts stay right.
LEMMA MoreRefs ==
  ASSUME fs \in FsRec, NEW p \in Procs, NEW r, NEW w, NEW o, NEW j \in Inums, RefGot(fs, fs', j),
         OwnsMore(p, r, w, o, j), fs'.panic = "no"
  PROVE  RefsMove(p, r, w, o)
<1> SUFFICES ASSUME NEW i \in Inums
             PROVE  fs'.ref[i] = fs.ref[i] - Owns(c[p], cwd[p], ofile[p], i) + Owns(r, w, o, i)
  BY Zenon DEF RefsMove
<1>1. fs.ref \in [Inums -> Int]
  BY FsParts, Zenon
<1>2. fs'.ref = [fs.ref EXCEPT ![j] = fs.ref[j] + 1]
  BY Zenon DEF RefGot
<1>3. fs'.ref[i] = fs.ref[i] + One(j, i)
  BY <1>1, <1>2 DEF One
<1>4. Owns(r, w, o, i) = Owns(c[p], cwd[p], ofile[p], i) + One(j, i)
  BY Zenon DEF OwnsMore
<1>5. fs.ref[i] \in Int /\ Owns(c[p], cwd[p], ofile[p], i) \in Int /\ One(j, i) \in Int
  BY <1>1, OneFacts, OwnsInt, Zenon
<1> HIDE DEF Owns, One
<1> QED
  BY <1>3, <1>4, <1>5

\* Inode i locked, read and unlocked; or read and left locked.
Read(s, i, t) ==
    /\ t \in FsRec /\ t.disk = s.disk /\ t.dir = s.dir /\ t.mem = [s.mem EXCEPT ![i] = Loaded(s, i)]
    /\ t.panic \in {s.panic, "ilock", "iget"}
    /\ t.panic = "no" => s.mem[i].valid \/ s.disk[i].type # "none"
    /\ s.panic = "no" /\ s.disk[i].type # "none" => t.panic # "ilock"
Peek(s, i, t) == Read(s, i, t) /\ t.lock = s.lock
Hold(s, i, p, t) == Read(s, i, t) /\ t.lock = [s.lock EXCEPT ![i] = p]
\* ilock, seen as a read of the inode.
LEMMA Reads ==
  ASSUME NEW s \in FsRec, NEW i \in Inums, NEW p \in Procs
  PROVE  Hold(s, i, p, ilock(s, i, p)) /\ RefSame(s, ilock(s, i, p))
<1>1. PICK t : t = ilock(s, i, p)
  BY Zenon
<1>2. IlockDoes(s, i, p, t)
  BY <1>1, Ilock, Zenon
<1>3. s.panic = "no" /\ s.disk[i].type # "none" => t.panic # "ilock"
  <2>1. t.panic = "no" <=> s.panic = "no" /\ (s.mem[i].valid \/ s.disk[i].type # "none")
    BY <1>2, Zenon DEF IlockDoes
  <2> QED
    BY <2>1
<1>4. Hold(s, i, p, t) /\ RefSame(s, t)
  BY <1>2, <1>3, Zenon DEF IlockDoes, Hold, Read, RefSame
<1> QED
  BY <1>1, <1>4, Zenon

\* ilock and iunlock: only the cache entry is loaded.
LEMMA PeekIs ==
  ASSUME NEW s \in FsRec, NEW i \in Inums, NEW p \in Procs, s.lock[i] = NoProc
  PROVE  Peek(s, i, iunlock(ilock(s, i, p), i)) /\ RefSame(s, iunlock(ilock(s, i, p), i))
<1>1. PICK t : t = ilock(s, i, p)
  BY Zenon
<1>2. Hold(s, i, p, t) /\ RefSame(s, t)
  BY <1>1, Reads, Zenon
<1>3. t \in FsRec
  BY <1>2, Zenon DEF Hold, Read
<1>4. PICK u : u = iunlock(t, i)
  BY Zenon
<1>5. UnlockDoes(t, i, u)
  BY <1>3, <1>4, Iunlock, Zenon
<1>6. u.lock = s.lock
  <2>1. s.lock \in [Inums -> Procs \cup {NoProc}]
    BY FsParts, Zenon
  <2>2. u.lock = [[s.lock EXCEPT ![i] = p] EXCEPT ![i] = NoProc]
    BY <1>2, <1>5, Zenon DEF Hold, UnlockDoes
  <2> QED
    BY <2>1, <2>2
<1>7. Peek(s, i, u) /\ RefSame(s, u)
  BY <1>2, <1>5, <1>6, Zenon DEF UnlockDoes, Hold, Peek, Read, RefSame
<1> QED
  BY <1>1, <1>4, <1>7, Zenon

\* ilock, and a reference to another inode.
LEMMA HoldGetIs ==
  ASSUME NEW s \in FsRec, NEW i \in Inums, NEW p \in Procs, NEW j \in Inums
  PROVE  Hold(s, i, p, iget(ilock(s, i, p), j)) /\ RefGot(s, iget(ilock(s, i, p), j), j)
<1>1. PICK t : t = ilock(s, i, p)
  BY Zenon
<1>2. Hold(s, i, p, t) /\ RefSame(s, t)
  BY <1>1, Reads, Zenon
<1>3. t \in FsRec
  BY <1>2, Zenon DEF Hold, Read
<1>4. PICK u : u = iget(t, j)
  BY Zenon
<1>5. IgetDoes(t, j, u)
  BY <1>3, <1>4, Iget, Zenon
<1>6. /\ u.panic = "no" => t.panic = "no"
      /\ t.panic # "ilock" => u.panic # "ilock"
      /\ u.panic \in {s.panic, "ilock", "iget"}
  <2>1. /\ u.panic \in {t.panic, "iget"} /\ (u.panic = "no" => t.panic = "no")
        /\ t.panic \in {s.panic, "ilock", "iget"}
    BY <1>2, <1>5, Zenon DEF IgetDoes, Hold, Read
  <2> QED
    BY <2>1
<1>7. Hold(s, i, p, u)
  BY <1>2, <1>5, <1>6, Zenon DEF IgetDoes, Hold, Read
<1>8. RefGot(s, u, j)
  BY <1>2, <1>5, Zenon DEF RefSame, IgetDoes, RefGot
<1> QED
  BY <1>1, <1>4, <1>7, <1>8, Zenon

\* ilock, a reference to another inode, iunlock.
LEMMA PeekGetIs ==
  ASSUME NEW s \in FsRec, NEW i \in Inums, NEW p \in Procs, NEW j \in Inums, s.lock[i] = NoProc
  PROVE  /\ Peek(s, i, iunlock(iget(ilock(s, i, p), j), i))
         /\ RefGot(s, iunlock(iget(ilock(s, i, p), j), i), j)
<1>1. PICK t : t = iget(ilock(s, i, p), j)
  BY Zenon
<1>2. Hold(s, i, p, t) /\ RefGot(s, t, j)
  BY <1>1, HoldGetIs, Zenon
<1>3. t \in FsRec
  BY <1>2, Zenon DEF Hold, Read
<1>4. PICK u : u = iunlock(t, i)
  BY Zenon
<1>5. UnlockDoes(t, i, u)
  BY <1>3, <1>4, Iunlock, Zenon
<1>6. u.lock = s.lock
  <2>1. s.lock \in [Inums -> Procs \cup {NoProc}]
    BY FsParts, Zenon
  <2>2. u.lock = [[s.lock EXCEPT ![i] = p] EXCEPT ![i] = NoProc]
    BY <1>2, <1>5, Zenon DEF Hold, UnlockDoes
  <2> QED
    BY <2>1, <2>2
<1>7. Read(s, i, u)
  BY <1>2, <1>5, Zenon DEF Hold, UnlockDoes, Read
<1>8. RefGot(s, u, j)
  BY <1>2, <1>5, Zenon DEF UnlockDoes, RefGot
<1> QED
  BY <1>1, <1>4, <1>6, <1>7, <1>8, Zenon DEF Peek

\* Reading an inode leaves the cache as the disk.
LEMMA ReadMem ==
  ASSUME IType, LockInv, MemInv, fs.panic = "no", NEW p \in Procs, NEW i \in Inums, fs.lock[i] = NoProc,
         c[p].stage = "lock", NEW t, Read(fs, i, t), \A j \in Inums : j # i => t.lock[j] = fs.lock[j]
  PROVE  \A j \in Inums : MemCase(fs, t, j)
<1>1. ~Dying(i)
  BY NotDying, Zenon
<1>2. fs.mem \in [Inums -> MemRec] /\ fs.disk[i] \in DiskRec
  BY FsParts, Zenon DEF IType
<1>3. /\ t.mem = [fs.mem EXCEPT ![i] = Loaded(fs, i)] /\ t.disk = fs.disk
      /\ t.panic = "no" => fs.mem[i].valid \/ fs.disk[i].type # "none"
  BY Zenon DEF Read
<1>4. t.mem[i] = Loaded(fs, i) /\ \A j \in Inums : j # i => t.mem[j] = fs.mem[j]
  BY <1>2, <1>3, Zenon
<1>5. CASE fs.mem[i].valid
  <2>1. Same(fs, i) /\ fs.mem[i].type # "none"
    BY <1>1, <1>5, Zenon DEF MemInv
  <2>2. t.mem[i] = fs.mem[i]
    BY <1>4, <1>5, Zenon DEF Loaded
  <2>3. Good(t, i)
    BY <2>1, <2>2, <1>3, Zenon DEF Good, Same
  <2> QED
    BY <2>3, <1>3, <1>4, Zenon DEF MemCase
<1>6. CASE ~fs.mem[i].valid
  <2>1. t.mem[i] = [valid |-> TRUE, type |-> fs.disk[i].type, nlink |-> fs.disk[i].nlink]
    BY <1>4, <1>6, Zenon DEF Loaded
  <2>2. t.mem[i].type = fs.disk[i].type /\ t.mem[i].nlink = fs.disk[i].nlink
    BY <2>1
  <2>3. Same(t, i)
    BY <2>2, <1>2, <1>3, Zenon DEF Same, DiskRec
  <2>4. Good(t, i)
    BY <2>2, <2>3, <1>3, <1>6, Zenon DEF Good
  <2> QED
    BY <2>4, <1>3, <1>4, Zenon DEF MemCase
<1> QED
  BY <1>5, <1>6, Zenon

\* Process p is in a call, not in iput, and goes on with r, w and o.
Steps(p, r, w, o) == /\ CacheInv /\ Moves(p, r, w, o) /\ fs.panic = "no" /\ c[p].stage = "lock" /\ r.stage = "lock"
                     /\ Shape(r)
Counts(p, r, w, o) == \/ RefSame(fs, fs') /\ OwnsSame(p, r, w, o)
                      \/ \E j \in Inums : RefGot(fs, fs', j) /\ OwnsMore(p, r, w, o, j)

\* The references after a step that keeps or gains one.
LEMMA CountsMove ==
  ASSUME NEW p \in Procs, NEW r, NEW w, NEW o, Steps(p, r, w, o), Counts(p, r, w, o), fs'.panic = "no"
  PROVE  RefsMove(p, r, w, o)
<1>1. fs \in FsRec
  BY Zenon DEF Steps, CacheInv, IType
<1>2. CASE RefSame(fs, fs') /\ OwnsSame(p, r, w, o)
  BY <1>1, <1>2, KeepRefs, Zenon
<1>3. CASE \E j \in Inums : RefGot(fs, fs', j) /\ OwnsMore(p, r, w, o, j)
  BY <1>1, <1>3, MoreRefs, Zenon
<1> QED
  BY <1>2, <1>3, Zenon DEF Counts
\* The locks of p, that r has them, and that the step has changed no others
Locks(p, r) ==
    \/ fs'.lock = fs.lock /\ Held(r) = Held(c[p])
    \/ \E i \in Inums : fs.lock[i] = NoProc /\ fs'.lock = [fs.lock EXCEPT ![i] = p] /\ Held(r) = Held(c[p]) \cup {i}
    \/ \E i \in Inums : fs.lock[i] = p /\ fs'.lock = [fs.lock EXCEPT ![i] = NoProc] /\ Held(r) = Held(c[p]) \ {i}
    \/ \E i, j \in Inums : /\ fs.lock[i] = NoProc /\ fs.lock[j] = p /\ Held(c[p]) = {j} /\ Held(r) = {i}
                          /\ fs'.lock = [[fs.lock EXCEPT ![i] = p] EXCEPT ![j] = NoProc]

\* The locks after a step that takes one, drops one, or exchanges two.
LEMMA LocksFollow ==
  ASSUME NEW p \in Procs, NEW r, NEW w, NEW o, Steps(p, r, w, o), Locks(p, r)
  PROVE  LocksMove(p, r)
<1>1. fs.lock \in [Inums -> Procs \cup {NoProc}] /\ p # NoProc
  BY FsParts, InodeAssumption, Zenon DEF Steps, CacheInv, IType
<1>2. \A i \in Inums : fs.lock[i] = p <=> i \in Held(c[p])
  BY Zenon DEF Steps, CacheInv, LockInv
<1>3. CASE fs'.lock = fs.lock /\ Held(r) = Held(c[p])
  BY <1>2, <1>3, Zenon DEF LocksMove
<1>4. ASSUME NEW i \in Inums, fs.lock[i] = NoProc, fs'.lock = [fs.lock EXCEPT ![i] = p], Held(r) = Held(c[p]) \cup {i}
      PROVE  LocksMove(p, r)
  <2>1. fs'.lock[i] = p /\ \A j \in Inums : j # i => fs'.lock[j] = fs.lock[j]
    BY <1>1, <1>4, Zenon
  <2> QED
    BY <1>1, <1>2, <1>4, <2>1 DEF LocksMove
<1>5. ASSUME NEW i \in Inums, fs.lock[i] = p, fs'.lock = [fs.lock EXCEPT ![i] = NoProc], Held(r) = Held(c[p]) \ {i}
      PROVE  LocksMove(p, r)
  <2>1. fs'.lock[i] = NoProc /\ \A j \in Inums : j # i => fs'.lock[j] = fs.lock[j]
    BY <1>1, <1>5, Zenon
  <2> QED
    BY <1>1, <1>2, <1>5, <2>1, Zenon DEF LocksMove
<1>6. ASSUME NEW i \in Inums, NEW j \in Inums, fs.lock[i] = NoProc, fs.lock[j] = p, Held(c[p]) = {j}, Held(r) = {i},
             fs'.lock = [[fs.lock EXCEPT ![i] = p] EXCEPT ![j] = NoProc]
      PROVE  LocksMove(p, r)
  <2>1. i # j
    BY <1>1, <1>6, Zenon
  <2>2. /\ fs'.lock[i] = p /\ fs'.lock[j] = NoProc
        /\ \A k \in Inums : k # i /\ k # j => fs'.lock[k] = fs.lock[k]
    BY <1>1, <1>6, <2>1
  <2>3. \A k \in Inums : fs.lock[k] = p <=> k = j
    BY <1>2, <1>6, Zenon
  <2> QED
    BY <1>1, <1>6, <2>1, <2>2, <2>3 DEF LocksMove
<1> QED
  BY <1>3, <1>4, <1>5, <1>6, Zenon DEF Locks

\* A step of a call that is not in iput, from its parts.
LEMMA Stepped ==
  ASSUME NEW p \in Procs, NEW r, NEW w, NEW o, Steps(p, r, w, o), fs' \in FsRec,
         Counts(p, r, w, o), Locks(p, r), \A i \in Inums : MemCase(fs, fs', i)
  PROVE  CacheInv'
<1>1. fs'.panic = "no" => Shape(r) /\ LocksMove(p, r) /\ RefsMove(p, r, w, o)
  BY CountsMove, LocksFollow, Zenon DEF Steps
<1>2. CacheInv /\ Moves(p, r, w, o) /\ fs.panic = "no" /\ c[p].stage = "lock" /\ r.stage = "lock"
  BY Zenon DEF Steps
<1> QED
  BY <1>1, <1>2, CallStep, Zenon

\* A step that locks, reads and unlocks an inode.
LEMMA PeekStep ==
  ASSUME NEW p \in Procs, NEW r, NEW w, NEW o, Steps(p, r, w, o), Counts(p, r, w, o), Held(r) = Held(c[p]),
         NEW i \in Inums, fs.lock[i] = NoProc, Peek(fs, i, fs')
  PROVE  CacheInv'
<1>1. Read(fs, i, fs') /\ fs'.lock = fs.lock /\ fs' \in FsRec
  BY Zenon DEF Peek, Read
<1>2. \A j \in Inums : MemCase(fs, fs', j)
  BY <1>1, ReadMem, Zenon DEF Steps, CacheInv
<1>3. Locks(p, r)
  BY <1>1, Zenon DEF Locks
<1> QED
  BY <1>1, <1>2, <1>3, Stepped, Zenon

\* A step that locks an inode and keeps the lock.
LEMMA HoldStep ==
  ASSUME NEW p \in Procs, NEW r, NEW w, NEW o, Steps(p, r, w, o), Counts(p, r, w, o),
         NEW i \in Inums, fs.lock[i] = NoProc, Hold(fs, i, p, fs'), Held(r) = Held(c[p]) \cup {i}
  PROVE  CacheInv'
<1>1. Read(fs, i, fs') /\ fs'.lock = [fs.lock EXCEPT ![i] = p] /\ fs' \in FsRec
  BY Zenon DEF Hold, Read
<1>2. fs.lock \in [Inums -> Procs \cup {NoProc}]
  BY FsParts, Zenon DEF Steps, CacheInv, IType
<1>3. \A j \in Inums : j # i => fs'.lock[j] = fs.lock[j]
  BY <1>1, <1>2, Zenon
<1>4. \A j \in Inums : MemCase(fs, fs', j)
  BY <1>1, <1>3, ReadMem, Zenon DEF Steps, CacheInv
<1>5. Locks(p, r)
  BY <1>1, Zenon DEF Locks
<1> QED
  BY <1>1, <1>4, <1>5, Stepped, Zenon

\* A step that unlocks an inode.
LEMMA FreeStep ==
  ASSUME NEW p \in Procs, NEW r, NEW w, NEW o, Steps(p, r, w, o), OwnsSame(p, r, w, o),
         NEW i \in Inums, fs.lock[i] = p, UnlockDoes(fs, i, fs'), Held(r) = Held(c[p]) \ {i}
  PROVE  CacheInv'
<1>1. fs' \in FsRec /\ fs'.lock = [fs.lock EXCEPT ![i] = NoProc] /\ fs'.mem = fs.mem /\ fs'.disk = fs.disk
  BY Zenon DEF UnlockDoes
<1>2. fs.lock \in [Inums -> Procs \cup {NoProc}]
  BY FsParts, Zenon DEF Steps, CacheInv, IType
<1>3. \A j \in Inums : j # i => fs'.lock[j] = fs.lock[j]
  BY <1>1, <1>2, Zenon
<1>4. ~Dying(i) /\ MemInv
  BY NotDying, Zenon DEF Steps, CacheInv
<1>5. Good(fs', i)
  BY <1>1, <1>4, Zenon DEF Good, MemInv, Same
<1>6. \A j \in Inums : MemCase(fs, fs', j)
  BY <1>1, <1>3, <1>5, Zenon DEF MemCase
<1>7. Locks(p, r)
  BY <1>1, Zenon DEF Locks
<1>8. Counts(p, r, w, o)
  BY Zenon DEF Counts, UnlockDoes, RefSame
<1> QED
  BY <1>1, <1>6, <1>7, <1>8, Stepped, Zenon

\* A step that only moves on.
LEMMA StillStep ==
  ASSUME NEW p \in Procs, NEW r, NEW w, NEW o, Steps(p, r, w, o), OwnsSame(p, r, w, o), Held(r) = Held(c[p]),
         fs' = fs
  PROVE  CacheInv'
<1>1. fs' \in FsRec
  BY Zenon DEF Steps, CacheInv, IType
<1>2. Counts(p, r, w, o) /\ Locks(p, r) /\ \A j \in Inums : MemCase(fs, fs', j)
  BY Zenon DEF Counts, RefSame, Locks, MemCase
<1> QED
  BY <1>1, <1>2, Stepped, Zenon

\* A step that takes a reference.
LEMMA GetStep ==
  ASSUME NEW p \in Procs, NEW r, NEW w, NEW o, Steps(p, r, w, o), Held(r) = Held(c[p]),
         NEW j \in Inums, IgetDoes(fs, j, fs'), OwnsMore(p, r, w, o, j)
  PROVE  CacheInv'
<1>1. Counts(p, r, w, o)
  BY Zenon DEF Counts, RefGot, IgetDoes
<1>2. fs' \in FsRec /\ Locks(p, r) /\ \A i \in Inums : MemCase(fs, fs', i)
  BY Zenon DEF IgetDoes, Locks, MemCase
<1> QED
  BY <1>1, <1>2, Stepped, Zenon

----
(***************************************************************************)
(* The actions.                                                            *)
(***************************************************************************)
Is(r, pc, op, path, new, ip, dp, old, put) ==
    /\ r \in CallRec /\ r.pc = pc /\ r.op = op /\ r.path = path /\ r.new = new
    /\ r.ip = ip /\ r.dp = dp /\ r.old = old /\ r.put = put /\ r.stage = "lock"
\* Process p is at l of a call, with nothing to put.
Ready(p, l) ==
    /\ fs.panic = "no" /\ IType /\ CacheInv /\ Shape(c[p])
    /\ Is(c[p], l, c[p].op, c[p].path, c[p].new, c[p].ip, c[p].dp, c[p].old, 0)
\* A call at a place is ready to go on there.
LEMMA AtIs ==
  ASSUME CacheInv, NEW p \in Procs, NEW l, At(p, l)
  PROVE  Ready(p, l)
<1>1. fs.panic = "no" /\ c[p].pc = l /\ c[p].put = 0
  BY Zenon DEF At
<1>2. IType /\ Shape(c[p])
  BY <1>1, Zenon DEF CacheInv, ShapeInv
<1>3. c[p] \in CallRec /\ (c[p].stage # "lock" => c[p].put # 0)
  BY <1>2, Zenon DEF IType, CType
<1> QED
  BY <1>1, <1>2, <1>3, Zenon DEF Ready, Is

\* The local variables in use at a place are inodes.
LEMMA Locals ==
  ASSUME NEW p \in Procs, NEW l, Ready(p, l)
  PROVE  /\ l \in UsesIp => c[p].ip \in Inums
         /\ l \in UsesDp => c[p].dp \in Inums /\ c[p].path # <<>>
         /\ l \notin UsesIp => c[p].ip = 0
         /\ l \notin UsesDp => c[p].dp = 0
         /\ c[p].old # 0 => c[p].old \in Inums
         /\ c[p].path \in Seq(AllNames) /\ c[p].new \in Seq(AllNames)
         /\ c[p].path # <<>> => Head(c[p].path) \in AllNames /\ Tail(c[p].path) \in Seq(AllNames)
<1>1. c[p] \in CallRec /\ Shape(c[p]) /\ c[p].pc = l
  BY Zenon DEF Ready, Is
<1>2. /\ c[p].ip \in Ptr /\ c[p].dp \in Ptr /\ c[p].old \in Ptr
      /\ c[p].path \in Seq(AllNames) /\ c[p].new \in Seq(AllNames)
  BY <1>1, Zenon DEF CallRec
<1>3. \A x \in Ptr : x # 0 => x \in Inums
  BY InodeAssumption DEF Ptr, Inums
<1>4. /\ c[p].ip # 0 <=> l \in UsesIp
      /\ c[p].dp # 0 <=> l \in UsesDp
      /\ c[p].dp # 0 => c[p].path # <<>>
  BY <1>1, Zenon DEF Shape
<1>5. c[p].path # <<>> => Head(c[p].path) \in AllNames /\ Tail(c[p].path) \in Seq(AllNames)
  BY <1>2
<1> QED
  BY <1>2, <1>3, <1>4, <1>5, Zenon

\* Inodes and the null pointer.
LEMMA InPtr == 0 \in Ptr /\ Inums \subseteq Ptr /\ 0 \notin Inums /\ ROOTINO \in Inums
  BY InodeAssumption DEF Ptr, Inums, ROOTINO

\* The inodes that a call holds
LEMMA HeldNone ==
  ASSUME NEW r, r.stage = "lock",
         r.pc \notin {"create_new", "unlink_ip", "unlink_bad", "link_exists", "create_end", "unlink_end"}
  PROVE  Held(r) = {}
  BY DEF Held

\* At these places the directory is locked.
LEMMA HeldDp ==
  ASSUME NEW r, r.stage = "lock", r.pc \in {"create_new", "unlink_ip", "unlink_bad", "link_exists"}, r.dp \in Inums
  PROVE  Held(r) = {r.dp}
  BY DEF Held

\* At these places the inode is locked.
LEMMA HeldIp ==
  ASSUME NEW r, r.stage = "lock", r.pc \in {"create_end", "unlink_end"}, r.ip \in Inums
  PROVE  Held(r) = {r.ip}
  BY DEF Held

\* The call of p goes on; its directory and its file stay.
LEMMA GoesOn ==
  ASSUME IType, NEW p \in Procs, NEW r \in CallRec, r.stage = "lock", c' = [c EXCEPT ![p] = r], UNCHANGED <<cwd, ofile, mix>>
  PROVE  Moves(p, r, cwd[p], ofile[p])
<1>1. cwd \in [Procs -> Inums] /\ ofile \in [Procs -> Ptr]
  BY Zenon DEF IType
<1>2. cwd' = [cwd EXCEPT ![p] = cwd[p]] /\ ofile' = [ofile EXCEPT ![p] = ofile[p]]
  BY <1>1, Zenon
<1> QED
  BY <1>1, <1>2, Zenon DEF Moves

\* PutThen passes a reference from a local variable to iput.
LEMMA PutIpIs ==
  ASSUME NEW p \in Procs, NEW l0, Ready(p, l0), NEW l \in Places, PutThen(p, "ip", l)
  PROVE  \E r : /\ Is(r, l, c[p].op, c[p].path, c[p].new, 0, c[p].dp, c[p].old, c[p].ip)
                /\ c' = [c EXCEPT ![p] = r]
<1>1. c[p] \in CallRec /\ c[p].stage = "lock"
  BY Zenon DEF Ready, Is
<1>2. PICK r : r = [c[p] EXCEPT !.put = c[p].ip, !.ip = 0, !.pc = l]
  BY Zenon
<1>3. c' = [c EXCEPT ![p] = r]
  BY <1>2, Zenon DEF PutThen
<1>4. r \in CallRec
  BY <1>1, <1>2, InPtr, Zenon DEF CallRec
<1>5. Is(r, l, c[p].op, c[p].path, c[p].new, 0, c[p].dp, c[p].old, c[p].ip)
  BY <1>1, <1>2, <1>4, Zenon DEF Is, CallRec
<1> QED
  BY <1>3, <1>5, Zenon

\* The reference in dp goes to iput.
LEMMA PutDpIs ==
  ASSUME NEW p \in Procs, NEW l0, Ready(p, l0), NEW l \in Places, PutThen(p, "dp", l)
  PROVE  \E r : /\ Is(r, l, c[p].op, c[p].path, c[p].new, c[p].ip, 0, c[p].old, c[p].dp)
                /\ c' = [c EXCEPT ![p] = r]
<1>1. c[p] \in CallRec /\ c[p].stage = "lock"
  BY Zenon DEF Ready, Is
<1>2. PICK r : r = [c[p] EXCEPT !.put = c[p].dp, !.dp = 0, !.pc = l]
  BY Zenon
<1>3. c' = [c EXCEPT ![p] = r]
  BY <1>2, Zenon DEF PutThen
<1>4. r \in CallRec
  BY <1>1, <1>2, InPtr, Zenon DEF CallRec
<1>5. Is(r, l, c[p].op, c[p].path, c[p].new, c[p].ip, 0, c[p].old, c[p].dp)
  BY <1>1, <1>2, <1>4, Zenon DEF Is, CallRec
<1> QED
  BY <1>3, <1>5, Zenon

\* The reference in old goes to iput.
LEMMA PutOldIs ==
  ASSUME NEW p \in Procs, NEW l0, Ready(p, l0), NEW l \in Places, PutThen(p, "old", l)
  PROVE  \E r : /\ Is(r, l, c[p].op, c[p].path, c[p].new, c[p].ip, c[p].dp, 0, c[p].old)
                /\ c' = [c EXCEPT ![p] = r]
<1>1. c[p] \in CallRec /\ c[p].stage = "lock"
  BY Zenon DEF Ready, Is
<1>2. PICK r : r = [c[p] EXCEPT !.put = c[p].old, !.old = 0, !.pc = l]
  BY Zenon
<1>3. c' = [c EXCEPT ![p] = r]
  BY <1>2, Zenon DEF PutThen
<1>4. r \in CallRec
  BY <1>1, <1>2, InPtr, Zenon DEF CallRec
<1>5. Is(r, l, c[p].op, c[p].path, c[p].new, c[p].ip, c[p].dp, 0, c[p].old)
  BY <1>1, <1>2, <1>4, Zenon DEF Is, CallRec
<1> QED
  BY <1>3, <1>5, Zenon
\* References that pass from one variable to another
LEMMA PassIp ==
  ASSUME NEW p \in Procs, NEW l0, Ready(p, l0), NEW l \in Places, PutThen(p, "ip", l), UNCHANGED <<cwd, ofile, mix>>
  PROVE  \E r : /\ Is(r, l, c[p].op, c[p].path, c[p].new, 0, c[p].dp, c[p].old, c[p].ip)
                /\ Moves(p, r, cwd[p], ofile[p]) /\ OwnsSame(p, r, cwd[p], ofile[p])
<1>1. PICK r : /\ Is(r, l, c[p].op, c[p].path, c[p].new, 0, c[p].dp, c[p].old, c[p].ip)
               /\ c' = [c EXCEPT ![p] = r]
  BY PutIpIs, Zenon
<1>2. r \in CallRec /\ r.stage = "lock" /\ r.ip = 0 /\ r.dp = c[p].dp /\ r.old = c[p].old /\ r.put = c[p].ip
  BY <1>1, Zenon DEF Is
<1>3. IType /\ c[p].put = 0
  BY Zenon DEF Ready, Is
<1>4. Moves(p, r, cwd[p], ofile[p])
  BY <1>1, <1>2, <1>3, GoesOn, Zenon
<1>5. OwnsSame(p, r, cwd[p], ofile[p])
  BY <1>2, <1>3, OneFacts DEF OwnsSame, Owns
<1> QED
  BY <1>1, <1>4, <1>5, Zenon

\* To give up dp costs no reference yet.
LEMMA PassDp ==
  ASSUME NEW p \in Procs, NEW l0, Ready(p, l0), NEW l \in Places, PutThen(p, "dp", l), UNCHANGED <<cwd, ofile, mix>>
  PROVE  \E r : /\ Is(r, l, c[p].op, c[p].path, c[p].new, c[p].ip, 0, c[p].old, c[p].dp)
                /\ Moves(p, r, cwd[p], ofile[p]) /\ OwnsSame(p, r, cwd[p], ofile[p])
<1>1. PICK r : /\ Is(r, l, c[p].op, c[p].path, c[p].new, c[p].ip, 0, c[p].old, c[p].dp)
               /\ c' = [c EXCEPT ![p] = r]
  BY PutDpIs, Zenon
<1>2. r \in CallRec /\ r.stage = "lock" /\ r.ip = c[p].ip /\ r.dp = 0 /\ r.old = c[p].old /\ r.put = c[p].dp
  BY <1>1, Zenon DEF Is
<1>3. IType /\ c[p].put = 0
  BY Zenon DEF Ready, Is
<1>4. Moves(p, r, cwd[p], ofile[p])
  BY <1>1, <1>2, <1>3, GoesOn, Zenon
<1>5. OwnsSame(p, r, cwd[p], ofile[p])
  BY <1>2, <1>3, OneFacts DEF OwnsSame, Owns
<1> QED
  BY <1>1, <1>4, <1>5, Zenon

\* To give up old costs no reference yet.
LEMMA PassOld ==
  ASSUME NEW p \in Procs, NEW l0, Ready(p, l0), NEW l \in Places, PutThen(p, "old", l), UNCHANGED <<cwd, ofile, mix>>
  PROVE  \E r : /\ Is(r, l, c[p].op, c[p].path, c[p].new, c[p].ip, c[p].dp, 0, c[p].old)
                /\ Moves(p, r, cwd[p], ofile[p]) /\ OwnsSame(p, r, cwd[p], ofile[p])
<1>1. PICK r : /\ Is(r, l, c[p].op, c[p].path, c[p].new, c[p].ip, c[p].dp, 0, c[p].old)
               /\ c' = [c EXCEPT ![p] = r]
  BY PutOldIs, Zenon
<1>2. r \in CallRec /\ r.stage = "lock" /\ r.ip = c[p].ip /\ r.dp = c[p].dp /\ r.old = 0 /\ r.put = c[p].old
  BY <1>1, Zenon DEF Is
<1>3. IType /\ c[p].put = 0
  BY Zenon DEF Ready, Is
<1>4. Moves(p, r, cwd[p], ofile[p])
  BY <1>1, <1>2, <1>3, GoesOn, Zenon
<1>5. OwnsSame(p, r, cwd[p], ofile[p])
  BY <1>2, <1>3, OneFacts DEF OwnsSame, Owns
<1> QED
  BY <1>1, <1>4, <1>5, Zenon

\* namex_end keeps CacheInv.
LEMMA EndKeeps == ASSUME CacheInv, NEW p \in Procs, namex_end(p) PROVE CacheInv'
<1>1. At(p, "namex") /\ c[p].path = <<>> /\ fs' = fs /\ UNCHANGED <<cwd, ofile, mix>>
  BY Zenon DEF namex_end
<1>2. Ready(p, "namex")
  BY <1>1, AtIs, Zenon
<1>3. c[p].pc = "namex" /\ c[p].put = 0 /\ c[p].stage = "lock" /\ c[p] \in CallRec /\ Shape(c[p]) /\ IType /\ fs.panic = "no"
  BY <1>2, Zenon DEF Ready, Is
<1>4. Held(c[p]) = {}
  BY <1>3, HeldNone
<1>5. CASE Parent(c[p].op)
  <2>1. PutThen(p, "ip", Fail(c[p].op)) /\ Fail(c[p].op) \in {"user", "link_bad"}
    BY <1>5, Zenon DEF namex_end, Fail
  <2>2. Fail(c[p].op) \in Places
    BY <2>1 DEF Places
  <2>3. PICK r : /\ Is(r, Fail(c[p].op), c[p].op, c[p].path, c[p].new, 0, c[p].dp, c[p].old, c[p].ip)
                 /\ Moves(p, r, cwd[p], ofile[p]) /\ OwnsSame(p, r, cwd[p], ofile[p])
    BY <1>1, <1>2, <2>1, <2>2, PassIp, Zenon
  <2>4. Shape(r)
    BY <1>3, <2>1, <2>3 DEF Is, Shape, UsesIp, UsesDp, MayPut, OpAt, Fail, CallRec
  <2>5. Held(r) = {}
    BY <2>1, <2>3, HeldNone DEF Is
  <2>6. Steps(p, r, cwd[p], ofile[p])
    BY <1>3, <2>3, <2>4, Zenon DEF Steps, Is
  <2> QED
    BY <1>1, <1>4, <2>3, <2>5, <2>6, StillStep, Zenon
<1>6. CASE ~Parent(c[p].op)
  <2>1. c' = [c EXCEPT ![p].pc = c[p].op]
    BY <1>6, Zenon DEF namex_end, Goto
  <2>2. c[p].op \in {"open", "chdir", "link"}
    BY <1>3, <1>6 DEF Parent, Creates, Shape, OpAt, Calls
  <2>3. PICK r : r = [c[p] EXCEPT !.pc = c[p].op]
    BY Zenon
  <2>4. c[p].op \in Places
    BY <2>2 DEF Places
  <2>5. r \in CallRec
    BY <1>3, <2>3, <2>4, Zenon DEF CallRec
  <2>6. Is(r, c[p].op, c[p].op, c[p].path, c[p].new, c[p].ip, c[p].dp, c[p].old, 0)
    BY <1>3, <2>3, <2>5, Zenon DEF CallRec, Is
  <2>7. c' = [c EXCEPT ![p] = r]
    BY <2>1, <2>3, Zenon
  <2>8. Moves(p, r, cwd[p], ofile[p])
    BY <1>1, <1>3, <2>5, <2>6, <2>7, GoesOn, Zenon DEF Is
  <2>9. OwnsSame(p, r, cwd[p], ofile[p])
    BY <1>3, <2>6, Zenon DEF OwnsSame, Owns, Is
  <2>10. Shape(r)
    BY <1>3, <2>2, <2>6 DEF Is, Shape, UsesIp, UsesDp, MayPut, OpAt
  <2>11. Held(r) = {}
    BY <2>2, <2>6, HeldNone DEF Is
  <2>12. Steps(p, r, cwd[p], ofile[p])
    BY <1>3, <2>6, <2>8, <2>10, Zenon DEF Steps, Is, Ready, CacheInv
  <2> QED
    BY <1>1, <1>4, <2>9, <2>11, <2>12, StillStep, Zenon
<1> QED
  BY <1>5, <1>6, Zenon

\* A call that fails, or has done with its inode, unlocks it and puts it.
LEMMA IpGone ==
  ASSUME NEW p \in Procs, NEW l0 \in {"namex", "open", "chdir", "link", "create_old", "create_end", "unlink_end"}, Ready(p, l0),
         PutThen(p, "ip", Fail(c[p].op)), UNCHANGED <<cwd, ofile, mix>>
  PROVE  \E r : /\ Is(r, Fail(c[p].op), c[p].op, c[p].path, c[p].new, 0, c[p].dp, c[p].old, c[p].ip)
                /\ Steps(p, r, cwd[p], ofile[p]) /\ OwnsSame(p, r, cwd[p], ofile[p]) /\ Held(r) = {}
<1>1. Fail(c[p].op) \in {"user", "link_bad"}
  BY Zenon DEF Fail
<1>2. Fail(c[p].op) \in Places
  BY <1>1 DEF Places
<1>3. PICK r : /\ Is(r, Fail(c[p].op), c[p].op, c[p].path, c[p].new, 0, c[p].dp, c[p].old, c[p].ip)
               /\ Moves(p, r, cwd[p], ofile[p]) /\ OwnsSame(p, r, cwd[p], ofile[p])
  BY <1>2, PassIp, Zenon
<1>4. c[p].pc = l0 /\ c[p].put = 0 /\ c[p].stage = "lock" /\ Shape(c[p]) /\ fs.panic = "no" /\ CacheInv
  BY Zenon DEF Ready, Is
<1>5. Shape(r)
  BY <1>1, <1>3, <1>4 DEF Is, Shape, UsesIp, UsesDp, MayPut, OpAt, Fail
<1>6. Held(r) = {}
  BY <1>1, <1>3, HeldNone DEF Is
<1>7. Steps(p, r, cwd[p], ofile[p])
  BY <1>3, <1>4, <1>5, Zenon DEF Steps, Is
<1> QED
  BY <1>3, <1>6, <1>7, Zenon

\* A call that fails with ip unlocked and put.
LEMMA IpFails ==
  ASSUME NEW p \in Procs, NEW l0 \in {"namex", "open", "chdir", "link", "create_old"}, Ready(p, l0), Unlocked(c[p].ip),
         PutThen(p, "ip", Fail(c[p].op)), UNCHANGED <<cwd, ofile, mix>>, fs' = iunlock(ilock(fs, c[p].ip, p), c[p].ip)
  PROVE  CacheInv'
<1>1. PICK r : Steps(p, r, cwd[p], ofile[p]) /\ OwnsSame(p, r, cwd[p], ofile[p]) /\ Held(r) = {}
  BY IpGone, Zenon
<1>2. c[p].ip \in Inums
  BY Locals DEF UsesIp
<1>3. fs \in FsRec /\ fs.lock[c[p].ip] = NoProc
  BY Zenon DEF Ready, IType, Unlocked
<1>4. Peek(fs, c[p].ip, fs') /\ RefSame(fs, fs')
  BY <1>2, <1>3, PeekIs, Zenon
<1>5. Counts(p, r, cwd[p], ofile[p])
  BY <1>1, <1>4, Zenon DEF Counts
<1>6. Held(c[p]) = {}
  BY HeldNone DEF Ready, Is
<1> QED
  BY <1>1, <1>2, <1>3, <1>4, <1>5, <1>6, PeekStep, Zenon

\* The descriptor takes the reference, or it is put.
LEMMA Opens ==
  ASSUME NEW p \in Procs, NEW l0 \in {"open", "create_old", "create_end"}, Ready(p, l0), NEW s, OpenFile(p, s)
  PROVE  \E r, o : Steps(p, r, cwd[p], o) /\ OwnsSame(p, r, cwd[p], o) /\ Held(r) = {}
<1>1. c[p].pc = l0 /\ c[p].put = 0 /\ c[p].stage = "lock" /\ Shape(c[p]) /\ fs.panic = "no" /\ CacheInv /\ IType
  BY Zenon DEF Ready, Is
<1>2. c[p].op # "link2"
  BY <1>1 DEF Shape, OpAt, Creates
<1>3. CASE ofile[p] # 0
  <2>1. PutThen(p, "ip", Fail(c[p].op)) /\ UNCHANGED <<cwd, ofile, mix>>
    BY <1>2, <1>3, Zenon DEF OpenFile, Fail
  <2>2. l0 \in {"namex", "open", "chdir", "link", "create_old", "create_end", "unlink_end"}
    OBVIOUS
  <2> QED
    BY <2>1, <2>2, IpGone, Zenon
<1>4. CASE ofile[p] = 0
  <2>1. /\ ofile' = [ofile EXCEPT ![p] = c[p].ip] /\ c' = [c EXCEPT ![p] = Idle] /\ cwd' = cwd /\ mix' = mix
    BY <1>4, Zenon DEF OpenFile
  <2>2. c[p].ip \in Inums /\ c[p].dp = 0
    BY Locals DEF UsesIp, UsesDp
  <2>3. c[p].old = 0
    BY <1>1, <1>2, Zenon DEF Shape
  <2>4. Is(Idle, "user", "none", <<>>, <<>>, 0, 0, 0, 0)
    BY InPtr DEF Idle, Is, CallRec, Places
  <2>5. cwd \in [Procs -> Inums]
    BY <1>1, Zenon DEF IType
  <2>6. cwd' = [cwd EXCEPT ![p] = cwd[p]]
    BY <2>1, <2>5, Zenon
  <2>7. Moves(p, Idle, cwd[p], c[p].ip)
    BY <2>1, <2>2, <2>4, <2>5, <2>6, InPtr, Zenon DEF Moves, Is
  <2>8. Shape(Idle)
    BY <2>4 DEF Is, Shape, UsesIp, UsesDp, MayPut, OpAt
  <2>9. Steps(p, Idle, cwd[p], c[p].ip)
    BY <1>1, <2>4, <2>7, <2>8, Zenon DEF Steps, Is
  <2>10. OwnsSame(p, Idle, cwd[p], c[p].ip)
    <3>1. Idle.ip = 0 /\ Idle.dp = 0 /\ Idle.old = 0 /\ Idle.put = 0
      BY <2>4, Zenon DEF Is
    <3> QED
      BY <1>1, <1>4, <2>2, <2>3, <3>1, OneFacts DEF OwnsSame, Owns
  <2>11. Held(Idle) = {}
    BY <2>4, HeldNone DEF Is
  <2> QED
    BY <2>9, <2>10, <2>11, Zenon
<1> QED
  BY <1>3, <1>4, Zenon

\* sys_open's end, after ilock and iunlock.
LEMMA OpensUnlocked ==
  ASSUME NEW p \in Procs, NEW l0 \in {"open", "create_old"}, Ready(p, l0), Unlocked(c[p].ip),
         OpenFile(p, ilock(fs, c[p].ip, p))
  PROVE  CacheInv'
<1>1. fs' = iunlock(ilock(fs, c[p].ip, p), c[p].ip)
  BY Zenon DEF OpenFile
<1>2. c[p].ip \in Inums
  BY Locals DEF UsesIp
<1>3. fs \in FsRec /\ fs.lock[c[p].ip] = NoProc
  BY Zenon DEF Ready, IType, Unlocked
<1>4. Peek(fs, c[p].ip, fs') /\ RefSame(fs, fs')
  BY <1>1, <1>2, <1>3, PeekIs, Zenon
<1>5. PICK r, o : Steps(p, r, cwd[p], o) /\ OwnsSame(p, r, cwd[p], o) /\ Held(r) = {}
  <2>1. l0 \in {"open", "create_old", "create_end"}
    OBVIOUS
  <2> QED
    BY <2>1, Opens, Zenon
<1>6. Counts(p, r, cwd[p], o)
  BY <1>4, <1>5, Zenon DEF Counts
<1>7. Held(c[p]) = {}
  BY HeldNone DEF Ready, Is
<1> QED
  BY <1>2, <1>3, <1>4, <1>5, <1>6, <1>7, PeekStep, Zenon

\* sys_open keeps CacheInv.
LEMMA OpenKeeps == ASSUME CacheInv, NEW p \in Procs, NEW omode, sys_open(p, omode) PROVE CacheInv'
<1>1. At(p, "open") /\ Unlocked(c[p].ip)
  BY Zenon DEF sys_open
<1>2. Ready(p, "open")
  BY <1>1, AtIs, Zenon
<1>3. Fail(c[p].op) = "user"
  BY <1>2 DEF Ready, Is, Shape, OpAt, Fail
<1>4. \/ OpenFile(p, ilock(fs, c[p].ip, p))
      \/ fs' = iunlock(ilock(fs, c[p].ip, p), c[p].ip) /\ PutThen(p, "ip", "user") /\ UNCHANGED <<cwd, ofile, mix>>
  BY Zenon DEF sys_open
<1>5. "open" \in {"open", "create_old"} /\ "open" \in {"namex", "open", "chdir", "link", "create_old"}
  BY Zenon
<1> QED
  BY <1>1, <1>2, <1>3, <1>4, <1>5, IpFails, OpensUnlocked, Zenon

\* create_old keeps CacheInv.
LEMMA OldKeeps == ASSUME CacheInv, NEW p \in Procs, create_old(p) PROVE CacheInv'
<1>1. At(p, "create_old") /\ Unlocked(c[p].ip)
  BY Zenon DEF create_old
<1>2. Ready(p, "create_old")
  BY <1>1, AtIs, Zenon
<1>3. Fail(c[p].op) = "user"
  BY <1>2 DEF Ready, Is, Shape, OpAt, Fail, Creates
<1>4. \/ OpenFile(p, ilock(fs, c[p].ip, p))
      \/ fs' = iunlock(ilock(fs, c[p].ip, p), c[p].ip) /\ PutThen(p, "ip", "user") /\ UNCHANGED <<cwd, ofile, mix>>
  BY Zenon DEF create_old
<1>5. "create_old" \in {"open", "create_old"} /\ "create_old" \in {"namex", "open", "chdir", "link", "create_old"}
  BY Zenon
<1> QED
  BY <1>1, <1>2, <1>3, <1>4, <1>5, IpFails, OpensUnlocked, Zenon
\* The locks that p holds are those of its call.
LEMMA Holds ==
  ASSUME NEW p \in Procs, NEW l, Ready(p, l)
  PROVE  /\ l \in {"create_end", "unlink_end"} => fs.lock[c[p].ip] = p /\ Held(c[p]) = {c[p].ip}
         /\ l \in {"create_new", "unlink_ip", "unlink_bad", "link_exists"} => fs.lock[c[p].dp] = p /\ Held(c[p]) = {c[p].dp}
<1>1. c[p].pc = l /\ c[p].stage = "lock" /\ LockInv
  BY Zenon DEF Ready, Is, CacheInv
<1>2. ASSUME l \in {"create_end", "unlink_end"} PROVE fs.lock[c[p].ip] = p /\ Held(c[p]) = {c[p].ip}
  <2>1. c[p].ip \in Inums
    BY <1>2, Locals DEF UsesIp
  <2>2. Held(c[p]) = {c[p].ip}
    BY <1>1, <1>2, <2>1, HeldIp
  <2> QED
    BY <1>1, <2>1, <2>2, Zenon DEF LockInv
<1>3. ASSUME l \in {"create_new", "unlink_ip", "unlink_bad", "link_exists"} PROVE fs.lock[c[p].dp] = p /\ Held(c[p]) = {c[p].dp}
  <2>1. c[p].dp \in Inums
    BY <1>3, Locals DEF UsesDp
  <2>2. Held(c[p]) = {c[p].dp}
    BY <1>1, <1>3, <2>1, HeldDp
  <2> QED
    BY <1>1, <2>1, <2>2, Zenon DEF LockInv
<1> QED
  BY <1>2, <1>3, Zenon

\* create_end keeps CacheInv.
LEMMA CreatedKeeps == ASSUME CacheInv, NEW p \in Procs, create_end(p) PROVE CacheInv'
<1>1. At(p, "create_end")
  BY Zenon DEF create_end
<1>2. Ready(p, "create_end")
  BY <1>1, AtIs, Zenon
<1>3. Fail(c[p].op) = "user"
  BY <1>2 DEF Ready, Is, Shape, OpAt, Fail, Creates
<1>4. fs' = iunlock(fs, c[p].ip)
  BY Zenon DEF create_end, OpenFile
<1>5. PICK r, o : Steps(p, r, cwd[p], o) /\ OwnsSame(p, r, cwd[p], o) /\ Held(r) = {}
  <2>1. CASE OpenFile(p, fs)
    BY <1>2, <2>1, Opens, Zenon
  <2>2. CASE PutThen(p, "ip", "user") /\ UNCHANGED <<cwd, ofile, mix>>
    BY <1>2, <1>3, <2>2, IpGone, Zenon
  <2> QED
    BY <2>1, <2>2, Zenon DEF create_end
<1>6. c[p].ip \in Inums
  BY <1>2, Locals DEF UsesIp
<1>7. UnlockDoes(fs, c[p].ip, fs')
  BY <1>2, <1>4, <1>6, Iunlock, Zenon DEF Ready, IType
<1>8. fs.lock[c[p].ip] = p /\ Held(c[p]) = {c[p].ip}
  BY <1>2, Holds, Zenon
<1>9. Held(r) = Held(c[p]) \ {c[p].ip}
  BY <1>5, <1>8, Zenon
<1> QED
  BY <1>5, <1>6, <1>7, <1>8, <1>9, FreeStep, Zenon

\* What a directory entry holds
LEMMA LookedUp ==
  ASSUME NEW p \in Procs, IType, NEW i \in Inums, NEW n \in AllNames
  PROVE  /\ dirlookup(ilock(fs, i, p), i, n) = fs.dir[i][n]
         /\ fs.dir[i][n] \in Ptr
         /\ fs.dir[i][n] # 0 => fs.dir[i][n] \in Inums
<1>1. fs \in FsRec
  BY Zenon DEF IType
<1>2. ilock(fs, i, p).dir = fs.dir
  BY <1>1, Reads, ZenonT(60) DEF Hold, Read
<1>3. fs.dir \in [Inums -> DirRec]
  BY <1>1, FsParts, Zenon
<1>4. fs.dir[i][n] \in Ptr
  BY <1>3, Zenon DEF DirRec
<1>5. \A x \in Ptr : x # 0 => x \in Inums
  BY InodeAssumption DEF Ptr, Inums
<1> QED
  BY <1>2, <1>4, <1>5, Zenon DEF dirlookup

\* namex_step keeps CacheInv.
LEMMA NamexKeeps == ASSUME CacheInv, NEW p \in Procs, namex_step(p) PROVE CacheInv'
<1>1. At(p, "namex") /\ c[p].path # <<>> /\ Unlocked(c[p].ip) /\ UNCHANGED <<cwd, ofile, mix>>
  BY Zenon DEF namex_step
<1>2. Ready(p, "namex")
  BY <1>1, AtIs, Zenon
<1>3. c[p].pc = "namex" /\ c[p].put = 0 /\ c[p].stage = "lock" /\ c[p] \in CallRec /\ Shape(c[p]) /\ IType /\ fs.panic = "no"
  BY <1>2, Zenon DEF Ready, Is
<1>4. Held(c[p]) = {}
  BY <1>3, HeldNone
<1>5. /\ c[p].ip \in Inums /\ c[p].dp = 0
      /\ Head(c[p].path) \in AllNames /\ Tail(c[p].path) \in Seq(AllNames)
  BY <1>1, <1>2, Locals DEF UsesIp, UsesDp
<1>6. fs \in FsRec /\ fs.lock[c[p].ip] = NoProc
  BY <1>1, <1>3, Zenon DEF IType, Unlocked
<1>7. PICK s : s = ilock(fs, c[p].ip, p)
  BY Zenon
<1>8. PICK next : next = dirlookup(s, c[p].ip, Head(c[p].path))
  BY Zenon
<1>9. CASE fs' = iunlock(s, c[p].ip) /\ PutThen(p, "ip", Fail(c[p].op))
  BY <1>1, <1>2, <1>7, <1>9, IpFails, Zenon
<1>10. CASE /\ Parent(c[p].op) /\ fs' = iunlock(s, c[p].ip)
            /\ c' = [c EXCEPT ![p].pc = c[p].op, ![p].dp = c[p].ip, ![p].ip = 0]
  <2>1. PICK r : r = [c[p] EXCEPT !.pc = c[p].op, !.dp = c[p].ip, !.ip = 0]
    BY Zenon
  <2>2. c' = [c EXCEPT ![p] = r]
    BY <1>10, <2>1, Zenon
  <2>3. c[p].op \in {"create", "mkdir", "mknod", "unlink", "link2"}
    BY <1>10 DEF Parent, Creates
  <2>4. c[p].op \in Places
    BY <2>3 DEF Places
  <2>5. r \in CallRec
    BY <1>3, <1>5, <2>1, <2>4, InPtr, Zenon DEF CallRec
  <2>6. Is(r, c[p].op, c[p].op, c[p].path, c[p].new, 0, c[p].ip, c[p].old, 0)
    BY <1>3, <2>1, <2>5, Zenon DEF Is, CallRec
  <2>7. Moves(p, r, cwd[p], ofile[p])
    BY <1>1, <1>3, <2>2, <2>6, GoesOn, ZenonT(60) DEF Is
  <2>8. Shape(r)
    BY <1>1, <1>3, <2>3, <2>6 DEF Is, Shape, UsesIp, UsesDp, MayPut, OpAt
  <2>9. Steps(p, r, cwd[p], ofile[p])
    BY <1>3, <2>6, <2>7, <2>8, Zenon DEF Steps, Is
  <2>10. OwnsSame(p, r, cwd[p], ofile[p])
    <3>1. r.ip = 0 /\ r.dp = c[p].ip /\ r.old = c[p].old /\ r.put = 0
      BY <2>6, Zenon DEF Is
    <3> QED
      BY <1>3, <1>5, <3>1, OneFacts DEF OwnsSame, Owns
  <2>11. Held(r) = {}
    BY <2>3, <2>6, HeldNone DEF Is
  <2>12. Peek(fs, c[p].ip, fs') /\ RefSame(fs, fs')
    BY <1>5, <1>6, <1>7, <1>10, PeekIs, Zenon
  <2>13. Counts(p, r, cwd[p], ofile[p])
    BY <2>10, <2>12, Zenon DEF Counts
  <2> QED
    BY <1>4, <1>5, <1>6, <2>9, <2>11, <2>12, <2>13, PeekStep, Zenon
<1>11. CASE /\ next # 0 /\ fs' = iunlock(iget(s, next), c[p].ip)
            /\ c' = [c EXCEPT ![p].put = c[p].ip, ![p].ip = next, ![p].path = Tail(c[p].path)]
  <2>1. next \in Inums
    BY <1>3, <1>5, <1>7, <1>8, <1>11, LookedUp, ZenonT(60)
  <2>2. PICK r : r = [c[p] EXCEPT !.put = c[p].ip, !.ip = next, !.path = Tail(c[p].path)]
    BY Zenon
  <2>3. c' = [c EXCEPT ![p] = r]
    BY <1>11, <2>2, Zenon
  <2>4. r \in CallRec
    BY <1>3, <1>5, <2>1, <2>2, InPtr, Zenon DEF CallRec
  <2>5. Is(r, "namex", c[p].op, Tail(c[p].path), c[p].new, next, 0, c[p].old, c[p].ip)
    BY <1>3, <1>5, <2>2, <2>4, Zenon DEF Is, CallRec
  <2>6. Moves(p, r, cwd[p], ofile[p])
    BY <1>1, <1>3, <2>3, <2>5, GoesOn, Zenon DEF Is
  <2>7. Shape(r)
    BY <1>3, <2>1, <2>5, InPtr DEF Is, Shape, UsesIp, UsesDp, MayPut, OpAt
  <2>8. Steps(p, r, cwd[p], ofile[p])
    BY <1>3, <2>5, <2>6, <2>7, Zenon DEF Steps, Is
  <2>9. OwnsMore(p, r, cwd[p], ofile[p], next)
    <3>1. r.ip = next /\ r.dp = 0 /\ r.old = c[p].old /\ r.put = c[p].ip
      BY <2>5, Zenon DEF Is
    <3>2. Gains(c[p], r, next)
      BY <1>3, <1>5, <3>1, Zenon DEF Gains
    <3> QED
      BY <3>2, GainsOne, Zenon
  <2>10. Held(r) = {}
    BY <2>5, HeldNone DEF Is
  <2>11. Peek(fs, c[p].ip, fs') /\ RefGot(fs, fs', next)
    BY <1>5, <1>6, <1>7, <1>11, <2>1, PeekGetIs, Zenon
  <2>12. Counts(p, r, cwd[p], ofile[p])
    BY <2>1, <2>9, <2>11, Zenon DEF Counts
  <2> QED
    BY <1>4, <1>5, <1>6, <2>8, <2>10, <2>11, <2>12, PeekStep, Zenon
<1> QED
  BY <1>7, <1>8, <1>9, <1>10, <1>11, Zenon DEF namex_step

\* The first step of a call keeps CacheInv.
LEMMA EnterKeeps ==
  ASSUME CacheInv, NEW p \in Procs, NEW op \in Calls \ {"close"}, NEW path \in Seq(AllNames), NEW new \in Seq(AllNames),
         NEW from \in Starts(p), Enter(p, op, path, new, from)
  PROVE  CacheInv'
<1>1. At(p, "user") /\ fs' = iget(fs, from) /\ UNCHANGED <<cwd, ofile, mix>>
  BY Zenon DEF Enter
<1>2. Ready(p, "user")
  BY <1>1, AtIs, Zenon
<1>3. c[p].pc = "user" /\ c[p].put = 0 /\ c[p].stage = "lock" /\ c[p] \in CallRec /\ Shape(c[p]) /\ IType /\ fs.panic = "no"
  BY <1>2, Zenon DEF Ready, Is
<1>4. Held(c[p]) = {}
  BY <1>3, HeldNone
<1>5. c[p].ip = 0 /\ c[p].dp = 0 /\ c[p].old = 0
  BY <1>2, <1>3, Locals DEF UsesIp, UsesDp, Shape
<1>6. from \in Inums
  BY <1>3, InPtr, Zenon DEF Starts, IType
<1>7. PICK r : r = [Idle EXCEPT !.pc = "namex", !.op = op, !.path = path, !.new = new, !.ip = from]
  BY Zenon
<1>8. c' = [c EXCEPT ![p] = r]
  BY <1>7, Zenon DEF Enter
<1>9. Idle \in CallRec /\ Idle.dp = 0 /\ Idle.old = 0 /\ Idle.put = 0 /\ Idle.stage = "lock"
  BY InPtr DEF Idle, CallRec, Places
<1>10. "namex" \in Places /\ op \in Calls
  BY DEF Places
<1>11. r \in CallRec
  BY <1>6, <1>7, <1>9, <1>10, InPtr, Zenon DEF CallRec
<1>12. Is(r, "namex", op, path, new, from, 0, 0, 0)
  BY <1>7, <1>9, <1>11, Zenon DEF Is, CallRec
<1>13. Moves(p, r, cwd[p], ofile[p])
  BY <1>1, <1>3, <1>8, <1>12, GoesOn, Zenon DEF Is
<1>14. Shape(r)
  BY <1>6, <1>12, InPtr DEF Is, Shape, UsesIp, UsesDp, MayPut, OpAt, Calls
<1>15. Steps(p, r, cwd[p], ofile[p])
  BY <1>3, <1>12, <1>13, <1>14, Zenon DEF Steps, Is
<1>16. OwnsMore(p, r, cwd[p], ofile[p], from)
  <2>1. r.ip = from /\ r.dp = 0 /\ r.old = 0 /\ r.put = 0
    BY <1>12, Zenon DEF Is
  <2>2. Gains(c[p], r, from)
    BY <1>3, <1>5, <2>1, Zenon DEF Gains
  <2> QED
    BY <2>2, GainsOne, Zenon
<1>17. Held(r) = {}
  BY <1>12, HeldNone DEF Is
<1>18. IgetDoes(fs, from, fs')
  BY <1>1, <1>3, <1>6, Iget, Zenon DEF IType
<1> QED
  BY <1>4, <1>6, <1>15, <1>16, <1>17, <1>18, GetStep, Zenon

\* sys_chdir keeps CacheInv.
LEMMA ChdirKeeps == ASSUME CacheInv, NEW p \in Procs, sys_chdir(p) PROVE CacheInv'
<1>1. At(p, "chdir") /\ Unlocked(c[p].ip) /\ fs' = iunlock(ilock(fs, c[p].ip, p), c[p].ip) /\ UNCHANGED <<ofile, mix>>
  BY Zenon DEF sys_chdir
<1>2. Ready(p, "chdir")
  BY <1>1, AtIs, Zenon
<1>3. c[p].pc = "chdir" /\ c[p].put = 0 /\ c[p].stage = "lock" /\ c[p] \in CallRec /\ Shape(c[p]) /\ IType /\ fs.panic = "no"
  BY <1>2, Zenon DEF Ready, Is
<1>4. Held(c[p]) = {}
  BY <1>3, HeldNone
<1>5. c[p].ip \in Inums /\ c[p].dp = 0 /\ c[p].op = "chdir"
  BY <1>2, <1>3, Locals DEF UsesIp, UsesDp, Shape, OpAt
<1>6. CASE PutThen(p, "ip", "user") /\ UNCHANGED cwd
  <2>1. Fail(c[p].op) = "user"
    BY <1>5 DEF Fail
  <2> QED
    BY <1>1, <1>2, <1>6, <2>1, IpFails, Zenon
<1>7. CASE cwd' = [cwd EXCEPT ![p] = c[p].ip] /\ c' = [c EXCEPT ![p].put = cwd[p], ![p].ip = 0, ![p].pc = "user"]
  <2>1. PICK r : r = [c[p] EXCEPT !.put = cwd[p], !.ip = 0, !.pc = "user"]
    BY Zenon
  <2>2. c' = [c EXCEPT ![p] = r]
    BY <1>7, <2>1, Zenon
  <2>3. cwd \in [Procs -> Inums] /\ ofile \in [Procs -> Ptr]
    BY <1>3, Zenon DEF IType
  <2>4. cwd[p] \in Ptr /\ cwd[p] \in Inums /\ "user" \in Places
    BY <2>3, InPtr, Zenon DEF Places
  <2>5. r \in CallRec
    BY <1>3, <2>1, <2>4, InPtr, Zenon DEF CallRec
  <2>6. Is(r, "user", c[p].op, c[p].path, c[p].new, 0, 0, c[p].old, cwd[p])
    BY <1>3, <1>5, <2>1, <2>5, Zenon DEF Is, CallRec
  <2>7. ofile' = [ofile EXCEPT ![p] = ofile[p]]
    BY <1>1, <2>3, Zenon
  <2>8. Moves(p, r, c[p].ip, ofile[p])
    BY <1>1, <1>5, <1>7, <2>2, <2>3, <2>6, <2>7, ZenonT(60) DEF Moves, Is
  <2>9. Shape(r)
    BY <1>3, <1>5, <2>6 DEF Is, Shape, UsesIp, UsesDp, MayPut, OpAt
  <2>10. Steps(p, r, c[p].ip, ofile[p])
    BY <1>3, <2>6, <2>8, <2>9, Zenon DEF Steps, Is
  <2>11. OwnsSame(p, r, c[p].ip, ofile[p])
    <3>1. r.ip = 0 /\ r.dp = 0 /\ r.old = c[p].old /\ r.put = cwd[p]
      BY <2>6, Zenon DEF Is
    <3> QED
      BY <1>3, <1>5, <3>1, OneFacts DEF OwnsSame, Owns
  <2>12. Held(r) = {}
    BY <2>6, HeldNone DEF Is
  <2>13. fs \in FsRec /\ fs.lock[c[p].ip] = NoProc
    BY <1>1, <1>3, Zenon DEF IType, Unlocked
  <2>14. Peek(fs, c[p].ip, fs') /\ RefSame(fs, fs')
    BY <1>1, <1>5, <2>13, PeekIs, Zenon
  <2>15. Counts(p, r, c[p].ip, ofile[p])
    BY <2>11, <2>14, Zenon DEF Counts
  <2> QED
    BY <1>4, <1>5, <2>10, <2>12, <2>13, <2>14, <2>15, PeekStep, Zenon
<1> QED
  BY <1>6, <1>7, Zenon DEF sys_chdir

\* sys_close keeps CacheInv.
LEMMA CloseKeeps == ASSUME CacheInv, NEW p \in Procs, sys_close(p) PROVE CacheInv'
<1>1. /\ At(p, "user") /\ fs' = fs /\ UNCHANGED <<cwd, mix>>
      /\ c' = [c EXCEPT ![p].put = ofile[p]] /\ ofile' = [ofile EXCEPT ![p] = 0]
  BY Zenon DEF sys_close
<1>2. Ready(p, "user")
  BY <1>1, AtIs, Zenon
<1>3. c[p].pc = "user" /\ c[p].put = 0 /\ c[p].stage = "lock" /\ c[p] \in CallRec /\ Shape(c[p]) /\ IType /\ fs.panic = "no"
  BY <1>2, Zenon DEF Ready, Is
<1>4. PICK r : r = [c[p] EXCEPT !.put = ofile[p]]
  BY Zenon
<1>5. c' = [c EXCEPT ![p] = r]
  BY <1>1, <1>4, Zenon
<1>6. cwd \in [Procs -> Inums] /\ ofile \in [Procs -> Ptr]
  BY <1>3, Zenon DEF IType
<1>7. r \in CallRec
  BY <1>3, <1>4, <1>6, Zenon DEF CallRec
<1>8. Is(r, "user", c[p].op, c[p].path, c[p].new, c[p].ip, c[p].dp, c[p].old, ofile[p])
  BY <1>3, <1>4, <1>7, Zenon DEF Is, CallRec
<1>9. cwd' = [cwd EXCEPT ![p] = cwd[p]]
  BY <1>1, <1>6, Zenon
<1>10. Moves(p, r, cwd[p], 0)
  BY <1>1, <1>5, <1>6, <1>8, <1>9, InPtr, ZenonT(60) DEF Moves, Is
<1>11. Shape(r)
  BY <1>3, <1>8 DEF Is, Shape, UsesIp, UsesDp, MayPut, OpAt
<1>12. Steps(p, r, cwd[p], 0)
  BY <1>3, <1>8, <1>10, <1>11, Zenon DEF Steps, Is
<1>13. OwnsSame(p, r, cwd[p], 0)
  <2>1. r.ip = c[p].ip /\ r.dp = c[p].dp /\ r.old = c[p].old /\ r.put = ofile[p]
    BY <1>8, Zenon DEF Is
  <2> QED
    BY <1>3, <2>1, OneFacts DEF OwnsSame, Owns
<1>14. Held(r) = {} /\ Held(c[p]) = {}
  BY <1>3, <1>8, HeldNone DEF Is
<1> QED
  BY <1>1, <1>12, <1>13, <1>14, StillStep, Zenon

\* The calls that have a directory locked let go of it.
LEMMA DpGone ==
  ASSUME NEW p \in Procs, NEW l0 \in {"unlink", "unlink_bad", "link_exists"}, Ready(p, l0), NEW l \in {"user", "link_bad"},
         l = Fail(c[p].op), PutThen(p, "dp", l), UNCHANGED <<cwd, ofile, mix>>
  PROVE  \E r : /\ Is(r, l, c[p].op, c[p].path, c[p].new, 0, 0, c[p].old, c[p].dp)
                /\ Steps(p, r, cwd[p], ofile[p]) /\ OwnsSame(p, r, cwd[p], ofile[p]) /\ Held(r) = {}
<1>1. l \in Places
  BY DEF Places
<1>2. c[p].ip = 0
  BY Locals DEF UsesIp
<1>3. PICK r : /\ Is(r, l, c[p].op, c[p].path, c[p].new, c[p].ip, 0, c[p].old, c[p].dp)
               /\ Moves(p, r, cwd[p], ofile[p]) /\ OwnsSame(p, r, cwd[p], ofile[p])
  BY <1>1, PassDp, Zenon
<1>4. c[p].pc = l0 /\ c[p].put = 0 /\ c[p].stage = "lock" /\ Shape(c[p]) /\ fs.panic = "no" /\ CacheInv
  BY Zenon DEF Ready, Is
<1>5. Shape(r)
  BY <1>2, <1>3, <1>4 DEF Is, Shape, UsesIp, UsesDp, MayPut, OpAt, Fail
<1>6. Held(r) = {}
  BY <1>3, HeldNone DEF Is
<1>7. Steps(p, r, cwd[p], ofile[p])
  BY <1>3, <1>4, <1>5, Zenon DEF Steps, Is
<1> QED
  BY <1>2, <1>3, <1>6, <1>7, Zenon

\* A call that fails with dp unlocked and put.
LEMMA DpFreed ==
  ASSUME NEW p \in Procs, NEW l0 \in {"unlink_bad", "link_exists"}, Ready(p, l0),
         PutThen(p, "dp", Fail(c[p].op)), UNCHANGED <<cwd, ofile, mix>>, fs' = iunlock(fs, c[p].dp)
  PROVE  CacheInv'
<1>0. l0 \in {"unlink", "unlink_bad", "link_exists"} /\ Fail(c[p].op) \in {"user", "link_bad"}
  BY DEF Fail
<1>1. PICK r : Steps(p, r, cwd[p], ofile[p]) /\ OwnsSame(p, r, cwd[p], ofile[p]) /\ Held(r) = {}
  BY <1>0, DpGone, Zenon
<1>2. c[p].dp \in Inums
  BY Locals DEF UsesDp
<1>3. fs.lock[c[p].dp] = p /\ Held(c[p]) = {c[p].dp}
  BY Holds
<1>4. UnlockDoes(fs, c[p].dp, fs')
  BY <1>2, Iunlock, Zenon DEF Ready, IType
<1>5. Held(r) = Held(c[p]) \ {c[p].dp}
  BY <1>1, <1>3, Zenon
<1> QED
  BY <1>1, <1>2, <1>3, <1>4, <1>5, FreeStep, ZenonT(60)

\* unlink_bad keeps CacheInv.
LEMMA BadKeeps == ASSUME CacheInv, NEW p \in Procs, unlink_bad(p) PROVE CacheInv'
<1>1. At(p, "unlink_bad") /\ fs' = iunlock(fs, c[p].dp) /\ PutThen(p, "dp", "user") /\ UNCHANGED <<cwd, ofile, mix>>
  BY Zenon DEF unlink_bad
<1>2. Ready(p, "unlink_bad")
  BY <1>1, AtIs, Zenon
<1>3. Fail(c[p].op) = "user"
  BY <1>2 DEF Ready, Is, Shape, OpAt, Fail
<1> QED
  BY <1>1, <1>2, <1>3, DpFreed, Zenon

\* link_exists keeps CacheInv.
LEMMA ExistsKeeps == ASSUME CacheInv, NEW p \in Procs, link_exists(p) PROVE CacheInv'
<1>1. At(p, "link_exists") /\ fs' = iunlock(fs, c[p].dp) /\ PutThen(p, "dp", "link_bad") /\ UNCHANGED <<cwd, ofile, mix>>
  BY Zenon DEF link_exists
<1>2. Ready(p, "link_exists")
  BY <1>1, AtIs, Zenon
<1>3. Fail(c[p].op) = "link_bad"
  BY <1>2 DEF Ready, Is, Shape, OpAt, Fail
<1> QED
  BY <1>1, <1>2, <1>3, DpFreed, Zenon

\* link gives up the old inode.
LEMMA OldGone ==
  ASSUME NEW p \in Procs, NEW l0 \in {"link_end", "link_bad"}, Ready(p, l0), PutThen(p, "old", "user"),
         UNCHANGED <<cwd, ofile, mix>>
  PROVE  \E r : /\ Is(r, "user", c[p].op, c[p].path, c[p].new, 0, 0, 0, c[p].old)
                /\ Steps(p, r, cwd[p], ofile[p]) /\ OwnsSame(p, r, cwd[p], ofile[p]) /\ Held(r) = {}
<1>1. "user" \in Places
  BY DEF Places
<1>2. c[p].ip = 0 /\ c[p].dp = 0
  BY Locals DEF UsesIp, UsesDp
<1>3. PICK r : /\ Is(r, "user", c[p].op, c[p].path, c[p].new, c[p].ip, c[p].dp, 0, c[p].old)
               /\ Moves(p, r, cwd[p], ofile[p]) /\ OwnsSame(p, r, cwd[p], ofile[p])
  BY <1>1, PassOld, Zenon
<1>4. c[p].pc = l0 /\ c[p].put = 0 /\ c[p].stage = "lock" /\ Shape(c[p]) /\ fs.panic = "no" /\ CacheInv
  BY Zenon DEF Ready, Is
<1>5. Shape(r)
  BY <1>2, <1>3, <1>4 DEF Is, Shape, UsesIp, UsesDp, MayPut, OpAt
<1>6. Held(r) = {}
  BY <1>3, HeldNone DEF Is
<1>7. Steps(p, r, cwd[p], ofile[p])
  BY <1>3, <1>4, <1>5, Zenon DEF Steps, Is
<1> QED
  BY <1>2, <1>3, <1>6, <1>7, Zenon

\* link_end keeps CacheInv.
LEMMA LinkedKeeps == ASSUME CacheInv, NEW p \in Procs, link_end(p) PROVE CacheInv'
<1>1. At(p, "link_end") /\ fs' = fs /\ PutThen(p, "old", "user") /\ UNCHANGED <<cwd, ofile, mix>>
  BY Zenon DEF link_end
<1>2. Ready(p, "link_end")
  BY <1>1, AtIs, Zenon
<1>3. PICK r : Steps(p, r, cwd[p], ofile[p]) /\ OwnsSame(p, r, cwd[p], ofile[p]) /\ Held(r) = {}
  BY <1>1, <1>2, OldGone, Zenon
<1>4. Held(c[p]) = {}
  BY <1>2, HeldNone DEF Ready, Is
<1> QED
  BY <1>1, <1>3, <1>4, StillStep, Zenon

\* An inode that the cache has as the disk has it
Clean(s, i) == s.mem[i].valid => Same(s, i) /\ (s.panic = "no" => s.mem[i].type # "none")
\* An entry equal to the disk is a good one.
LEMMA CleanIsGood == \A s, i : Clean(s, i) => Good(s, i)
  BY Zenon DEF Clean, Good

\* What a call may lock is equal to the disk.
LEMMA HeldClean ==
  ASSUME IType, LockInv, MemInv, NEW p \in Procs, NEW i \in Inums, fs.lock[i] \in {p, NoProc}, c[p].stage = "lock"
  PROVE  Clean(fs, i)
<1>1. ~Dying(i)
  BY NotDying, Zenon
<1> QED
  BY <1>1, Zenon DEF MemInv, Clean
\* Inode i read from the disk, if need be, and nothing else
Loads(s, i, t) ==
    /\ t \in FsRec /\ Clean(t, i) /\ t.mem[i].valid /\ t.disk = s.disk /\ t.dir = s.dir
    /\ \A j \in Inums : j # i => t.mem[j] = s.mem[j]
\* What has been read is equal to the disk.
LEMMA ReadClean ==
  ASSUME NEW s \in FsRec, NEW i \in Inums, Clean(s, i), s.panic = "no", NEW t, Read(s, i, t)
  PROVE  Loads(s, i, t)
<1> SUFFICES Clean(t, i) /\ t.mem[i].valid
  <2>1. t \in FsRec /\ t.disk = s.disk /\ t.dir = s.dir /\ t.mem = [s.mem EXCEPT ![i] = Loaded(s, i)]
    BY Zenon DEF Read
  <2>2. s.mem \in [Inums -> MemRec]
    BY FsParts, Zenon
  <2>3. \A j \in Inums : j # i => t.mem[j] = s.mem[j]
    BY <2>1, <2>2, Zenon
  <2> QED
    BY <2>1, <2>3, Zenon DEF Loads
<1>1. s.mem \in [Inums -> MemRec] /\ s.disk[i] \in DiskRec
  BY FsParts, Zenon
<1>2. /\ t.mem = [s.mem EXCEPT ![i] = Loaded(s, i)] /\ t.disk = s.disk
      /\ t.panic = "no" => s.mem[i].valid \/ s.disk[i].type # "none"
  BY Zenon DEF Read
<1>3. t.mem[i] = Loaded(s, i) /\ \A j \in Inums : j # i => t.mem[j] = s.mem[j]
  BY <1>1, <1>2, Zenon
<1>4. CASE s.mem[i].valid
  <2>1. Same(s, i) /\ s.mem[i].type # "none"
    BY <1>4, Zenon DEF Clean
  <2>2. t.mem[i] = s.mem[i]
    BY <1>3, <1>4, Zenon DEF Loaded
  <2> QED
    BY <1>2, <1>3, <1>4, <2>1, <2>2 DEF Clean, Same
<1>5. CASE ~s.mem[i].valid
  <2>1. t.mem[i] = [valid |-> TRUE, type |-> s.disk[i].type, nlink |-> s.disk[i].nlink]
    BY <1>3, <1>5, Zenon DEF Loaded
  <2>2. t.mem[i].type = s.disk[i].type /\ t.mem[i].nlink = s.disk[i].nlink /\ t.mem[i].valid
    BY <2>1
  <2>3. Same(t, i)
    BY <2>2, <1>1, <1>2, Zenon DEF Same, DiskRec
  <2> QED
    BY <2>2, <2>3, <1>2, <1>3, <1>5, Zenon DEF Clean
<1> QED
  BY <1>4, <1>5, Zenon
\* Nothing but the inodes i and k has changed.
Outside(s, t, i, k) == \A j \in Inums : j # i /\ j # k => t.mem[j] = s.mem[j] /\ t.disk[j] = s.disk[j] /\ t.lock[j] = s.lock[j]
\* Two inodes changed, and equal to the disk.
LEMMA CleanCase ==
  ASSUME NEW i, NEW k, Outside(fs, fs', i, k), Clean(fs', i), Clean(fs', k)
  PROVE  \A j \in Inums : MemCase(fs, fs', j)
  BY CleanIsGood, Zenon DEF Outside, MemCase

\* A link more or less
RelinkDoes(s, i, d, t) ==
    /\ t \in FsRec /\ t.dir = s.dir /\ t.ref = s.ref /\ t.lock = s.lock /\ t.panic = s.panic
    /\ t.disk = [s.disk EXCEPT ![i] = [type |-> s.mem[i].type, nlink |-> s.mem[i].nlink + d]]
    /\ t.mem[i].valid = s.mem[i].valid /\ t.mem[i].type = s.mem[i].type /\ t.mem[i].nlink = s.mem[i].nlink + d
    /\ Clean(s, i) => Clean(t, i)
    /\ \A j \in Inums \ {i} : t.mem[j] = s.mem[j] /\ t.disk[j] = s.disk[j]
\* A change of nlink is written through.
LEMMA Relinks ==
  ASSUME NEW s \in FsRec, NEW i \in Inums, NEW d \in Int
  PROVE  RelinkDoes(s, i, d, Relink(s, i, d))
<1>1. PICK t : t = Relink(s, i, d)
  BY Zenon
<1>2. s.mem[i] \in MemRec /\ s.disk \in [Inums -> DiskRec]
  BY FsParts, Zenon
<1>3. s.mem[i].type \in Types /\ s.mem[i].nlink \in Int
  BY <1>2, Zenon DEF MemRec
<1>4. PICK n \in Int : n = s.mem[i].nlink + d
  BY <1>3
<1>5. t = iupdate(s, i, s.mem[i].type, n)
  BY <1>1, <1>4, Zenon DEF Relink
<1>6. WriteDoes(s, i, s.mem[i].type, n, t)
  BY <1>3, <1>5, Iupdate, Zenon
<1>7. t.disk[i] = [type |-> s.mem[i].type, nlink |-> n] /\ \A j \in Inums \ {i} : t.disk[j] = s.disk[j]
  BY <1>2, <1>6, Zenon DEF WriteDoes
<1>8. Clean(s, i) => Clean(t, i)
  BY <1>6, <1>7, Zenon DEF WriteDoes, Clean, Same
<1>9. RelinkDoes(s, i, d, t)
  BY <1>4, <1>6, <1>7, <1>8, Zenon DEF WriteDoes, RelinkDoes
<1> QED
  BY <1>1, <1>9, Zenon

\* What a call has locked is equal to the disk.
LEMMA HoldClean ==
  ASSUME NEW p \in Procs, NEW l, Ready(p, l), NEW i \in Inums, fs.lock[i] = NoProc, NEW s, Hold(fs, i, p, s)
  PROVE  Loads(fs, i, s)
<1>1. fs \in FsRec /\ fs.panic = "no" /\ c[p].stage = "lock" /\ IType /\ LockInv /\ MemInv
  BY Zenon DEF Ready, Is, IType, CacheInv
<1>2. Clean(fs, i)
  BY <1>1, HeldClean, Zenon
<1>3. Read(fs, i, s)
  BY Zenon DEF Hold
<1> QED
  BY <1>1, <1>2, <1>3, ReadClean, Zenon

\* sys_unlink keeps CacheInv.
LEMMA FindKeeps == ASSUME CacheInv, NEW p \in Procs, sys_unlink(p) PROVE CacheInv'
<1>1. At(p, "unlink") /\ Unlocked(c[p].dp) /\ UNCHANGED <<cwd, ofile, mix>>
  BY Zenon DEF sys_unlink
<1>2. Ready(p, "unlink")
  BY <1>1, AtIs, Zenon
<1>3. c[p].pc = "unlink" /\ c[p].put = 0 /\ c[p].stage = "lock" /\ c[p] \in CallRec /\ Shape(c[p]) /\ IType /\ fs.panic = "no"
  BY <1>2, Zenon DEF Ready, Is
<1>4. Held(c[p]) = {}
  BY <1>3, HeldNone
<1>5. c[p].dp \in Inums /\ c[p].ip = 0 /\ c[p].path # <<>>
  BY <1>2, Locals DEF UsesIp, UsesDp
<1>6. Head(c[p].path) \in AllNames
  BY <1>2, <1>5, Locals, Zenon
<1>7. fs \in FsRec /\ fs.lock[c[p].dp] = NoProc
  BY <1>1, <1>3, Zenon DEF IType, Unlocked
<1>8. PICK s : s = ilock(fs, c[p].dp, p)
  BY Zenon
<1>9. PICK ent : ent = dirlookup(s, c[p].dp, Head(c[p].path))
  BY Zenon
<1>10. CASE fs' = iunlock(s, c[p].dp) /\ PutThen(p, "dp", "user")
  <2>1. "user" = Fail(c[p].op)
    BY <1>3 DEF Shape, OpAt, Fail
  <2>2. PICK r : Steps(p, r, cwd[p], ofile[p]) /\ OwnsSame(p, r, cwd[p], ofile[p]) /\ Held(r) = {}
    BY <1>1, <1>2, <1>10, <2>1, DpGone, Zenon
  <2>3. Peek(fs, c[p].dp, fs') /\ RefSame(fs, fs')
    BY <1>5, <1>7, <1>8, <1>10, PeekIs, Zenon
  <2>4. Counts(p, r, cwd[p], ofile[p])
    BY <2>2, <2>3, Zenon DEF Counts
  <2> QED
    BY <1>4, <1>5, <1>7, <2>2, <2>3, <2>4, PeekStep, ZenonT(60)
<1>11. CASE ent # 0 /\ fs' = iget(s, ent) /\ c' = [c EXCEPT ![p].ip = ent, ![p].pc = "unlink_ip"]
  <2>1. ent \in Inums
    BY <1>3, <1>5, <1>6, <1>8, <1>9, <1>11, LookedUp, ZenonT(60)
  <2>2. PICK r : r = [c[p] EXCEPT !.ip = ent, !.pc = "unlink_ip"]
    BY Zenon
  <2>3. c' = [c EXCEPT ![p] = r]
    BY <1>11, <2>2, Zenon
  <2>4. r \in CallRec
    BY <1>3, <2>1, <2>2, InPtr, Zenon DEF CallRec, Places
  <2>5. Is(r, "unlink_ip", c[p].op, c[p].path, c[p].new, ent, c[p].dp, c[p].old, 0)
    BY <1>3, <2>2, <2>4, Zenon DEF Is, CallRec
  <2>6. Moves(p, r, cwd[p], ofile[p])
    BY <1>1, <1>3, <2>3, <2>5, GoesOn, ZenonT(60) DEF Is
  <2>7. Shape(r)
    BY <1>3, <1>5, <2>1, <2>5, InPtr DEF Is, Shape, UsesIp, UsesDp, MayPut, OpAt
  <2>8. Steps(p, r, cwd[p], ofile[p])
    BY <1>3, <2>5, <2>6, <2>7, Zenon DEF Steps, Is
  <2>9. OwnsMore(p, r, cwd[p], ofile[p], ent)
    <3>1. r.ip = ent /\ r.dp = c[p].dp /\ r.old = c[p].old /\ r.put = 0
      BY <2>5, Zenon DEF Is
    <3>2. Gains(c[p], r, ent)
      BY <1>3, <1>5, <3>1, Zenon DEF Gains
    <3> QED
      BY <3>2, GainsOne, Zenon
  <2>10. Held(r) = {c[p].dp}
    BY <1>5, <2>5, HeldDp DEF Is
  <2>11. Hold(fs, c[p].dp, p, fs') /\ RefGot(fs, fs', ent)
    BY <1>5, <1>7, <1>8, <1>11, <2>1, HoldGetIs, Zenon
  <2>12. Counts(p, r, cwd[p], ofile[p])
    BY <2>1, <2>9, <2>11, Zenon DEF Counts
  <2>13. Held(r) = Held(c[p]) \cup {c[p].dp}
    BY <1>4, <2>10, Zenon
  <2> QED
    BY <1>5, <1>7, <2>8, <2>11, <2>12, <2>13, HoldStep, ZenonT(60)
<1> QED
  BY <1>8, <1>9, <1>10, <1>11, Zenon DEF sys_unlink

\* link_dp keeps CacheInv.
LEMMA LinkDpKeeps == ASSUME CacheInv, NEW p \in Procs, link_dp(p) PROVE CacheInv'
<1>1. At(p, "link2") /\ Unlocked(c[p].dp) /\ UNCHANGED <<cwd, ofile, mix>>
  BY Zenon DEF link_dp
<1>2. Ready(p, "link2")
  BY <1>1, AtIs, Zenon
<1>3. c[p].pc = "link2" /\ c[p].put = 0 /\ c[p].stage = "lock" /\ c[p] \in CallRec /\ Shape(c[p]) /\ IType /\ fs.panic = "no"
  BY <1>2, Zenon DEF Ready, Is
<1>4. Held(c[p]) = {}
  BY <1>3, HeldNone
<1>5. c[p].dp \in Inums /\ c[p].ip = 0 /\ c[p].path # <<>>
  BY <1>2, Locals DEF UsesIp, UsesDp
<1>6. Head(c[p].path) \in AllNames
  BY <1>2, <1>5, Locals, Zenon
<1>7. fs \in FsRec /\ fs.lock[c[p].dp] = NoProc
  BY <1>1, <1>3, Zenon DEF IType, Unlocked
<1>8. PICK s : s = ilock(fs, c[p].dp, p)
  BY Zenon
<1>9. PICK ent : ent = dirlookup(s, c[p].dp, Head(c[p].path))
  BY Zenon
<1>10. CASE fs' = iunlock(dirlink(s, c[p].dp, Head(c[p].path), c[p].old), c[p].dp) /\ PutThen(p, "dp", "link_end")
  <2>1. "link_end" \in Places /\ c[p].old \in Ptr
    BY <1>3, Zenon DEF Places, CallRec
  <2>2. PICK r : /\ Is(r, "link_end", c[p].op, c[p].path, c[p].new, c[p].ip, 0, c[p].old, c[p].dp)
                 /\ Moves(p, r, cwd[p], ofile[p]) /\ OwnsSame(p, r, cwd[p], ofile[p])
    BY <1>1, <1>2, <1>10, <2>1, PassDp, ZenonT(60)
  <2>3. Shape(r)
    BY <1>3, <1>5, <2>2 DEF Is, Shape, UsesIp, UsesDp, MayPut, OpAt
  <2>4. Steps(p, r, cwd[p], ofile[p])
    BY <1>3, <2>2, <2>3, Zenon DEF Steps, Is
  <2>5. Hold(fs, c[p].dp, p, s) /\ RefSame(fs, s)
    BY <1>5, <1>7, <1>8, Reads, Zenon
  <2>6. s \in FsRec
    BY <2>5, Zenon DEF Hold, Read
  <2>7. PICK u : u = dirlink(s, c[p].dp, Head(c[p].path), c[p].old)
    BY Zenon
  <2>8. EntryDoes(s, c[p].dp, Head(c[p].path), c[p].old, u)
    BY <1>5, <1>6, <2>1, <2>6, <2>7, Dirlink, Zenon
  <2>9. UnlockDoes(u, c[p].dp, fs')
    BY <1>5, <1>10, <2>7, <2>8, Iunlock, ZenonT(60) DEF EntryDoes
  <2>10. fs'.lock = fs.lock
    <3>1. fs.lock \in [Inums -> Procs \cup {NoProc}]
      BY <1>7, FsParts, Zenon
    <3>2. fs'.lock = [[fs.lock EXCEPT ![c[p].dp] = p] EXCEPT ![c[p].dp] = NoProc]
      BY <2>5, <2>8, <2>9, Zenon DEF Hold, EntryDoes, UnlockDoes
    <3> QED
      BY <1>5, <1>7, <3>1, <3>2
  <2>12. Clean(s, c[p].dp) /\ \A j \in Inums : j # c[p].dp => s.mem[j] = fs.mem[j]
    <3>1. Loads(fs, c[p].dp, s)
      BY <1>2, <1>5, <1>7, <2>5, HoldClean, Zenon
    <3> QED
      BY <3>1, Zenon DEF Loads
  <2>13. /\ fs' \in FsRec /\ fs'.mem = s.mem /\ fs'.disk = s.disk /\ s.disk = fs.disk /\ fs'.panic = s.panic
         /\ fs'.ref = s.ref
    BY <2>5, <2>8, <2>9, Zenon DEF Hold, Read, EntryDoes, UnlockDoes
  <2>14. Clean(fs', c[p].dp)
    BY <2>12, <2>13, Zenon DEF Clean, Same
  <2>15. \A j \in Inums : MemCase(fs, fs', j)
    <3>1. Outside(fs, fs', c[p].dp, c[p].dp)
      BY <2>10, <2>12, <2>13, Zenon DEF Outside
    <3> QED
      BY <2>14, <3>1, CleanCase, Zenon
  <2>16. Counts(p, r, cwd[p], ofile[p])
    BY <2>2, <2>5, <2>13, Zenon DEF Counts, RefSame
  <2>17. Held(r) = {}
    BY <2>2, HeldNone DEF Is
  <2>18. Locks(p, r)
    BY <1>4, <2>10, <2>17, ZenonT(60) DEF Locks
  <2> QED
    BY <2>4, <2>13, <2>15, <2>16, <2>18, Stepped, Zenon
<1>11. CASE ent # 0 /\ fs' = iget(s, ent) /\ c' = [c EXCEPT ![p].put = ent, ![p].pc = "link_exists"]
  <2>1. ent \in Inums
    BY <1>3, <1>5, <1>6, <1>8, <1>9, <1>11, LookedUp, ZenonT(60)
  <2>2. PICK r : r = [c[p] EXCEPT !.put = ent, !.pc = "link_exists"]
    BY Zenon
  <2>3. c' = [c EXCEPT ![p] = r]
    BY <1>11, <2>2, Zenon
  <2>4. r \in CallRec
    BY <1>3, <2>1, <2>2, InPtr, Zenon DEF CallRec, Places
  <2>5. Is(r, "link_exists", c[p].op, c[p].path, c[p].new, c[p].ip, c[p].dp, c[p].old, ent)
    BY <1>3, <2>2, <2>4, Zenon DEF Is, CallRec
  <2>6. Moves(p, r, cwd[p], ofile[p])
    BY <1>1, <1>3, <2>3, <2>5, GoesOn, ZenonT(60) DEF Is
  <2>7. Shape(r)
    BY <1>3, <1>5, <2>1, <2>5, InPtr DEF Is, Shape, UsesIp, UsesDp, MayPut, OpAt
  <2>8. Steps(p, r, cwd[p], ofile[p])
    BY <1>3, <2>5, <2>6, <2>7, ZenonT(60) DEF Steps, Is
  <2>9. OwnsMore(p, r, cwd[p], ofile[p], ent)
    <3>1. r.ip = c[p].ip /\ r.dp = c[p].dp /\ r.old = c[p].old /\ r.put = ent
      BY <2>5, Zenon DEF Is
    <3>2. Gains(c[p], r, ent)
      BY <1>3, <1>5, <3>1, Zenon DEF Gains
    <3> QED
      BY <3>2, GainsOne, Zenon
  <2>10. Held(r) = {c[p].dp}
    BY <1>5, <2>5, HeldDp DEF Is
  <2>11. Hold(fs, c[p].dp, p, fs') /\ RefGot(fs, fs', ent)
    BY <1>5, <1>7, <1>8, <1>11, <2>1, HoldGetIs, ZenonT(60)
  <2>12. Counts(p, r, cwd[p], ofile[p])
    BY <2>1, <2>9, <2>11, Zenon DEF Counts
  <2>13. Held(r) = Held(c[p]) \cup {c[p].dp}
    BY <1>4, <2>10, Zenon
  <2> QED
    BY <1>5, <1>7, <2>8, <2>11, <2>12, <2>13, HoldStep, Zenon
<1> QED
  BY <1>8, <1>9, <1>10, <1>11, Zenon DEF link_dp

\* A step that ends in a panic leaves the cache written through.
LEMMA PanicStep ==
  ASSUME NEW p \in Procs, NEW l, Ready(p, l), NEW r, NEW w, NEW o, Moves(p, r, w, o), r.stage = "lock",
         fs' \in FsRec, fs'.panic # "no", \A j \in Inums : MemCase(fs, fs', j)
  PROVE  CacheInv'
<1>1. CacheInv /\ fs.panic = "no" /\ c[p].stage = "lock"
  BY Zenon DEF Ready, Is
<1> QED
  BY <1>1, CallStep, Zenon

\* create finds the name: a reference to the inode it has.
LEMMA CreateOldIs ==
  ASSUME NEW p \in Procs, c[p].op \in Creates, Ready(p, c[p].op), Unlocked(c[p].dp), UNCHANGED <<cwd, ofile, mix>>,
         NEW old, old = dirlookup(ilock(fs, c[p].dp, p), c[p].dp, Head(c[p].path)), old # 0,
         fs' = iunlock(iget(ilock(fs, c[p].dp, p), old), c[p].dp),
         c' = [c EXCEPT ![p].put = c[p].dp, ![p].dp = 0, ![p].ip = old, ![p].pc = "create_old"]
  PROVE  CacheInv'
<1>3. c[p].pc = c[p].op /\ c[p].put = 0 /\ c[p].stage = "lock" /\ c[p] \in CallRec /\ Shape(c[p]) /\ IType /\ fs.panic = "no"
  BY Zenon DEF Ready, Is
<1>4. Held(c[p]) = {}
  BY <1>3, HeldNone DEF Creates
<1>5. c[p].dp \in Inums /\ c[p].ip = 0 /\ c[p].path # <<>>
  BY Locals DEF UsesIp, UsesDp, Creates
<1>6. Head(c[p].path) \in AllNames
  BY <1>5, Locals, Zenon
<1>7. fs \in FsRec /\ fs.lock[c[p].dp] = NoProc
  BY <1>3, Zenon DEF IType, Unlocked
<1>8. old \in Inums
  <2>1. PICK n \in AllNames : n = Head(c[p].path)
    BY <1>6, Zenon
  <2>2. old = fs.dir[c[p].dp][n] /\ (fs.dir[c[p].dp][n] # 0 => fs.dir[c[p].dp][n] \in Inums)
    BY <1>3, <1>5, <2>1, LookedUp, Zenon
  <2> QED
    BY <2>2, Zenon
<1>9. PICK r : r = [c[p] EXCEPT !.put = c[p].dp, !.dp = 0, !.ip = old, !.pc = "create_old"]
  BY Zenon
<1>10. c' = [c EXCEPT ![p] = r]
  BY <1>9, Zenon
<1>11. r \in CallRec
  BY <1>3, <1>8, <1>9, InPtr, Zenon DEF CallRec, Places
<1>12. Is(r, "create_old", c[p].op, c[p].path, c[p].new, old, 0, c[p].old, c[p].dp)
  BY <1>3, <1>9, <1>11, ZenonT(60) DEF Is, CallRec
<1>13. Moves(p, r, cwd[p], ofile[p])
  BY <1>3, <1>10, <1>12, GoesOn, Zenon DEF Is
<1>14. Shape(r)
  BY <1>3, <1>8, <1>12, InPtr DEF Is, Shape, UsesIp, UsesDp, MayPut, OpAt, Creates
<1>15. Steps(p, r, cwd[p], ofile[p])
  BY <1>3, <1>12, <1>13, <1>14, Zenon DEF Steps, Is, Ready
<1>16. OwnsMore(p, r, cwd[p], ofile[p], old)
  <2>1. r.ip = old /\ r.dp = 0 /\ r.old = c[p].old /\ r.put = c[p].dp
    BY <1>12, Zenon DEF Is
  <2>2. Gains(c[p], r, old)
    BY <1>3, <1>5, <2>1, Zenon DEF Gains
  <2> QED
    BY <2>2, GainsOne, Zenon
<1>17. Held(r) = {}
  BY <1>12, HeldNone DEF Is
<1>18. Peek(fs, c[p].dp, fs') /\ RefGot(fs, fs', old)
  BY <1>5, <1>7, <1>8, PeekGetIs, Zenon
<1>19. Counts(p, r, cwd[p], ofile[p])
  BY <1>8, <1>16, <1>18, Zenon DEF Counts
<1> QED
  BY <1>4, <1>5, <1>7, <1>15, <1>17, <1>18, <1>19, PeekStep, ZenonT(60)

\* An inode that is allocated is cached only while it is being freed.
LEMMA AllocMem ==
  ASSUME NEW p \in Procs, NEW l, Ready(p, l), NEW d \in Inums, fs.lock[d] = NoProc, NEW s, Hold(fs, d, p, s),
         NEW ty, NEW t, AllocDoes(s, ty, t)
  PROVE  \A j \in Inums : MemCase(fs, t, j)
<1>1. /\ s \in FsRec /\ Clean(s, d) /\ s.mem[d].valid /\ s.disk = fs.disk
      /\ \A j \in Inums : j # d => s.mem[j] = fs.mem[j]
  <2>1. Loads(fs, d, s)
    BY HoldClean, Zenon
  <2> QED
    BY <2>1, Zenon DEF Loads
<1>2. SetFacts /\ fs.lock \in [Inums -> Procs \cup {NoProc}] /\ p # NoProc /\ fs.panic = "no"
  BY FsParts, InodeAssumption, Zenon DEF Ready, IType
<1>3. s.lock[d] = p /\ \A j \in Inums : j # d => s.lock[j] = fs.lock[j]
  BY <1>2, Zenon DEF Hold
<1>4. t.mem = s.mem /\ t.lock = s.lock /\ (t.panic = "no" => s.panic = "no")
  <2>1. t.mem = s.mem /\ t.lock = s.lock
    BY Zenon DEF AllocDoes
  <2>2. t.panic \in {s.panic, "iget", "ialloc"}
    BY Zenon DEF AllocDoes
  <2> QED
    BY <2>1, <2>2
<1>5. CASE t.disk = s.disk
  <2>1. Clean(t, d)
    BY <1>1, <1>4, <1>5, Zenon DEF Clean, Same
  <2> QED
    BY <1>1, <1>3, <1>4, <1>5, <2>1, CleanIsGood, Zenon DEF MemCase
<1>6. CASE Free(s) # {} /\ t.disk = [s.disk EXCEPT ![FirstFree(s)] = [type |-> ty, nlink |-> 0]]
  <2>1. PICK f \in Inums : f = FirstFree(s) /\ s.disk[f].type = "none"
    BY <1>1, <1>2, <1>6, FirstFreeIs, Zenon
  <2>2. \A j \in Inums : j # f => t.disk[j] = s.disk[j]
    <3>1. s.disk \in [Inums -> DiskRec]
      BY <1>1, FsParts, Zenon
    <3> QED
      BY <1>6, <2>1, <3>1, Zenon
  <2>3. ASSUME NEW j \in Inums PROVE MemCase(fs, t, j)
    <3>1. CASE j # d /\ j # f
      BY <1>1, <1>3, <1>4, <2>2, <3>1, Zenon DEF MemCase
    <3>2. CASE j = d /\ j # f
      <4>1. Clean(t, j)
        BY <1>1, <1>4, <2>2, <3>2, Zenon DEF Clean, Same
      <4> QED
        BY <4>1, CleanIsGood, Zenon DEF MemCase
    <3>3. CASE j # d /\ j = f
      <4>1. fs.mem[j].valid => Dying(j)
        <5>1. fs.mem[j].valid => Dying(j) \/ (Same(fs, j) /\ fs.mem[j].type # "none")
          BY <1>2, Zenon DEF Ready, CacheInv, MemInv
        <5>2. Same(fs, j) => fs.mem[j].type = "none"
          BY <1>1, <2>1, <3>3 DEF Same
        <5> QED
          BY <5>1, <5>2, Zenon
      <4> QED
        BY <1>1, <1>3, <1>4, <3>3, <4>1, Zenon DEF MemCase
    <3>4. CASE j = d /\ j = f
      <4>1. s.panic # "no"
        <5>1. Same(s, j) /\ (s.panic = "no" => s.mem[j].type # "none")
          BY <1>1, <3>4, Zenon DEF Clean
        <5>2. s.mem[j].type = "none"
          BY <2>1, <3>4, <5>1 DEF Same
        <5> QED
          BY <5>1, <5>2, Zenon
      <4>2. Good(t, j)
        BY <1>2, <1>3, <1>4, <3>4, <4>1, Zenon DEF Good
      <4> QED
        BY <4>2, Zenon DEF MemCase
    <3> QED
      BY <3>1, <3>2, <3>3, <3>4, Zenon
  <2> QED
    BY <2>3, Zenon
<1> QED
  BY <1>5, <1>6, Zenon DEF AllocDoes

\* create does not find it: a new inode.
LEMMA CreateNewIs ==
  ASSUME NEW p \in Procs, c[p].op \in Creates, Ready(p, c[p].op), Unlocked(c[p].dp), UNCHANGED <<cwd, ofile, mix>>,
         NEW s, s = ilock(fs, c[p].dp, p), fs' = ialloc(s, TypeOf(c[p].op)),
         c' = [c EXCEPT ![p].ip = IF fs'.panic = "no" THEN FirstFree(s) ELSE 0, ![p].pc = "create_new"]
  PROVE  CacheInv'
<1>3. c[p].pc = c[p].op /\ c[p].put = 0 /\ c[p].stage = "lock" /\ c[p] \in CallRec /\ Shape(c[p]) /\ IType /\ fs.panic = "no"
  BY Zenon DEF Ready, Is
<1>4. Held(c[p]) = {}
  BY <1>3, HeldNone DEF Creates
<1>5. c[p].dp \in Inums /\ c[p].ip = 0 /\ c[p].path # <<>>
  BY Locals DEF UsesIp, UsesDp, Creates
<1>7. SetFacts /\ fs \in FsRec /\ fs.lock[c[p].dp] = NoProc
  BY <1>3, Zenon DEF IType, Unlocked
<1>8. Hold(fs, c[p].dp, p, s) /\ RefSame(fs, s) /\ s \in FsRec
  <2>1. Hold(fs, c[p].dp, p, s) /\ RefSame(fs, s)
    BY <1>5, <1>7, Reads, Zenon
  <2> QED
    BY <2>1, Zenon DEF Hold, Read
<1>9. TypeOf(c[p].op) \in Types
  BY DEF TypeOf, Types, Creates
<1>10. AllocDoes(s, TypeOf(c[p].op), fs')
  BY <1>7, <1>8, <1>9, Ialloc, Zenon
<1>11. \A j \in Inums : MemCase(fs, fs', j)
  BY <1>5, <1>7, <1>8, <1>10, AllocMem, Zenon
<1>12. fs' \in FsRec /\ fs'.lock = [fs.lock EXCEPT ![c[p].dp] = p]
  BY <1>8, <1>10, Zenon DEF AllocDoes, Hold
<1>13. PICK f : f = IF fs'.panic = "no" THEN FirstFree(s) ELSE 0
  BY Zenon
<1>14. fs'.panic = "no" => f = FirstFree(s) /\ f \in Inums /\ RefGot(fs, fs', f)
  <2> HAVE fs'.panic = "no"
  <2>1. /\ Free(s) # {} /\ s.panic = "no" /\ fs'.ref = [s.ref EXCEPT ![FirstFree(s)] = s.ref[FirstFree(s)] + 1]
    BY <1>10, Zenon DEF AllocDoes
  <2>2. f = FirstFree(s) /\ f \in Inums
    BY <1>7, <1>8, <1>13, <2>1, FirstFreeIs, Zenon
  <2> QED
    BY <1>3, <1>8, <2>1, <2>2, Zenon DEF RefGot, RefSame
<1>15. f \in Ptr
  BY <1>13, <1>14, InPtr, Zenon
<1>16. PICK r : r = [c[p] EXCEPT !.ip = f, !.pc = "create_new"]
  BY Zenon
<1>17. c' = [c EXCEPT ![p] = r]
  BY <1>13, <1>16, Zenon
<1>18. r \in CallRec
  BY <1>3, <1>15, <1>16, Zenon DEF CallRec, Places
<1>19. Is(r, "create_new", c[p].op, c[p].path, c[p].new, f, c[p].dp, c[p].old, 0)
  BY <1>3, <1>16, <1>18, Zenon DEF Is, CallRec
<1>20. Moves(p, r, cwd[p], ofile[p])
  BY <1>3, <1>17, <1>19, GoesOn, Zenon DEF Is
<1>21. CASE fs'.panic # "no"
  BY <1>11, <1>12, <1>19, <1>20, <1>21, PanicStep, Zenon DEF Is
<1>22. CASE fs'.panic = "no"
  <2>1. Shape(r)
    BY <1>3, <1>5, <1>14, <1>19, <1>22, InPtr DEF Is, Shape, UsesIp, UsesDp, MayPut, OpAt, Creates
  <2>2. Steps(p, r, cwd[p], ofile[p])
    BY <1>3, <1>19, <1>20, <2>1, Zenon DEF Steps, Is, Ready
  <2>3. OwnsMore(p, r, cwd[p], ofile[p], f)
    <3>1. r.ip = f /\ r.dp = c[p].dp /\ r.old = c[p].old /\ r.put = 0
      BY <1>19, Zenon DEF Is
    <3>2. Gains(c[p], r, f)
      BY <1>3, <1>5, <3>1, Zenon DEF Gains
    <3> QED
      BY <3>2, GainsOne, Zenon
  <2>4. Counts(p, r, cwd[p], ofile[p])
    BY <1>14, <1>22, <2>3, Zenon DEF Counts
  <2>5. Held(r) = {c[p].dp}
    BY <1>5, <1>19, HeldDp DEF Is
  <2>6. Locks(p, r)
    BY <1>4, <1>5, <1>7, <1>12, <2>5, Zenon DEF Locks
  <2> QED
    BY <1>11, <1>12, <2>2, <2>4, <2>6, Stepped, ZenonT(60)
<1> QED
  BY <1>21, <1>22, Zenon

\* create keeps CacheInv.
LEMMA CreateKeeps == ASSUME CacheInv, NEW p \in Procs, create(p) PROVE CacheInv'
<1>1. c[p].op \in Creates /\ At(p, c[p].op) /\ Unlocked(c[p].dp) /\ UNCHANGED <<cwd, ofile, mix>>
  BY Zenon DEF create
<1>2. Ready(p, c[p].op)
  BY <1>1, AtIs, Zenon
<1>3. PICK s : s = ilock(fs, c[p].dp, p)
  BY Zenon
<1>4. PICK old : old = dirlookup(s, c[p].dp, Head(c[p].path))
  BY Zenon
<1>5. CASE old # 0
  <2>1. /\ fs' = iunlock(iget(s, old), c[p].dp)
        /\ c' = [c EXCEPT ![p].put = c[p].dp, ![p].dp = 0, ![p].ip = old, ![p].pc = "create_old"]
    BY <1>3, <1>4, <1>5, Zenon DEF create
  <2> QED
    BY <1>1, <1>2, <1>3, <1>4, <1>5, <2>1, CreateOldIs, ZenonT(60)
<1>6. CASE old = 0
  <2>1. fs' = ialloc(s, TypeOf(c[p].op))
    BY <1>3, <1>4, <1>6, Zenon DEF create
  <2>2. c' = [c EXCEPT ![p].ip = IF fs'.panic = "no" THEN FirstFree(s) ELSE 0, ![p].pc = "create_new"]
    BY <1>3, <1>4, <1>6, <2>1, Zenon DEF create
  <2> QED
    BY <1>1, <1>2, <1>3, <2>1, <2>2, CreateNewIs, Zenon
<1> QED
  BY <1>5, <1>6, Zenon

\* What create and unlink do to an inode i, which they lock and keep, and to
\* its directory d, which they unlock: the links of i and d change by di and
\* dd, and the entry n of d becomes j.
LinkDoes(p, i, d, di, dd, n, j, t) ==
    /\ t \in FsRec /\ RefSame(fs, t) /\ Clean(t, i) /\ Clean(t, d) /\ t.mem[i].valid
    /\ t.lock = [[fs.lock EXCEPT ![i] = p] EXCEPT ![d] = NoProc]
    /\ Outside(fs, t, i, d)
    /\ t.panic \in {fs.panic, "ilock", "iget"} /\ (fs.disk[i].type # "none" => t.panic # "ilock")
    /\ t.disk[i] = (IF di = 0 THEN fs.disk[i] ELSE [type |-> Loaded(fs, i).type, nlink |-> Loaded(fs, i).nlink + di])
    /\ t.disk[d] = (IF dd = 0 THEN fs.disk[d] ELSE [type |-> fs.mem[d].type, nlink |-> fs.mem[d].nlink + dd])
    /\ t.mem[d].valid = fs.mem[d].valid
    /\ \A e \in Inums, m \in Names : t.dir[e][m] = IF e = d /\ m = n THEN j ELSE fs.dir[e][m]
\* Inode i read and relinked
Half(p, i, d, di, t) ==
    /\ t \in FsRec /\ RefSame(fs, t) /\ Clean(t, i) /\ Clean(t, d) /\ t.mem[i].valid
    /\ t.lock = [fs.lock EXCEPT ![i] = p] /\ t.dir = fs.dir
    /\ \A k \in Inums : k # i => t.mem[k] = fs.mem[k] /\ t.disk[k] = fs.disk[k]
    /\ t.panic \in {fs.panic, "ilock", "iget"} /\ (fs.disk[i].type # "none" => t.panic # "ilock")
    /\ t.disk[i] = (IF di = 0 THEN fs.disk[i] ELSE [type |-> Loaded(fs, i).type, nlink |-> Loaded(fs, i).nlink + di])
\* The inode is read, and its links perhaps changed.
LEMMA BornHalf ==
  ASSUME NEW p \in Procs, NEW l, Ready(p, l), NEW i \in Inums, NEW d \in Inums, i # d, fs.lock[i] = NoProc, fs.lock[d] = p,
         NEW di \in Int, NEW s, Hold(fs, i, p, s) /\ RefSame(fs, s), NEW t, (di = 0 /\ t = s) \/ (di # 0 /\ RelinkDoes(s, i, di, t))
  PROVE  Half(p, i, d, di, t)
<1>1. /\ s \in FsRec /\ Clean(s, i) /\ s.mem[i].valid /\ s.disk = fs.disk /\ s.dir = fs.dir
      /\ \A j \in Inums : j # i => s.mem[j] = fs.mem[j]
  <2>1. Loads(fs, i, s)
    BY HoldClean, Zenon
  <2> QED
    BY <2>1, Zenon DEF Loads
<1>2. fs \in FsRec /\ fs.panic = "no" /\ c[p].stage = "lock" /\ IType /\ LockInv /\ MemInv
  BY Zenon DEF Ready, Is, IType, CacheInv
<1>3. Clean(fs, d)
  BY <1>2, HeldClean, Zenon
<1>4. Read(fs, i, s) /\ s.lock = [fs.lock EXCEPT ![i] = p] /\ RefSame(fs, s)
  BY Zenon DEF Hold
<1>5. s.panic \in {fs.panic, "ilock", "iget"} /\ (fs.disk[i].type # "none" => s.panic # "ilock")
  BY <1>2, <1>4, Zenon DEF Read
<1>6. s.mem[i] = Loaded(fs, i)
  <2>1. fs.mem \in [Inums -> MemRec] /\ s.mem = [fs.mem EXCEPT ![i] = Loaded(fs, i)]
    BY <1>2, <1>4, FsParts, Zenon DEF Read
  <2> QED
    BY <2>1, Zenon
<1>7. CASE di = 0 /\ t = s
  <2>1. Clean(t, d)
    <3>1. t.mem[d] = fs.mem[d] /\ t.disk[d] = fs.disk[d]
      BY <1>1, <1>7, Zenon
    <3> QED
      BY <1>2, <1>3, <3>1, Zenon DEF Clean, Same
  <2> QED
    BY <1>1, <1>4, <1>5, <1>7, <2>1, Zenon DEF Half
<1>8. CASE di # 0 /\ RelinkDoes(s, i, di, t)
  <2>1. /\ t \in FsRec /\ t.dir = s.dir /\ t.ref = s.ref /\ t.lock = s.lock /\ t.panic = s.panic
        /\ t.mem[i].valid = s.mem[i].valid /\ Clean(t, i)
        /\ \A j \in Inums : j # i => t.mem[j] = s.mem[j] /\ t.disk[j] = s.disk[j]
    BY <1>1, <1>8, Zenon DEF RelinkDoes
  <2>2. t.disk[i] = [type |-> s.mem[i].type, nlink |-> s.mem[i].nlink + di]
    <3>1. s.disk \in [Inums -> DiskRec]
      BY <1>1, FsParts, ZenonT(60)
    <3> QED
      BY <1>8, <3>1, Zenon DEF RelinkDoes
  <2>3. Clean(t, d)
    <3>1. t.mem[d] = fs.mem[d] /\ t.disk[d] = fs.disk[d]
      BY <1>1, <2>1, Zenon
    <3> QED
      BY <1>2, <1>3, <3>1, Zenon DEF Clean, Same
  <2>4. RefSame(fs, t)
    BY <1>4, <2>1, Zenon DEF RefSame
  <2> QED
    BY <1>1, <1>4, <1>5, <1>6, <1>8, <2>1, <2>2, <2>3, <2>4, ZenonT(60) DEF Half
<1> QED
  BY <1>7, <1>8, Zenon
\* Both relinked, and the entry written
Full(p, i, d, di, dd, t) ==
    /\ t \in FsRec /\ RefSame(fs, t) /\ Clean(t, i) /\ Clean(t, d) /\ t.mem[i].valid
    /\ t.lock = [fs.lock EXCEPT ![i] = p]
    /\ \A k \in Inums : k # i /\ k # d => t.mem[k] = fs.mem[k] /\ t.disk[k] = fs.disk[k]
    /\ t.panic \in {fs.panic, "ilock", "iget"} /\ (fs.disk[i].type # "none" => t.panic # "ilock")
    /\ t.disk[i] = (IF di = 0 THEN fs.disk[i] ELSE [type |-> Loaded(fs, i).type, nlink |-> Loaded(fs, i).nlink + di])
    /\ t.disk[d] = (IF dd = 0 THEN fs.disk[d] ELSE [type |-> fs.mem[d].type, nlink |-> fs.mem[d].nlink + dd])
    /\ t.mem[d].valid = fs.mem[d].valid
\* The directory's links follow.
LEMMA BornNext ==
  ASSUME NEW p, NEW i \in Inums, NEW d \in Inums, i # d, NEW di, NEW dd, dd # 0,
         NEW s, Half(p, i, d, di, s), NEW t, RelinkDoes(s, d, dd, t)
  PROVE  Full(p, i, d, di, dd, t) /\ t.dir = fs.dir
<1>1. s \in FsRec /\ Clean(s, i) /\ Clean(s, d) /\ s.mem[d] = fs.mem[d] /\ s.dir = fs.dir
  BY Zenon DEF Half
<1>2. /\ t \in FsRec /\ t.dir = s.dir /\ t.ref = s.ref /\ t.lock = s.lock /\ t.panic = s.panic
      /\ t.mem[d].valid = s.mem[d].valid /\ Clean(t, d)
  BY <1>1, Zenon DEF RelinkDoes
<1>3. \A k \in Inums : k # d => t.mem[k] = s.mem[k] /\ t.disk[k] = s.disk[k]
  BY Zenon DEF RelinkDoes
<1>4. t.disk[d] = [type |-> fs.mem[d].type, nlink |-> fs.mem[d].nlink + dd]
  <2>1. s.disk \in [Inums -> DiskRec]
    BY <1>1, FsParts, Zenon
  <2> QED
    BY <1>1, <2>1, ZenonT(60) DEF RelinkDoes
<1>5. Clean(t, i)
  <2>1. t.mem[i] = s.mem[i] /\ t.disk[i] = s.disk[i]
    BY <1>3, Zenon
  <2> QED
    BY <1>1, <1>2, <2>1, Zenon DEF Clean, Same
<1>6. RefSame(fs, t)
  BY <1>2, Zenon DEF RefSame, Half
<1>7. \A k \in Inums : k # i /\ k # d => t.mem[k] = fs.mem[k] /\ t.disk[k] = fs.disk[k]
  BY <1>3, Zenon DEF Half
<1>8. /\ t.panic \in {fs.panic, "ilock", "iget"} /\ (fs.disk[i].type # "none" => t.panic # "ilock")
      /\ t.lock = [fs.lock EXCEPT ![i] = p] /\ t.mem[i].valid
      /\ t.disk[i] = (IF di = 0 THEN fs.disk[i] ELSE [type |-> Loaded(fs, i).type, nlink |-> Loaded(fs, i).nlink + di])
  BY <1>2, <1>3, Zenon DEF Half
<1>9. t.mem[d].valid = fs.mem[d].valid
  BY <1>1, <1>2, Zenon
<1> QED
  BY <1>1, <1>2, <1>4, <1>5, <1>6, <1>7, <1>8, <1>9, ZenonT(60) DEF Full

\* Or they stay.
LEMMA HalfIsFull ==
  ASSUME NEW p, NEW i, NEW d \in Inums, i # d, NEW di,
         NEW s, Half(p, i, d, di, s)
  PROVE  Full(p, i, d, di, 0, s) /\ s.dir = fs.dir
<1>1. s.mem[d].valid = fs.mem[d].valid /\ s.disk[d] = fs.disk[d]
  BY Zenon DEF Half
<1> QED
  BY <1>1, Zenon DEF Half, Full

\* The directory entries do not matter for that.
LEMMA FullStays ==
  ASSUME NEW p, NEW i, NEW d, NEW di, NEW dd, NEW u, Full(p, i, d, di, dd, u), NEW t \in FsRec, t.disk = u.disk, t.ref = u.ref,
         t.mem = u.mem, t.lock = u.lock, t.panic = u.panic
  PROVE  Full(p, i, d, di, dd, t)
<1>1. Clean(u, i) /\ Clean(u, d) /\ RefSame(fs, u)
  BY Zenon DEF Full
<1>2. Clean(t, i) /\ Clean(t, d)
  BY <1>1, Zenon DEF Clean, Same
<1>3. RefSame(fs, t)
  BY <1>1, Zenon DEF RefSame
<1> QED
  BY <1>2, <1>3, Zenon DEF Full
\* The entry is written and the directory unlocked
LEMMA EntersFull ==
  ASSUME fs \in FsRec, NEW p, NEW i \in Inums, NEW d \in Inums, NEW di, NEW dd,
         NEW t, Full(p, i, d, di, dd, t), \A e \in Inums, m \in Names : t.dir[e][m] = fs.dir[e][m],
         NEW n, NEW j, NEW u, EntryDoes(t, d, n, j, u), NEW v, UnlockDoes(u, d, v)
  PROVE  LinkDoes(p, i, d, di, dd, n, j, v)
<1>1. v \in FsRec /\ v.disk = u.disk /\ v.dir = u.dir /\ v.ref = u.ref /\ v.mem = u.mem /\ v.panic = u.panic
  BY Zenon DEF UnlockDoes
<1>2. u.disk = t.disk /\ u.ref = t.ref /\ u.mem = t.mem /\ u.panic = t.panic /\ u.lock = t.lock
  BY Zenon DEF EntryDoes
<1>3. v.lock = [[fs.lock EXCEPT ![i] = p] EXCEPT ![d] = NoProc]
  <2>1. v.lock = [u.lock EXCEPT ![d] = NoProc]
    BY Zenon DEF UnlockDoes
  <2>2. t.lock = [fs.lock EXCEPT ![i] = p]
    BY Zenon DEF Full
  <2> QED
    BY <1>2, <2>1, <2>2, Zenon
<1>4. v.mem = t.mem /\ v.disk = t.disk /\ v.panic = t.panic /\ v.ref = t.ref
  BY <1>1, <1>2, Zenon
<1>5. Clean(v, i) /\ Clean(v, d)
  <2>1. Clean(t, i) /\ Clean(t, d)
    BY Zenon DEF Full
  <2> QED
    BY <1>4, <2>1, Zenon DEF Clean, Same
<1>6. Outside(fs, v, i, d)
  <2>1. fs.lock \in [Inums -> Procs \cup {NoProc}]
    BY FsParts, Zenon
  <2>2. \A k \in Inums : k # i /\ k # d => v.lock[k] = fs.lock[k]
    BY <1>3, <2>1, Zenon
  <2>3. \A k \in Inums : k # i /\ k # d => v.mem[k] = fs.mem[k] /\ v.disk[k] = fs.disk[k]
    <3>1. \A k \in Inums : k # i /\ k # d => t.mem[k] = fs.mem[k] /\ t.disk[k] = fs.disk[k]
      BY Zenon DEF Full
    <3> QED
      BY <1>4, <3>1, Zenon
  <2> QED
    BY <2>2, <2>3, Zenon DEF Outside
<1>7. \A e \in Inums, m \in Names : v.dir[e][m] = IF e = d /\ m = n THEN j ELSE fs.dir[e][m]
  <2>1. \A m \in Names : m \in AllNames
    BY Zenon DEF AllNames
  <2>2. \A e \in Inums, m \in Names : u.dir[e][m] = IF e = d /\ m = n THEN j ELSE t.dir[e][m]
    BY <2>1, Zenon DEF EntryDoes
  <2> SUFFICES ASSUME NEW e \in Inums, NEW m \in Names PROVE v.dir[e][m] = IF e = d /\ m = n THEN j ELSE fs.dir[e][m]
    BY Zenon
  <2>3. u.dir[e][m] = (IF e = d /\ m = n THEN j ELSE t.dir[e][m]) /\ t.dir[e][m] = fs.dir[e][m] /\ v.dir = u.dir
    BY <1>1, <2>2, Zenon
  <2> QED
    BY <2>3, Zenon
<1>8. RefSame(fs, v)
  <2>1. RefSame(fs, t)
    BY Zenon DEF Full
  <2> QED
    BY <1>4, <2>1, Zenon DEF RefSame
<1>9. /\ v.mem[i].valid /\ v.mem[d].valid = fs.mem[d].valid
      /\ v.panic \in {fs.panic, "ilock", "iget"} /\ (fs.disk[i].type # "none" => v.panic # "ilock")
  BY <1>4, Zenon DEF Full
<1>10. /\ v.disk[i] = (IF di = 0 THEN fs.disk[i] ELSE [type |-> Loaded(fs, i).type, nlink |-> Loaded(fs, i).nlink + di])
       /\ v.disk[d] = (IF dd = 0 THEN fs.disk[d] ELSE [type |-> fs.mem[d].type, nlink |-> fs.mem[d].nlink + dd])
  BY <1>4, Zenon DEF Full
<1> QED
  BY <1>1, <1>3, <1>5, <1>6, <1>7, <1>8, <1>9, <1>10, ZenonT(60) DEF LinkDoes

\* create_new: links, the entries . and .., the name, and the directory unlocked.
LEMMA CreateDoes ==
  ASSUME NEW p \in Procs, NEW l, Ready(p, l), NEW i \in Inums, NEW d \in Inums, i # d, fs.lock[i] = NoProc, fs.lock[d] = p,
         NEW n \in AllNames, NEW op, NEW s, s = Relink(ilock(fs, i, p), i, 1), NEW t,
         t = IF op # "mkdir" THEN s ELSE dirlink(dirlink(Relink(s, d, 1), i, ".", i), i, "..", d),
         fs' = iunlock(dirlink(t, d, n, i), d)
  PROVE  LinkDoes(p, i, d, 1, IF op = "mkdir" THEN 1 ELSE 0, n, i, fs')
<1>1. fs \in FsRec
  BY Zenon DEF Ready, IType
<1>2. PICK a : a = ilock(fs, i, p)
  BY Zenon
<1>3. Hold(fs, i, p, a) /\ RefSame(fs, a)
  BY <1>1, <1>2, Reads, Zenon
<1>4. 1 \in Int /\ 0 \in Int /\ 1 # 0 /\ i \in Ptr /\ d \in Ptr
  BY InPtr
<1>5. RelinkDoes(a, i, 1, s)
  <2>1. a \in FsRec
    BY <1>3, Zenon DEF Hold, Read
  <2> QED
    BY <1>2, <1>4, <2>1, Relinks, Zenon
<1>6. Half(p, i, d, 1, s)
  BY <1>3, <1>4, <1>5, BornHalf, Zenon
<1>7. PICK dd \in Int : dd = IF op = "mkdir" THEN 1 ELSE 0
  BY <1>4, Zenon
<1>8. Full(p, i, d, 1, dd, t) /\ \A e \in Inums, m \in Names : t.dir[e][m] = fs.dir[e][m]
  <2>1. CASE op # "mkdir"
    <3>1. t = s /\ dd = 0
      BY <1>7, <2>1, Zenon
    <3>2. Full(p, i, d, 1, 0, s) /\ s.dir = fs.dir
      BY <1>6, HalfIsFull, Zenon
    <3> QED
      BY <3>1, <3>2, Zenon
  <2>2. CASE op = "mkdir"
    <3>1. PICK u : u = Relink(s, d, 1)
      BY Zenon
    <3>2. RelinkDoes(s, d, 1, u)
      BY <1>4, <1>6, <3>1, Relinks, Zenon DEF Half
    <3>3. Full(p, i, d, 1, 1, u) /\ u.dir = fs.dir
      BY <1>4, <1>6, <3>2, BornNext
    <3>4. u \in FsRec
      BY <3>2, Zenon DEF RelinkDoes
    <3>5. PICK v : v = dirlink(u, i, ".", i)
      BY Zenon
    <3>6. "." \in AllNames /\ ".." \in AllNames
      BY Zenon DEF AllNames
    <3>7. EntryDoes(u, i, ".", i, v)
      BY <1>4, <3>4, <3>5, <3>6, Dirlink, ZenonT(60)
    <3>8. v \in FsRec
      BY <3>7, Zenon DEF EntryDoes
    <3>9. t = dirlink(v, i, "..", d)
      BY <2>2, <3>1, <3>5, Zenon
    <3>10. EntryDoes(v, i, "..", d, t)
      BY <1>4, <3>6, <3>8, <3>9, Dirlink, ZenonT(60)
    <3>11. t \in FsRec /\ t.disk = u.disk /\ t.ref = u.ref /\ t.mem = u.mem /\ t.lock = u.lock /\ t.panic = u.panic
      BY <3>7, <3>10, Zenon DEF EntryDoes
    <3>13. Full(p, i, d, 1, 1, t)
      BY <3>3, <3>11, FullStays, Zenon
    <3>14. \A m \in Names : m \in AllNames /\ m # "." /\ m # ".."
      BY InodeAssumption, Zenon DEF AllNames
    <3>15. \A e \in Inums, m \in Names : t.dir[e][m] = v.dir[e][m]
      BY <3>10, <3>14, Zenon DEF EntryDoes
    <3>16. \A e \in Inums, m \in Names : v.dir[e][m] = u.dir[e][m]
      BY <3>7, <3>14, Zenon DEF EntryDoes
    <3> QED
      BY <1>7, <2>2, <3>3, <3>13, <3>15, <3>16, ZenonT(60)
  <2> QED
    BY <2>1, <2>2, Zenon
<1>9. PICK u : u = dirlink(t, d, n, i)
  BY Zenon
<1>10. t \in FsRec
  BY <1>8, Zenon DEF Full
<1>11. EntryDoes(t, d, n, i, u)
  BY <1>4, <1>9, <1>10, Dirlink, Zenon
<1>12. u \in FsRec
  BY <1>11, Zenon DEF EntryDoes
<1>13. UnlockDoes(u, d, fs')
  BY <1>9, <1>12, Iunlock, ZenonT(60)
<1>14. LinkDoes(p, i, d, 1, dd, n, i, fs')
  BY <1>1, <1>8, <1>11, <1>13, EntersFull
<1> QED
  BY <1>7, <1>14, Zenon

\* unlink_ip: the name erased, the directory's links, and the directory unlocked.
LEMMA UnlinkDoes ==
  ASSUME NEW p \in Procs, NEW l, Ready(p, l), NEW i \in Inums, NEW d \in Inums, i # d, fs.lock[i] = NoProc, fs.lock[d] = p,
         NEW n \in AllNames, NEW s, s = ilock(fs, i, p), fs' = iunlock(Unentered(s, i, d, n), d)
  PROVE  LinkDoes(p, i, d, 0, IF s.mem[i].type = "dir" THEN 0 - 1 ELSE 0, n, 0, fs')
<1>1. fs \in FsRec
  BY Zenon DEF Ready, IType
<1>2. Hold(fs, i, p, s) /\ RefSame(fs, s)
  BY <1>1, Reads, Zenon
<1>3. 0 \in Int /\ 0 - 1 \in Int /\ 0 - 1 # 0 /\ 0 \in Ptr
  BY InPtr
<1>4. Half(p, i, d, 0, s)
  BY <1>2, <1>3, BornHalf, Zenon
<1>5. PICK t : t = dirlink(s, d, n, 0)
  BY Zenon
<1>6. s \in FsRec /\ s.dir = fs.dir
  BY <1>4, Zenon DEF Half
<1>7. EntryDoes(s, d, n, 0, t)
  BY <1>3, <1>5, <1>6, Dirlink, Zenon
<1>8. Unentered(s, i, d, n) = IF s.mem[i].type = "dir" THEN Relink(t, d, 0 - 1) ELSE t
  BY <1>5, Zenon DEF Unentered, dirlink
<1>9. \A e \in Inums, m \in Names : s.dir[e][m] = fs.dir[e][m]
  BY <1>6, Zenon
<1>10. CASE s.mem[i].type # "dir"
  <2>1. fs' = iunlock(t, d)
    BY <1>8, <1>10, Zenon
  <2>2. t \in FsRec
    BY <1>7, Zenon DEF EntryDoes
  <2>3. UnlockDoes(t, d, fs')
    BY <2>1, <2>2, Iunlock, Zenon
  <2>4. Full(p, i, d, 0, 0, s)
    BY <1>4, HalfIsFull, Zenon
  <2>5. LinkDoes(p, i, d, 0, 0, n, 0, fs')
    BY <1>1, <1>7, <1>9, <2>3, <2>4, EntersFull, ZenonT(60)
  <2> QED
    BY <1>10, <2>5, Zenon
<1>11. CASE s.mem[i].type = "dir"
  <2>1. PICK w : w = Relink(t, d, 0 - 1)
    BY Zenon
  <2>2. fs' = iunlock(w, d)
    BY <1>8, <1>11, <2>1, ZenonT(60)
  <2>3. t \in FsRec
    BY <1>7, Zenon DEF EntryDoes
  <2>4. RelinkDoes(t, d, 0 - 1, w)
    BY <1>3, <2>1, <2>3, Relinks, ZenonT(60)
  \* The entry and the link are written in either order.
  <2>5. PICK v : v = Relink(s, d, 0 - 1)
    BY Zenon
  <2>6. RelinkDoes(s, d, 0 - 1, v)
    BY <1>3, <1>6, <2>5, Relinks, ZenonT(60)
  <2>7. Full(p, i, d, 0, 0 - 1, v) /\ v.dir = fs.dir
    BY <1>3, <1>4, <2>6, BornNext
  <2>8. EntryDoes(v, d, n, 0, w)
    <3>1. t.disk = s.disk /\ t.ref = s.ref /\ t.mem = s.mem /\ t.lock = s.lock /\ t.panic = s.panic
      BY <1>7, Zenon DEF EntryDoes
    <3>2. w \in FsRec /\ w.dir = t.dir /\ w.ref = t.ref /\ w.lock = t.lock /\ w.panic = t.panic
      BY <2>4, Zenon DEF RelinkDoes
    <3>3. v \in FsRec /\ v.dir = s.dir /\ v.ref = s.ref /\ v.lock = s.lock /\ v.panic = s.panic
      BY <2>6, Zenon DEF RelinkDoes
    <3>4. /\ w.disk = [t.disk EXCEPT ![d] = [type |-> t.mem[d].type, nlink |-> t.mem[d].nlink + (0 - 1)]]
          /\ v.disk = [s.disk EXCEPT ![d] = [type |-> s.mem[d].type, nlink |-> s.mem[d].nlink + (0 - 1)]]
      BY <2>4, <2>6, Zenon DEF RelinkDoes
    <3>5. w.disk = v.disk
      BY <3>1, <3>4, Zenon
    <3>6. w.mem = v.mem
      <4>1. w.mem \in [Inums -> MemRec] /\ v.mem \in [Inums -> MemRec]
        BY <3>2, <3>3, FsParts, Zenon
      <4>2. \A k \in Inums : k # d => w.mem[k] = v.mem[k]
        <5>1. \A k \in Inums : k # d => w.mem[k] = t.mem[k]
          BY <2>4, Zenon DEF RelinkDoes
        <5>2. \A k \in Inums : k # d => v.mem[k] = s.mem[k]
          BY <2>6, Zenon DEF RelinkDoes
        <5> QED
          BY <3>1, <5>1, <5>2, ZenonT(60)
      <4>3. w.mem[d].valid = v.mem[d].valid /\ w.mem[d].type = v.mem[d].type /\ w.mem[d].nlink = v.mem[d].nlink
        <5>1. w.mem[d].valid = t.mem[d].valid /\ w.mem[d].type = t.mem[d].type /\ w.mem[d].nlink = t.mem[d].nlink + (0 - 1)
          BY <2>4, Zenon DEF RelinkDoes
        <5>2. v.mem[d].valid = s.mem[d].valid /\ v.mem[d].type = s.mem[d].type /\ v.mem[d].nlink = s.mem[d].nlink + (0 - 1)
          BY <2>6, Zenon DEF RelinkDoes
        <5> QED
          BY <3>1, <5>1, <5>2, Zenon
      <4>4. w.mem[d] = v.mem[d]
        BY <4>1, <4>3 DEF MemRec
      <4>5. \A k \in Inums : w.mem[k] = v.mem[k]
        BY <4>2, <4>4, Zenon
      <4> QED
        BY <4>1, <4>5
    <3>7. \A e \in Inums, m \in AllNames : w.dir[e][m] = IF e = d /\ m = n THEN 0 ELSE v.dir[e][m]
      <4>1. \A e \in Inums, m \in AllNames : t.dir[e][m] = IF e = d /\ m = n THEN 0 ELSE s.dir[e][m]
        BY <1>7, Zenon DEF EntryDoes
      <4> QED
        BY <3>2, <3>3, <4>1, ZenonT(60)
    <3> QED
      BY <3>1, <3>2, <3>3, <3>5, <3>6, <3>7, ZenonT(60) DEF EntryDoes
  <2>9. UnlockDoes(w, d, fs')
    BY <2>2, <2>8, Iunlock, Zenon DEF EntryDoes
  <2>10. \A e \in Inums, m \in Names : v.dir[e][m] = fs.dir[e][m]
    BY <2>7, Zenon
  <2>11. LinkDoes(p, i, d, 0, 0 - 1, n, 0, fs')
    BY <1>1, <2>7, <2>8, <2>9, <2>10, EntersFull, Zenon
  <2> QED
    BY <1>11, <2>11, Zenon
<1> QED
  BY <1>10, <1>11, Zenon

\* The call goes on with i locked and d unlocked.
LEMMA LinkStep ==
  ASSUME NEW p \in Procs, NEW r, NEW w, NEW o, Steps(p, r, w, o), OwnsSame(p, r, w, o), NEW i \in Inums, NEW d \in Inums,
         fs.lock[i] = NoProc, fs.lock[d] = p, Held(c[p]) = {d}, Held(r) = {i},
         NEW di, NEW dd, NEW n, NEW j, LinkDoes(p, i, d, di, dd, n, j, fs')
  PROVE  CacheInv'
<1>1. fs' \in FsRec /\ RefSame(fs, fs') /\ Clean(fs', i) /\ Clean(fs', d) /\ Outside(fs, fs', i, d)
  BY Zenon DEF LinkDoes
<1>2. Locks(p, r)
  BY Zenon DEF LinkDoes, Locks
<1>3. \A k \in Inums : MemCase(fs, fs', k)
  BY <1>1, CleanCase, Zenon
<1>4. Counts(p, r, w, o)
  BY <1>1, Zenon DEF Counts
<1> QED
  BY <1>1, <1>2, <1>3, <1>4, Stepped, Zenon

\* create_new keeps CacheInv.
LEMMA NewKeeps == ASSUME CacheInv, NEW p \in Procs, create_new(p) PROVE CacheInv'
<1>1. At(p, "create_new") /\ Unlocked(c[p].ip) /\ PutThen(p, "dp", "create_end") /\ UNCHANGED <<cwd, ofile, mix>>
  BY Zenon DEF create_new
<1>2. Ready(p, "create_new")
  BY <1>1, AtIs, Zenon
<1>3. c[p].pc = "create_new" /\ c[p].put = 0 /\ c[p].stage = "lock" /\ Shape(c[p]) /\ fs.panic = "no"
  BY <1>2, Zenon DEF Ready, Is
<1>4. c[p].ip \in Inums /\ c[p].dp \in Inums /\ c[p].path # <<>>
  BY <1>2, Locals DEF UsesIp, UsesDp
<1>5. Head(c[p].path) \in AllNames
  BY <1>2, <1>4, Locals, Zenon
<1>6. fs.lock[c[p].dp] = p /\ Held(c[p]) = {c[p].dp}
  BY <1>2, Holds, Zenon
<1>7. fs.lock[c[p].ip] = NoProc
  BY <1>1, Zenon DEF Unlocked
<1>8. c[p].ip # c[p].dp
  BY <1>6, <1>7, InodeAssumption, Zenon
<1>9. PICK dd : LinkDoes(p, c[p].ip, c[p].dp, 1, dd, Head(c[p].path), c[p].ip, fs')
  <2>1. PICK s : s = Relink(ilock(fs, c[p].ip, p), c[p].ip, 1)
    BY Zenon
  <2>2. PICK t : t = IF c[p].op # "mkdir" THEN s
                     ELSE dirlink(dirlink(Relink(s, c[p].dp, 1), c[p].ip, ".", c[p].ip), c[p].ip, "..", c[p].dp)
    BY Zenon
  <2>3. fs' = iunlock(dirlink(t, c[p].dp, Head(c[p].path), c[p].ip), c[p].dp)
    BY <2>1, <2>2, Zenon DEF create_new
  <2> QED
    BY <1>2, <1>4, <1>5, <1>6, <1>7, <1>8, <2>1, <2>2, <2>3, CreateDoes, ZenonT(60)
<1>10. "create_end" \in Places
  BY DEF Places
<1>11. PICK r : /\ Is(r, "create_end", c[p].op, c[p].path, c[p].new, c[p].ip, 0, c[p].old, c[p].dp)
                /\ Moves(p, r, cwd[p], ofile[p]) /\ OwnsSame(p, r, cwd[p], ofile[p])
  BY <1>1, <1>2, <1>10, PassDp, ZenonT(60)
<1>12. Shape(r)
  BY <1>3, <1>11 DEF Is, Shape, UsesIp, UsesDp, MayPut, OpAt
<1>13. Steps(p, r, cwd[p], ofile[p])
  BY <1>3, <1>11, <1>12, ZenonT(60) DEF Steps, Is
<1>14. Held(r) = {c[p].ip}
  BY <1>4, <1>11, HeldIp DEF Is
<1> QED
  BY <1>4, <1>6, <1>7, <1>9, <1>11, <1>13, <1>14, LinkStep, ZenonT(60)

\* unlink_ip keeps CacheInv.
LEMMA EraseKeeps == ASSUME CacheInv, NEW p \in Procs, unlink_ip(p) PROVE CacheInv'
<1>1. At(p, "unlink_ip") /\ Unlocked(c[p].ip) /\ UNCHANGED <<cwd, ofile, mix>>
  BY Zenon DEF unlink_ip
<1>2. Ready(p, "unlink_ip")
  BY <1>1, AtIs, Zenon
<1>3. c[p].pc = "unlink_ip" /\ c[p].put = 0 /\ c[p].stage = "lock" /\ Shape(c[p]) /\ fs.panic = "no" /\ c[p] \in CallRec /\ IType
  BY <1>2, ZenonT(60) DEF Ready, Is
<1>4. c[p].ip \in Inums /\ c[p].dp \in Inums /\ c[p].path # <<>>
  BY <1>2, Locals DEF UsesIp, UsesDp
<1>5. Head(c[p].path) \in AllNames
  BY <1>2, <1>4, Locals, Zenon
<1>6. fs.lock[c[p].dp] = p /\ Held(c[p]) = {c[p].dp}
  BY <1>2, Holds, Zenon
<1>7. fs.lock[c[p].ip] = NoProc /\ fs \in FsRec
  BY <1>1, <1>3, Zenon DEF Unlocked, IType
<1>8. c[p].ip # c[p].dp
  BY <1>6, <1>7, InodeAssumption, Zenon
<1>9. PICK s : s = ilock(fs, c[p].ip, p)
  BY Zenon
<1>10. Hold(fs, c[p].ip, p, s) /\ RefSame(fs, s)
  BY <1>4, <1>7, <1>9, Reads, Zenon
<1>11. CASE fs' = panic(s, "unlink") /\ UNCHANGED c
  <2>1. s \in FsRec /\ Clean(s, c[p].ip) /\ s.disk = fs.disk /\ \A j \in Inums : j # c[p].ip => s.mem[j] = fs.mem[j]
    <3>1. Loads(fs, c[p].ip, s)
      BY <1>2, <1>4, <1>7, <1>10, HoldClean, ZenonT(60)
    <3> QED
      BY <3>1, Zenon DEF Loads
  <2>2. fs' \in FsRec /\ fs'.disk = s.disk /\ fs'.mem = s.mem /\ fs'.lock = s.lock /\ fs'.panic = IF s.panic = "no" THEN "unlink" ELSE s.panic
    BY <1>11, <2>1, PanicDoes
  <2>3. fs'.panic # "no"
    BY <2>2
  <2>4. Clean(fs', c[p].ip)
    BY <2>1, <2>2, <2>3, Zenon DEF Clean, Same
  <2>5. Outside(fs, fs', c[p].ip, c[p].ip)
    <3>1. fs.lock \in [Inums -> Procs \cup {NoProc}] /\ fs'.lock = [fs.lock EXCEPT ![c[p].ip] = p]
      BY <1>7, <1>10, <2>2, FsParts, Zenon DEF Hold
    <3>2. \A j \in Inums : j # c[p].ip => fs'.lock[j] = fs.lock[j]
      BY <3>1, Zenon
    <3> QED
      BY <2>1, <2>2, <3>2, Zenon DEF Outside
  <2>6. \A j \in Inums : MemCase(fs, fs', j)
    BY <2>4, <2>5, CleanCase, Zenon
  <2>7. Moves(p, c[p], cwd[p], ofile[p])
    <3>1. c' = [c EXCEPT ![p] = c[p]]
      BY <1>3, <1>11, Zenon DEF IType, CType
    <3> QED
      BY <1>1, <1>3, <3>1, GoesOn, Zenon
  <2> QED
    BY <1>2, <1>3, <2>2, <2>3, <2>6, <2>7, PanicStep, ZenonT(60)
<1>12. CASE fs' = iunlock(s, c[p].ip) /\ PutThen(p, "ip", "unlink_bad")
  <2>1. "unlink_bad" \in Places
    BY DEF Places
  <2>2. PICK r : /\ Is(r, "unlink_bad", c[p].op, c[p].path, c[p].new, 0, c[p].dp, c[p].old, c[p].ip)
                 /\ Moves(p, r, cwd[p], ofile[p]) /\ OwnsSame(p, r, cwd[p], ofile[p])
    BY <1>1, <1>2, <1>12, <2>1, PassIp, ZenonT(60)
  <2>3. Shape(r)
    BY <1>3, <2>2 DEF Is, Shape, UsesIp, UsesDp, MayPut, OpAt
  <2>4. Steps(p, r, cwd[p], ofile[p])
    BY <1>3, <2>2, <2>3, ZenonT(60) DEF Steps, Is
  <2>5. Held(r) = {c[p].dp}
    BY <1>4, <2>2, HeldDp DEF Is
  <2>6. Peek(fs, c[p].ip, fs') /\ RefSame(fs, fs')
    BY <1>4, <1>7, <1>9, <1>12, PeekIs, ZenonT(60)
  <2>7. Counts(p, r, cwd[p], ofile[p])
    BY <2>2, <2>6, Zenon DEF Counts
  <2> QED
    BY <1>4, <1>6, <1>7, <2>4, <2>5, <2>6, <2>7, PeekStep, ZenonT(60)
<1>13. CASE fs' = iunlock(Unentered(s, c[p].ip, c[p].dp, Head(c[p].path)), c[p].dp) /\ PutThen(p, "dp", "unlink_end")
  <2>1. PICK dd : LinkDoes(p, c[p].ip, c[p].dp, 0, dd, Head(c[p].path), 0, fs')
    BY <1>2, <1>4, <1>5, <1>6, <1>7, <1>8, <1>9, <1>13, UnlinkDoes, ZenonT(60)
  <2>2. "unlink_end" \in Places
    BY DEF Places
  <2>3. PICK r : /\ Is(r, "unlink_end", c[p].op, c[p].path, c[p].new, c[p].ip, 0, c[p].old, c[p].dp)
                 /\ Moves(p, r, cwd[p], ofile[p]) /\ OwnsSame(p, r, cwd[p], ofile[p])
    BY <1>1, <1>2, <1>13, <2>2, PassDp, ZenonT(60)
  <2>4. Shape(r)
    BY <1>3, <2>3 DEF Is, Shape, UsesIp, UsesDp, MayPut, OpAt
  <2>5. Steps(p, r, cwd[p], ofile[p])
    BY <1>3, <2>3, <2>4, ZenonT(60) DEF Steps, Is
  <2>6. Held(r) = {c[p].ip}
    BY <1>4, <2>3, HeldIp DEF Is
  <2> QED
    BY <1>4, <1>6, <1>7, <2>1, <2>3, <2>5, <2>6, LinkStep, ZenonT(60)
<1> QED
  BY <1>9, <1>11, <1>12, <1>13, Zenon DEF unlink_ip

\* Inode i locked, relinked and unlocked
TouchDoes(i, d, u) ==
    /\ u \in FsRec /\ RefSame(fs, u) /\ Clean(u, i) /\ u.lock = fs.lock /\ u.dir = fs.dir /\ u.mem[i].valid
    /\ Outside(fs, u, i, i)
    /\ u.panic \in {fs.panic, "ilock", "iget"} /\ (fs.disk[i].type # "none" => u.panic # "ilock")
    /\ u.disk[i] = [type |-> Loaded(fs, i).type, nlink |-> Loaded(fs, i).nlink + d]
\* An inode locked, its links changed, and unlocked.
LEMMA Touch ==
  ASSUME NEW p \in Procs, NEW l, Ready(p, l), NEW i \in Inums, fs.lock[i] = NoProc, NEW d \in Int,
         NEW u, u = iunlock(Relink(ilock(fs, i, p), i, d), i)
  PROVE  TouchDoes(i, d, u)
<1>1. fs \in FsRec /\ fs.panic = "no"
  BY Zenon DEF Ready, IType
<1>2. PICK s : s = ilock(fs, i, p)
  BY Zenon
<1>3. Hold(fs, i, p, s) /\ RefSame(fs, s)
  BY <1>1, <1>2, Reads, Zenon
<1>4. /\ s \in FsRec /\ Clean(s, i) /\ s.mem[i].valid /\ s.disk = fs.disk /\ s.dir = fs.dir
      /\ \A j \in Inums : j # i => s.mem[j] = fs.mem[j]
  <2>1. Loads(fs, i, s)
    BY <1>3, HoldClean, Zenon
  <2> QED
    BY <2>1, Zenon DEF Loads
<1>5. PICK t : t = Relink(s, i, d)
  BY Zenon
<1>6. RelinkDoes(s, i, d, t)
  BY <1>4, <1>5, Relinks, Zenon
<1>7. UnlockDoes(t, i, u)
  <2>1. t \in FsRec
    BY <1>6, Zenon DEF RelinkDoes
  <2> QED
    BY <1>2, <1>5, <2>1, Iunlock, Zenon
<1>8. /\ u \in FsRec /\ u.disk = t.disk /\ u.dir = s.dir /\ u.ref = s.ref /\ u.mem = t.mem /\ u.panic = s.panic
      /\ u.lock = [s.lock EXCEPT ![i] = NoProc]
  BY <1>6, <1>7, ZenonT(60) DEF RelinkDoes, UnlockDoes
<1>9. u.lock = fs.lock
  <2>1. fs.lock \in [Inums -> Procs \cup {NoProc}] /\ s.lock = [fs.lock EXCEPT ![i] = p]
    BY <1>1, <1>3, FsParts, Zenon DEF Hold
  <2> QED
    BY <1>8, <2>1
<1>10. RefSame(fs, u)
  BY <1>3, <1>8, ZenonT(60) DEF RefSame
<1>11. Clean(u, i) /\ u.mem[i].valid
  <2>1. Clean(t, i) /\ t.panic = s.panic /\ t.mem[i].valid
    BY <1>4, <1>6, Zenon DEF RelinkDoes
  <2>2. u.mem[i] = t.mem[i] /\ u.disk[i] = t.disk[i] /\ u.panic = t.panic
    BY <1>8, <2>1, Zenon
  <2> QED
    BY <2>1, <2>2 DEF Clean, Same
<1>12. Outside(fs, u, i, i)
  <2>1. \A j \in Inums : j # i => t.mem[j] = s.mem[j] /\ t.disk[j] = s.disk[j]
    BY <1>6, Zenon DEF RelinkDoes
  <2> SUFFICES ASSUME NEW j \in Inums, j # i PROVE u.mem[j] = fs.mem[j] /\ u.disk[j] = fs.disk[j] /\ u.lock[j] = fs.lock[j]
    BY Zenon DEF Outside
  <2>2. t.mem[j] = s.mem[j] /\ t.disk[j] = s.disk[j] /\ s.mem[j] = fs.mem[j] /\ s.disk = fs.disk
    BY <1>4, <2>1, Zenon
  <2> QED
    BY <1>8, <1>9, <2>2, Zenon
<1>13. u.panic \in {fs.panic, "ilock", "iget"} /\ (fs.disk[i].type # "none" => u.panic # "ilock")
  BY <1>1, <1>3, <1>8, Zenon DEF Hold, Read
<1>14. u.disk[i] = [type |-> Loaded(fs, i).type, nlink |-> Loaded(fs, i).nlink + d]
  <2>1. s.disk \in [Inums -> DiskRec] /\ fs.mem \in [Inums -> MemRec]
    BY <1>1, <1>4, FsParts, Zenon
  <2>2. s.mem[i] = Loaded(fs, i)
    BY <1>3, <2>1, Zenon DEF Hold, Read
  <2>3. t.disk[i] = [type |-> s.mem[i].type, nlink |-> s.mem[i].nlink + d]
    BY <1>6, <2>1, Zenon DEF RelinkDoes
  <2> QED
    BY <1>8, <2>2, <2>3, Zenon
<1> QED
  BY <1>4, <1>8, <1>9, <1>10, <1>11, <1>12, <1>13, <1>14, ZenonT(60) DEF TouchDoes

\* link_bad keeps CacheInv.
LEMMA LinkBadKeeps == ASSUME CacheInv, NEW p \in Procs, link_bad(p) PROVE CacheInv'
<1>1. /\ At(p, "link_bad") /\ Unlocked(c[p].old) /\ PutThen(p, "old", "user") /\ UNCHANGED <<cwd, ofile, mix>>
      /\ fs' = iunlock(Relink(ilock(fs, c[p].old, p), c[p].old, 0 - 1), c[p].old)
  BY Zenon DEF link_bad
<1>2. Ready(p, "link_bad")
  BY <1>1, AtIs, Zenon
<1>3. PICK r : Steps(p, r, cwd[p], ofile[p]) /\ OwnsSame(p, r, cwd[p], ofile[p]) /\ Held(r) = {}
  BY <1>1, <1>2, OldGone, ZenonT(60)
<1>4. Held(c[p]) = {} /\ c[p].old # 0
  BY <1>2, HeldNone DEF Ready, Is, Shape, OpAt
<1>5. c[p].old \in Inums
  BY <1>2, <1>4, Locals, Zenon
<1>6. 0 - 1 \in Int
  OBVIOUS
<1>7. TouchDoes(c[p].old, 0 - 1, fs')
  BY <1>1, <1>2, <1>5, <1>6, Touch, ZenonT(60) DEF Unlocked
<1>8. /\ fs' \in FsRec /\ RefSame(fs, fs') /\ Clean(fs', c[p].old) /\ fs'.lock = fs.lock
      /\ Outside(fs, fs', c[p].old, c[p].old)
  BY <1>7, Zenon DEF TouchDoes
<1>9. \A j \in Inums : MemCase(fs, fs', j)
  BY <1>8, CleanCase, Zenon
<1>10. Counts(p, r, cwd[p], ofile[p]) /\ Locks(p, r)
  BY <1>3, <1>4, <1>8, Zenon DEF Counts, Locks
<1> QED
  BY <1>3, <1>8, <1>9, <1>10, Stepped, ZenonT(60)

\* unlink_end keeps CacheInv.
LEMMA UnlinkedKeeps == ASSUME CacheInv, NEW p \in Procs, unlink_end(p) PROVE CacheInv'
<1>1. /\ At(p, "unlink_end") /\ PutThen(p, "ip", "user") /\ UNCHANGED <<cwd, ofile, mix>>
      /\ fs' = iunlock(Relink(fs, c[p].ip, 0 - 1), c[p].ip)
  BY Zenon DEF unlink_end
<1>2. Ready(p, "unlink_end")
  BY <1>1, AtIs, ZenonT(60)
<1>3. Fail(c[p].op) = "user"
  BY <1>2 DEF Ready, Is, Shape, OpAt, Fail
<1>4. PICK r : Steps(p, r, cwd[p], ofile[p]) /\ OwnsSame(p, r, cwd[p], ofile[p]) /\ Held(r) = {}
  BY <1>1, <1>2, <1>3, IpGone, ZenonT(60)
<1>5. c[p].ip \in Inums
  BY <1>2, Locals DEF UsesIp
<1>6. fs.lock[c[p].ip] = p /\ Held(c[p]) = {c[p].ip}
  BY <1>2, Holds, Zenon
<1>7. fs \in FsRec /\ fs.panic = "no" /\ c[p].stage = "lock" /\ IType /\ LockInv /\ MemInv
  BY <1>2, Zenon DEF Ready, Is, IType, CacheInv
<1>8. Clean(fs, c[p].ip)
  BY <1>5, <1>6, <1>7, HeldClean, Zenon
<1>9. PICK t : t = Relink(fs, c[p].ip, 0 - 1)
  BY Zenon
<1>10. RelinkDoes(fs, c[p].ip, 0 - 1, t)
  <2>1. 0 - 1 \in Int
    OBVIOUS
  <2> QED
    BY <1>5, <1>7, <1>9, <2>1, Relinks, ZenonT(60)
<1>11. t \in FsRec /\ Clean(t, c[p].ip) /\ t.ref = fs.ref /\ t.lock = fs.lock /\ t.panic = fs.panic
  BY <1>8, <1>10, Zenon DEF RelinkDoes
<1>12. UnlockDoes(t, c[p].ip, fs')
  BY <1>1, <1>5, <1>9, <1>11, Iunlock, ZenonT(60)
<1>13. /\ fs' \in FsRec /\ fs'.disk = t.disk /\ fs'.ref = fs.ref /\ fs'.mem = t.mem /\ fs'.panic = fs.panic
       /\ fs'.lock = [fs.lock EXCEPT ![c[p].ip] = NoProc]
  BY <1>11, <1>12, Zenon DEF UnlockDoes
<1>14. Clean(fs', c[p].ip)
  BY <1>11, <1>13, Zenon DEF Clean, Same
<1>15. Outside(fs, fs', c[p].ip, c[p].ip)
  <2>1. fs.lock \in [Inums -> Procs \cup {NoProc}]
    BY <1>7, FsParts, Zenon
  <2>2. \A j \in Inums : j # c[p].ip => fs'.lock[j] = fs.lock[j]
    BY <1>13, <2>1, Zenon
  <2>3. \A j \in Inums : j # c[p].ip => t.mem[j] = fs.mem[j] /\ t.disk[j] = fs.disk[j]
    BY <1>10, ZenonT(60) DEF RelinkDoes
  <2> QED
    BY <1>13, <2>2, <2>3, Zenon DEF Outside
<1>16. \A j \in Inums : MemCase(fs, fs', j)
  BY <1>14, <1>15, CleanCase, Zenon
<1>17. Counts(p, r, cwd[p], ofile[p])
  BY <1>4, <1>7, <1>13, Zenon DEF Counts, RefSame
<1>18. Held(r) = Held(c[p]) \ {c[p].ip}
  BY <1>4, <1>6, Zenon
<1>19. Locks(p, r)
  BY <1>5, <1>6, <1>13, <1>18, ZenonT(60) DEF Locks
<1> QED
  BY <1>4, <1>13, <1>16, <1>17, <1>19, Stepped, ZenonT(60)

\* sys_link keeps CacheInv.
LEMMA LinkKeeps == ASSUME CacheInv, NEW p \in Procs, NEW from \in Starts(p), sys_link(p, from) PROVE CacheInv'
<1>1. At(p, "link") /\ Unlocked(c[p].ip) /\ UNCHANGED <<cwd, ofile, mix>>
  BY Zenon DEF sys_link
<1>2. Ready(p, "link")
  BY <1>1, AtIs, Zenon
<1>3. c[p].pc = "link" /\ c[p].put = 0 /\ c[p].stage = "lock" /\ c[p] \in CallRec /\ Shape(c[p]) /\ IType /\ fs.panic = "no"
  BY <1>2, Zenon DEF Ready, Is
<1>4. Held(c[p]) = {}
  BY <1>3, HeldNone
<1>5. c[p].ip \in Inums /\ c[p].dp = 0 /\ c[p].op = "link" /\ c[p].old = 0
  BY <1>2, <1>3, Locals DEF UsesIp, UsesDp, Shape, OpAt
<1>6. from \in Inums
  BY <1>3, InPtr, Zenon DEF Starts, IType
<1>7. fs.lock[c[p].ip] = NoProc
  BY <1>1, Zenon DEF Unlocked
<1>8. CASE fs' = iunlock(ilock(fs, c[p].ip, p), c[p].ip) /\ PutThen(p, "ip", "user")
  <2>1. Fail(c[p].op) = "user"
    BY <1>5 DEF Fail
  <2> QED
    BY <1>1, <1>2, <1>8, <2>1, IpFails, ZenonT(60)
<1>9. CASE /\ fs' = iget(Parted(Linked(ilock(fs, c[p].ip, p), c[p].ip), c[p].ip), from)
           /\ c' = [c EXCEPT ![p].old = c[p].ip, ![p].ip = from, ![p].op = "link2",
                             ![p].path = c[p].new, ![p].new = <<>>, ![p].pc = "namex"]
  <2>1. PICK u : u = iunlock(Relink(ilock(fs, c[p].ip, p), c[p].ip, 1), c[p].ip)
    BY Zenon
  <2>2. 1 \in Int
    OBVIOUS
  <2>3. TouchDoes(c[p].ip, 1, u)
    BY <1>2, <1>5, <1>7, <2>1, <2>2, Touch, ZenonT(60)
  <2>4. fs' = iget(u, from)
    BY <1>9, <2>1, Zenon DEF Parted, Linked
  <2>5. /\ u \in FsRec /\ RefSame(fs, u) /\ Clean(u, c[p].ip) /\ u.lock = fs.lock /\ Outside(fs, u, c[p].ip, c[p].ip)
    BY <2>3, Zenon DEF TouchDoes
  <2>6. IgetDoes(u, from, fs')
    BY <1>6, <2>4, <2>5, Iget, ZenonT(60)
  <2>7. fs' \in FsRec /\ fs'.mem = u.mem /\ fs'.disk = u.disk /\ fs'.lock = fs.lock /\ (fs'.panic = "no" => u.panic = "no")
    BY <2>5, <2>6, Zenon DEF IgetDoes
  <2>8. Clean(fs', c[p].ip)
    BY <2>5, <2>7, Zenon DEF Clean, Same
  <2>9. Outside(fs, fs', c[p].ip, c[p].ip)
    BY <2>5, <2>7, Zenon DEF Outside
  <2>10. \A j \in Inums : MemCase(fs, fs', j)
    BY <2>8, <2>9, CleanCase, Zenon
  <2>11. RefGot(fs, fs', from)
    BY <2>5, <2>6, Zenon DEF RefGot, RefSame, IgetDoes
  <2>12. PICK r : r = [c[p] EXCEPT !.old = c[p].ip, !.ip = from, !.op = "link2", !.path = c[p].new, !.new = <<>>, !.pc = "namex"]
    BY Zenon
  <2>13. c' = [c EXCEPT ![p] = r]
    BY <1>9, <2>12, Zenon
  <2>14. <<>> \in Seq(AllNames) /\ c[p].new \in Seq(AllNames)
    BY <1>2, Locals
  <2>15. r \in CallRec
    BY <1>3, <1>5, <1>6, <2>12, <2>14, InPtr, ZenonT(60) DEF CallRec, Places
  <2>16. Is(r, "namex", "link2", c[p].new, <<>>, from, 0, c[p].ip, 0)
    BY <1>3, <1>5, <2>12, <2>15, ZenonT(60) DEF Is, CallRec
  <2>17. Moves(p, r, cwd[p], ofile[p])
    BY <1>1, <1>3, <2>13, <2>16, GoesOn, ZenonT(60) DEF Is
  <2>18. Shape(r)
    BY <1>5, <1>6, <2>16, InPtr DEF Is, Shape, UsesIp, UsesDp, MayPut, OpAt
  <2>19. Steps(p, r, cwd[p], ofile[p])
    BY <1>2, <1>3, <2>16, <2>17, <2>18, ZenonT(60) DEF Steps, Is, Ready
  <2>20. OwnsMore(p, r, cwd[p], ofile[p], from)
    <3>1. r.ip = from /\ r.dp = 0 /\ r.old = c[p].ip /\ r.put = 0
      BY <2>16, Zenon DEF Is
    <3>2. Gains(c[p], r, from)
      BY <1>3, <1>5, <3>1, ZenonT(60) DEF Gains
    <3> QED
      BY <3>2, GainsOne, Zenon
  <2>21. Held(r) = {}
    BY <2>16, HeldNone DEF Is
  <2>22. Counts(p, r, cwd[p], ofile[p]) /\ Locks(p, r)
    BY <1>4, <1>6, <2>7, <2>11, <2>20, <2>21, ZenonT(60) DEF Counts, Locks
  <2> QED
    BY <2>7, <2>10, <2>19, <2>22, Stepped, ZenonT(60)
<1> QED
  BY <1>8, <1>9, Zenon DEF sys_link

\* The three steps of iput
LEMMA StageIs ==
  ASSUME IType, NEW p \in Procs, NEW st \in {"inval", "ref"}, c[p].put # 0, c' = [c EXCEPT ![p].stage = st],
         UNCHANGED <<cwd, ofile, mix>>
  PROVE  \E r : /\ Moves(p, r, cwd[p], ofile[p]) /\ r.stage = st /\ r.pc = c[p].pc /\ r.op = c[p].op /\ r.path = c[p].path
                /\ r.ip = c[p].ip /\ r.dp = c[p].dp /\ r.old = c[p].old /\ r.put = c[p].put /\ r.new = c[p].new
<1>1. PICK r : r = [c[p] EXCEPT !.stage = st]
  BY Zenon
<1>2. c[p] \in CallRec /\ c' = [c EXCEPT ![p] = r] /\ cwd \in [Procs -> Inums] /\ ofile \in [Procs -> Ptr]
  BY <1>1, Zenon DEF IType, CType
<1>3. st \in {"lock", "inval", "ref"}
  OBVIOUS
<1>4. r \in CallRec
  BY <1>1, <1>2, <1>3, Zenon DEF CallRec
<1>5. /\ r.stage = st /\ r.pc = c[p].pc /\ r.op = c[p].op /\ r.path = c[p].path /\ r.new = c[p].new
      /\ r.ip = c[p].ip /\ r.dp = c[p].dp /\ r.old = c[p].old /\ r.put = c[p].put
  BY <1>1, <1>2, Zenon DEF CallRec
<1>6. cwd' = [cwd EXCEPT ![p] = cwd[p]] /\ ofile' = [ofile EXCEPT ![p] = ofile[p]]
  BY <1>2, Zenon
<1>7. Moves(p, r, cwd[p], ofile[p])
  BY <1>2, <1>4, <1>5, <1>6, ZenonT(60) DEF Moves
<1> QED
  BY <1>5, <1>7, Zenon

\* What is put is an inode.
LEMMA PutIn ==
  ASSUME IType, NEW p \in Procs, c[p].put # 0
  PROVE  c[p].put \in Inums
<1>1. c[p].put \in Ptr
  BY Zenon DEF IType, CType, CallRec
<1> QED
  BY <1>1, InodeAssumption DEF Ptr, Inums
\* No other inode stops being freed
LEMMA DyingStays ==
  ASSUME IType, NEW p \in Procs, NEW r, NEW w, NEW o, Moves(p, r, w, o), NEW i, Dying(i), c[p].stage # "inval" \/ c[p].put # i
  PROVE  Dying(i)'
<1>1. MovesFacts(p, r, w, o)
  BY Moved, Zenon
<1>2. PICK q \in Procs : c[q].put = i /\ c[q].stage = "inval"
  BY Zenon DEF Dying
<1>3. q # p
  BY <1>2, Zenon
<1>4. c'[q] = c[q]
  BY <1>1, <1>3, Zenon DEF MovesFacts
<1> QED
  BY <1>2, <1>4, Zenon DEF Dying
\* What iput's free does
FreeDoes(p, i, t) ==
    /\ t \in FsRec /\ t.ref = fs.ref /\ t.panic = fs.panic /\ t.lock = [fs.lock EXCEPT ![i] = p]
    /\ t.disk[i] = [type |-> "none", nlink |-> 0] /\ t.mem[i].valid = fs.mem[i].valid
    /\ \A j \in Inums : j # i => t.mem[j] = fs.mem[j] /\ t.disk[j] = fs.disk[j] /\ t.dir[j] = fs.dir[j]
    /\ \A n \in AllNames : t.dir[i][n] = 0
\* iput truncates the inode and frees it on disk.
LEMMA Frees ==
  ASSUME fs \in FsRec, NEW p \in Procs, NEW i \in Inums, NEW t,
         t = [iupdate(fs, i, "none", 0) EXCEPT !.dir[i] = NoEntries, !.lock[i] = p]
  PROVE  FreeDoes(p, i, t)
<1>1. PICK s : s = iupdate(fs, i, "none", 0)
  BY Zenon
<1>2. "none" \in Types /\ 0 \in Int
  BY DEF Types
<1>3. WriteDoes(fs, i, "none", 0, s)
  BY <1>1, <1>2, Iupdate, Zenon
<1>4. s \in FsRec /\ s.dir = fs.dir /\ s.lock = fs.lock /\ s.ref = fs.ref /\ s.panic = fs.panic
  BY <1>3, Zenon DEF WriteDoes
<1>5. t = [s EXCEPT !.dir[i] = NoEntries, !.lock[i] = p]
  BY <1>1, Zenon
<1>6. t.dir = [s.dir EXCEPT ![i] = NoEntries] /\ t.lock = [s.lock EXCEPT ![i] = p]
  BY <1>4, <1>5, Zenon DEF FsRec
<1>7. t.disk = s.disk /\ t.mem = s.mem /\ t.ref = s.ref /\ t.panic = s.panic
  BY <1>4, <1>5, Zenon DEF FsRec
<1>8. NoEntries \in DirRec
  BY InPtr, Zenon DEF NoEntries, DirRec, AllNames
<1>9. s.dir \in [Inums -> DirRec] /\ s.lock \in [Inums -> Procs \cup {NoProc}] /\ fs.disk \in [Inums -> DiskRec]
  BY <1>4, FsParts, Zenon
<1>10. p \in Procs \cup {NoProc}
  BY Zenon
<1>11. t.dir \in [Inums -> DirRec] /\ t.lock \in [Inums -> Procs \cup {NoProc}]
  <2>1. PICK f : f = [s.dir EXCEPT ![i] = NoEntries]
    BY Zenon
  <2>2. PICK g : g = [s.lock EXCEPT ![i] = p]
    BY Zenon
  <2>3. f \in [Inums -> DirRec]
    BY <1>8, <1>9, <2>1, FnSet, ZenonT(60)
  <2>4. g \in [Inums -> Procs \cup {NoProc}]
    BY <1>9, <1>10, <2>2, FnSet, ZenonT(60)
  <2>5. t.dir = f /\ t.lock = g
    BY <1>6, <2>1, <2>2, Zenon
  <2> QED
    BY <2>3, <2>4, <2>5, Zenon
<1>12. t \in FsRec
  BY <1>4, <1>5, <1>11, Zenon DEF FsRec
<1>13. t.dir[i] = NoEntries /\ \A j \in Inums : j # i => t.dir[j] = fs.dir[j]
  <2>1. PICK e : e = NoEntries
    BY Zenon
  <2>2. t.dir = [fs.dir EXCEPT ![i] = e] /\ fs.dir \in [Inums -> DirRec]
    BY <1>4, <1>6, <1>9, <2>1, ZenonT(60)
  <2> QED
    BY <2>1, <2>2
<1>14. \A n \in AllNames : t.dir[i][n] = 0
  BY <1>13, Zenon DEF NoEntries, AllNames
<1>15. /\ t.disk[i] = [type |-> "none", nlink |-> 0] /\ t.mem[i].valid = fs.mem[i].valid
       /\ \A j \in Inums : j # i => t.mem[j] = fs.mem[j] /\ t.disk[j] = fs.disk[j]
  <2>1. s.disk = [fs.disk EXCEPT ![i] = [type |-> "none", nlink |-> 0]]
    BY <1>3, Zenon DEF WriteDoes
  <2>2. s.mem[i].valid = fs.mem[i].valid /\ \A j \in Inums : j # i => s.mem[j] = fs.mem[j]
    BY <1>3, Zenon DEF WriteDoes
  <2>3. s.disk[i] = [type |-> "none", nlink |-> 0] /\ \A j \in Inums : j # i => s.disk[j] = fs.disk[j]
    BY <1>9, <2>1, Zenon
  <2> QED
    BY <1>7, <2>2, <2>3, Zenon
<1> QED
  BY <1>4, <1>6, <1>7, <1>12, <1>13, <1>14, <1>15, ZenonT(60) DEF FreeDoes

\* iput_check keeps CacheInv.
LEMMA CheckKeeps == ASSUME CacheInv, NEW p \in Procs, iput_check(p) PROVE CacheInv'
<1>1. fs.panic = "no" /\ c[p].put # 0 /\ c[p].stage = "lock" /\ fs.lock[c[p].put] = NoProc /\ UNCHANGED <<cwd, ofile, mix>>
  BY Zenon DEF iput_check, Unlocked
<1>2. IType /\ fs \in FsRec /\ Shape(c[p]) /\ LockInv /\ MemInv /\ WriteThrough
  BY <1>1, Zenon DEF CacheInv, ShapeInv, IType
<1>3. c[p].put \in Inums
  BY <1>1, <1>2, PutIn, Zenon
<1>4. c[p].put \notin Held(c[p])
  <2>1. p # NoProc
    BY InodeAssumption, Zenon
  <2> QED
    BY <1>1, <1>2, <1>3, <2>1, ZenonT(60) DEF LockInv
<1>5. PICK st \in {"inval", "ref"} : c' = [c EXCEPT ![p].stage = st] /\ (st = "inval" <=> LastUse(c[p].put))
  <2>1. "inval" # "ref"
    BY Zenon
  <2> QED
    BY <2>1, Zenon DEF iput_check
<1>6. PICK r : /\ Moves(p, r, cwd[p], ofile[p]) /\ r.stage = st /\ r.pc = c[p].pc /\ r.op = c[p].op /\ r.path = c[p].path
               /\ r.ip = c[p].ip /\ r.dp = c[p].dp /\ r.old = c[p].old /\ r.put = c[p].put /\ r.new = c[p].new
  BY <1>1, <1>2, <1>5, StageIs, ZenonT(60)
<1>7. Shape(r)
  <2>1. /\ ~(c[p].pc \in {"create_new", "unlink_ip", "unlink_bad", "link_exists"} /\ c[p].put = c[p].dp)
        /\ ~(c[p].pc \in {"create_end", "unlink_end"} /\ c[p].put = c[p].ip)
    BY <1>3, <1>4, Zenon DEF Held
  <2> QED
    BY <1>2, <1>6, <2>1, ZenonT(60) DEF Shape, OpAt
<1>8. OwnsSame(p, r, cwd[p], ofile[p])
  BY <1>6, Zenon DEF OwnsSame, Owns
<1>9. CASE LastUse(c[p].put)
  <2>1. FreeDoes(p, c[p].put, fs')
    BY <1>2, <1>3, <1>9, Frees, ZenonT(60) DEF iput_check
  <2>2. fs' \in FsRec /\ fs'.ref = fs.ref /\ fs'.panic = fs.panic /\ fs'.lock = [fs.lock EXCEPT ![c[p].put] = p]
    BY <2>1, Zenon DEF FreeDoes
  <2>3. \A j \in Inums : j # c[p].put => fs'.mem[j] = fs.mem[j] /\ fs'.disk[j] = fs.disk[j]
    BY <2>1, Zenon DEF FreeDoes
  <2>4. st = "inval"
    BY <1>5, <1>9, ZenonT(60)
  <2>5. Held(r) = Held(c[p]) \cup {c[p].put}
    BY <1>1, <1>3, <1>6, <2>4 DEF Held
  <2>6. fs.lock \in [Inums -> Procs \cup {NoProc}] /\ p # NoProc
    BY <1>2, FsParts, InodeAssumption, Zenon
  <2>7. fs'.lock[c[p].put] = p /\ \A j \in Inums : j # c[p].put => fs'.lock[j] = fs.lock[j]
    BY <1>3, <2>2, <2>6, ZenonT(60)
  <2>8. LocksMove(p, r)
    <3>1. \A i \in Inums : fs.lock[i] = p <=> i \in Held(c[p])
      BY <1>2, Zenon DEF LockInv
    <3> QED
      BY <1>1, <2>5, <2>6, <2>7, <3>1 DEF LocksMove
  <2>9. WriteThrough'
    BY <1>2, <2>3, <2>6, <2>7, ZenonT(60) DEF WriteThrough
  <2>10. MemInv'
    <3> SUFFICES ASSUME NEW i \in Inums, fs'.mem[i].valid
                 PROVE  Dying(i)' \/ (Same(fs', i) /\ fs'.mem[i].type # "none")
      BY Zenon DEF MemInv
    <3>1. CASE i = c[p].put
      <4>1. c'[p] = r
        BY <1>2, <1>6, Moved, Zenon DEF MovesFacts
      <4> QED
        BY <1>6, <2>4, <3>1, <4>1, ZenonT(60) DEF Dying
    <3>2. CASE i # c[p].put
      <4>1. Dying(i) \/ (Same(fs, i) /\ fs.mem[i].type # "none")
        BY <1>2, <2>3, <3>2, ZenonT(60) DEF MemInv
      <4>2. Dying(i) => Dying(i)'
        BY <1>2, <1>6, <3>2, DyingStays, ZenonT(60)
      <4> QED
        BY <2>3, <3>2, <4>1, <4>2, ZenonT(60) DEF Same
    <3> QED
      BY <3>1, <3>2, Zenon
  <2>11. RefsMove(p, r, cwd[p], ofile[p])
    BY <1>1, <1>2, <1>8, <2>2, KeepRefs, ZenonT(60) DEF RefSame
  <2> QED
    BY <1>1, <1>6, <1>7, <2>2, <2>8, <2>9, <2>10, <2>11, CacheStep, ZenonT(60)
<1>10. CASE ~LastUse(c[p].put)
  <2>1. fs' = fs /\ st = "ref"
    BY <1>5, <1>10, ZenonT(60) DEF iput_check
  <2>2. Held(r) = Held(c[p])
    BY <1>1, <1>6, <2>1 DEF Held
  <2>3. LocksMove(p, r)
    BY <1>2, <2>1, <2>2, Zenon DEF LocksMove, LockInv
  <2>4. WriteThrough'
    BY <1>2, <2>1, Zenon DEF WriteThrough
  <2>5. MemInv'
    <3>1. \A i \in Inums : Dying(i) => Dying(i)'
      <4>1. c[p].stage # "inval"
        BY <1>1
      <4> QED
        BY <1>2, <1>6, <4>1, DyingStays, ZenonT(60)
    <3> QED
      BY <1>2, <2>1, <3>1, Zenon DEF MemInv, Same
  <2>6. RefsMove(p, r, cwd[p], ofile[p])
    BY <1>1, <1>2, <1>8, <2>1, KeepRefs, ZenonT(60) DEF RefSame
  <2> QED
    BY <1>1, <1>2, <1>6, <1>7, <2>1, <2>3, <2>4, <2>5, <2>6, CacheStep, ZenonT(60)
<1> QED
  BY <1>9, <1>10, Zenon

\* The freed inode's entry is no longer valid, and unlocked.
InvalDoes(i, t) ==
    /\ t \in FsRec /\ t.ref = fs.ref /\ t.panic = fs.panic /\ t.disk = fs.disk /\ t.dir = fs.dir
    /\ t.lock = [fs.lock EXCEPT ![i] = NoProc] /\ ~t.mem[i].valid
    /\ \A j \in Inums : j # i => t.mem[j] = fs.mem[j]
\* iput invalidates the entry.
LEMMA Invals ==
  ASSUME fs \in FsRec, NEW i \in Inums, NEW t, t = [iunlock(fs, i) EXCEPT !.mem[i] = Invalid(i)]
  PROVE  InvalDoes(i, t)
<1>1. PICK s : s = iunlock(fs, i)
  BY Zenon
<1>2. UnlockDoes(fs, i, s)
  BY <1>1, Iunlock, Zenon
<1>3. s \in FsRec /\ s.mem = fs.mem /\ s.ref = fs.ref /\ s.panic = fs.panic /\ s.disk = fs.disk /\ s.dir = fs.dir
  BY <1>2, Zenon DEF UnlockDoes
<1>4. PICK m : m = Invalid(i)
  BY Zenon
<1>5. m \in MemRec /\ ~m.valid
  <2>1. fs.mem[i] \in MemRec
    BY FsParts, Zenon
  <2> QED
    BY <1>4, <2>1, Zenon DEF Invalid, MemRec
<1>6. t.mem = [fs.mem EXCEPT ![i] = m] /\ fs.mem \in [Inums -> MemRec]
  <2>1. t = [s EXCEPT !.mem[i] = m]
    BY <1>1, <1>4, Zenon
  <2>2. t.mem = [s.mem EXCEPT ![i] = m]
    BY <1>3, <2>1, Zenon DEF FsRec
  <2> QED
    BY <1>3, <2>2, FsParts, Zenon
<1>7. t.ref = s.ref /\ t.panic = s.panic /\ t.disk = s.disk /\ t.dir = s.dir /\ t.lock = s.lock
  BY <1>1, <1>3, Zenon DEF FsRec
<1>8. t \in FsRec
  <2>1. PICK f : f = [fs.mem EXCEPT ![i] = m]
    BY Zenon
  <2>2. f \in [Inums -> MemRec]
    BY <1>5, <1>6, <2>1, FnSet, ZenonT(60)
  <2>3. t = [s EXCEPT !.mem = f]
    BY <1>1, <1>3, <1>4, <2>1, ZenonT(60) DEF FsRec
  <2> QED
    BY <1>3, <2>2, <2>3, Zenon DEF FsRec
<1>9. t.mem[i] = m /\ \A j \in Inums : j # i => t.mem[j] = fs.mem[j]
  BY <1>6
<1>10. t.lock = [fs.lock EXCEPT ![i] = NoProc]
  BY <1>2, <1>7, Zenon DEF UnlockDoes
<1> QED
  BY <1>3, <1>5, <1>7, <1>8, <1>9, <1>10, ZenonT(60) DEF InvalDoes

\* iput_inval keeps CacheInv.
LEMMA InvalKeeps == ASSUME CacheInv, NEW p \in Procs, iput_inval(p) PROVE CacheInv'
<1>1. c[p].stage = "inval" /\ c' = [c EXCEPT ![p].stage = "ref"] /\ UNCHANGED <<cwd, ofile, mix>>
  BY Zenon DEF iput_inval
<1>2. IType /\ fs \in FsRec /\ WriteThrough
  BY Zenon DEF CacheInv, IType
<1>3. c[p].put # 0
  BY <1>1, <1>2 DEF IType, CType
<1>4. c[p].put \in Inums
  BY <1>2, <1>3, PutIn, Zenon
<1>5. PICK r : /\ Moves(p, r, cwd[p], ofile[p]) /\ r.stage = "ref" /\ r.pc = c[p].pc /\ r.op = c[p].op /\ r.path = c[p].path
               /\ r.ip = c[p].ip /\ r.dp = c[p].dp /\ r.old = c[p].old /\ r.put = c[p].put /\ r.new = c[p].new
  <2>1. "ref" \in {"inval", "ref"}
    BY Zenon
  <2> QED
    BY <1>1, <1>2, <1>3, <2>1, StageIs, ZenonT(60)
<1>6. OwnsSame(p, r, cwd[p], ofile[p])
  BY <1>5, Zenon DEF OwnsSame, Owns
<1>7. InvalDoes(c[p].put, fs')
  BY <1>2, <1>4, Invals, Zenon DEF iput_inval
<1>8. fs' \in FsRec /\ fs'.ref = fs.ref /\ fs'.panic = fs.panic /\ fs'.disk = fs.disk
  BY <1>7, Zenon DEF InvalDoes
<1>9. ~fs'.mem[c[p].put].valid /\ \A j \in Inums : j # c[p].put => fs'.mem[j] = fs.mem[j]
  BY <1>7, Zenon DEF InvalDoes
<1>10. fs.lock \in [Inums -> Procs \cup {NoProc}] /\ p # NoProc /\ fs'.lock = [fs.lock EXCEPT ![c[p].put] = NoProc]
  BY <1>2, <1>7, FsParts, InodeAssumption, ZenonT(60) DEF InvalDoes
<1>11. fs'.lock[c[p].put] = NoProc /\ \A j \in Inums : j # c[p].put => fs'.lock[j] = fs.lock[j]
  BY <1>4, <1>10, Zenon
<1>12. WriteThrough'
  BY <1>2, <1>8, <1>9, <1>11, ZenonT(60) DEF WriteThrough
<1>13. ASSUME fs.panic = "no" PROVE Shape(r) /\ MemInv' /\ LocksMove(p, r) /\ RefsMove(p, r, cwd[p], ofile[p])
  <2>1. Shape(c[p]) /\ LockInv /\ MemInv
    BY <1>13, ZenonT(60) DEF CacheInv, ShapeInv
  <2>2. Shape(r)
    BY <1>5, <2>1 DEF Shape, OpAt
  <2>3. MemInv'
    <3> SUFFICES ASSUME NEW i \in Inums, fs'.mem[i].valid
                 PROVE  Dying(i)' \/ (Same(fs', i) /\ fs'.mem[i].type # "none")
      BY Zenon DEF MemInv
    <3>1. i # c[p].put /\ fs'.mem[i] = fs.mem[i]
      BY <1>9, Zenon
    <3>2. Dying(i) \/ (Same(fs, i) /\ fs.mem[i].type # "none")
      BY <2>1, <3>1, Zenon DEF MemInv
    <3>3. Dying(i) => Dying(i)'
      BY <1>2, <1>5, <3>1, DyingStays, ZenonT(60)
    <3> QED
      BY <1>8, <3>1, <3>2, <3>3, ZenonT(60) DEF Same
  <2>4. c[p].put \in Held(c[p]) /\ Held(r) = Held(c[p]) \ {c[p].put}
    BY <1>1, <1>4, <1>5, <2>1 DEF Held, Shape
  <2>5. \A i \in Inums : fs.lock[i] = p <=> i \in Held(c[p])
    BY <2>1, ZenonT(60) DEF LockInv
  <2>6. LocksMove(p, r)
    BY <1>4, <1>10, <1>11, <2>4, <2>5 DEF LocksMove
  <2>7. RefsMove(p, r, cwd[p], ofile[p])
    BY <1>2, <1>6, <1>8, <1>13, KeepRefs, ZenonT(60) DEF RefSame
  <2> QED
    BY <2>2, <2>3, <2>6, <2>7, ZenonT(60)
<1> QED
  BY <1>5, <1>8, <1>12, <1>13, CacheStep, ZenonT(60)
\* One reference less; an entry without references is empty.
DropDoes(i, t) ==
    /\ t \in FsRec /\ t.panic = fs.panic /\ t.disk = fs.disk /\ t.dir = fs.dir /\ t.lock = fs.lock
    /\ t.ref = [fs.ref EXCEPT ![i] = fs.ref[i] - 1]
    /\ t.mem[i] = fs.mem[i] \/ (fs.ref[i] = 1 /\ ~t.mem[i].valid)
    /\ \A j \in Inums : j # i => t.mem[j] = fs.mem[j]
\* iput drops the reference.
LEMMA Drops ==
  ASSUME fs \in FsRec, NEW i \in Inums, NEW t,
         t = [fs EXCEPT !.ref[i] = @ - 1, !.mem[i] = IF fs.ref[i] = 1 THEN Uncached ELSE @]
  PROVE  DropDoes(i, t)
<1>1. fs.ref \in [Inums -> Int] /\ fs.mem \in [Inums -> MemRec]
  BY FsParts, Zenon
<1>2. PICK n \in Int : n = fs.ref[i] - 1
  BY <1>1
<1>3. PICK m : m = IF fs.ref[i] = 1 THEN Uncached ELSE fs.mem[i]
  BY Zenon
<1>4. Uncached \in MemRec /\ ~Uncached.valid
  BY DEF Uncached, MemRec, Types
<1>5. m \in MemRec /\ (m = fs.mem[i] \/ (fs.ref[i] = 1 /\ ~m.valid))
  BY <1>1, <1>3, <1>4, Zenon
<1>6. PICK f \in [Inums -> Int] : f = [fs.ref EXCEPT ![i] = n]
  BY <1>1, <1>2, FnSet, Zenon
<1>7. PICK g \in [Inums -> MemRec] : g = [fs.mem EXCEPT ![i] = m]
  BY <1>1, <1>5, FnSet, Zenon
<1>8. t.ref = f /\ t.mem = g
  BY <1>2, <1>3, <1>6, <1>7, ZenonT(60) DEF FsRec
<1>9. t.panic = fs.panic /\ t.disk = fs.disk /\ t.dir = fs.dir /\ t.lock = fs.lock
  BY Zenon DEF FsRec
<1>10. t \in FsRec
  <2>1. t = [fs EXCEPT !.ref = f, !.mem = g]
    BY <1>2, <1>3, <1>6, <1>7, ZenonT(60) DEF FsRec
  <2> QED
    BY <2>1, Zenon DEF FsRec
<1>11. t.mem[i] = m /\ \A j \in Inums : j # i => t.mem[j] = fs.mem[j]
  BY <1>1, <1>7, <1>8
<1>12. t.ref = [fs.ref EXCEPT ![i] = fs.ref[i] - 1]
  BY <1>2, <1>6, <1>8, Zenon
<1> QED
  BY <1>5, <1>9, <1>10, <1>11, <1>12, ZenonT(60) DEF DropDoes

\* The call after iput: back in the caller, or at the place it put for
LEMMA DroppedIs ==
  ASSUME IType, NEW p \in Procs, UNCHANGED <<cwd, ofile, mix>>,
         c' = [c EXCEPT ![p] = IF @.pc = "user" THEN Idle ELSE [c[p] EXCEPT !.put = 0, !.stage = "lock"]]
  PROVE  \E r : /\ Moves(p, r, cwd[p], ofile[p]) /\ r.stage = "lock" /\ r.pc = c[p].pc /\ r.put = 0
                /\ \/ c[p].pc = "user" /\ r = Idle
                   \/ /\ c[p].pc # "user" /\ r.op = c[p].op /\ r.path = c[p].path /\ r.new = c[p].new
                      /\ r.ip = c[p].ip /\ r.dp = c[p].dp /\ r.old = c[p].old
<1>1. PICK r : r = IF c[p].pc = "user" THEN Idle ELSE [c[p] EXCEPT !.put = 0, !.stage = "lock"]
  BY Zenon
<1>2. c[p] \in CallRec /\ c' = [c EXCEPT ![p] = r] /\ cwd \in [Procs -> Inums] /\ ofile \in [Procs -> Ptr]
  BY <1>1, Zenon DEF IType, CType
<1>3. cwd' = [cwd EXCEPT ![p] = cwd[p]] /\ ofile' = [ofile EXCEPT ![p] = ofile[p]]
  BY <1>2, Zenon
<1>4. CASE c[p].pc = "user"
  <2>1. r = Idle
    BY <1>1, <1>4, Zenon
  <2>2. Idle \in CallRec /\ Idle.stage = "lock" /\ Idle.put = 0 /\ Idle.pc = "user"
    BY InodeAssumption DEF Idle, CallRec, Places, Ptr
  <2>3. Moves(p, r, cwd[p], ofile[p])
    BY <1>2, <1>3, <2>1, <2>2, ZenonT(60) DEF Moves
  <2> QED
    BY <1>4, <2>1, <2>2, <2>3, ZenonT(60)
<1>5. CASE c[p].pc # "user"
  <2>1. r = [c[p] EXCEPT !.put = 0, !.stage = "lock"]
    BY <1>1, <1>5, Zenon
  <2>2. 0 \in Ptr /\ "lock" \in {"lock", "inval", "ref"}
    BY InPtr, Zenon
  <2>3. r \in CallRec
    BY <1>2, <2>1, <2>2, Zenon DEF CallRec
  <2>4. /\ r.stage = "lock" /\ r.pc = c[p].pc /\ r.op = c[p].op /\ r.path = c[p].path /\ r.new = c[p].new
        /\ r.ip = c[p].ip /\ r.dp = c[p].dp /\ r.old = c[p].old /\ r.put = 0
    BY <1>2, <2>1, Zenon DEF CallRec
  <2>5. Moves(p, r, cwd[p], ofile[p])
    BY <1>2, <1>3, <2>3, <2>4, ZenonT(60) DEF Moves
  <2> QED
    BY <1>5, <2>4, <2>5, Zenon
<1> QED
  BY <1>4, <1>5, Zenon

\* iput_ref keeps CacheInv.
LEMMA RefKeeps == ASSUME CacheInv, NEW p \in Procs, iput_ref(p) PROVE CacheInv'
<1>1. /\ c[p].stage = "ref" /\ UNCHANGED <<cwd, ofile, mix>>
      /\ c' = [c EXCEPT ![p] = IF @.pc = "user" THEN Idle ELSE [c[p] EXCEPT !.put = 0, !.stage = "lock"]]
  BY Zenon DEF iput_ref
<1>2. IType /\ fs \in FsRec /\ WriteThrough
  BY Zenon DEF CacheInv, IType
<1>3. c[p].put # 0
  BY <1>1, <1>2 DEF IType, CType
<1>4. c[p].put \in Inums
  BY <1>2, <1>3, PutIn, Zenon
<1>5. PICK r : /\ Moves(p, r, cwd[p], ofile[p]) /\ r.stage = "lock" /\ r.pc = c[p].pc /\ r.put = 0
               /\ \/ c[p].pc = "user" /\ r = Idle
                  \/ /\ c[p].pc # "user" /\ r.op = c[p].op /\ r.path = c[p].path /\ r.new = c[p].new
                     /\ r.ip = c[p].ip /\ r.dp = c[p].dp /\ r.old = c[p].old
  BY <1>1, <1>2, DroppedIs, Zenon
<1>7. DropDoes(c[p].put, fs')
  BY <1>2, <1>4, Drops, Zenon DEF iput_ref
<1>8. fs' \in FsRec /\ fs'.panic = fs.panic /\ fs'.disk = fs.disk /\ fs'.lock = fs.lock
  BY <1>7, Zenon DEF DropDoes
<1>9. \A j \in Inums : fs'.mem[j].valid => fs'.mem[j] = fs.mem[j]
  BY <1>7, Zenon DEF DropDoes
<1>10. WriteThrough'
  BY <1>2, <1>8, <1>9, ZenonT(60) DEF WriteThrough
<1>11. ASSUME fs.panic = "no" PROVE Shape(r) /\ MemInv' /\ LocksMove(p, r) /\ RefsMove(p, r, cwd[p], ofile[p])
  <2>1. Shape(c[p]) /\ LockInv /\ MemInv
    BY <1>11, Zenon DEF CacheInv, ShapeInv
  <2>2. Shape(Idle) /\ Idle.ip = 0 /\ Idle.dp = 0 /\ Idle.old = 0 /\ Idle.put = 0
    BY DEF Shape, OpAt, Idle, UsesIp, UsesDp
  <2>3. Shape(r)
    <3>1. CASE r = Idle
      BY <2>2, <3>1, ZenonT(60)
    <3>2. CASE c[p].pc # "user" /\ r.op = c[p].op /\ r.path = c[p].path /\ r.ip = c[p].ip /\ r.dp = c[p].dp /\ r.old = c[p].old
      BY <1>5, <2>1, <3>2 DEF Shape, OpAt
    <3> QED
      BY <1>5, <3>1, <3>2, ZenonT(60)
  <2>4. r.ip = c[p].ip /\ r.dp = c[p].dp /\ r.old = c[p].old
    <3>1. c[p].pc = "user" => c[p].ip = 0 /\ c[p].dp = 0 /\ c[p].old = 0
      BY <2>1 DEF Shape, UsesIp, UsesDp
    <3> QED
      BY <1>5, <2>2, <3>1, ZenonT(60)
  <2>5. MemInv'
    <3> SUFFICES ASSUME NEW i \in Inums, fs'.mem[i].valid
                 PROVE  Dying(i)' \/ (Same(fs', i) /\ fs'.mem[i].type # "none")
      BY Zenon DEF MemInv
    <3>1. fs'.mem[i] = fs.mem[i]
      BY <1>9, Zenon
    <3>2. Dying(i) \/ (Same(fs, i) /\ fs.mem[i].type # "none")
      BY <2>1, <3>1, Zenon DEF MemInv
    <3>3. c[p].stage # "inval"
      BY <1>1
    <3>4. Dying(i) => Dying(i)'
      BY <1>2, <1>5, <3>3, DyingStays, ZenonT(60)
    <3> QED
      BY <1>8, <3>1, <3>2, <3>4, ZenonT(60) DEF Same
  <2>6. Held(r) = Held(c[p])
    BY <1>1, <1>5, <2>4 DEF Held
  <2>7. LocksMove(p, r)
    BY <1>8, <2>1, <2>6, ZenonT(60) DEF LocksMove, LockInv
  <2>8. RefsMove(p, r, cwd[p], ofile[p])
    <3> SUFFICES ASSUME NEW i \in Inums
                 PROVE  fs'.ref[i] = fs.ref[i] - Owns(c[p], cwd[p], ofile[p], i) + Owns(r, cwd[p], ofile[p], i)
      BY Zenon DEF RefsMove
    <3>1. fs.ref \in [Inums -> Int]
      BY <1>2, FsParts, Zenon
    <3>2. fs'.ref = [fs.ref EXCEPT ![c[p].put] = fs.ref[c[p].put] - 1]
      BY <1>7, Zenon DEF DropDoes
    <3>3. fs'.ref[i] = fs.ref[i] - One(c[p].put, i)
      BY <1>4, <3>1, <3>2 DEF One
    <3>4. PICK a, b, d \in Int, x, y \in Int : a = One(c[p].ip, i) /\ b = One(c[p].dp, i) /\ d = One(c[p].old, i)
                                             /\ x = One(cwd[p], i) /\ y = One(ofile[p], i)
      BY OneFacts, Zenon
    <3>5. PICK z \in Int : z = One(c[p].put, i)
      BY OneFacts, Zenon
    <3>6. Owns(c[p], cwd[p], ofile[p], i) = a + b + d + z + x + y
      BY <3>4, <3>5, Zenon DEF Owns
    <3>7. Owns(r, cwd[p], ofile[p], i) = a + b + d + 0 + x + y
      BY <1>5, <2>4, <3>4, OneFacts, ZenonT(60) DEF Owns
    <3>8. PICK n \in Int : n = fs.ref[i]
      BY <3>1, Zenon
    <3>9. fs'.ref[i] = n - z
      BY <3>3, <3>5, <3>8, ZenonT(60)
    <3>10. n - z = n - (a + b + d + z + x + y) + (a + b + d + 0 + x + y)
      OBVIOUS
    <3> QED
      BY <3>6, <3>7, <3>8, <3>9, <3>10, ZenonT(60)
  <2> QED
    BY <2>3, <2>5, <2>7, <2>8, Zenon
<1> QED
  BY <1>5, <1>8, <1>10, <1>11, CacheStep, ZenonT(60)

----
\* At the start nothing is cached, and each process has a reference to the root.
LEMMA InitCache == ASSUME SetFacts, Init PROVE CacheInv
<1>1. /\ c = [p \in Procs |-> Idle] /\ cwd = [p \in Procs |-> ROOTINO] /\ ofile = [p \in Procs |-> 0] /\ mix \in Mixes
  BY Zenon DEF Init
<1>2. /\ fs.panic = "no" /\ \A i \in Inums : /\ fs.mem[i] = Uncached /\ fs.lock[i] = NoProc
                                             /\ fs.ref[i] = IF i = ROOTINO THEN Cardinality(Procs) ELSE 0
  BY DEF Init
<1>3. Idle \in CallRec /\ Idle.stage = "lock" /\ Idle.put = 0 /\ Idle.pc = "user" /\ Idle.ip = 0 /\ Idle.dp = 0 /\ Idle.old = 0
  BY InodeAssumption DEF Idle, CallRec, Places, Ptr
<1>4. ROOTINO \in Inums /\ 0 \in Ptr /\ Inums \subseteq Ptr /\ 0 \notin Inums /\ \A i \in Inums : i # 0
  BY InodeAssumption DEF ROOTINO, Inums, Ptr
<1>5. CType /\ cwd \in [Procs -> Inums] /\ ofile \in [Procs -> Ptr]
  BY <1>1, <1>3, <1>4, Zenon DEF CType
<1>6. fs \in FsRec
  <2>1. PICK D, R, f, m, l : /\ D = [i \in Inums |-> IF i = ROOTINO THEN [type |-> "dir", nlink |-> 1] ELSE [type |-> "none", nlink |-> 0]]
                       /\ R = [i \in Inums |-> IF i = ROOTINO THEN [NoEntries EXCEPT !["."] = i, ![".."] = i] ELSE NoEntries]
                       /\ f = [i \in Inums |-> IF i = ROOTINO THEN Cardinality(Procs) ELSE 0]
                       /\ m = [i \in Inums |-> Uncached] /\ l = [i \in Inums |-> NoProc]
    BY Zenon
  <2>2. D \in [Inums -> DiskRec]
    <3>1. [type |-> "dir", nlink |-> 1] \in DiskRec /\ [type |-> "none", nlink |-> 0] \in DiskRec
      BY DEF DiskRec, Types
    <3> QED
      BY <2>1, <3>1, Zenon
  <2>3. R \in [Inums -> DirRec]
    <3>1. NoEntries \in DirRec
      BY <1>4, Zenon DEF NoEntries, DirRec, AllNames
    <3>2. ASSUME NEW i \in Inums PROVE [NoEntries EXCEPT !["."] = i, ![".."] = i] \in DirRec
      <4>1. i \in Ptr
        BY <1>4, <3>2, Zenon
      <4>2. PICK g : g = [NoEntries EXCEPT !["."] = i]
        BY Zenon
      <4>3. g \in DirRec
        BY <3>1, <4>1, <4>2, FnSet, ZenonT(60) DEF DirRec
      <4>4. [g EXCEPT ![".."] = i] \in DirRec
        BY <4>1, <4>3, FnSet, ZenonT(60) DEF DirRec
      <4> QED
        BY <4>2, <4>4, Zenon
    <3> QED
      BY <2>1, <3>1, <3>2, ZenonT(60)
  <2>4. f \in [Inums -> Int]
    <3>1. Cardinality(Procs) \in Int /\ 0 \in Int
      BY InodeAssumption DEF SetFacts
    <3> QED
      BY <2>1, <3>1, Zenon
  <2>5. m \in [Inums -> MemRec]
    <3>1. Uncached \in MemRec
      BY DEF Uncached, MemRec, Types
    <3> QED
      BY <2>1, <3>1, Zenon
  <2>6. l \in [Inums -> Procs \cup {NoProc}]
    BY <2>1, Zenon
  <2>7. fs = [disk |-> D, dir |-> R, ref |-> f, mem |-> m, lock |-> l, panic |-> "no"]
    BY <2>1, Zenon DEF Init
  <2> QED
    BY <2>2, <2>3, <2>4, <2>5, <2>6, <2>7, ZenonT(60) DEF FsRec
<1>7. ~Uncached.valid
  BY DEF Uncached
<1>8. WriteThrough /\ MemInv
  BY <1>2, <1>7, Zenon DEF WriteThrough, MemInv
<1>9. ShapeInv
  <2>1. Shape(Idle)
    BY DEF Shape, OpAt, Idle, UsesIp, UsesDp
  <2> QED
    BY <1>1, <2>1, ZenonT(60) DEF ShapeInv
<1>10. LockInv
  <2>1. Held(Idle) = {}
    BY DEF Held, Idle
  <2> QED
    BY <1>1, <1>2, <2>1, InodeAssumption, ZenonT(60) DEF LockInv
<1>11. RefsCounted
  <2> SUFFICES ASSUME NEW i \in Inums PROVE fs.ref[i] = Pointers(i)
    BY Zenon DEF RefsCounted
  <2>1. Cardinality({}) = 0 /\ Cardinality(Procs) \in Int
    BY InodeAssumption DEF SetFacts
  <2>2. i # 0
    BY <1>4, Zenon
  <2>3. /\ {p \in Procs : c[p].ip = i} = {} /\ {p \in Procs : c[p].dp = i} = {}
        /\ {p \in Procs : c[p].old = i} = {} /\ {p \in Procs : c[p].put = i} = {} /\ {p \in Procs : ofile[p] = i} = {}
    BY <1>1, <1>3, <2>2, ZenonT(60)
  <2>4. {p \in Procs : cwd[p] = i} = IF i = ROOTINO THEN Procs ELSE {}
    BY <1>1
  <2>5. Pointers(i) = 0 + 0 + 0 + 0 + Cardinality({p \in Procs : cwd[p] = i}) + 0
    BY <2>1, <2>3, Zenon DEF Pointers
  <2>6. Cardinality({p \in Procs : cwd[p] = i}) = fs.ref[i] /\ fs.ref[i] \in Int
    BY <1>2, <2>1, <2>4
  <2> QED
    BY <2>5, <2>6
<1> QED
  BY <1>1, <1>5, <1>6, <1>8, <1>9, <1>10, <1>11, ZenonT(60) DEF CacheInv, IType
\* The paths that calls are made with
LEMMA MixIs ==
  ASSUME IType
  PROVE  mix.calls \subseteq Calls /\ mix.paths \subseteq Seq(AllNames) /\ <<>> \in Seq(AllNames)
<1>1. mix \in Mixes /\ \A m \in Mixes : m.calls \subseteq Calls /\ m.paths \subseteq Seq(AllNames)
  BY MixAssumption, Zenon DEF IType, AllNames
<1>2. <<>> \in Seq(AllNames)
  OBVIOUS
<1> QED
  BY <1>1, <1>2, Zenon

\* Every step keeps CacheInv.
LEMMA NextCache == ASSUME CacheInv, [Next]_vars PROVE CacheInv'
<1>1. CASE UNCHANGED vars
  <2>1. fs' = fs /\ c' = c /\ cwd' = cwd /\ ofile' = ofile /\ mix' = mix
    BY <1>1, Zenon DEF vars
  <2>2. IType' <=> IType
    BY <2>1, Zenon DEF IType, CType
  <2>3. WriteThrough' <=> WriteThrough
    BY <2>1, Zenon DEF WriteThrough
  <2>4. RefsCounted' <=> RefsCounted
    BY <2>1, Zenon DEF RefsCounted, Pointers
  <2>5. ShapeInv' <=> ShapeInv
    BY <2>1, Zenon DEF ShapeInv
  <2>6. LockInv' <=> LockInv
    BY <2>1, Zenon DEF LockInv
  <2>7. MemInv' <=> MemInv
    BY <2>1, Zenon DEF MemInv, Dying, Same
  <2> QED
    BY <2>1, <2>2, <2>3, <2>4, <2>5, <2>6, <2>7, ZenonT(60) DEF CacheInv
<1>2. ASSUME Next PROVE CacheInv'
  <2>1. PICK p \in Procs :
            \/ Step(p)
            \/ sys_close(p)
            \/ \E op \in mix.calls \ {"link", "close"}, path \in mix.paths, from \in Starts(p) :
                   Enter(p, op, path, <<>>, from)
            \/ \E old, new \in mix.paths, from \in Starts(p) : Enter(p, "link", old, new, from)
    BY <1>2, Zenon DEF Next
  <2>2. mix.calls \subseteq Calls /\ mix.paths \subseteq Seq(AllNames) /\ <<>> \in Seq(AllNames)
    BY MixIs, Zenon DEF CacheInv
  <2>3. CASE Step(p)
    <3>1. CASE iput_check(p) \/ iput_inval(p) \/ iput_ref(p) \/ namex_end(p) \/ namex_step(p) \/ sys_chdir(p)
      BY <3>1, CheckKeeps, InvalKeeps, RefKeeps, EndKeeps, NamexKeeps, ChdirKeeps, ZenonT(60)
    <3>2. CASE create(p) \/ create_old(p) \/ create_new(p) \/ create_end(p)
      BY <3>2, CreateKeeps, OldKeeps, NewKeeps, CreatedKeeps, ZenonT(60)
    <3>3. CASE sys_unlink(p) \/ unlink_ip(p) \/ unlink_end(p) \/ unlink_bad(p)
      BY <3>3, FindKeeps, EraseKeeps, UnlinkedKeeps, BadKeeps, ZenonT(60)
    <3>4. CASE link_dp(p) \/ link_exists(p) \/ link_end(p) \/ link_bad(p)
      BY <3>4, LinkDpKeeps, ExistsKeeps, LinkedKeeps, LinkBadKeeps, ZenonT(60)
    <3>5. CASE \E from \in Starts(p) : sys_link(p, from)
      BY <3>5, LinkKeeps, Zenon
    <3>6. CASE \E omode \in {"O_RDONLY", "O_RDWR"} : sys_open(p, omode)
      BY <3>6, OpenKeeps, Zenon
    <3> QED
      BY <2>3, <3>1, <3>2, <3>3, <3>4, <3>5, <3>6, ZenonT(60) DEF Step
  <2>4. CASE sys_close(p)
    BY <2>4, CloseKeeps, Zenon
  <2>5. ASSUME NEW op \in mix.calls \ {"link", "close"}, NEW path \in mix.paths, NEW from \in Starts(p),
               Enter(p, op, path, <<>>, from)
        PROVE  CacheInv'
    <3>1. op \in Calls \ {"close"} /\ path \in Seq(AllNames)
      BY <2>2, Zenon
    <3> QED
      BY <2>2, <2>5, <3>1, EnterKeeps, ZenonT(60)
  <2>6. ASSUME NEW old \in mix.paths, NEW new \in mix.paths, NEW from \in Starts(p), Enter(p, "link", old, new, from)
        PROVE  CacheInv'
    <3>1. "link" \in Calls \ {"close"}
      BY DEF Calls
    <3>2. old \in Seq(AllNames) /\ new \in Seq(AllNames)
      BY <2>2, Zenon
    <3> QED
      BY <2>6, <3>1, <3>2, EnterKeeps, ZenonT(60)
  <2> QED
    BY <2>1, <2>3, <2>4, <2>5, <2>6, ZenonT(60)
<1> QED
  BY <1>1, <1>2, Zenon

\* A number is at most every number that is not less than it.
LEMMA NotLess == \A x, y \in Nat : ~(y < x) => x <= y
  OBVIOUS

----
INSTANCE FiniteSetTheorems

\* The facts about finite sets and numbers that the steps rest on.
LEMMA FactsOfSets == SetFacts
<1>1. ASSUME NEW S, IsFiniteSet(S) PROVE Cardinality(S) \in Nat
  BY <1>1, FS_CardinalityType, ZenonT(60)
<1>2. ASSUME NEW S, NEW T, IsFiniteSet(S), T \subseteq S PROVE IsFiniteSet(T) /\ Cardinality(T) <= Cardinality(S)
  BY <1>2, FS_Subset, ZenonT(60)
<1>3. ASSUME NEW S, NEW x, IsFiniteSet(S), x \notin S PROVE Cardinality(S \cup {x}) = Cardinality(S) + 1
  BY <1>3, FS_AddElement, ZenonT(60)
<1>4. IsFiniteSet(Inums)
  BY FS_Interval, InodeAssumption DEF Inums
<1>5. IsFiniteSet(Inums \X Names)
  BY <1>4, FS_Product, InodeAssumption, ZenonT(60)
<1>6. Cardinality({}) = 0
  BY FS_EmptySet, ZenonT(60)
<1>7. ASSUME NEW S \in SUBSET Nat, S # {} PROVE \E x \in S : \A y \in S : x <= y
  <2> DEFINE Less == {ss \in Nat \X Nat : ss[1] < ss[2]}
  <2>1. IsWellFoundedOn(Less, Nat)
    BY NatLessThanWellFounded, ZenonT(60) DEF OpToRel
  <2>2. \A a, b \in Nat : a < b => <<a, b>> \in Less
    BY Zenon
  <2> HIDE DEF Less
  <2>3. PICK x \in S : \A y \in S : ~(<<y, x>> \in Less)
    BY <1>7, <2>1, WFMin, ZenonT(60)
  <2>4. \A y \in S : y \in Nat /\ x \in Nat /\ ~(y < x)
    BY <2>2, <2>3, ZenonT(60)
  <2>5. \A y \in S : x <= y
    BY <2>4, NotLess, ZenonT(60)
  <2> QED
    BY <2>5, ZenonT(60)
<1> QED
  BY <1>1, <1>2, <1>3, <1>4, <1>5, <1>6, <1>7, ZenonT(60) DEF SetFacts

\* Every reference count is the number of pointers that processes have to the
\* inode, and a valid cache entry that nobody is freeing is what the disk has,
\* whatever the calls of fs.c and sysfile.c that interleave.
THEOREM CacheIsCounted == Spec => []InodeCacheSound
<1>1. Init => CacheInv
  BY FactsOfSets, InitCache, ZenonT(60)
<1>2. CacheInv /\ [Next]_vars => CacheInv'
  BY NextCache, ZenonT(60)
<1>3. CacheInv => InodeCacheSound
  BY Zenon DEF CacheInv, InodeCacheSound, RefsCounted
<1> QED
  BY <1>1, <1>2, <1>3, PTL DEF Spec
=============================================================================
