---- MODULE Inode ----
(***************************************************************************)
(* The inode layer: the inode cache, directories and path lookup of fs.c,  *)
(* and the system calls of sysfile.c that name files (open, link, unlink,  *)
(* mkdir, mknod, chdir, close).                                            *)
(*                                                                         *)
(* A system call is a sequence of steps; between two of them it can wait   *)
(* for an inode's sleep lock, so calls of different processes interleave.  *)
(* A step runs from one lock acquisition to the next: what it does in      *)
(* between is protected by the inode locks it holds, or by icache.lock.    *)
(* iput, which every call uses, is three steps of its own: the check under *)
(* the inode's lock, clearing valid after a free, and the decrement.       *)
(***************************************************************************)
EXTENDS Integers, FiniteSets, Sequences

CONSTANTS Procs,
          NINODES,      \* inodes on the disk, numbered from 1 (the root)
          NINODE,       \* entries of the inode cache
          Names,        \* file names
          Mixes,        \* workloads: the calls that processes make, and the
                        \* paths, sequences of names, that they make them with
          NoProc

ASSUME InodeAssumption == /\ NINODES \in Nat \ {0} /\ NINODE \in Nat \ {0}
                          /\ Names \cap {".", ".."} = {} /\ NoProc \notin Procs
                          /\ IsFiniteSet(Procs) /\ IsFiniteSet(Names)

Calls == {"open", "chdir", "link", "unlink", "create", "mkdir", "mknod", "close"}
ASSUME MixAssumption ==
    \A m \in Mixes : m.calls \subseteq Calls /\ m.paths \subseteq Seq(Names \cup {".", ".."})

Inums == 1..NINODES
ROOTINO == 1
NoEntries == [n \in Names \cup {".", ".."} |-> 0]
Uncached == [valid |-> FALSE, type |-> "none", nlink |-> 0]

VARIABLES fs,    \* disk: type and link count of each disk inode;
                 \* dir: the entries of each directory, 0 for none;
                 \* ref, mem, lock: the cache entry of each inode;
                 \* panic: the panic reached, or "no"
          c,     \* the call each process is in, with its local variables;
                 \* ip, dp, old and put each own a reference when not 0
          cwd,   \* each process's current directory
          ofile, \* the inode of each process's open file, or 0
          mix    \* the workload of this behaviour

vars == <<fs, c, cwd, ofile, mix>>

Idle == [pc |-> "user", op |-> "none", path |-> <<>>, new |-> <<>>,
         ip |-> 0, dp |-> 0, old |-> 0, put |-> 0, stage |-> "lock"]

\* The root directory as mkfs makes it; every process starts in it.
Init ==
    /\ fs = [disk |-> [i \in Inums |-> IF i = ROOTINO THEN [type |-> "dir", nlink |-> 1]
                                       ELSE [type |-> "none", nlink |-> 0]],
             dir |-> [i \in Inums |-> IF i = ROOTINO
                                      THEN [NoEntries EXCEPT !["."] = i, ![".."] = i]
                                      ELSE NoEntries],
             ref |-> [i \in Inums |-> IF i = ROOTINO THEN Cardinality(Procs) ELSE 0],
             mem |-> [i \in Inums |-> Uncached],
             lock |-> [i \in Inums |-> NoProc],
             panic |-> "no"]
    /\ c = [p \in Procs |-> Idle]
    /\ cwd = [p \in Procs |-> ROOTINO]
    /\ ofile = [p \in Procs |-> 0]
    /\ mix \in Mixes

----
\* The inode operations, as what they do to the file system state s.

panic(s, why) == [s EXCEPT !.panic = IF @ = "no" THEN why ELSE @]

iget(s, i) ==
    IF s.ref[i] = 0 /\ Cardinality({j \in Inums : s.ref[j] > 0}) = NINODE
    THEN panic(s, "iget")
    ELSE [s EXCEPT !.ref[i] = @ + 1]

\* ilock once the lock is free: take it, and read the inode if need be.
ilock(s, i, p) ==
    LET t == [s EXCEPT !.lock[i] = p,
                       !.mem[i] = IF @.valid THEN @
                                  ELSE [valid |-> TRUE, type |-> s.disk[i].type,
                                        nlink |-> s.disk[i].nlink]]
    IN IF ~s.mem[i].valid /\ s.disk[i].type = "none" THEN panic(t, "ilock") ELSE t

iunlock(s, i) == [s EXCEPT !.lock[i] = NoProc]

\* An inode's fields changed in memory and, by iupdate, on the disk.
iupdate(s, i, t, n) == [s EXCEPT !.mem[i].type = t, !.mem[i].nlink = n,
                                 !.disk[i] = [type |-> t, nlink |-> n]]

Relink(s, i, d) == iupdate(s, i, s.mem[i].type, s.mem[i].nlink + d)

\* ialloc marks the first free disk inode with its type and gets it.
Free(s) == {i \in Inums : s.disk[i].type = "none"}
FirstFree(s) == CHOOSE i \in Free(s) : \A j \in Free(s) : i <= j
ialloc(s, t) ==
    IF Free(s) = {} THEN panic(s, "ialloc")
    ELSE iget([s EXCEPT !.disk[FirstFree(s)] = [type |-> t, nlink |-> 0]], FirstFree(s))

dirlookup(s, i, n) == s.dir[i][n]
\* The entry that dirlink writes; what it does when the name exists is in link_dp.
dirlink(s, i, n, j) == [s EXCEPT !.dir[i][n] = j]
isdirempty(s, i) == \A n \in Names : s.dir[i][n] = 0

----
\* Control.  A process that has a reference to drop runs iput first.

At(p, l) == fs.panic = "no" /\ c[p].pc = l /\ c[p].put = 0
Unlocked(i) == fs.lock[i] = NoProc
Goto(p, l) == c' = [c EXCEPT ![p].pc = l]

\* Go on at l after iput(i), where the local variable x owned the reference.
PutThen(p, x, l) == c' = [c EXCEPT ![p].put = c[p][x], ![p][x] = 0, ![p].pc = l]

\* iput's test: no links and no other reference
LastUse(i) == fs.mem[i].valid /\ fs.mem[i].nlink = 0 /\ fs.ref[i] = 1

\* iput, first part, under the inode's lock: free the inode on its last use
\* (itrunc, type 0, iupdate), keeping the lock; or do nothing.
iput_check(p) ==
    LET i == c[p].put
    IN /\ fs.panic = "no" /\ i # 0 /\ c[p].stage = "lock" /\ Unlocked(i)
       /\ IF LastUse(i)
          THEN /\ fs' = [iupdate(fs, i, "none", 0) EXCEPT !.dir[i] = NoEntries, !.lock[i] = p]
               /\ c' = [c EXCEPT ![p].stage = "inval"]
          ELSE c' = [c EXCEPT ![p].stage = "ref"] /\ UNCHANGED fs
       /\ UNCHANGED <<cwd, ofile, mix>>

\* What iput leaves in the cache entry of an inode it freed
Invalid(i) == [fs.mem[i] EXCEPT !.valid = FALSE]

\* iput, after a free: the cached copy is no longer valid; unlock.
iput_inval(p) ==
    LET i == c[p].put
    IN /\ c[p].stage = "inval"
       /\ fs' = [iunlock(fs, i) EXCEPT !.mem[i] = Invalid(i)]
       /\ c' = [c EXCEPT ![p].stage = "ref"]
       /\ UNCHANGED <<cwd, ofile, mix>>

\* iput, last part, under icache.lock.  An entry nobody refers to is empty:
\* iget makes a new one of it, not valid.
iput_ref(p) ==
    LET i == c[p].put
    IN /\ c[p].stage = "ref"
       /\ fs' = [fs EXCEPT !.ref[i] = @ - 1, !.mem[i] = IF fs.ref[i] = 1 THEN Uncached ELSE @]
       /\ c' = [c EXCEPT ![p] = IF @.pc = "user" THEN Idle ELSE [c[p] EXCEPT !.put = 0, !.stage = "lock"]]
       /\ UNCHANGED <<cwd, ofile, mix>>

Creates == {"create", "mkdir", "mknod"}
TypeOf(op) == CASE op = "create" -> "file" [] op = "mkdir" -> "dir" [] op = "mknod" -> "dev"
Parent(op) == op \in Creates \cup {"unlink", "link2"}     \* nameiparent rather than namei
Fail(op) == IF op = "link2" THEN "link_bad" ELSE "user"
Starts(p) == {ROOTINO, cwd[p]}      \* where an absolute or a relative path starts

\* A process enters a call: namex gets the directory the path starts from.
Enter(p, op, path, new, from) ==
    /\ At(p, "user") /\ op \in mix.calls
    /\ fs' = iget(fs, from)
    /\ c' = [c EXCEPT ![p] = [Idle EXCEPT !.pc = "namex", !.op = op, !.path = path,
                                          !.new = new, !.ip = from]]
    /\ UNCHANGED <<cwd, ofile, mix>>

\* The end of the path: namei returns the inode, nameiparent fails.
namex_end(p) ==
    /\ At(p, "namex") /\ c[p].path = <<>>
    /\ IF Parent(c[p].op) THEN PutThen(p, "ip", Fail(c[p].op)) ELSE Goto(p, c[p].op)
    /\ UNCHANGED <<fs, cwd, ofile, mix>>

\* One round of namex's loop: lock, look the name up, get the next, unlock, put.
namex_step(p) ==
    LET r == c[p]
        s == ilock(fs, r.ip, p)
        next == dirlookup(s, r.ip, Head(r.path))
    IN /\ At(p, "namex") /\ r.path # <<>> /\ Unlocked(r.ip)
       /\ IF s.mem[r.ip].type # "dir"
          THEN fs' = iunlock(s, r.ip) /\ PutThen(p, "ip", Fail(r.op))
          ELSE IF Parent(r.op) /\ Len(r.path) = 1
          THEN /\ fs' = iunlock(s, r.ip)
               /\ c' = [c EXCEPT ![p].pc = r.op, ![p].dp = r.ip, ![p].ip = 0]
          ELSE IF next = 0
          THEN fs' = iunlock(s, r.ip) /\ PutThen(p, "ip", Fail(r.op))
          ELSE /\ fs' = iunlock(iget(s, next), r.ip)
               /\ c' = [c EXCEPT ![p].put = r.ip, ![p].ip = next, ![p].path = Tail(r.path)]
       /\ UNCHANGED <<cwd, ofile, mix>>

\* sys_open's end, with ip locked in s: the descriptor takes the reference,
\* or, when there is none left, the inode is unlocked and put.
OpenFile(p, s) ==
    /\ fs' = iunlock(s, c[p].ip)
    /\ IF ofile[p] = 0
       THEN ofile' = [ofile EXCEPT ![p] = c[p].ip] /\ c' = [c EXCEPT ![p] = Idle]
       ELSE PutThen(p, "ip", "user") /\ UNCHANGED ofile
    /\ UNCHANGED <<cwd, mix>>

sys_open(p, omode) ==
    LET s == ilock(fs, c[p].ip, p)
    IN /\ At(p, "open") /\ Unlocked(c[p].ip)
       /\ IF s.mem[c[p].ip].type = "dir" /\ omode # "O_RDONLY"
          THEN fs' = iunlock(s, c[p].ip) /\ PutThen(p, "ip", "user") /\ UNCHANGED <<cwd, ofile, mix>>
          ELSE OpenFile(p, s)

sys_chdir(p) ==
    LET s == ilock(fs, c[p].ip, p)
    IN /\ At(p, "chdir") /\ Unlocked(c[p].ip)
       /\ fs' = iunlock(s, c[p].ip)
       /\ IF s.mem[c[p].ip].type # "dir"
          THEN PutThen(p, "ip", "user") /\ UNCHANGED cwd
          ELSE /\ cwd' = [cwd EXCEPT ![p] = c[p].ip]
               /\ c' = [c EXCEPT ![p].put = cwd[p], ![p].ip = 0, ![p].pc = "user"]
       /\ UNCHANGED <<ofile, mix>>

\* sys_close of the last descriptor of a file (fileclose's iput)
sys_close(p) ==
    /\ At(p, "user") /\ ofile[p] # 0 /\ "close" \in mix.calls
    /\ c' = [c EXCEPT ![p].put = ofile[p]]
    /\ ofile' = [ofile EXCEPT ![p] = 0]
    /\ UNCHANGED <<fs, cwd, mix>>

\* create, with the parent locked: the name exists, or a new inode is allocated.
create(p) ==
    LET r == c[p]
        s == ilock(fs, r.dp, p)
        old == dirlookup(s, r.dp, Head(r.path))
        new == ialloc(s, TypeOf(r.op))
    IN /\ r.op \in Creates /\ At(p, r.op) /\ Unlocked(r.dp)
       /\ IF old # 0
          THEN /\ fs' = iunlock(iget(s, old), r.dp)
               /\ c' = [c EXCEPT ![p].put = r.dp, ![p].dp = 0, ![p].ip = old, ![p].pc = "create_old"]
          ELSE /\ fs' = new
               /\ c' = [c EXCEPT ![p].ip = IF new.panic = "no" THEN FirstFree(s) ELSE 0, ![p].pc = "create_new"]
       /\ UNCHANGED <<cwd, ofile, mix>>

\* create of a name that exists: only open(O_CREATE) of a file goes on.
create_old(p) ==
    LET s == ilock(fs, c[p].ip, p)
    IN /\ At(p, "create_old") /\ Unlocked(c[p].ip)
       /\ IF c[p].op = "create" /\ s.mem[c[p].ip].type = "file"
          THEN OpenFile(p, s)
          ELSE fs' = iunlock(s, c[p].ip) /\ PutThen(p, "ip", "user") /\ UNCHANGED <<cwd, ofile, mix>>

\* The new inode: one link, for a directory its two entries and the parent's
\* link; then the parent's entry.  The parent is unlocked and put with the new
\* inode still locked.
create_new(p) ==
    LET r == c[p]
        s == Relink(ilock(fs, r.ip, p), r.ip, 1)
        t == IF r.op # "mkdir" THEN s
             ELSE dirlink(dirlink(Relink(s, r.dp, 1), r.ip, ".", r.ip), r.ip, "..", r.dp)
    IN /\ At(p, "create_new") /\ Unlocked(r.ip)
       /\ fs' = iunlock(dirlink(t, r.dp, Head(r.path), r.ip), r.dp)
       /\ PutThen(p, "dp", "create_end")
       /\ UNCHANGED <<cwd, ofile, mix>>

create_end(p) ==
    /\ At(p, "create_end")
    /\ IF c[p].op = "create" THEN OpenFile(p, fs)
       ELSE fs' = iunlock(fs, c[p].ip) /\ PutThen(p, "ip", "user") /\ UNCHANGED <<cwd, ofile, mix>>

\* sys_unlink, with the parent locked: find the inode, keeping the lock.
sys_unlink(p) ==
    LET r == c[p]
        s == ilock(fs, r.dp, p)
        ent == dirlookup(s, r.dp, Head(r.path))
    IN /\ At(p, "unlink") /\ Unlocked(r.dp)
       /\ IF Head(r.path) \in {".", ".."} \/ ent = 0
          THEN fs' = iunlock(s, r.dp) /\ PutThen(p, "dp", "user")
          ELSE fs' = iget(s, ent) /\ c' = [c EXCEPT ![p].ip = ent, ![p].pc = "unlink_ip"]
       /\ UNCHANGED <<cwd, ofile, mix>>

\* A directory is removed only when empty.
Removable(s, i) == s.mem[i].type = "dir" => isdirempty(s, i)

\* The entry erased, with the parent's link when the inode is a directory
Unentered(s, i, d, n) ==
    LET t == [s EXCEPT !.dir[d][n] = 0]
    IN IF s.mem[i].type = "dir" THEN Relink(t, d, 0 - 1) ELSE t

\* Both locked: erase the entry, then unlock and put the parent with the inode
\* still locked; a directory that is not empty stays.
unlink_ip(p) ==
    LET r == c[p]
        s == ilock(fs, r.ip, p)
    IN /\ At(p, "unlink_ip") /\ Unlocked(r.ip)
       /\ IF s.mem[r.ip].nlink < 1 THEN fs' = panic(s, "unlink") /\ UNCHANGED c
          ELSE IF ~Removable(s, r.ip)
          THEN fs' = iunlock(s, r.ip) /\ PutThen(p, "ip", "unlink_bad")
          ELSE /\ fs' = iunlock(Unentered(s, r.ip, r.dp, Head(r.path)), r.dp)
               /\ PutThen(p, "dp", "unlink_end")
       /\ UNCHANGED <<cwd, ofile, mix>>

unlink_end(p) ==
    /\ At(p, "unlink_end")
    /\ fs' = iunlock(Relink(fs, c[p].ip, 0 - 1), c[p].ip)
    /\ PutThen(p, "ip", "user")
    /\ UNCHANGED <<cwd, ofile, mix>>

unlink_bad(p) ==
    /\ At(p, "unlink_bad")
    /\ fs' = iunlock(fs, c[p].dp)
    /\ PutThen(p, "dp", "user")
    /\ UNCHANGED <<cwd, ofile, mix>>

Linked_Later(s, i) == s
\* sys_link counts the link before it makes the entry.
Linked(s, i) == Relink(s, i, 1)

Parted_Held(s, i) == s
\* The inode as sys_link leaves it while it looks the new path up: unlocked
Parted(s, i) == iunlock(s, i)

\* sys_link: count the link, then look the new path's directory up.
sys_link(p, from) ==
    LET r == c[p]
        s == ilock(fs, r.ip, p)
    IN /\ At(p, "link") /\ Unlocked(r.ip)
       /\ IF s.mem[r.ip].type = "dir"
          THEN fs' = iunlock(s, r.ip) /\ PutThen(p, "ip", "user")
          ELSE /\ fs' = iget(Parted(Linked(s, r.ip), r.ip), from)
               /\ c' = [c EXCEPT ![p].old = r.ip, ![p].ip = from, ![p].op = "link2",
                                 ![p].path = r.new, ![p].new = <<>>, ![p].pc = "namex"]
       /\ UNCHANGED <<cwd, ofile, mix>>

\* dirlink into the new directory.  When the name exists, dirlink gets its
\* inode and puts it, with the directory locked.
link_dp(p) ==
    LET r == c[p]
        s == ilock(fs, r.dp, p)
        ent == dirlookup(s, r.dp, Head(r.path))
    IN /\ At(p, "link2") /\ Unlocked(r.dp)
       /\ IF ent # 0
          THEN fs' = iget(s, ent) /\ c' = [c EXCEPT ![p].put = ent, ![p].pc = "link_exists"]
          ELSE /\ fs' = iunlock(dirlink(s, r.dp, Head(r.path), r.old), r.dp)
               /\ PutThen(p, "dp", "link_end")
       /\ UNCHANGED <<cwd, ofile, mix>>

link_exists(p) ==
    /\ At(p, "link_exists")
    /\ fs' = iunlock(fs, c[p].dp)
    /\ PutThen(p, "dp", "link_bad")
    /\ UNCHANGED <<cwd, ofile, mix>>

link_end_NoPut(p) == At(p, "link_end") /\ c' = [c EXCEPT ![p] = Idle] /\ UNCHANGED <<fs, cwd, ofile, mix>>
link_end(p) == At(p, "link_end") /\ PutThen(p, "old", "user") /\ UNCHANGED <<fs, cwd, ofile, mix>>

link_bad(p) ==
    /\ At(p, "link_bad") /\ Unlocked(c[p].old)
    /\ fs' = iunlock(Relink(ilock(fs, c[p].old, p), c[p].old, 0 - 1), c[p].old)
    /\ PutThen(p, "old", "user")
    /\ UNCHANGED <<cwd, ofile, mix>>

Step(p) == \/ iput_check(p) \/ iput_inval(p) \/ iput_ref(p)
           \/ namex_end(p) \/ namex_step(p)
           \/ sys_chdir(p)
           \/ create(p) \/ create_old(p) \/ create_new(p) \/ create_end(p)
           \/ sys_unlink(p) \/ unlink_ip(p) \/ unlink_end(p) \/ unlink_bad(p)
           \/ link_dp(p) \/ link_exists(p) \/ link_end(p) \/ link_bad(p)
           \/ \E from \in Starts(p) : sys_link(p, from)
           \/ \E omode \in {"O_RDONLY", "O_RDWR"} : sys_open(p, omode)

Next == \E p \in Procs :
            \/ Step(p)
            \/ sys_close(p)
            \/ \E op \in mix.calls \ {"link", "close"}, path \in mix.paths, from \in Starts(p) :
                   Enter(p, op, path, <<>>, from)
            \/ \E old, new \in mix.paths, from \in Starts(p) : Enter(p, "link", old, new, from)

Spec == Init /\ [][Next]_vars

----
\* The pointers to inode i that processes have: a current directory, an open
\* file, or a local variable of a call in progress.
Pointers(i) ==
    Cardinality({p \in Procs : c[p].ip = i}) + Cardinality({p \in Procs : c[p].dp = i})
    + Cardinality({p \in Procs : c[p].old = i}) + Cardinality({p \in Procs : c[p].put = i})
    + Cardinality({p \in Procs : cwd[p] = i}) + Cardinality({p \in Procs : ofile[p] = i})

\* ip->ref "tracks the number of in-memory pointers to the entry" (fs.c:123),
\* on every path through every call, failing ones included.
RefsCounted == fs.panic = "no" => \A i \in Inums : fs.ref[i] = Pointers(i)

\* "i-node cache is write-through" (fs.c:218): a valid cached inode is, whenever
\* it is not locked, what the disk has, also when the inode has just been freed and allocated again while
\* its cache entry was still referenced.
WriteThrough ==
    \A i \in Inums : fs.mem[i].valid /\ fs.lock[i] = NoProc
                       => fs.disk[i] = [type |-> fs.mem[i].type, nlink |-> fs.mem[i].nlink]

\* The names that lead to inode i, and its subdirectories, whose ".." does.
Entries(i) == {x \in Inums \X Names : fs.dir[x[1]][x[2]] = i}
Subdirs(i) == {d \in Inums : fs.disk[d].type = "dir" /\ \E n \in Names : fs.dir[i][n] = d}

\* The link count never falls below the number of directory entries, at any
\* point of any interleaving of link, unlink, create and mkdir: no inode is
\* freed while a name leads to it.
EntriesCounted ==
    \A i \in Inums : Cardinality(Entries(i)) + Cardinality(Subdirs(i)) <= fs.disk[i].nlink

\* Path lookup through names only ever reaches inodes that are allocated, and
\* unlink only finds linked ones: the panics of ilock (fs.c:310) and of
\* unlink (sysfile.c:212) are not reached.
NamesLeadToInodes == fs.panic \notin {"ilock", "unlink"}

\* The inode whose lock a process is about to sleep for, or 0
Wants(p) ==
    LET r == c[p]
        want == IF r.put # 0 THEN (IF r.stage = "lock" THEN r.put ELSE 0)
                ELSE CASE r.pc \in {"open", "chdir", "link", "create_old", "create_new", "unlink_ip"} -> r.ip
                       [] r.pc = "namex" -> IF r.path = <<>> THEN 0 ELSE r.ip
                       [] r.pc \in Creates \cup {"unlink", "link2"} -> r.dp
                       [] r.pc = "link_bad" -> r.old
                       [] OTHER -> 0
    IN IF want # 0 /\ fs.lock[want] # NoProc THEN want ELSE 0

\* In create's and unlink's iunlockput(dp) the iput locks the parent again
\* while the call still holds its child.
PutsParent(p) == c[p].put # 0 /\ c[p].pc \in {"create_end", "unlink_end"}

\* "The separation also helps avoid deadlock" (fs.c:149): calls lock a parent
\* before its child and let go of an inode before they look another up, so no
\* two wait for inode locks that the other holds, and none for its own.  The
\* one exception is the iput above: only through it can a cycle close.
CyclesOnlyInPut ==
    \A p, q \in Procs : /\ Wants(p) # 0 /\ fs.lock[Wants(p)] = q
                        /\ Wants(q) # 0 /\ fs.lock[Wants(q)] = p
                        => PutsParent(p) \/ PutsParent(q)

\* fs.c: references are counted, and the cache says what the disk says.
InodeCacheSound == RefsCounted /\ WriteThrough

\* fs.c, sysfile.c: links are counted, and no name leads to a free inode.
LinksSound == EntriesCounted /\ NamesLeadToInodes
====
