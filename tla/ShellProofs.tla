---- MODULE ShellProofs ----
(***************************************************************************)
(* The counts of the file table and the ends of pipes, and what the shell  *)
(* leaves behind, for tables of any size and any commands.                 *)
(*                                                                         *)
(* FilesInv is inductive by itself: a reference is a descriptor of some    *)
(* process, counted once; the end of a pipe belongs to one entry of the    *)
(* table or to one process that is closing it; a process that has ended    *)
(* has no descriptors.  For what is left at the prompt InitInv and         *)
(* ShellInv say which descriptors init and the shell itself have.          *)
(*                                                                         *)
(* Facts about the record of a slot are proved once, for a table P before  *)
(* a call and Q after it; the actions only cite them.                      *)
(***************************************************************************)
EXTENDS Shell, FiniteSetTheorems, TLAPS

\* A leaf that names no other prover is for Zenon.
USE ZenonT(60)

\* The ends of pipes: the page, and whether it is the write end
PipeEnds == (1..NPIPE) \X BOOLEAN

\* What a process started by runcmd's forks does before it runs a command,
\* what runcmd does, and what the shell's loop and init do.
ChildOps == [call : {"close", "dup"}, fd : {0, 1, P0, P1}] \cup [call : {"run"}, cmd : Commands]
CommandOps == ChildOps \cup [call : {"fork"}, child : Seq(ChildOps)] \cup [call : {"open"}, must : {TRUE}]
              \cup [call : {"pipe", "wait", "program", "exit"}]
Ops == CommandOps \cup [call : {"open"}, must : {FALSE}] \cup {Close(3), Call("prompt"), Call("init")}

\* The states of a process slot, of an entry of the file table and of a pipe
Slots == [state : {"UNUSED", "RUNNING", "ZOMBIE"}, parent : 0..NPROC, script : Seq(Ops),
          closing : SUBSET PipeEnds, ofile : [Fds -> 0..NFILE], p : Fds \X Fds, pid : 0..NPROC]
FileRecs == [ref : Nat, type : {"none", "inode", "pipe"}, pipe : 0..NPIPE, writable : BOOLEAN]
PipeRecs == [readopen : BOOLEAN, writeopen : BOOLEAN]

FilesType == proc \in [Pids -> Slots] /\ file \in [Table -> FileRecs] /\ pipe \in [1..NPIPE -> PipeRecs]

\* A process that has ended has closed everything.
Ended == \A q \in Pids : proc[q].state # "RUNNING" =>
             proc[q].ofile = [fd \in Fds |-> 0] /\ proc[q].closing = {} /\ proc[q].script = <<>>

\* An entry of the table for an end of a pipe, and the end
OpenEnd(f) == file[f].ref > 0 /\ file[f].type = "pipe"
EndOf(f) == <<file[f].pipe, file[f].writable>>

\* The end of a pipe belongs to one entry of the table, or to one process that
\* is closing it.
OneOwner ==
    /\ \A f \in Table : OpenEnd(f) => file[f].pipe \in 1..NPIPE
    /\ \A f, g \in Table : OpenEnd(f) /\ OpenEnd(g) /\ EndOf(f) = EndOf(g) => f = g
    /\ \A f \in Table, q \in Pids : OpenEnd(f) => EndOf(f) \notin proc[q].closing
    /\ \A q, r \in Pids : proc[q].closing \cap proc[r].closing # {} => q = r

\* What holds of the file table, the pipes and the descriptors
FilesInv == FilesType /\ Ended /\ OneOwner /\ FilesCounted /\ EndsOpen

\* The descriptors of init, and of the shell at its prompt
Standard == [fd \in Fds |-> IF fd < 3 THEN 1 ELSE 0]

\* The scripts of a shell, but for main's close
Prompting == {main, <<Call("prompt")>>, <<Call("wait"), Call("prompt")>>}
             \cup {<<Fork(<<Run(cmd)>>), Call("wait"), Call("prompt")>> : cmd \in Commands}

\* A process with this script and these descriptors is a shell, with the
\* standard descriptors and perhaps the one that main has to close, or it runs
\* a command.
ShellOk(s, o) ==
    \/ s \in Prompting /\ o = Standard
    \/ s = <<Close(3), Call("prompt")>> /\ \A fd \in Fds \ {3} : o[fd] = Standard[fd]
    \/ s \in Seq(CommandOps)

\* init has no descriptors but the three it gives to the shell.
InitOk(r) ==
    /\ r.parent = 0
    /\ \/ r.state = "RUNNING" /\ r.script \in {<<Call("init")>>, <<>>} /\ r.ofile = Standard
       \/ r.state = "RUNNING" /\ r.script = Exit /\ \A fd \in Fds : r.ofile[fd] \in {0, 1}
       \/ r.state = "ZOMBIE" /\ r.script = <<>> /\ r.pid = 0

\* The first process is init, and the others are shells or run commands.
InitInv == InitOk(proc[1])
ShellInv == \A q \in Pids \ {1} : ShellOk(proc[q].script, proc[q].ofile)

\* The inductive invariant
SInv == FilesInv /\ InitInv /\ ShellInv

----
\* The length and the elements of two sequences put one after the other.
LEMMA Joined ==
  ASSUME NEW S, NEW s \in Seq(S), NEW t \in Seq(S)
  PROVE  /\ s \o t \in Seq(S) /\ Len(s \o t) = Len(s) + Len(t)
         /\ \A i \in 1..(Len(s) + Len(t)) : (s \o t)[i] = IF i <= Len(s) THEN s[i] ELSE t[i - Len(s)]
BY SMTT(30)

\* The first element of a sequence and the rest.
LEMMA HeadAndTail ==
  ASSUME NEW S, NEW s \in Seq(S), s # <<>>
  PROVE  Head(s) \in S /\ Tail(s) \in Seq(S)
BY SMTT(30)

\* The lowest number of a set.
LEMMA LowestIs ==
  ASSUME NEW S \in SUBSET Nat, S # {}
  PROVE  Lowest(S) \in S /\ \A y \in S : Lowest(S) <= y
<1> DEFINE Less == {ss \in Nat \X Nat : ss[1] < ss[2]}
<1>1. IsWellFoundedOn(Less, Nat)
  BY NatLessThanWellFounded, SMTT(30) DEF OpToRel
<1> HIDE DEF Less
<1>2. \E x \in S : \A y \in S : ~(<<y, x>> \in Less)
  BY <1>1, WFMin
<1>3. PICK x \in S : \A y \in S : ~(<<y, x>> \in Less)
  BY <1>2, SMTT(30)
<1>4. \A a, b \in Nat : a < b => <<a, b>> \in Less
  BY SMTT(30) DEF Less
<1>5. \A y \in S : x <= y
  <2> TAKE y \in S
  <2>1. x \in Nat /\ y \in Nat
    BY SMTT(30)
  <2>2. ~(y < x)
    BY <2>1, <1>3, <1>4
  <2> QED
    BY <2>1, <2>2, SMTT(30)
<1> QED
  BY <1>5 DEF Lowest

\* The descriptors that refer to entry f, when o gives those of each process
RefSet(o, f) == {x \in Pids \X Fds : o[x[1]][x[2]] = f}
Owned == [Pids -> [Fds -> 0..NFILE]]

\* The constants, as numbers.
LEMMA Sizes == NPROC \in Nat /\ NOFILE \in Nat /\ NFILE \in Nat /\ NPIPE \in Nat
               /\ NPROC > 0 /\ NOFILE > 3 /\ NFILE > 0 /\ NPIPE > 0
  BY FilesAssumption, ShellAssumption, SMTT(30)

\* A file has finitely many descriptors.
LEMMA RefSetFinite ==
  ASSUME NEW o, NEW f
  PROVE  IsFiniteSet(RefSet(o, f)) /\ Cardinality(RefSet(o, f)) \in Nat
<1>1. IsFiniteSet(Pids) /\ IsFiniteSet(Fds)
  BY Sizes, FS_Interval, SMTT(30) DEF Pids, Fds
<1>2. IsFiniteSet(Pids \X Fds)
  BY <1>1, FS_Product
<1>3. RefSet(o, f) \in SUBSET (Pids \X Fds)
  BY SMTT(30) DEF RefSet
<1>4. IsFiniteSet(RefSet(o, f))
  BY <1>2, <1>3, FS_Subset
<1> QED
  BY <1>4, FS_CardinalityType

\* A descriptor that was free refers to g.
FdTaken(o, p, fd, g, o2) == o \in Owned /\ p \in Pids /\ fd \in Fds /\ g \in Table /\ o[p][fd] = 0 /\ o2 = [o EXCEPT ![p][fd] = g]

\* Then g has one reference more, and any other file as many as before.
LEMMA CountMore ==
  ASSUME NEW o, NEW p, NEW fd, NEW g, NEW o2, NEW f \in Table, FdTaken(o, p, fd, g, o2)
  PROVE  o2 \in Owned /\ Cardinality(RefSet(o2, f)) = Cardinality(RefSet(o, f)) + (IF f = g THEN 1 ELSE 0)
<1> SUFFICES ASSUME o \in Owned, p \in Pids, fd \in Fds, g \in Table, o[p][fd] = 0, o2 = [o EXCEPT ![p][fd] = g]
             PROVE  o2 \in Owned /\ Cardinality(RefSet(o2, f)) = Cardinality(RefSet(o, f)) + (IF f = g THEN 1 ELSE 0)
  BY DEF FdTaken
<1>1. o2 \in Owned
  BY Sizes, SMTT(30) DEF Owned, Table
<1>2. \A q \in Pids, d \in Fds : o2[q][d] = IF q = p /\ d = fd THEN g ELSE o[q][d]
  BY SMTT(30) DEF Owned
<1>3. f # 0
  BY SMTT(30) DEF Table
<1>4. ASSUME f = g
      PROVE  Cardinality(RefSet(o2, f)) = Cardinality(RefSet(o, f)) + 1
  <2>1. RefSet(o2, f) = RefSet(o, f) \cup {<<p, fd>>}
    BY <1>2, <1>4, SMTT(30) DEF RefSet
  <2>2. <<p, fd>> \notin RefSet(o, f)
    BY <1>3, SMTT(30) DEF RefSet
  <2> QED
    <3>1. Cardinality(RefSet(o, f) \cup {<<p, fd>>}) = Cardinality(RefSet(o, f)) + 1
      BY <2>2, RefSetFinite, FS_AddElement
    <3> QED
      BY <2>1, <3>1
<1>5. ASSUME f # g
      PROVE  Cardinality(RefSet(o2, f)) = Cardinality(RefSet(o, f))
  <2>1. RefSet(o2, f) = RefSet(o, f)
    BY <1>2, <1>3, <1>5, SMTT(30) DEF RefSet
  <2> QED
    BY <2>1, SMTT(30)
<1>6. Cardinality(RefSet(o, f)) \in Nat
  BY RefSetFinite, SMTT(30)
<1>7. Cardinality(RefSet(o2, f)) = Cardinality(RefSet(o, f)) + (IF f = g THEN 1 ELSE 0)
  BY <1>4, <1>5, <1>6, SMTT(30)
<1> QED
  BY <1>1, <1>7

\* A descriptor is free again.
FdFreed(o, p, fd, o2) == o \in Owned /\ p \in Pids /\ fd \in Fds /\ o[p][fd] # 0 /\ o2 = [o EXCEPT ![p][fd] = 0]

\* Then the file it referred to has one reference less.
LEMMA CountLess ==
  ASSUME NEW o, NEW p, NEW fd, NEW o2, NEW f \in Table, FdFreed(o, p, fd, o2)
  PROVE  o2 \in Owned /\ Cardinality(RefSet(o2, f)) = Cardinality(RefSet(o, f)) - (IF f = o[p][fd] THEN 1 ELSE 0)
<1> SUFFICES ASSUME o \in Owned, p \in Pids, fd \in Fds, o[p][fd] # 0, o2 = [o EXCEPT ![p][fd] = 0]
             PROVE  o2 \in Owned /\ Cardinality(RefSet(o2, f)) = Cardinality(RefSet(o, f)) - (IF f = o[p][fd] THEN 1 ELSE 0)
  BY DEF FdFreed
<1>1. o2 \in Owned
  BY Sizes, SMTT(30) DEF Owned
<1>2. \A q \in Pids, d \in Fds : o2[q][d] = IF q = p /\ d = fd THEN 0 ELSE o[q][d]
  BY SMTT(30) DEF Owned
<1>3. f # 0
  BY SMTT(30) DEF Table
<1>4. ASSUME f = o[p][fd]
      PROVE  Cardinality(RefSet(o2, f)) = Cardinality(RefSet(o, f)) - 1
  <2>1. RefSet(o2, f) = RefSet(o, f) \ {<<p, fd>>}
    BY <1>2, <1>3, <1>4, SMTT(30) DEF RefSet
  <2>2. <<p, fd>> \in RefSet(o, f)
    BY <1>4, SMTT(30) DEF RefSet
  <2> QED
    <3>1. Cardinality(RefSet(o, f) \ {<<p, fd>>}) = Cardinality(RefSet(o, f)) - 1
      BY <2>2, RefSetFinite, FS_RemoveElement
    <3> QED
      BY <2>1, <3>1
<1>5. ASSUME f # o[p][fd]
      PROVE  Cardinality(RefSet(o2, f)) = Cardinality(RefSet(o, f))
  <2>1. RefSet(o2, f) = RefSet(o, f)
    BY <1>2, <1>3, <1>5, SMTT(30) DEF RefSet
  <2> QED
    BY <2>1, SMTT(30)
<1>6. Cardinality(RefSet(o, f)) \in Nat
  BY RefSetFinite, SMTT(30)
<1>7. Cardinality(RefSet(o2, f)) = Cardinality(RefSet(o, f)) - (IF f = o[p][fd] THEN 1 ELSE 0)
  BY <1>4, <1>5, <1>6, SMTT(30)
<1> QED
  BY <1>1, <1>7

\* A slot without descriptors gets those of p.
FdsCopied(o, p, q, o2) == o \in Owned /\ p \in Pids /\ q \in Pids /\ p # q /\ (\A fd \in Fds : o[q][fd] = 0) /\ o2 = [o EXCEPT ![q] = o[p]]

\* Then every file has as many references more as p has descriptors of it.
LEMMA CountFork ==
  ASSUME NEW o, NEW p, NEW q, NEW o2, NEW f \in Table, FdsCopied(o, p, q, o2)
  PROVE  /\ o2 \in Owned
         /\ Cardinality(RefSet(o2, f)) = Cardinality(RefSet(o, f)) + Cardinality({fd \in Fds : o[p][fd] = f})
<1> DEFINE D == {fd \in Fds : o[p][fd] = f}
           N == {x \in Pids \X Fds : x[1] = q /\ x[2] \in D}
           b == [d \in D |-> <<q, d>>]
<1> SUFFICES ASSUME o \in Owned, p \in Pids, q \in Pids, p # q, (\A fd \in Fds : o[q][fd] = 0), o2 = [o EXCEPT ![q] = o[p]]
             PROVE  /\ o2 \in Owned
                    /\ Cardinality(RefSet(o2, f)) = Cardinality(RefSet(o, f)) + Cardinality({fd \in Fds : o[p][fd] = f})
  BY DEF FdsCopied
<1>1. o2 \in Owned
  BY SMTT(30) DEF Owned
<1>2. \A r \in Pids, d \in Fds : o2[r][d] = IF r = q THEN o[p][d] ELSE o[r][d]
  BY SMTT(30) DEF Owned
<1>3. f # 0
  BY SMTT(30) DEF Table
<1>4. RefSet(o2, f) = RefSet(o, f) \cup N
  BY <1>2, <1>3, SMTT(30) DEF RefSet
<1>5. RefSet(o, f) \cap N = {}
  BY <1>3, SMTT(30) DEF RefSet
<1>6. IsFiniteSet(D)
  <2>1. IsFiniteSet(Fds)
    <3>1. 0 \in Int /\ NOFILE - 1 \in Int
      BY Sizes, SMTT(30)
    <3> QED
      BY <3>1, FS_Interval DEF Fds
  <2>2. D \in SUBSET Fds
    BY SMTT(30)
  <2> QED
    BY <2>1, <2>2, FS_Subset
<1>7. b \in Bijection(D, N)
  BY SMTT(30) DEF Bijection, Injection, Surjection, IsInjective
<1>8. IsFiniteSet(N) /\ Cardinality(N) = Cardinality(D)
  BY <1>6, <1>7, FS_Bijection, SMTT(30) DEF ExistsBijection
<1> HIDE DEF N, D
<1>9. Cardinality(RefSet(o, f) \cup N) = Cardinality(RefSet(o, f)) + Cardinality(N) - Cardinality(RefSet(o, f) \cap N)
  BY <1>8, RefSetFinite, FS_Union
<1>10. Cardinality(N) \in Nat
  BY <1>8, FS_CardinalityType
<1>11. Cardinality(RefSet(o, f) \cap N) = 0
  BY <1>5, FS_EmptySet
<1>12. Cardinality(RefSet(o, f)) \in Nat
  BY RefSetFinite
<1>13. Cardinality(RefSet(o, f) \cup N) = Cardinality(RefSet(o, f)) + Cardinality(N)
  BY <1>9, <1>10, <1>11, <1>12, SMTT(30)
<1>14. Cardinality(RefSet(o2, f)) = Cardinality(RefSet(o, f)) + Cardinality(D)
  BY <1>4, <1>8, <1>13
<1> QED
  BY <1>1, <1>14 DEF D

----
\* The arguments of the calls in a script.
LEMMA OpArgs ==
  ASSUME NEW a \in Ops
  PROVE  /\ a.call \in {"close", "dup"} => a.fd \in {0, 1, 3, P0, P1}
         /\ a.call = "run" => a.cmd \in Commands
         /\ a.call = "fork" => a.child \in Seq(ChildOps)
<1>1. \A x \in ChildOps : \/ x.call \in {"close", "dup"} /\ x.fd \in {0, 1, P0, P1}
                          \/ x.call = "run" /\ x.cmd \in Commands
  BY DEF ChildOps
<1>2. \A x \in CommandOps : \/ x \in ChildOps
                            \/ x.call = "fork" /\ x.child \in Seq(ChildOps)
                            \/ x.call = "open"
                            \/ x.call \in {"pipe", "wait", "program", "exit"}
  BY DEF CommandOps
<1>3. \/ a \in CommandOps \/ a.call = "open"
      \/ a.call = "close" /\ a.fd = 3
      \/ a.call \in {"prompt", "init"}
  <2>1. a \in CommandOps \/ a.call = "open" \/ a = Close(3) \/ a = Call("prompt") \/ a = Call("init")
    BY DEF Ops
  <2>2. /\ Close(3).call = "close" /\ Close(3).fd = 3
        /\ Call("prompt").call = "prompt" /\ Call("init").call = "init"
    BY SMTT(30) DEF Close, Call
  <2> QED
    BY <2>1, <2>2
<1>4. CASE a \in ChildOps
  BY <1>1, <1>4
<1>5. CASE a \in CommandOps /\ a \notin ChildOps
  BY <1>2, <1>5
<1>6. CASE a \notin CommandOps
  BY <1>3, <1>6
<1> QED
  BY <1>4, <1>5, <1>6 DEF CommandOps

\* Every call of a child is one of a command, and those are calls.
LEMMA OpsIn == ChildOps \subseteq CommandOps /\ CommandOps \subseteq Ops
  BY DEF CommandOps, Ops

\* The calls that runcmd, main and init are written with.
LEMMA CallsIn ==
  /\ \A x \in {0, 1, P0, P1} : Close(x) \in ChildOps /\ Dup(x) \in ChildOps
  /\ \A cmd \in Commands : Run(cmd) \in ChildOps
  /\ \A child \in Seq(ChildOps) : Fork(child) \in CommandOps
  /\ Open(TRUE) \in CommandOps
  /\ \A name \in {"pipe", "wait", "program", "exit"} : Call(name) \in CommandOps
  /\ {Open(FALSE), Close(3), Call("prompt"), Call("init")} \subseteq Ops
  BY SMTT(30) DEF ChildOps, CommandOps, Ops, Close, Dup, Run, Fork, Open, Call

\* A sequence over a set is one over a larger set.
LEMMA SeqMono ==
  ASSUME NEW S, NEW T, S \subseteq T, NEW s \in Seq(S)
  PROVE  s \in Seq(T)
  BY SMTT(30)

\* A script of three calls.
LEMMA ThreeIn ==
  ASSUME NEW S, NEW a \in S, NEW b \in S, NEW d \in S
  PROVE  <<a, b, d>> \in Seq(S)
  BY SMTT(30)

\* The script that ends a process.
LEMMA ExitIn == Exit \in Seq(CommandOps) /\ Exit # <<>>
<1>1. Exit = <<Call("exit")>>
  BY SMTT(30) DEF Exit, Call
<1> QED
  BY <1>1, CallsIn, SMTT(30)

\* runcmd makes calls of these kinds only, and none of the shell's own.
LEMMA RunTypes ==
  ASSUME NEW cmd \in Commands
  PROVE  runcmd(cmd) \in Seq(CommandOps)
<1> USE CallsIn, OpsIn, ExitIn
<1>1. CASE cmd.type = "EXEC"
  <2>1. <<Call("program")>> \in Seq(CommandOps)
    BY SMTT(30)
  <2>2. runcmd(cmd) = <<Call("program")>> \o Exit
    BY <1>1, SMTT(30) DEF runcmd
  <2> QED
    BY <2>1, <2>2, Joined
<1>2. CASE cmd.type = "REDIR"
  <2>1. cmd.fd \in {0, 1} /\ cmd.cmd \in Commands
    BY <1>2, ShellAssumption, SMTT(30)
  <2>2. Close(cmd.fd) \in CommandOps /\ Open(TRUE) \in CommandOps /\ Run(cmd.cmd) \in CommandOps
    BY <2>1
  <2>3. runcmd(cmd) = <<Close(cmd.fd), Open(TRUE), Run(cmd.cmd)>>
    BY <1>2 DEF runcmd
  <2> QED
    BY <2>2, <2>3, ThreeIn
<1>3. CASE cmd.type = "LIST"
  <2>1. cmd.left \in Commands /\ cmd.right \in Commands
    BY <1>3, ShellAssumption, SMTT(30)
  <2>2. <<Run(cmd.left)>> \in Seq(ChildOps)
    BY <2>1, SMTT(30)
  <2>3. Fork(<<Run(cmd.left)>>) \in CommandOps /\ Call("wait") \in CommandOps /\ Run(cmd.right) \in CommandOps
    <3>1. Fork(<<Run(cmd.left)>>) \in CommandOps
      BY <2>2
    <3>2. Call("wait") \in CommandOps
      BY SMTT(30)
    <3>3. Run(cmd.right) \in CommandOps
      BY <2>1
    <3> QED
      BY <3>1, <3>2, <3>3
  <2>4. runcmd(cmd) = <<Fork(<<Run(cmd.left)>>), Call("wait"), Run(cmd.right)>>
    BY <1>3, SMTT(30) DEF runcmd
  <2> QED
    BY <2>3, <2>4, ThreeIn
<1>4. CASE cmd.type = "BACK"
  <2>1. cmd.cmd \in Commands
    BY <1>4, ShellAssumption, SMTT(30)
  <2>2. <<Run(cmd.cmd)>> \in Seq(ChildOps)
    BY <2>1, SMTT(30)
  <2>3. Fork(<<Run(cmd.cmd)>>) \in CommandOps
    BY <2>2
  <2>5. <<Fork(<<Run(cmd.cmd)>>)>> \in Seq(CommandOps)
    <3> HIDE CallsIn, OpsIn, ExitIn
    <3> QED
      BY <2>3, SMTT(30)
  <2>4. runcmd(cmd) = <<Fork(<<Run(cmd.cmd)>>)>> \o Exit
    BY <1>4, SMTT(30) DEF runcmd
  <2> QED
    BY <2>4, <2>5, Joined
<1>5. CASE cmd.type = "PIPE"
  <2> DEFINE L == <<Close(1), Dup(P1), Close(P0), Close(P1), Run(cmd.left)>>
             R == <<Close(0), Dup(P0), Close(P0), Close(P1), Run(cmd.right)>>
             A == <<Call("pipe"), Fork(L), Fork(R)>>
  <2>1. cmd.left \in Commands /\ cmd.right \in Commands
    BY <1>5, ShellAssumption, SMTT(30)
  <2>2. L \in Seq(ChildOps) /\ R \in Seq(ChildOps)
    <3>1. /\ Close(0) \in ChildOps /\ Close(1) \in ChildOps /\ Close(P0) \in ChildOps /\ Close(P1) \in ChildOps
          /\ Dup(P0) \in ChildOps /\ Dup(P1) \in ChildOps /\ Run(cmd.left) \in ChildOps /\ Run(cmd.right) \in ChildOps
      BY <2>1, SMTT(30)
    <3> HIDE CallsIn, OpsIn, ExitIn
    <3> QED
      BY <3>1, SMTT(30)
  <2>3. runcmd(cmd) = A \o Parent \o Exit
    BY <1>5, SMTT(30) DEF runcmd
  <2> HIDE DEF L, R
  <2>4. A \in Seq(CommandOps)
    <3>1. Call("pipe") \in CommandOps /\ Fork(L) \in CommandOps /\ Fork(R) \in CommandOps
      BY <2>2, SMTT(30)
    <3> HIDE CallsIn, OpsIn, ExitIn
    <3> QED
      BY <3>1, SMTT(30)
  <2>5. Parent \in Seq(CommandOps)
    <3>1. Close(P0) \in CommandOps /\ Close(P1) \in CommandOps /\ Call("wait") \in CommandOps
      BY SMTT(30)
    <3> HIDE CallsIn, OpsIn, ExitIn
    <3> QED
      BY <3>1, SMTT(30) DEF Parent
  <2> HIDE DEF A
  <2>6. A \o Parent \in Seq(CommandOps)
    BY <2>4, <2>5, Joined
  <2> QED
    BY <2>3, <2>6, Joined
<1>6. cmd.type \in {"EXEC", "REDIR", "LIST", "BACK", "PIPE"}
  BY ShellAssumption, SMTT(30)
<1> QED
  BY <1>1, <1>2, <1>3, <1>4, <1>5, <1>6, SMTT(30)

----
\* What the calls do to the slots P of the processes.

\* Everything but the script
ScriptOnly(r, t) == /\ r.state = t.state /\ r.parent = t.parent /\ r.closing = t.closing /\ r.ofile = t.ofile
                   /\ r.p = t.p /\ r.pid = t.pid

\* The parts of a slot.
LEMMA SlotTypes ==
  ASSUME NEW r \in Slots
  PROVE  /\ r.state \in {"UNUSED", "RUNNING", "ZOMBIE"} /\ r.parent \in 0..NPROC /\ r.script \in Seq(Ops)
         /\ r.closing \in SUBSET PipeEnds /\ r.ofile \in [Fds -> 0..NFILE] /\ r.p \in Fds \X Fds /\ r.pid \in 0..NPROC
  BY DEF Slots

\* Process p goes on at script s: in table P before and Q after.
ScriptSet(P, p, s, Q) ==
    /\ P \in [Pids -> Slots] /\ p \in Pids /\ s \in Seq(Ops)
    /\ Q = [P EXCEPT ![p].script = s]

\* What that changes
ScriptSetFacts(P, p, s, Q) ==
      /\ Q \in [Pids -> Slots] /\ Q[p].script = s
      /\ \A q \in Pids : ScriptOnly(Q[q], P[q]) /\ (q # p => Q[q] = P[q])

\* A new script changes nothing else.
LEMMA SetScript ==
  ASSUME NEW P, NEW p, NEW s, NEW Q, ScriptSet(P, p, s, Q)
  PROVE  ScriptSetFacts(P, p, s, Q)
<1> SUFFICES ASSUME P \in [Pids -> Slots], p \in Pids, s \in Seq(Ops), Q = [P EXCEPT ![p].script = s]
             PROVE  /\ Q \in [Pids -> Slots] /\ Q[p].script = s
                    /\ \A q \in Pids : ScriptOnly(Q[q], P[q]) /\ (q # p => Q[q] = P[q])
  BY DEF ScriptSet, ScriptSetFacts
<1>1. [P[p] EXCEPT !.script = s] \in Slots
  BY DEF Slots
<1>2. Q = [P EXCEPT ![p] = [P[p] EXCEPT !.script = s]]
  OBVIOUS
<1>3. [P[p] EXCEPT !.script = s].script = s /\ ScriptOnly([P[p] EXCEPT !.script = s], P[p])
  BY SMTT(30) DEF Slots, ScriptOnly
<1>4. Q \in [Pids -> Slots] /\ Q[p] = [P[p] EXCEPT !.script = s] /\ \A q \in Pids : q # p => Q[q] = P[q]
  BY <1>1, <1>2
<1> QED
  BY <1>3, <1>4, SMTT(30) DEF ScriptOnly

\* Process p goes on at s with its descriptor fd on file f.
FdSet(P, p, s, fd, f, Q) ==
    /\ P \in [Pids -> Slots] /\ p \in Pids /\ s \in Seq(Ops) /\ fd \in Fds /\ f \in 0..NFILE
    /\ Q = [P EXCEPT ![p].script = s, ![p].ofile[fd] = f]

\* What that changes
FdSetFacts(P, p, s, fd, f, Q) ==
      /\ Q \in [Pids -> Slots]
      /\ Q[p].script = s /\ Q[p].ofile = [P[p].ofile EXCEPT ![fd] = f]
      /\ Q[p].state = P[p].state /\ Q[p].parent = P[p].parent /\ Q[p].closing = P[p].closing /\ Q[p].pid = P[p].pid
      /\ \A q \in Pids : q # p => Q[q] = P[q]

\* A new descriptor changes nothing else.
LEMMA SetFd ==
  ASSUME NEW P, NEW p, NEW s, NEW fd, NEW f, NEW Q, FdSet(P, p, s, fd, f, Q)
  PROVE  FdSetFacts(P, p, s, fd, f, Q)
<1> SUFFICES ASSUME P \in [Pids -> Slots], p \in Pids, s \in Seq(Ops), fd \in Fds, f \in 0..NFILE, Q = [P EXCEPT ![p].script = s, ![p].ofile[fd] = f]
             PROVE  /\ Q \in [Pids -> Slots]
                    /\ Q[p].script = s /\ Q[p].ofile = [P[p].ofile EXCEPT ![fd] = f]
                    /\ Q[p].state = P[p].state /\ Q[p].parent = P[p].parent /\ Q[p].closing = P[p].closing /\ Q[p].pid = P[p].pid
                    /\ \A q \in Pids : q # p => Q[q] = P[q]
  BY DEF FdSet, FdSetFacts
<1> DEFINE o == [P[p].ofile EXCEPT ![fd] = f]
           r == [P[p] EXCEPT !.script = s, !.ofile = o]
<1>0. o \in [Fds -> 0..NFILE]
  BY SlotTypes, SMTT(30)
<1>1. r \in Slots
  <2> HIDE DEF o
  <2> QED
    BY <1>0 DEF Slots
<1>2. Q = [P EXCEPT ![p] = r]
  OBVIOUS
<1>3. /\ r.script = s /\ r.ofile = [P[p].ofile EXCEPT ![fd] = f]
      /\ r.state = P[p].state /\ r.parent = P[p].parent /\ r.closing = P[p].closing /\ r.pid = P[p].pid
  BY DEF Slots
<1> HIDE DEF r
<1>4. Q \in [Pids -> Slots] /\ Q[p] = r /\ \A q \in Pids : q # p => Q[q] = P[q]
  BY <1>1, <1>2
<1> QED
  BY <1>3, <1>4, SMTT(30)

\* Process p goes on at s with the descriptors a and b on the files f and g.
PipeSet(P, p, s, a, b, f, g, Q) ==
    /\ P \in [Pids -> Slots] /\ p \in Pids /\ s \in Seq(Ops) /\ a \in Fds /\ b \in Fds /\ f \in 0..NFILE /\ g \in 0..NFILE
    /\ Q = [P EXCEPT ![p].script = s, ![p].p = <<a, b>>, ![p].ofile[a] = f, ![p].ofile[b] = g]

\* What that changes
PipeSetFacts(P, p, s, a, b, f, g, Q) ==
      /\ Q \in [Pids -> Slots]
      /\ Q[p].script = s /\ Q[p].ofile = [P[p].ofile EXCEPT ![a] = f, ![b] = g]
      /\ Q[p].state = P[p].state /\ Q[p].parent = P[p].parent /\ Q[p].closing = P[p].closing /\ Q[p].pid = P[p].pid
      /\ \A q \in Pids : q # p => Q[q] = P[q]

\* The two descriptors of a pipe change nothing else.
LEMMA SetPipe ==
  ASSUME NEW P, NEW p, NEW s, NEW a, NEW b, NEW f, NEW g, NEW Q, PipeSet(P, p, s, a, b, f, g, Q)
  PROVE  PipeSetFacts(P, p, s, a, b, f, g, Q)
<1> SUFFICES ASSUME P \in [Pids -> Slots], p \in Pids, s \in Seq(Ops), a \in Fds, b \in Fds, f \in 0..NFILE, g \in 0..NFILE, Q = [P EXCEPT ![p].script = s, ![p].p = <<a, b>>, ![p].ofile[a] = f, ![p].ofile[b] = g]
             PROVE  /\ Q \in [Pids -> Slots]
                    /\ Q[p].script = s /\ Q[p].ofile = [P[p].ofile EXCEPT ![a] = f, ![b] = g]
                    /\ Q[p].state = P[p].state /\ Q[p].parent = P[p].parent /\ Q[p].closing = P[p].closing /\ Q[p].pid = P[p].pid
                    /\ \A q \in Pids : q # p => Q[q] = P[q]
  BY DEF PipeSet, PipeSetFacts
<1> DEFINE o == [P[p].ofile EXCEPT ![a] = f, ![b] = g]
           d == <<a, b>>
           r == [P[p] EXCEPT !.script = s, !.p = d, !.ofile = o]
<1>0. o \in [Fds -> 0..NFILE] /\ d \in Fds \X Fds
  <2>1. P[p].ofile \in [Fds -> 0..NFILE]
    BY SlotTypes
  <2> QED
    BY <2>1
<1>1. r \in Slots
  <2> HIDE DEF o, d
  <2> QED
    BY <1>0 DEF Slots
<1>2. Q = [P EXCEPT ![p] = r]
  OBVIOUS
<1>3. /\ r.script = s /\ r.ofile = [P[p].ofile EXCEPT ![a] = f, ![b] = g]
      /\ r.state = P[p].state /\ r.parent = P[p].parent /\ r.closing = P[p].closing /\ r.pid = P[p].pid
  BY DEF Slots
<1> HIDE DEF r
<1>4. Q \in [Pids -> Slots] /\ Q[p] = r /\ \A q \in Pids : q # p => Q[q] = P[q]
  <2> DEFINE R == [P EXCEPT ![p] = r]
  <2>1. R \in [Pids -> Slots] /\ R[p] = r /\ \A q \in Pids : q # p => R[q] = P[q]
    BY <1>1, SMTT(30)
  <2>2. Q = R
    BY <1>2
  <2> HIDE DEF R
  <2> QED
    BY <2>1, <2>2
<1> QED
  BY <1>3, <1>4, SMTT(30)

\* Process p goes on at s without descriptor fd, and has the ends C to close.
FdClosed(P, p, s, fd, C, Q) ==
    /\ P \in [Pids -> Slots] /\ p \in Pids /\ s \in Seq(Ops) /\ fd \in Fds /\ C \in SUBSET PipeEnds
    /\ Q = [P EXCEPT ![p].script = s, ![p].ofile[fd] = 0, ![p].closing = C]

\* What that changes
FdClosedFacts(P, p, s, fd, C, Q) ==
      /\ Q \in [Pids -> Slots]
      /\ Q[p].script = s /\ Q[p].ofile = [P[p].ofile EXCEPT ![fd] = 0] /\ Q[p].closing = C
      /\ Q[p].state = P[p].state /\ Q[p].parent = P[p].parent /\ Q[p].pid = P[p].pid
      /\ \A q \in Pids : q # p => Q[q] = P[q]

\* fileclose changes nothing else.
LEMMA SetClosed ==
  ASSUME NEW P, NEW p, NEW s, NEW fd, NEW C, NEW Q, FdClosed(P, p, s, fd, C, Q)
  PROVE  FdClosedFacts(P, p, s, fd, C, Q)
<1> SUFFICES ASSUME P \in [Pids -> Slots], p \in Pids, s \in Seq(Ops), fd \in Fds, C \in SUBSET PipeEnds, Q = [P EXCEPT ![p].script = s, ![p].ofile[fd] = 0, ![p].closing = C]
             PROVE  /\ Q \in [Pids -> Slots]
                    /\ Q[p].script = s /\ Q[p].ofile = [P[p].ofile EXCEPT ![fd] = 0] /\ Q[p].closing = C
                    /\ Q[p].state = P[p].state /\ Q[p].parent = P[p].parent /\ Q[p].pid = P[p].pid
                    /\ \A q \in Pids : q # p => Q[q] = P[q]
  BY DEF FdClosed, FdClosedFacts
<1> DEFINE o == [P[p].ofile EXCEPT ![fd] = 0]
           r == [P[p] EXCEPT !.script = s, !.ofile = o, !.closing = C]
<1>0. o \in [Fds -> 0..NFILE]
  BY SlotTypes, Sizes, SMTT(30)
<1>1. r \in Slots
  <2> HIDE DEF o
  <2> QED
    BY <1>0 DEF Slots
<1>2. Q = [P EXCEPT ![p] = r]
  OBVIOUS
<1>3. /\ r.script = s /\ r.ofile = [P[p].ofile EXCEPT ![fd] = 0] /\ r.closing = C
      /\ r.state = P[p].state /\ r.parent = P[p].parent /\ r.pid = P[p].pid
  BY DEF Slots
<1> HIDE DEF r
<1>4. Q \in [Pids -> Slots] /\ Q[p] = r /\ \A q \in Pids : q # p => Q[q] = P[q]
  BY <1>1, <1>2
<1> QED
  BY <1>3, <1>4, SMTT(30)

\* Process p has the ends C left to close.
ClosingSet(P, p, C, Q) ==
    /\ P \in [Pids -> Slots] /\ p \in Pids /\ C \in SUBSET PipeEnds
    /\ Q = [P EXCEPT ![p].closing = C]

\* What that changes
ClosingFacts(P, p, C, Q) ==
      /\ Q \in [Pids -> Slots] /\ Q[p].closing = C
      /\ \A q \in Pids : /\ Q[q].state = P[q].state /\ Q[q].parent = P[q].parent /\ Q[q].script = P[q].script
                         /\ Q[q].ofile = P[q].ofile /\ Q[q].pid = P[q].pid
      /\ \A q \in Pids : q # p => Q[q] = P[q]

\* pipeclose changes nothing else of a process.
LEMMA SetClosing ==
  ASSUME NEW P, NEW p, NEW C, NEW Q, ClosingSet(P, p, C, Q)
  PROVE  ClosingFacts(P, p, C, Q)
<1> SUFFICES ASSUME P \in [Pids -> Slots], p \in Pids, C \in SUBSET PipeEnds, Q = [P EXCEPT ![p].closing = C]
             PROVE  /\ Q \in [Pids -> Slots] /\ Q[p].closing = C
                    /\ \A q \in Pids : /\ Q[q].state = P[q].state /\ Q[q].parent = P[q].parent /\ Q[q].script = P[q].script
                                       /\ Q[q].ofile = P[q].ofile /\ Q[q].pid = P[q].pid
                    /\ \A q \in Pids : q # p => Q[q] = P[q]
  BY DEF ClosingSet, ClosingFacts
<1> DEFINE r == [P[p] EXCEPT !.closing = C]
<1>1. r \in Slots
  BY DEF Slots
<1>2. Q = [P EXCEPT ![p] = r]
  OBVIOUS
<1>3. /\ r.closing = C /\ r.state = P[p].state /\ r.parent = P[p].parent /\ r.script = P[p].script
      /\ r.ofile = P[p].ofile /\ r.pid = P[p].pid
  BY DEF Slots
<1> HIDE DEF r
<1>4. Q \in [Pids -> Slots] /\ Q[p] = r /\ \A q \in Pids : q # p => Q[q] = P[q]
  BY <1>1, <1>2
<1> QED
  BY <1>3, <1>4

\* Slot n becomes a child of p.
Forked(P, p, n, s, child, Q) ==
    /\ P \in [Pids -> Slots] /\ p \in Pids /\ n \in Pids /\ n # p /\ s \in Seq(Ops) /\ child \in Seq(Ops)
    /\ Q = [P EXCEPT ![n] = [P[p] EXCEPT !.parent = p, !.script = child, !.pid = 0], ![p].script = s, ![p].pid = n]

\* What that changes
ForkedFacts(P, p, n, s, child, Q) ==
      /\ Q \in [Pids -> Slots]
      /\ Q[p].script = s /\ Q[p].ofile = P[p].ofile /\ Q[p].closing = P[p].closing
      /\ Q[p].state = P[p].state /\ Q[p].parent = P[p].parent
      /\ Q[n].script = child /\ Q[n].ofile = P[p].ofile /\ Q[n].closing = P[p].closing
      /\ Q[n].state = P[p].state
      /\ \A q \in Pids : q # p /\ q # n => Q[q] = P[q]

\* fork copies the parent's descriptors and changes no other process.
LEMMA SetForked ==
  ASSUME NEW P, NEW p, NEW n, NEW s, NEW child, NEW Q, Forked(P, p, n, s, child, Q)
  PROVE  ForkedFacts(P, p, n, s, child, Q)
<1> SUFFICES ASSUME P \in [Pids -> Slots], p \in Pids, n \in Pids, n # p, s \in Seq(Ops), child \in Seq(Ops), Q = [P EXCEPT ![n] = [P[p] EXCEPT !.parent = p, !.script = child, !.pid = 0], ![p].script = s, ![p].pid = n]
             PROVE  /\ Q \in [Pids -> Slots]
                    /\ Q[p].script = s /\ Q[p].ofile = P[p].ofile /\ Q[p].closing = P[p].closing
                    /\ Q[p].state = P[p].state /\ Q[p].parent = P[p].parent
                    /\ Q[n].script = child /\ Q[n].ofile = P[p].ofile /\ Q[n].closing = P[p].closing
                    /\ Q[n].state = P[p].state
                    /\ \A q \in Pids : q # p /\ q # n => Q[q] = P[q]
  BY DEF Forked, ForkedFacts
<1> DEFINE r == [P[p] EXCEPT !.parent = p, !.script = child, !.pid = 0]
           t == [P[p] EXCEPT !.script = s, !.pid = n]
<1>0. p \in 0..NPROC /\ n \in 0..NPROC /\ 0 \in 0..NPROC
  BY Sizes, SMTT(30) DEF Pids
<1>1. r \in Slots /\ t \in Slots
  <2>1. r \in Slots
    BY <1>0 DEF Slots
  <2>2. t \in Slots
    BY <1>0 DEF Slots
  <2> QED
    BY <2>1, <2>2
<1>2. Q = [P EXCEPT ![n] = r, ![p] = t]
  OBVIOUS
<1>3. /\ r.script = child /\ r.ofile = P[p].ofile /\ r.closing = P[p].closing /\ r.state = P[p].state
      /\ t.script = s /\ t.ofile = P[p].ofile /\ t.closing = P[p].closing /\ t.state = P[p].state /\ t.parent = P[p].parent
  BY DEF Slots
<1> HIDE DEF r, t
<1>4. Q \in [Pids -> Slots] /\ Q[p] = t /\ Q[n] = r /\ \A q \in Pids : q # p /\ q # n => Q[q] = P[q]
  BY <1>1, <1>2
<1> QED
  BY <1>3, <1>4

\* A free slot has no descriptors.
LEMMA UnusedSlot ==
  /\ Unused \in Slots /\ Unused.script = <<>> /\ Unused.closing = {} /\ Unused.ofile = [fd \in Fds |-> 0]
  /\ Unused.state = "UNUSED" /\ Unused.parent = 0 /\ Unused.pid = 0
  BY Sizes, SMTT(30) DEF Unused, Slots, Fds

\* Process p goes on at s, and the slot of q is free.
ReapedBy(P, p, q, s, Q) ==
    /\ P \in [Pids -> Slots] /\ p \in Pids /\ q \in Pids /\ q # p /\ s \in Seq(Ops)
    /\ Q = [P EXCEPT ![q] = Unused, ![p].script = s]

\* What that changes
ReapedFacts(P, p, q, s, Q) ==
      /\ Q \in [Pids -> Slots] /\ Q[p].script = s /\ ScriptOnly(Q[p], P[p]) /\ Q[q] = Unused
      /\ \A r \in Pids : r # p /\ r # q => Q[r] = P[r]

\* wait changes no other process.
LEMMA SetReaped ==
  ASSUME NEW P, NEW p, NEW q, NEW s, NEW Q, ReapedBy(P, p, q, s, Q)
  PROVE  ReapedFacts(P, p, q, s, Q)
<1> SUFFICES ASSUME P \in [Pids -> Slots], p \in Pids, q \in Pids, q # p, s \in Seq(Ops), Q = [P EXCEPT ![q] = Unused, ![p].script = s]
             PROVE  /\ Q \in [Pids -> Slots] /\ Q[p].script = s /\ ScriptOnly(Q[p], P[p]) /\ Q[q] = Unused
                    /\ \A r \in Pids : r # p /\ r # q => Q[r] = P[r]
  BY DEF ReapedBy, ReapedFacts
<1> DEFINE t == [P[p] EXCEPT !.script = s]
<1>1. t \in Slots
  BY DEF Slots
<1>2. Q = [P EXCEPT ![q] = Unused, ![p] = t]
  OBVIOUS
<1>3. t.script = s /\ ScriptOnly(t, P[p])
  BY DEF Slots, ScriptOnly
<1> HIDE DEF t
<1>4. Q \in [Pids -> Slots] /\ Q[p] = t /\ Q[q] = Unused /\ \A r \in Pids : r # p /\ r # q => Q[r] = P[r]
  BY <1>1, <1>2, UnusedSlot
<1> QED
  BY <1>3, <1>4

\* Process p becomes a zombie and the processes C children of init.
ExitedAs(P, p, C, Q) ==
    /\ P \in [Pids -> Slots] /\ p \in Pids
    /\ Q = [q \in Pids |-> IF q = p THEN [Unused EXCEPT !.state = "ZOMBIE", !.parent = P[p].parent]
                           ELSE IF q \in C THEN [P[q] EXCEPT !.parent = 1] ELSE P[q]]

\* What that changes
ExitedFacts(P, p, C, Q) ==
      /\ Q \in [Pids -> Slots]
      /\ Q[p].state = "ZOMBIE" /\ Q[p].script = <<>> /\ Q[p].closing = {} /\ Q[p].ofile = [fd \in Fds |-> 0]
      /\ Q[p].parent = P[p].parent /\ Q[p].pid = 0
      /\ \A q \in Pids : q # p => /\ Q[q].state = P[q].state /\ Q[q].script = P[q].script /\ Q[q].closing = P[q].closing
                                  /\ Q[q].ofile = P[q].ofile /\ Q[q].pid = P[q].pid
                                  /\ (q \notin C => Q[q].parent = P[q].parent)

\* exit changes only the parents of other processes.
LEMMA SetExited ==
  ASSUME NEW P, NEW p, NEW C, NEW Q, ExitedAs(P, p, C, Q)
  PROVE  ExitedFacts(P, p, C, Q)
<1> SUFFICES ASSUME P \in [Pids -> Slots], p \in Pids,
                    Q = [q \in Pids |-> IF q = p THEN [Unused EXCEPT !.state = "ZOMBIE", !.parent = P[p].parent]
                                       ELSE IF q \in C THEN [P[q] EXCEPT !.parent = 1] ELSE P[q]]
             PROVE  /\ Q \in [Pids -> Slots]
                    /\ Q[p].state = "ZOMBIE" /\ Q[p].script = <<>> /\ Q[p].closing = {} /\ Q[p].ofile = [fd \in Fds |-> 0]
                    /\ Q[p].parent = P[p].parent /\ Q[p].pid = 0
                    /\ \A q \in Pids : q # p => /\ Q[q].state = P[q].state /\ Q[q].script = P[q].script /\ Q[q].closing = P[q].closing
                                                /\ Q[q].ofile = P[q].ofile /\ Q[q].pid = P[q].pid
                                                /\ (q \notin C => Q[q].parent = P[q].parent)
  BY DEF ExitedAs, ExitedFacts
<1> DEFINE z == [Unused EXCEPT !.state = "ZOMBIE", !.parent = P[p].parent]
<1>1. /\ z \in Slots /\ z.state = "ZOMBIE" /\ z.script = <<>> /\ z.closing = {} /\ z.ofile = [fd \in Fds |-> 0]
      /\ z.parent = P[p].parent /\ z.pid = 0
  <2>1. P[p].parent \in 0..NPROC
    BY SlotTypes
  <2> QED
    BY <2>1, UnusedSlot DEF Slots
<1>2. ASSUME NEW q \in Pids
      PROVE  LET t == [P[q] EXCEPT !.parent = 1]
             IN  /\ t \in Slots /\ t.state = P[q].state /\ t.script = P[q].script /\ t.closing = P[q].closing
                 /\ t.ofile = P[q].ofile /\ t.pid = P[q].pid
  <2>1. 1 \in 0..NPROC
    BY Sizes, SMTT(30)
  <2> QED
    BY <2>1 DEF Slots
<1>3. Q[p] = z /\ \A q \in Pids : q # p => Q[q] = IF q \in C THEN [P[q] EXCEPT !.parent = 1] ELSE P[q]
  OBVIOUS
<1>4. Q \in [Pids -> Slots]
  BY <1>1, <1>2
<1> HIDE DEF z
<1> QED
  BY <1>1, <1>2, <1>3, <1>4

----
\* The descriptors of all processes, and the count of those that refer to a file
Descriptors == [q \in Pids |-> proc[q].ofile]
Counted(F, o) == \A f \in Table : F[f].ref = Cardinality(RefSet(o, f))

\* FilesCounted over these descriptors
AllCounted == Descriptors \in Owned /\ Counted(file, Descriptors)

\* The two ways to say that every reference is counted are one.
LEMMA CountedIs ==
  FilesType => Descriptors \in Owned /\ (FilesCounted <=> AllCounted)
<1> SUFFICES ASSUME FilesType PROVE Descriptors \in Owned /\ (FilesCounted <=> AllCounted)
  BY SMTT(30)
<1>1. \A q \in Pids : proc[q].ofile \in [Fds -> 0..NFILE] /\ Descriptors[q] = proc[q].ofile
  BY SlotTypes DEF FilesType, Descriptors
<1>2. Descriptors \in Owned
  BY <1>1 DEF Descriptors, Owned
<1>3. \A f \in Table : RefSet(Descriptors, f) = {x \in Pids \X Fds : proc[x[1]].ofile[x[2]] = f}
  <2> TAKE f \in Table
  <2>1. \A x \in Pids \X Fds : x[1] \in Pids
    BY SMTT(30)
  <2> QED
    BY <1>1, <2>1 DEF RefSet
<1> QED
  BY <1>2, <1>3 DEF FilesCounted, AllCounted, Counted

\* So they are after a step.
LEMMA CountedNext ==
  ASSUME FilesType', AllCounted' PROVE FilesCounted'
<1>1. (FilesType => Descriptors \in Owned /\ (FilesCounted <=> AllCounted))'
  BY CountedIs, PTL
<1> QED
  BY <1>1

\* An end of a pipe is in use.
Held(k, w) == \/ \E f \in Table : OpenEnd(f) /\ EndOf(f) = <<k, w>>
              \/ \E q \in Pids : <<k, w>> \in proc[q].closing
EndInUse(k, w) == IF w THEN pipe[k].writeopen ELSE pipe[k].readopen

\* EndsOpen, by the end
EndsAgree == \A k \in 1..NPIPE, w \in BOOLEAN : EndInUse(k, w) <=> Held(k, w)

\* EndsAgree is EndsOpen.
LEMMA EndsOpenIs == EndsOpen <=> EndsAgree
<1>1. ASSUME NEW k \in 1..NPIPE, NEW w \in BOOLEAN
      PROVE  Held(k, w) <=> \/ \E f \in Table : /\ file[f].ref > 0 /\ file[f].type = "pipe"
                                                /\ file[f].pipe = k /\ file[f].writable = w
                            \/ \E q \in Pids : <<k, w>> \in proc[q].closing
  <2>1. \A f \in Table : EndOf(f) = <<k, w>> <=> file[f].pipe = k /\ file[f].writable = w
    BY SMTT(30) DEF EndOf
  <2> QED
    BY <2>1 DEF Held, OpenEnd
<1> QED
  BY <1>1 DEF EndsOpen, EndInUse, EndsAgree

\* A step that leaves the ends of pipes where they are
SameEnds ==
    /\ \A f \in Table : /\ (file'[f].ref > 0 /\ file'[f].type = "pipe") <=> OpenEnd(f)
                        /\ OpenEnd(f) => file'[f].pipe = file[f].pipe /\ file'[f].writable = file[f].writable
    /\ \A q \in Pids : proc'[q].closing = proc[q].closing
    /\ pipe' = pipe

\* Such a step keeps what is known of the ends.
LEMMA EndsKept ==
  ASSUME OneOwner, EndsOpen, SameEnds
  PROVE  OneOwner' /\ EndsOpen'
<1>1. \A f \in Table : (OpenEnd(f)' <=> OpenEnd(f)) /\ (OpenEnd(f) => EndOf(f)' = EndOf(f))
  BY DEF SameEnds, OpenEnd, EndOf
<1>2. OneOwner'
  <2>1. \A f \in Table : OpenEnd(f) => file'[f].pipe \in 1..NPIPE
    BY DEF SameEnds, OneOwner
  <2>2. \A q \in Pids : proc'[q].closing = proc[q].closing
    BY DEF SameEnds
  <2>3. \A f \in Table : OpenEnd(f)' => (file[f].pipe \in 1..NPIPE)'
    BY <1>1, <2>1
  <2>4. \A f, g \in Table : OpenEnd(f)' /\ OpenEnd(g)' /\ EndOf(f)' = EndOf(g)' => f = g
    BY <1>1 DEF OneOwner
  <2>5. \A f \in Table, q \in Pids : OpenEnd(f)' => EndOf(f)' \notin proc'[q].closing
    <3> TAKE f \in Table, q \in Pids
    <3>1. OpenEnd(f) => EndOf(f) \notin proc[q].closing
      BY DEF OneOwner
    <3> QED
      BY <1>1, <2>2, <3>1
  <2>6. \A q, r \in Pids : proc'[q].closing \cap proc'[r].closing # {} => q = r
    BY <2>2 DEF OneOwner
  <2> QED
    BY <2>3, <2>4, <2>5, <2>6 DEF OneOwner
<1>3. ASSUME NEW k \in 1..NPIPE, NEW w \in BOOLEAN
      PROVE  (EndInUse(k, w)' <=> EndInUse(k, w)) /\ (Held(k, w)' <=> Held(k, w))
  <2>1. EndInUse(k, w)' <=> EndInUse(k, w)
    BY DEF EndInUse, SameEnds
  <2>2. \A q \in Pids : proc'[q].closing = proc[q].closing
    BY DEF SameEnds
  <2> QED
    BY <1>1, <2>1, <2>2 DEF Held
<1>4. EndsOpen'
  <2>1. EndsOpen' <=> EndsAgree'
    BY EndsOpenIs, PTL
  <2>2. EndsAgree
    BY EndsOpenIs
  <2>3. EndsAgree'
    BY <1>3, <2>2 DEF EndsAgree
  <2> QED
    BY <2>1, <2>3
<1> QED
  BY <1>2, <1>4

\* A step that changes no descriptor, no file and no pipe
Quiet == /\ \A q \in Pids : proc'[q].ofile = proc[q].ofile /\ proc'[q].closing = proc[q].closing
         /\ file' = file /\ pipe' = pipe

\* Such a step keeps the counts and the ends.
LEMMA QuietKeeps ==
  ASSUME FilesInv, Quiet, proc' \in [Pids -> Slots]
  PROVE  FilesType' /\ OneOwner' /\ FilesCounted' /\ EndsOpen'
<1>1. FilesType'
  BY DEF Quiet, FilesInv, FilesType
<1>2. SameEnds
  BY DEF Quiet, SameEnds, OpenEnd
<1>3. Descriptors' = Descriptors
  BY DEF Quiet, Descriptors
<1>4. FilesCounted'
  <2>1. AllCounted
    BY CountedIs DEF FilesInv
  <2>2. file' = file
    BY DEF Quiet
  <2>3. AllCounted'
    BY <1>3, <2>1, <2>2 DEF AllCounted
  <2> QED
    BY <1>1, <2>3, CountedNext
<1> QED
  BY <1>1, <1>2, <1>4, EndsKept DEF FilesInv

----
\* The script of a process that makes a call.
LEMMA ScriptFacts ==
  ASSUME FilesType, NEW p \in Pids, proc[p].script # <<>>
  PROVE  Arg(p) \in Ops /\ Rest(p) \in Seq(Ops)
<1>1. proc[p].script \in Seq(Ops)
  BY SlotTypes DEF FilesType
<1> QED
  BY <1>1, HeadAndTail DEF Arg, Rest

\* Entries of the file table.
LEMMA FileTypes ==
  ASSUME NEW r \in FileRecs
  PROVE  r.ref \in Nat /\ r.type \in {"none", "inode", "pipe"} /\ r.pipe \in 0..NPIPE /\ r.writable \in BOOLEAN
  BY DEF FileRecs

\* The count of file f becomes n: in table F before and G after.
RefChanged(F, f, n, G) == F \in [Table -> FileRecs] /\ f \in Table /\ n \in Nat /\ G = [F EXCEPT ![f].ref = n]

\* What that changes
RefFacts(F, f, n, G) ==
      /\ G \in [Table -> FileRecs] /\ G[f].ref = n
      /\ \A g \in Table : /\ G[g].type = F[g].type /\ G[g].pipe = F[g].pipe /\ G[g].writable = F[g].writable
                          /\ (g # f => G[g] = F[g])

\* A new count changes nothing else.
LEMMA SetRef ==
  ASSUME NEW F, NEW f, NEW n, NEW G, RefChanged(F, f, n, G)
  PROVE  RefFacts(F, f, n, G)
<1> SUFFICES ASSUME F \in [Table -> FileRecs], f \in Table, n \in Nat, G = [F EXCEPT ![f].ref = n]
             PROVE  /\ G \in [Table -> FileRecs] /\ G[f].ref = n
                    /\ \A g \in Table : /\ G[g].type = F[g].type /\ G[g].pipe = F[g].pipe
                                        /\ G[g].writable = F[g].writable
                                        /\ (g # f => G[g] = F[g])
  BY DEF RefChanged, RefFacts
<1> DEFINE r == [F[f] EXCEPT !.ref = n]
<1>1. r \in FileRecs /\ r.ref = n /\ r.type = F[f].type /\ r.pipe = F[f].pipe /\ r.writable = F[f].writable
  BY DEF FileRecs
<1>2. G = [F EXCEPT ![f] = r]
  OBVIOUS
<1> HIDE DEF r
<1>3. G \in [Table -> FileRecs] /\ G[f] = r /\ \A g \in Table : g # f => G[g] = F[g]
  BY <1>1, <1>2
<1> QED
  BY <1>1, <1>3

\* The entry that open makes.
LEMMA NewInode ==
  LET R == [NoFile EXCEPT !.ref = 1, !.type = "inode"] IN R \in FileRecs /\ R.ref = 1 /\ R.type = "inode"
<1>1. NoFile \in FileRecs
  BY Sizes, SMTT(30) DEF NoFile, FileRecs
<1>2. \A r \in FileRecs : LET R == [r EXCEPT !.ref = 1, !.type = "inode"]
                         IN R \in FileRecs /\ R.ref = 1 /\ R.type = "inode"
  <2>1. 1 \in Nat
    BY SMTT(30)
  <2> QED
    BY <2>1 DEF FileRecs
<1> QED
  BY <1>1, <1>2

\* A step that changes only the script of a process that runs.
LEMMA StepScript ==
  ASSUME FilesInv, NEW p, NEW s, ScriptSet(proc, p, s, proc'), proc[p].state = "RUNNING",
         file' = file, pipe' = pipe
  PROVE  FilesInv'
<1>1. /\ proc' \in [Pids -> Slots]
      /\ \A q \in Pids : ScriptOnly(proc'[q], proc[q]) /\ (q # p => proc'[q] = proc[q])
  <2>1. ScriptSetFacts(proc, p, s, proc')
    BY SetScript
  <2> QED
    BY <2>1 DEF ScriptSetFacts
<1>2. Quiet
  BY <1>1 DEF Quiet, ScriptOnly
<1>3. Ended'
  BY <1>1 DEF FilesInv, Ended, ScriptOnly
<1> QED
  BY <1>1, <1>2, <1>3, QuietKeeps DEF FilesInv

\* A reference: its file is in use.
LEMMA InUse ==
  ASSUME FilesInv, NEW q \in Pids, NEW fd \in Fds, proc[q].ofile[fd] # 0
  PROVE  proc[q].ofile[fd] \in Table /\ file[proc[q].ofile[fd]].ref > 0
<1> DEFINE f == proc[q].ofile[fd]
<1>1. Descriptors \in Owned /\ AllCounted
  BY CountedIs DEF FilesInv
<1>2. Descriptors[q][fd] = f
  BY DEF Descriptors
<1>3. f \in 0..NFILE
  BY <1>1, <1>2 DEF Owned
<1>4. f \in Table
  BY <1>3, Sizes, SMTT(30) DEF Table
<1>5. <<q, fd>> \in RefSet(Descriptors, f)
  BY <1>2, SMTT(30) DEF RefSet
<1>6. Cardinality(RefSet(Descriptors, f)) # 0
  BY <1>5, RefSetFinite, FS_EmptySet
<1>7. file[f].ref = Cardinality(RefSet(Descriptors, f))
  BY <1>1, <1>4 DEF AllCounted, Counted
<1>8. Cardinality(RefSet(Descriptors, f)) \in Nat
  BY RefSetFinite
<1>9. file[f].ref > 0
  BY <1>6, <1>7, <1>8, SMTT(30)
<1> QED
  BY <1>4, <1>9

\* One more descriptor of p refers to f, which was in use or is a new file that
\* is no pipe: dup and open.
OneMore(p, fd, f) ==
    /\ p \in Pids /\ fd \in Fds /\ f \in Table /\ proc[p].state = "RUNNING" /\ proc[p].ofile[fd] = 0 /\ pipe' = pipe
    /\ file' \in [Table -> FileRecs] /\ file'[f].ref = file[f].ref + 1
    /\ \A g \in Table : g # f => file'[g] = file[g]
    /\ \/ /\ file[f].ref > 0 /\ file'[f].type = file[f].type /\ file'[f].pipe = file[f].pipe
          /\ file'[f].writable = file[f].writable
       \/ file[f].ref = 0 /\ file'[f].type = "inode"

\* dup and open keep the counts and the ends.
LEMMA StepMore ==
  ASSUME FilesInv, NEW p, NEW s, NEW fd, NEW f, FdSet(proc, p, s, fd, f, proc'), OneMore(p, fd, f)
  PROVE  FilesInv'
<1> SUFFICES ASSUME p \in Pids, fd \in Fds, f \in Table, proc[p].state = "RUNNING", proc[p].ofile[fd] = 0, pipe' = pipe,
                    file' \in [Table -> FileRecs], file'[f].ref = file[f].ref + 1,
                    \A g \in Table : g # f => file'[g] = file[g],
                    \/ /\ file[f].ref > 0 /\ file'[f].type = file[f].type /\ file'[f].pipe = file[f].pipe
                       /\ file'[f].writable = file[f].writable
                    \/ file[f].ref = 0 /\ file'[f].type = "inode"
             PROVE  FilesInv'
  BY DEF OneMore
<1>0. proc \in [Pids -> Slots] /\ file \in [Table -> FileRecs] /\ pipe \in [1..NPIPE -> PipeRecs]
  BY DEF FilesInv, FilesType
<1>1. /\ proc' \in [Pids -> Slots]
      /\ proc'[p].ofile = [proc[p].ofile EXCEPT ![fd] = f]
      /\ proc'[p].state = proc[p].state /\ proc'[p].closing = proc[p].closing
      /\ \A q \in Pids : q # p => proc'[q] = proc[q]
  <2>1. FdSetFacts(proc, p, s, fd, f, proc')
    BY SetFd
  <2> QED
    BY <2>1 DEF FdSetFacts
<1>2. FilesType'
  BY <1>0, <1>1 DEF FilesType
<1>3. Ended'
  BY <1>1 DEF FilesInv, Ended
<1>4. SameEnds
  <2>1. file[f].ref \in Nat
    BY <1>0, FileTypes
  <2>2. file'[f].ref > 0
    BY <2>1, SMTT(30)
  <2>3. (file'[f].ref > 0 /\ file'[f].type = "pipe") <=> OpenEnd(f)
    <3>1. CASE file[f].ref > 0 /\ file'[f].type = file[f].type
      BY <2>2, <3>1 DEF OpenEnd
    <3>2. CASE file[f].ref = 0 /\ file'[f].type = "inode"
      <4>1. ~(0 > 0)
        BY SMTT(30)
      <4> QED
        BY <3>2, <4>1 DEF OpenEnd
    <3> QED
      BY <3>1, <3>2
  <2>4. OpenEnd(f) => file'[f].pipe = file[f].pipe /\ file'[f].writable = file[f].writable
    <3>1. ~(0 > 0)
      BY SMTT(30)
    <3> QED
      BY <3>1 DEF OpenEnd
  <2>5. \A q \in Pids : proc'[q].closing = proc[q].closing
    BY <1>1
  <2>6. \A g \in Table : g # f => /\ (file'[g].ref > 0 /\ file'[g].type = "pipe") <=> OpenEnd(g)
                                  /\ file'[g].pipe = file[g].pipe /\ file'[g].writable = file[g].writable
    BY DEF OpenEnd
  <2> QED
    BY <2>3, <2>4, <2>5, <2>6 DEF SameEnds
<1>5. AllCounted'
  <2>1. Descriptors \in Owned /\ AllCounted
    BY CountedIs DEF FilesInv
  <2>2. Descriptors' = [Descriptors EXCEPT ![p][fd] = f]
    BY <1>1 DEF Descriptors
  <2>3. Descriptors[p][fd] = 0
    BY DEF Descriptors
  <2>6. FdTaken(Descriptors, p, fd, f, Descriptors')
    BY <2>1, <2>2, <2>3 DEF FdTaken
  <2>4. Descriptors' \in Owned
    BY <2>6, CountMore
  <2>5. ASSUME NEW g \in Table PROVE file'[g].ref = Cardinality(RefSet(Descriptors', g))
    <3>1. Cardinality(RefSet(Descriptors', g)) = Cardinality(RefSet(Descriptors, g)) + (IF g = f THEN 1 ELSE 0)
      <4> HIDE <2>6
      <4> QED
        BY <2>6, CountMore, SMTT(30)
    <3>2. file[g].ref = Cardinality(RefSet(Descriptors, g)) /\ Cardinality(RefSet(Descriptors, g)) \in Nat
      BY <2>1, RefSetFinite DEF AllCounted, Counted
    <3>3. file'[g].ref = file[g].ref + (IF g = f THEN 1 ELSE 0)
      BY <3>2, SMTT(30)
    <3> QED
      BY <3>1, <3>2, <3>3
  <2> QED
    BY <2>4, <2>5 DEF AllCounted, Counted
<1> QED
  BY <1>2, <1>3, <1>4, <1>5, EndsKept, CountedNext DEF FilesInv

----
\* A pipe is made: two new entries of the table, of the two ends of a free page.
NewPipe(p, fd0, fd1, f0, f1, k) ==
    /\ proc[p].state = "RUNNING"
    /\ fd0 \in Fds /\ fd1 \in Fds /\ fd0 # fd1 /\ proc[p].ofile[fd0] = 0 /\ proc[p].ofile[fd1] = 0
    /\ f0 \in Table /\ f1 \in Table /\ f0 # f1 /\ file[f0].ref = 0 /\ file[f1].ref = 0
    /\ k \in 1..NPIPE /\ ~pipe[k].readopen /\ ~pipe[k].writeopen
    /\ pipe' = [pipe EXCEPT ![k] = [readopen |-> TRUE, writeopen |-> TRUE]]
    /\ file' = [file EXCEPT ![f0] = [ref |-> 1, type |-> "pipe", pipe |-> k, writable |-> FALSE],
                            ![f1] = [ref |-> 1, type |-> "pipe", pipe |-> k, writable |-> TRUE]]

\* What that changes in the tables
NewPipeFacts(f0, f1, k) ==
      /\ file' \in [Table -> FileRecs] /\ pipe' \in [1..NPIPE -> PipeRecs]
      /\ file'[f0].ref = 1 /\ file'[f0].type = "pipe" /\ file'[f0].pipe = k /\ file'[f0].writable = FALSE
      /\ file'[f1].ref = 1 /\ file'[f1].type = "pipe" /\ file'[f1].pipe = k /\ file'[f1].writable = TRUE
      /\ \A g \in Table : g # f0 /\ g # f1 => file'[g] = file[g]
      /\ pipe'[k].readopen /\ pipe'[k].writeopen
      /\ \A j \in 1..NPIPE : j # k => pipe'[j] = pipe[j]

\* pipealloc changes no other entry and no other pipe.
LEMMA PipeTables ==
  ASSUME FilesInv, NEW p, NEW fd0, NEW fd1, NEW f0, NEW f1, NEW k, NewPipe(p, fd0, fd1, f0, f1, k)
  PROVE  NewPipeFacts(f0, f1, k)
<1> DEFINE R0 == [ref |-> 1, type |-> "pipe", pipe |-> k, writable |-> FALSE]
           R1 == [ref |-> 1, type |-> "pipe", pipe |-> k, writable |-> TRUE]
           RP == [readopen |-> TRUE, writeopen |-> TRUE]
<1>0. /\ file \in [Table -> FileRecs] /\ pipe \in [1..NPIPE -> PipeRecs] /\ f0 \in Table /\ f1 \in Table /\ f0 # f1
      /\ k \in 1..NPIPE /\ file' = [file EXCEPT ![f0] = R0, ![f1] = R1] /\ pipe' = [pipe EXCEPT ![k] = RP]
  BY DEF NewPipe, FilesInv, FilesType
<1>1. R0 \in FileRecs /\ R1 \in FileRecs /\ RP \in PipeRecs
  BY <1>0, Sizes, SMTT(30) DEF FileRecs, PipeRecs
<1>2. /\ R0.ref = 1 /\ R0.type = "pipe" /\ R0.pipe = k /\ R0.writable = FALSE
      /\ R1.ref = 1 /\ R1.type = "pipe" /\ R1.pipe = k /\ R1.writable = TRUE /\ RP.readopen /\ RP.writeopen
  BY SMTT(30)
<1> HIDE DEF R0, R1, RP
<1>3. /\ file' \in [Table -> FileRecs] /\ file'[f0] = R0 /\ file'[f1] = R1
      /\ \A g \in Table : g # f0 /\ g # f1 => file'[g] = file[g]
  BY <1>0, <1>1, SMTT(30)
<1>4. pipe' \in [1..NPIPE -> PipeRecs] /\ pipe'[k] = RP /\ \A j \in 1..NPIPE : j # k => pipe'[j] = pipe[j]
  BY <1>0, <1>1, SMTT(30)
<1> QED
  BY <1>2, <1>3, <1>4 DEF NewPipeFacts

\* Equal pairs have equal parts.
LEMMA SamePair ==
  ASSUME NEW a, NEW b, NEW d, NEW e, <<a, b>> = <<d, e>>
  PROVE  a = d /\ b = e
  BY SMTT(30)

\* Two descriptors are set one after the other.
LEMMA TwoSet ==
  ASSUME NEW o \in Owned, NEW p \in Pids, NEW a \in Fds, NEW b \in Fds, NEW f, NEW g
  PROVE  [o EXCEPT ![p] = [o[p] EXCEPT ![a] = f, ![b] = g]] = [[o EXCEPT ![p][a] = f] EXCEPT ![p][b] = g]
<1> DEFINE u == [o EXCEPT ![p][a] = f]
           v == [o[p] EXCEPT ![a] = f]
           t == [v EXCEPT ![b] = g]
<1>1. u = [o EXCEPT ![p] = v] /\ u[p] = v
  BY DEF Owned
<1>2. t = [o[p] EXCEPT ![a] = f, ![b] = g]
  OBVIOUS
<1>3. [u EXCEPT ![p][b] = g] = [u EXCEPT ![p] = t]
  <2> HIDE DEF u, v
  <2> QED
    BY <1>1
<1>4. [u EXCEPT ![p] = t] = [o EXCEPT ![p] = t]
  <2> HIDE DEF u, v, t
  <2>1. [[o EXCEPT ![p] = v] EXCEPT ![p] = t] = [o EXCEPT ![p] = t]
    BY DEF Owned
  <2> QED
    BY <1>1, <2>1
<1> QED
  BY <1>2, <1>3, <1>4

\* pipe keeps the counts and the ends: nobody had an end of a free page.
LEMMA StepPipe ==
  ASSUME FilesInv, NEW p, NEW s, NEW fd0, NEW fd1, NEW f0, NEW f1, NEW k, NewPipe(p, fd0, fd1, f0, f1, k),
         PipeSet(proc, p, s, fd0, fd1, f0, f1, proc')
  PROVE  FilesInv'
<1>a. p \in Pids
  BY DEF PipeSet
<1>b. /\ proc[p].state = "RUNNING" /\ fd0 \in Fds /\ fd1 \in Fds /\ fd0 # fd1
      /\ proc[p].ofile[fd0] = 0 /\ proc[p].ofile[fd1] = 0
      /\ f0 \in Table /\ f1 \in Table /\ f0 # f1 /\ file[f0].ref = 0 /\ file[f1].ref = 0
      /\ k \in 1..NPIPE /\ ~pipe[k].readopen /\ ~pipe[k].writeopen
  BY DEF NewPipe
<1>1. /\ proc' \in [Pids -> Slots]
      /\ proc'[p].ofile = [proc[p].ofile EXCEPT ![fd0] = f0, ![fd1] = f1]
      /\ proc'[p].state = proc[p].state /\ proc'[p].closing = proc[p].closing
      /\ \A q \in Pids : q # p => proc'[q] = proc[q]
  <2>1. PipeSetFacts(proc, p, s, fd0, fd1, f0, f1, proc')
    BY SetPipe
  <2> QED
    BY <2>1 DEF PipeSetFacts
<1>2. /\ file' \in [Table -> FileRecs] /\ pipe' \in [1..NPIPE -> PipeRecs]
      /\ file'[f0].ref = 1 /\ file'[f0].type = "pipe" /\ file'[f0].pipe = k /\ file'[f0].writable = FALSE
      /\ file'[f1].ref = 1 /\ file'[f1].type = "pipe" /\ file'[f1].pipe = k /\ file'[f1].writable = TRUE
      /\ \A g \in Table : g # f0 /\ g # f1 => file'[g] = file[g]
      /\ pipe'[k].readopen /\ pipe'[k].writeopen
      /\ \A j \in 1..NPIPE : j # k => pipe'[j] = pipe[j]
  <2>1. NewPipeFacts(f0, f1, k)
    BY PipeTables
  <2> QED
    BY <2>1 DEF NewPipeFacts
<1>3. FilesType'
  BY <1>1, <1>2 DEF FilesType
<1>4. Ended'
  BY <1>1, <1>b DEF FilesInv, Ended
<1>5. \A q \in Pids : proc'[q].closing = proc[q].closing
  BY <1>1
<1>6. /\ OpenEnd(f0)' /\ EndOf(f0)' = <<k, FALSE>> /\ OpenEnd(f1)' /\ EndOf(f1)' = <<k, TRUE>>
      /\ \A g \in Table : g # f0 /\ g # f1 => (OpenEnd(g)' <=> OpenEnd(g)) /\ EndOf(g)' = EndOf(g)
  <2>1. 1 > 0
    BY SMTT(30)
  <2> QED
    BY <1>2, <2>1 DEF OpenEnd, EndOf
<1>7. ~OpenEnd(f0) /\ ~OpenEnd(f1)
  BY <1>b, SMTT(30) DEF OpenEnd
<1>8. \A w \in BOOLEAN : ~Held(k, w)
  <2>1. EndsAgree
    BY EndsOpenIs DEF FilesInv
  <2>2. \A w \in BOOLEAN : ~EndInUse(k, w)
    BY <1>b DEF EndInUse
  <2> QED
    BY <1>b, <2>1, <2>2 DEF EndsAgree
<1>9. OneOwner'
  <2>0. OneOwner /\ FALSE \in BOOLEAN /\ TRUE \in BOOLEAN
    BY DEF FilesInv
  <2>1. \A f \in Table : OpenEnd(f)' => (file[f].pipe \in 1..NPIPE)'
    <3>1. \A f \in Table : OpenEnd(f) => file[f].pipe \in 1..NPIPE
      BY <2>0 DEF OneOwner
    <3> QED
      BY <1>2, <1>6, <1>b, <3>1
  <2>2. \A g \in Table : g # f0 /\ g # f1 /\ OpenEnd(g)' => EndOf(g)' # <<k, FALSE>> /\ EndOf(g)' # <<k, TRUE>>
    BY <1>6, <1>8, <2>0 DEF Held
  <2>3. <<k, FALSE>> # <<k, TRUE>>
    BY SMTT(30)
  <2>4. \A f, g \in Table : OpenEnd(f)' /\ OpenEnd(g)' /\ EndOf(f)' = EndOf(g)' => f = g
    <3> TAKE f, g \in Table
    <3>1. CASE f = f0
      BY <1>6, <2>2, <2>3, <3>1
    <3>2. CASE f = f1
      BY <1>6, <2>2, <2>3, <3>2
    <3>3. CASE f # f0 /\ f # f1
      <4>1. CASE g = f0 \/ g = f1
        BY <1>6, <2>2, <3>3, <4>1
      <4>2. CASE g # f0 /\ g # f1
        BY <1>6, <2>0, <3>3, <4>2 DEF OneOwner
      <4> QED
        BY <4>1, <4>2
    <3> QED
      BY <3>1, <3>2, <3>3
  <2>5. \A f \in Table, q \in Pids : OpenEnd(f)' => EndOf(f)' \notin proc'[q].closing
    <3> TAKE f \in Table, q \in Pids
    <3>1. CASE f = f0 \/ f = f1
      BY <1>5, <1>6, <1>8, <2>0, <3>1 DEF Held
    <3>2. CASE f # f0 /\ f # f1
      <4>1. OpenEnd(f) => EndOf(f) \notin proc[q].closing
        BY <2>0 DEF OneOwner
      <4> QED
        BY <1>5, <1>6, <3>2, <4>1
    <3> QED
      BY <3>1, <3>2
  <2>6. \A q, r \in Pids : proc'[q].closing \cap proc'[r].closing # {} => q = r
    BY <1>5, <2>0 DEF OneOwner
  <2> QED
    BY <2>1, <2>4, <2>5, <2>6 DEF OneOwner
<1>10. EndsAgree'
  <2>1. EndsAgree
    BY EndsOpenIs DEF FilesInv
  <2>2. \A w \in BOOLEAN : EndInUse(k, w)' /\ Held(k, w)'
    <3> TAKE w \in BOOLEAN
    <3>1. EndInUse(k, w)'
      BY <1>2 DEF EndInUse
    <3>2. CASE w = TRUE
      BY <1>6, <1>b, <3>1, <3>2 DEF Held
    <3>3. CASE w = FALSE
      BY <1>6, <1>b, <3>1, <3>3 DEF Held
    <3>4. w = TRUE \/ w = FALSE
      OBVIOUS
    <3> QED
      BY <3>2, <3>3, <3>4
  <2>3. ASSUME NEW j \in 1..NPIPE, NEW w \in BOOLEAN, j # k
        PROVE  EndInUse(j, w)' <=> Held(j, w)'
    <3>1. EndInUse(j, w)' <=> EndInUse(j, w)
      BY <1>2, <2>3 DEF EndInUse
    <3>2. <<k, FALSE>> # <<j, w>> /\ <<k, TRUE>> # <<j, w>>
      BY <2>3, SamePair
    <3>3. \A f \in Table : (OpenEnd(f)' /\ EndOf(f)' = <<j, w>>) <=> (OpenEnd(f) /\ EndOf(f) = <<j, w>>)
      <4> TAKE f \in Table
      <4>1. CASE f = f0 \/ f = f1
        BY <1>6, <1>7, <3>2, <4>1
      <4>2. CASE f # f0 /\ f # f1
        BY <1>6, <4>2
      <4> QED
        BY <4>1, <4>2
    <3>4. Held(j, w)' <=> Held(j, w)
      BY <1>5, <3>3 DEF Held
    <3> QED
      BY <2>1, <2>3, <3>1, <3>4 DEF EndsAgree
  <2> QED
    BY <2>2, <2>3 DEF EndsAgree
<1>11. EndsOpen'
  <2>1. EndsOpen' <=> EndsAgree'
    BY EndsOpenIs, PTL
  <2> QED
    BY <1>10, <2>1
<1>12. AllCounted'
  <2> DEFINE o1 == [Descriptors EXCEPT ![p][fd0] = f0]
  <2>1. Descriptors \in Owned /\ AllCounted
    BY CountedIs DEF FilesInv
  <2>2. Descriptors[p][fd0] = 0 /\ Descriptors[p][fd1] = 0
    BY <1>a, <1>b DEF Descriptors
  <2>3. FdTaken(Descriptors, p, fd0, f0, o1)
    BY <1>a, <1>b, <2>1, <2>2 DEF FdTaken
  <2>5. o1[p][fd1] = 0
    BY <1>a, <1>b, <2>1, <2>2, SMTT(30) DEF Owned
  <2>6. Descriptors' = [o1 EXCEPT ![p][fd1] = f1]
    <3>1. Descriptors' = [q \in Pids |-> proc'[q].ofile] /\ Descriptors = [q \in Pids |-> proc[q].ofile]
      BY DEF Descriptors
    <3>2. Descriptors' = [Descriptors EXCEPT ![p] = [Descriptors[p] EXCEPT ![fd0] = f0, ![fd1] = f1]]
      BY <1>1, <1>a, <3>1
    <3> QED
      BY <1>a, <1>b, <2>1, <3>2, TwoSet
  <2> HIDE DEF o1
  <2>4. o1 \in Owned
    BY <1>b, <2>3, CountMore
  <2>7. FdTaken(o1, p, fd1, f1, Descriptors')
    BY <1>a, <1>b, <2>4, <2>5, <2>6 DEF FdTaken
  <2>8. Descriptors' \in Owned
    BY <1>b, <2>7, CountMore, SMTT(30)
  <2>9. ASSUME NEW g \in Table PROVE file'[g].ref = Cardinality(RefSet(Descriptors', g))
    <3>1. Cardinality(RefSet(o1, g)) = Cardinality(RefSet(Descriptors, g)) + (IF g = f0 THEN 1 ELSE 0)
      BY <2>3, CountMore, SMTT(30)
    <3>2. Cardinality(RefSet(Descriptors', g)) = Cardinality(RefSet(o1, g)) + (IF g = f1 THEN 1 ELSE 0)
      BY <2>7, CountMore, SMTT(30)
    <3>3. file[g].ref = Cardinality(RefSet(Descriptors, g)) /\ Cardinality(RefSet(Descriptors, g)) \in Nat
      BY <2>1, RefSetFinite DEF AllCounted, Counted
    <3>4. file'[g].ref = file[g].ref + (IF g = f0 THEN 1 ELSE 0) + (IF g = f1 THEN 1 ELSE 0)
      BY <1>2, <1>b, <3>3, SMTT(30)
    <3> QED
      BY <3>1, <3>2, <3>3, <3>4, SMTT(30)
  <2> QED
    BY <2>8, <2>9 DEF AllCounted, Counted
<1> QED
  BY <1>3, <1>4, <1>9, <1>11, <1>12, CountedNext DEF FilesInv

----
\* fileclose of an open descriptor by a process that is closing no end.
LEMMA StepClose ==
  ASSUME FilesInv, NEW p \in Pids, NEW fd \in Fds, NEW s \in Seq(Ops), proc[p].state = "RUNNING",
         proc[p].ofile[fd] # 0, proc[p].closing = {}, fileclose(p, fd, s)
  PROVE  FilesInv' /\ \E C \in SUBSET PipeEnds : FdClosed(proc, p, s, fd, C, proc')
<1>p. PICK f \in Table : f = proc[p].ofile[fd]
  BY InUse
<1> DEFINE C == IF file[f].ref = 1 /\ file[f].type = "pipe" THEN {EndOf(f)} ELSE {}
           R == IF file[f].ref = 1 THEN NoFile ELSE [file[f] EXCEPT !.ref = file[f].ref - 1]
<1>0. proc \in [Pids -> Slots] /\ file \in [Table -> FileRecs] /\ pipe \in [1..NPIPE -> PipeRecs]
  BY DEF FilesInv, FilesType
<1>1. f \in Table /\ file[f].ref > 0
  BY <1>p, InUse
<1>2. file[f].ref \in Nat /\ file[f].type \in {"none", "inode", "pipe"} /\ file[f].pipe \in 0..NPIPE
      /\ file[f].writable \in BOOLEAN
  BY <1>0, <1>1, FileTypes
<1>3. C \in SUBSET PipeEnds
  <2>1. CASE file[f].ref = 1 /\ file[f].type = "pipe"
    <3>1. file[f].pipe \in 1..NPIPE
      BY <1>1, <2>1 DEF FilesInv, OneOwner, OpenEnd
    <3> QED
      <4>1. EndOf(f) \in PipeEnds
        BY <1>2, <3>1 DEF EndOf, PipeEnds
      <4> QED
        BY <2>1, <4>1
  <2>2. CASE ~(file[f].ref = 1 /\ file[f].type = "pipe")
    BY <2>2
  <2> QED
    BY <2>1, <2>2
<1>4. FdClosed(proc, p, s, fd, C, proc')
  <2>1. proc' = [proc EXCEPT ![p].script = s, ![p].ofile[fd] = 0, ![p].closing = C]
    BY <1>p DEF fileclose, EndOf
  <2> HIDE DEF C
  <2> QED
    BY <1>0, <1>3, <2>1 DEF FdClosed
<1>5. file' = [file EXCEPT ![f] = R] /\ pipe' = pipe
  BY <1>p DEF fileclose
<1>6. R \in FileRecs /\ R.ref = file[f].ref - 1
      /\ (file[f].ref # 1 => R.type = file[f].type /\ R.pipe = file[f].pipe /\ R.writable = file[f].writable)
  <2>1. CASE file[f].ref = 1
    <3>1. NoFile \in FileRecs /\ NoFile.ref = 0
      BY Sizes, SMTT(30) DEF NoFile, FileRecs
    <3> QED
      BY <2>1, <3>1, SMTT(30)
  <2>2. CASE file[f].ref # 1
    <3>1. file[f].ref - 1 \in Nat
      BY <1>1, <1>2, SMTT(30)
    <3>2. R = [file[f] EXCEPT !.ref = file[f].ref - 1]
      BY <2>2
    <3>3. file[f] \in FileRecs
      BY <1>0, <1>1
    <3> HIDE DEF R
    <3> QED
      BY <2>2, <3>1, <3>2, <3>3 DEF FileRecs
  <2> QED
    BY <2>1, <2>2
<1> HIDE DEF R
<1>7. file' \in [Table -> FileRecs] /\ file'[f] = R /\ \A g \in Table : g # f => file'[g] = file[g]
  <2> QED
    BY <1>0, <1>1, <1>5, <1>6
<1> HIDE DEF C
<1>8. /\ proc' \in [Pids -> Slots]
      /\ proc'[p].ofile = [proc[p].ofile EXCEPT ![fd] = 0] /\ proc'[p].closing = C
      /\ proc'[p].state = proc[p].state
      /\ \A q \in Pids : q # p => proc'[q] = proc[q]
  <2>1. FdClosedFacts(proc, p, s, fd, C, proc')
    BY <1>4, SetClosed
  <2> QED
    BY <2>1 DEF FdClosedFacts
<1>9. FilesType'
  BY <1>0, <1>5, <1>7, <1>8 DEF FilesType
<1>10. Ended'
  BY <1>8 DEF FilesInv, Ended
<1>11. AllCounted'
  <2>1. Descriptors \in Owned /\ AllCounted
    BY CountedIs DEF FilesInv
  <2>2. Descriptors' = [Descriptors EXCEPT ![p][fd] = 0]
    BY <1>8 DEF Descriptors
  <2>3. Descriptors[p][fd] = f
    BY <1>p DEF Descriptors
  <2>4. FdFreed(Descriptors, p, fd, Descriptors')
    BY <1>p, <2>1, <2>2, <2>3 DEF FdFreed
  <2>5. Descriptors' \in Owned
    BY <1>1, <2>4, CountLess
  <2>6. ASSUME NEW g \in Table PROVE file'[g].ref = Cardinality(RefSet(Descriptors', g))
    <3>1. Cardinality(RefSet(Descriptors', g)) = Cardinality(RefSet(Descriptors, g)) - (IF g = f THEN 1 ELSE 0)
      BY <2>3, <2>4, CountLess, SMTT(30)
    <3>2. file[g].ref = Cardinality(RefSet(Descriptors, g)) /\ Cardinality(RefSet(Descriptors, g)) \in Nat
      BY <2>1, RefSetFinite DEF AllCounted, Counted
    <3>3. file'[g].ref = file[g].ref - (IF g = f THEN 1 ELSE 0)
      BY <1>6, <1>7, <3>2, SMTT(30)
    <3> QED
      BY <3>1, <3>2, <3>3
  <2> QED
    BY <2>5, <2>6 DEF AllCounted, Counted
<1>12. OneOwner' /\ EndsOpen'
  <2>1. CASE file[f].ref # 1
    <3>1. C = {}
      BY <2>1 DEF C
    <3>2. \A q \in Pids : proc'[q].closing = proc[q].closing
      BY <1>8, <3>1
    <3>3. R.ref > 0
      <4> QED
        BY <1>1, <1>2, <1>6, <2>1, SMTT(30)
    <3>4. SameEnds
      <4>1. /\ (file'[f].ref > 0 /\ file'[f].type = "pipe") <=> OpenEnd(f)
            /\ file'[f].pipe = file[f].pipe /\ file'[f].writable = file[f].writable
        BY <1>1, <1>6, <1>7, <2>1, <3>3 DEF OpenEnd
      <4>2. \A g \in Table : g # f => /\ (file'[g].ref > 0 /\ file'[g].type = "pipe") <=> OpenEnd(g)
                                      /\ file'[g].pipe = file[g].pipe /\ file'[g].writable = file[g].writable
        BY <1>7 DEF OpenEnd
      <4>4. pipe' = pipe
        BY <1>5
      <4>5. \A g \in Table :
               /\ (file'[g].ref > 0 /\ file'[g].type = "pipe") <=> OpenEnd(g)
               /\ OpenEnd(g) => file'[g].pipe = file[g].pipe /\ file'[g].writable = file[g].writable
        BY <4>1, <4>2
      <4> QED
        BY <3>2, <4>4, <4>5 DEF SameEnds
    <3> QED
      BY <3>4, EndsKept DEF FilesInv
  <2>2. CASE file[f].ref = 1
    <3>0. OneOwner /\ EndsAgree
      BY EndsOpenIs DEF FilesInv
    <3>1. ~OpenEnd(f)'
      <4>1. R.ref = 0
        BY <1>6, <2>2, SMTT(30)
      <4>2. file'[f].ref = 0
        BY <1>7, <4>1
      <4>3. ~(0 > 0)
        BY SMTT(30)
      <4> QED
        BY <4>2, <4>3 DEF OpenEnd
    <3>2. \A g \in Table : g # f => (OpenEnd(g)' <=> OpenEnd(g)) /\ EndOf(g)' = EndOf(g) /\ file'[g].pipe = file[g].pipe
      <4> QED
        BY <1>7 DEF OpenEnd, EndOf
    <3>3. C = IF OpenEnd(f) THEN {EndOf(f)} ELSE {}
      BY <1>1, <2>2 DEF C, OpenEnd
    <3>4. proc'[p].closing = C /\ \A q \in Pids : q # p => proc'[q].closing = proc[q].closing
      BY <1>8
    <3>5. OneOwner'
      <4>1. \A g \in Table : OpenEnd(g)' => (file[g].pipe \in 1..NPIPE)'
        <5>1. \A g \in Table : OpenEnd(g) => file[g].pipe \in 1..NPIPE
          BY <3>0 DEF OneOwner
        <5> QED
          BY <3>1, <3>2, <5>1
      <4>2. \A g, h \in Table : OpenEnd(g)' /\ OpenEnd(h)' /\ EndOf(g)' = EndOf(h)' => g = h
        <5>1. \A g, h \in Table : OpenEnd(g) /\ OpenEnd(h) /\ EndOf(g) = EndOf(h) => g = h
          BY <3>0 DEF OneOwner
        <5> QED
          BY <3>1, <3>2, <5>1
      <4>3. \A g \in Table, q \in Pids : OpenEnd(g)' => EndOf(g)' \notin proc'[q].closing
        <5> TAKE g \in Table, q \in Pids
        <5>1. OpenEnd(g) => EndOf(g) \notin proc[q].closing
          BY <3>0 DEF OneOwner
        <5>2. OpenEnd(g) /\ OpenEnd(f) /\ EndOf(g) = EndOf(f) => g = f
          BY <1>1, <3>0 DEF OneOwner
        <5>3. CASE q # p
          BY <3>1, <3>2, <3>4, <5>1, <5>3
        <5>4. CASE q = p
          BY <3>1, <3>2, <3>3, <3>4, <5>2, <5>4
        <5> QED
          BY <5>3, <5>4
      <4>4. \A q, r \in Pids : proc'[q].closing \cap proc'[r].closing # {} => q = r
        <5>1. \A q \in Pids : q # p => proc'[q].closing \cap proc'[p].closing = {}
          <6> TAKE q \in Pids
          <6>1. OpenEnd(f) => EndOf(f) \notin proc[q].closing
            BY <1>1, <3>0 DEF OneOwner
          <6>2. q # p => proc'[q].closing = proc[q].closing
            BY <3>4
          <6>3. CASE OpenEnd(f)
            <7>1. proc'[p].closing = {EndOf(f)}
              BY <3>3, <3>4, <6>3
            <7> QED
              BY <6>1, <6>2, <6>3, <7>1
          <6>4. CASE ~OpenEnd(f)
            BY <3>3, <3>4, <6>4
          <6> QED
            BY <6>3, <6>4
        <5>2. \A q, r \in Pids : proc[q].closing \cap proc[r].closing # {} => q = r
          BY <3>0 DEF OneOwner
        <5> TAKE q, r \in Pids
        <5>3. CASE q # p /\ r # p
          BY <3>4, <5>2, <5>3
        <5>4. CASE q = p /\ r # p
          BY <5>1, <5>4
        <5>5. CASE q # p /\ r = p
          BY <5>1, <5>5
        <5> QED
          BY <5>3, <5>4, <5>5
      <4> QED
        BY <4>1, <4>2, <4>3, <4>4 DEF OneOwner
    <3>6. ASSUME NEW k \in 1..NPIPE, NEW w \in BOOLEAN
          PROVE  Held(k, w)' <=> Held(k, w)
      <4>1. ASSUME Held(k, w) PROVE Held(k, w)'
        <5>1. CASE \E g \in Table : OpenEnd(g) /\ EndOf(g) = <<k, w>>
          <6>1. PICK g \in Table : OpenEnd(g) /\ EndOf(g) = <<k, w>>
            BY <5>1
          <6>2. CASE g = f
            <7>1. <<k, w>> \in proc'[p].closing
              BY <3>3, <3>4, <6>1, <6>2
            <7> QED
              BY <7>1 DEF Held
          <6>3. CASE g # f
            BY <3>2, <6>1, <6>3 DEF Held
          <6> QED
            BY <6>2, <6>3
        <5>2. CASE \E q \in Pids : <<k, w>> \in proc[q].closing
          <6>1. PICK q \in Pids : <<k, w>> \in proc[q].closing
            BY <5>2
          <6>2. q # p
            BY <6>1
          <6> QED
            BY <3>4, <6>1, <6>2 DEF Held
        <5> QED
          BY <4>1, <5>1, <5>2 DEF Held
      <4>2. ASSUME Held(k, w)' PROVE Held(k, w)
        <5>1. CASE \E g \in Table : OpenEnd(g)' /\ EndOf(g)' = <<k, w>>
          BY <3>1, <3>2, <5>1 DEF Held
        <5>2. CASE \E q \in Pids : <<k, w>> \in proc'[q].closing
          <6>1. PICK q \in Pids : <<k, w>> \in proc'[q].closing
            BY <5>2
          <6>2. CASE q = p
            <7>1. OpenEnd(f) /\ <<k, w>> = EndOf(f)
              BY <3>3, <3>4, <6>1, <6>2
            <7> QED
              BY <1>1, <7>1 DEF Held
          <6>3. CASE q # p
            BY <3>4, <6>1, <6>3 DEF Held
          <6> QED
            BY <6>2, <6>3
        <5> QED
          BY <4>2, <5>1, <5>2 DEF Held
      <4> QED
        BY <4>1, <4>2
    <3>7. \A k \in 1..NPIPE, w \in BOOLEAN : EndInUse(k, w)' <=> EndInUse(k, w)
      BY <1>5 DEF EndInUse
    <3>8. EndsAgree'
      BY <3>0, <3>6, <3>7 DEF EndsAgree
    <3>9. EndsOpen' <=> EndsAgree'
      BY EndsOpenIs, PTL
    <3> QED
      BY <3>5, <3>8, <3>9
  <2> QED
    BY <2>1, <2>2
<1> QED
  BY <1>3, <1>4, <1>9, <1>10, <1>11, <1>12, CountedNext DEF FilesInv

----
\* pipeclose: the end that a process is closing is closed, and nobody else has it.
LEMMA StepPipeclose ==
  ASSUME FilesInv, NEW p \in Pids, pipeclose(p)
  PROVE  /\ FilesInv'
         /\ \A q \in Pids : /\ proc'[q].state = proc[q].state /\ proc'[q].parent = proc[q].parent
                            /\ proc'[q].script = proc[q].script
                            /\ proc'[q].ofile = proc[q].ofile /\ proc'[q].pid = proc[q].pid
         /\ proc[p].closing # {}
<1>0. proc \in [Pids -> Slots] /\ file \in [Table -> FileRecs] /\ pipe \in [1..NPIPE -> PipeRecs]
  BY DEF FilesInv, FilesType
<1>1. PICK end \in proc[p].closing : /\ pipe' = [pipe EXCEPT ![end[1]] = Closed(pipe[end[1]], end[2])]
                                     /\ proc' = [proc EXCEPT ![p].closing = proc[p].closing \ {end}]
                                     /\ file' = file
  BY DEF pipeclose
<1>2. proc[p].closing \in SUBSET PipeEnds
  BY <1>0, SlotTypes
<1>3. PICK i \in 1..NPIPE, v \in BOOLEAN : end = <<i, v>> /\ end[1] = i /\ end[2] = v
  BY <1>1, <1>2, SMTT(30) DEF PipeEnds
<1>4. proc[p].closing \ {end} \in SUBSET PipeEnds
  BY <1>2
<1>5. /\ proc' \in [Pids -> Slots] /\ proc'[p].closing = proc[p].closing \ {end}
      /\ \A q \in Pids : /\ proc'[q].state = proc[q].state /\ proc'[q].parent = proc[q].parent
                         /\ proc'[q].script = proc[q].script
                         /\ proc'[q].ofile = proc[q].ofile /\ proc'[q].pid = proc[q].pid
      /\ \A q \in Pids : q # p => proc'[q] = proc[q]
  <2>1. ClosingSet(proc, p, proc[p].closing \ {end}, proc')
    BY <1>0, <1>1, <1>4 DEF ClosingSet
  <2>2. ClosingFacts(proc, p, proc[p].closing \ {end}, proc')
    BY <2>1, SetClosing
  <2> QED
    BY <2>2 DEF ClosingFacts
<1>6. /\ pipe' \in [1..NPIPE -> PipeRecs] /\ \A j \in 1..NPIPE : j # i => pipe'[j] = pipe[j]
      /\ ~EndInUse(i, v)' /\ \A w \in BOOLEAN : w # v => (EndInUse(i, w)' <=> EndInUse(i, w))
  <2> DEFINE R == Closed(pipe[i], v)
  <2>1. /\ R \in PipeRecs /\ (IF v THEN ~R.writeopen /\ R.readopen = pipe[i].readopen
                                   ELSE ~R.readopen /\ R.writeopen = pipe[i].writeopen)
    <3>1. pipe[i] \in PipeRecs
      BY <1>0
    <3>2. CASE v = TRUE
      BY <3>1, <3>2 DEF Closed, PipeRecs
    <3>3. CASE v = FALSE
      BY <3>1, <3>3 DEF Closed, PipeRecs
    <3>4. v = TRUE \/ v = FALSE
      OBVIOUS
    <3> QED
      BY <3>2, <3>3, <3>4
  <2> HIDE DEF R
  <2>2. pipe' = [pipe EXCEPT ![i] = R]
    BY <1>1, <1>3 DEF R
  <2>3. pipe' \in [1..NPIPE -> PipeRecs] /\ pipe'[i] = R /\ \A j \in 1..NPIPE : j # i => pipe'[j] = pipe[j]
    BY <1>0, <2>1, <2>2
  <2>4. CASE v = TRUE
    BY <2>1, <2>3, <2>4 DEF EndInUse
  <2>5. CASE v = FALSE
    BY <2>1, <2>3, <2>5 DEF EndInUse
  <2>6. v = TRUE \/ v = FALSE
    OBVIOUS
  <2> QED
    BY <2>3, <2>4, <2>5, <2>6
<1>7. FilesType'
  BY <1>0, <1>1, <1>5, <1>6 DEF FilesType
<1>8. file' = file
  BY <1>1
<1>c. <<i, v>> \in proc[p].closing /\ proc'[p].closing = proc[p].closing \ {<<i, v>>}
      /\ \A q \in Pids : q # p => proc'[q].closing = proc[q].closing
  BY <1>1, <1>3, <1>5
<1>9. Ended'
  <2>1. \A q \in Pids : proc'[q].closing = {} \/ q = p \/ proc'[q].closing = proc[q].closing
    BY <1>c
  <2>2. proc[p].closing # {}
    BY <1>c
  <2>3. proc[p].state = "RUNNING"
    BY <2>2 DEF FilesInv, Ended
  <2> QED
    BY <1>5, <1>c, <2>3 DEF FilesInv, Ended
<1>10. AllCounted'
  <2>1. AllCounted
    BY CountedIs DEF FilesInv
  <2>2. Descriptors' = Descriptors
    BY <1>5 DEF Descriptors
  <2> QED
    BY <1>8, <2>1, <2>2 DEF AllCounted
<1>11. \A f \in Table : (OpenEnd(f)' <=> OpenEnd(f)) /\ EndOf(f)' = EndOf(f) /\ file'[f].pipe = file[f].pipe
  BY <1>8 DEF OpenEnd, EndOf
<1>12. \A q \in Pids : proc'[q].closing \subseteq proc[q].closing
  BY <1>c
<1>0a. OneOwner /\ EndsAgree
  BY EndsOpenIs DEF FilesInv
<1>13. OneOwner'
  <2>1. \A f \in Table : OpenEnd(f)' => (file[f].pipe \in 1..NPIPE)'
    BY <1>0a, <1>11 DEF OneOwner
  <2>2. \A f, g \in Table : OpenEnd(f)' /\ OpenEnd(g)' /\ EndOf(f)' = EndOf(g)' => f = g
    BY <1>0a, <1>11 DEF OneOwner
  <2>3. \A f \in Table, q \in Pids : OpenEnd(f)' => EndOf(f)' \notin proc'[q].closing
    <3> TAKE f \in Table, q \in Pids
    <3>1. OpenEnd(f) => EndOf(f) \notin proc[q].closing
      BY <1>0a DEF OneOwner
    <3> QED
      BY <1>11, <1>12, <3>1
  <2>4. \A q, r \in Pids : proc'[q].closing \cap proc'[r].closing # {} => q = r
    <3>1. \A q, r \in Pids : proc[q].closing \cap proc[r].closing # {} => q = r
      BY <1>0a DEF OneOwner
    <3> QED
      BY <1>12, <3>1
  <2> QED
    BY <2>1, <2>2, <2>3, <2>4 DEF OneOwner
<1>14. ~Held(i, v)'
  <2>1. \A f \in Table : ~(OpenEnd(f)' /\ EndOf(f)' = <<i, v>>)
    <3> TAKE f \in Table
    <3>1. OpenEnd(f) => EndOf(f) \notin proc[p].closing
      BY <1>0a DEF OneOwner
    <3> QED
      BY <1>11, <1>c, <3>1
  <2>2. \A q \in Pids : <<i, v>> \notin proc'[q].closing
    <3> TAKE q \in Pids
    <3>1. CASE q = p
      BY <1>c, <3>1
    <3>2. CASE q # p
      <4>1. proc[q].closing \cap proc[p].closing # {} => q = p
        BY <1>0a DEF OneOwner
      <4> QED
        BY <1>c, <3>2, <4>1
    <3> QED
      BY <3>1, <3>2
  <2> QED
    BY <2>1, <2>2 DEF Held
<1>15. ASSUME NEW k \in 1..NPIPE, NEW w \in BOOLEAN, ~(k = i /\ w = v)
       PROVE  (EndInUse(k, w)' <=> EndInUse(k, w)) /\ (Held(k, w)' <=> Held(k, w))
  <2>1. EndInUse(k, w)' <=> EndInUse(k, w)
    <3>1. CASE k = i
      BY <1>6, <1>15, <3>1
    <3>2. CASE k # i
      BY <1>6, <3>2 DEF EndInUse
    <3> QED
      BY <3>1, <3>2
  <2>2. <<k, w>> # <<i, v>>
    BY <1>15, SamePair
  <2>3. \A q \in Pids : <<k, w>> \in proc'[q].closing <=> <<k, w>> \in proc[q].closing
    BY <1>c, <2>2
  <2> QED
    BY <1>11, <2>1, <2>3 DEF Held
<1>16. EndsAgree'
  <2> SUFFICES ASSUME NEW k \in 1..NPIPE, NEW w \in BOOLEAN PROVE EndInUse(k, w)' <=> Held(k, w)'
    BY DEF EndsAgree
  <2>1. CASE k = i /\ w = v
    BY <1>6, <1>14, <2>1
  <2>2. CASE ~(k = i /\ w = v)
    BY <1>0a, <1>15, <2>2 DEF EndsAgree
  <2> QED
    BY <2>1, <2>2
<1>17. EndsOpen' <=> EndsAgree'
  BY EndsOpenIs, PTL
<1>18. FilesInv'
  BY <1>7, <1>9, <1>10, <1>13, <1>16, <1>17, CountedNext DEF FilesInv
<1> QED
  BY <1>5, <1>18, <1>c

\* A process has finitely many descriptors.
LEMMA FdsFinite == IsFiniteSet(Fds)
  BY Sizes, FS_Interval, SMTT(30) DEF Fds

\* fork: the child's descriptors are counted too, and it closes nothing.
LEMMA StepFork ==
  ASSUME FilesInv, NEW p, NEW n, NEW s, NEW child, Forked(proc, p, n, s, child, proc'),
         proc[p].state = "RUNNING", proc[n].state = "UNUSED", proc[p].closing = {},
         file' = [f \in Table |-> [file[f] EXCEPT !.ref = file[f].ref + Shared(p, f)]], pipe' = pipe
  PROVE  FilesInv'
<1>0. proc \in [Pids -> Slots] /\ file \in [Table -> FileRecs] /\ pipe \in [1..NPIPE -> PipeRecs]
  BY DEF FilesInv, FilesType
<1>1. p \in Pids /\ n \in Pids /\ n # p
  BY DEF Forked
<1>2. /\ proc' \in [Pids -> Slots] /\ proc'[p].ofile = proc[p].ofile /\ proc'[p].closing = proc[p].closing
      /\ proc'[p].state = proc[p].state
      /\ proc'[n].ofile = proc[p].ofile /\ proc'[n].closing = proc[p].closing /\ proc'[n].state = proc[p].state
      /\ \A q \in Pids : q # p /\ q # n => proc'[q] = proc[q]
  <2>1. ForkedFacts(proc, p, n, s, child, proc')
    BY SetForked
  <2> QED
    BY <2>1 DEF ForkedFacts
<1>3. proc[n].ofile = [fd \in Fds |-> 0] /\ proc[n].closing = {}
  BY <1>1 DEF FilesInv, Ended
<1>4. \A f \in Table : Shared(p, f) \in Nat
  <2> TAKE f \in Table
  <2>1. IsFiniteSet(Fds)
    BY FdsFinite
  <2>2. {fd \in Fds : proc[p].ofile[fd] = f} \subseteq Fds
    OBVIOUS
  <2> QED
    BY <2>1, <2>2, FS_Subset, FS_CardinalityType DEF Shared
<1>5. \A f \in Table : /\ file'[f] \in FileRecs /\ file'[f].ref = file[f].ref + Shared(p, f)
                       /\ file'[f].type = file[f].type /\ file'[f].pipe = file[f].pipe
                       /\ file'[f].writable = file[f].writable
  <2> TAKE f \in Table
  <2>1. file[f] \in FileRecs
    BY <1>0
  <2>2. PICK m \in Nat : m = file[f].ref + Shared(p, f)
    BY <1>4, <2>1, FileTypes, SMTT(30)
  <2>3. file'[f] = [file[f] EXCEPT !.ref = m]
    BY <2>2
  <2>4. file[f] \in FileRecs => LET r == [file[f] EXCEPT !.ref = m] IN
          /\ r \in FileRecs /\ r.ref = m /\ r.type = file[f].type /\ r.pipe = file[f].pipe /\ r.writable = file[f].writable
    BY DEF FileRecs
  <2> QED
    BY <2>1, <2>2, <2>3, <2>4
<1>6. FilesType'
  <2>1. file' \in [Table -> FileRecs]
    BY <1>5
  <2> QED
    BY <1>0, <1>2, <2>1 DEF FilesType
<1>7. Ended'
  BY <1>1, <1>2 DEF FilesInv, Ended
<1>8. SameEnds
  <2>1. \A q \in Pids : proc'[q].closing = proc[q].closing
    BY <1>1, <1>2, <1>3
  <2>2. \A f \in Table : file'[f].ref > 0 <=> file[f].ref > 0
    <3> TAKE f \in Table
    <3>1. file[f].ref \in Nat
      BY <1>0, FileTypes
    <3>2. Shared(p, f) # 0 => file[f].ref > 0
      <4> HAVE Shared(p, f) # 0
      <4>1. {fd \in Fds : proc[p].ofile[fd] = f} # {}
        BY FS_EmptySet DEF Shared
      <4>2. PICK fd \in Fds : proc[p].ofile[fd] = f
        BY <4>1
      <4>3. f # 0
        BY SMTT(30) DEF Table
      <4> QED
        BY <1>1, <4>2, <4>3, InUse
    <3>3. file'[f].ref = file[f].ref + Shared(p, f) /\ Shared(p, f) \in Nat
      BY <1>4, <1>5
    <3> QED
      BY <3>1, <3>2, <3>3, SMTT(30)
  <2> QED
    BY <1>5, <2>1, <2>2 DEF SameEnds, OpenEnd
<1>9. AllCounted'
  <2>1. Descriptors \in Owned /\ AllCounted
    BY CountedIs DEF FilesInv
  <2>2. Descriptors' = [Descriptors EXCEPT ![n] = Descriptors[p]]
    BY <1>1, <1>2 DEF Descriptors
  <2>3. Descriptors[p] = proc[p].ofile /\ \A fd \in Fds : Descriptors[n][fd] = 0
    BY <1>1, <1>3 DEF Descriptors
  <2>4. FdsCopied(Descriptors, p, n, Descriptors')
    BY <1>1, <2>1, <2>2, <2>3 DEF FdsCopied
  <2>5. 1 \in Table
    BY Sizes, SMTT(30) DEF Table
  <2>6. Descriptors' \in Owned
    BY <2>4, <2>5, CountFork
  <2>7. ASSUME NEW g \in Table PROVE file'[g].ref = Cardinality(RefSet(Descriptors', g))
    <3>1. Cardinality(RefSet(Descriptors', g))
             = Cardinality(RefSet(Descriptors, g)) + Cardinality({fd \in Fds : Descriptors[p][fd] = g})
      BY <2>4, CountFork, SMTT(30)
    <3>2. Cardinality({fd \in Fds : Descriptors[p][fd] = g}) = Shared(p, g)
      BY <2>3 DEF Shared
    <3>3. file[g].ref = Cardinality(RefSet(Descriptors, g))
      BY <2>1 DEF AllCounted, Counted
    <3>4. file'[g].ref = file[g].ref + Shared(p, g)
      BY <1>5
    <3> QED
      BY <3>1, <3>2, <3>3, <3>4
  <2> QED
    BY <2>6, <2>7 DEF AllCounted, Counted
<1> QED
  BY <1>6, <1>7, <1>8, <1>9, EndsKept, CountedNext DEF FilesInv

----
\* exit's last step: a process without descriptors becomes a zombie.
LEMMA StepExit ==
  ASSUME FilesInv, NEW p, ExitedAs(proc, p, Children(p), proc'),
         proc[p].state = "RUNNING", proc[p].closing = {}, FreeFds(p) = Fds, file' = file, pipe' = pipe
  PROVE  FilesInv'
<1>1. p \in Pids /\ proc \in [Pids -> Slots]
  BY DEF ExitedAs
<1>2. /\ proc' \in [Pids -> Slots]
      /\ proc'[p].state = "ZOMBIE" /\ proc'[p].script = <<>> /\ proc'[p].closing = {}
      /\ proc'[p].ofile = [fd \in Fds |-> 0]
      /\ \A q \in Pids : q # p => /\ proc'[q].state = proc[q].state /\ proc'[q].script = proc[q].script
                                  /\ proc'[q].closing = proc[q].closing /\ proc'[q].ofile = proc[q].ofile
  <2>1. ExitedFacts(proc, p, Children(p), proc')
    BY SetExited
  <2> QED
    BY <2>1 DEF ExitedFacts
<1>3. proc[p].ofile = [fd \in Fds |-> 0]
  <2>1. proc[p].ofile \in [Fds -> 0..NFILE]
    BY <1>1, SlotTypes
  <2>2. \A fd \in Fds : proc[p].ofile[fd] = 0
    BY DEF FreeFds
  <2> QED
    BY <2>1, <2>2
<1>4. Quiet
  BY <1>1, <1>2, <1>3 DEF Quiet
<1>5. Ended'
  BY <1>1, <1>2 DEF FilesInv, Ended
<1> QED
  BY <1>2, <1>4, <1>5, QuietKeeps DEF FilesInv

\* wait: the slot of a zombie is free again.
LEMMA StepReap ==
  ASSUME FilesInv, NEW p, NEW q, NEW s, ReapedBy(proc, p, q, s, proc'), proc[q].state = "ZOMBIE",
         proc[p].state = "RUNNING" \/ s = <<>>, file' = file, pipe' = pipe
  PROVE  FilesInv'
<1>1. p \in Pids /\ q \in Pids /\ q # p
  BY DEF ReapedBy
<1>2. /\ proc' \in [Pids -> Slots] /\ proc'[p].script = s /\ ScriptOnly(proc'[p], proc[p]) /\ proc'[q] = Unused
      /\ \A r \in Pids : r # p /\ r # q => proc'[r] = proc[r]
  <2>1. ReapedFacts(proc, p, q, s, proc')
    BY SetReaped
  <2> QED
    BY <2>1 DEF ReapedFacts
<1>3. proc[q].ofile = [fd \in Fds |-> 0] /\ proc[q].closing = {}
  BY <1>1 DEF FilesInv, Ended
<1>4. proc'[q].ofile = [fd \in Fds |-> 0] /\ proc'[q].closing = {} /\ proc'[q].script = <<>>
  BY <1>2, UnusedSlot
<1>5. Quiet
  BY <1>1, <1>2, <1>3, <1>4 DEF Quiet, ScriptOnly
<1>6. Ended'
  <2> SUFFICES ASSUME NEW r \in Pids, proc'[r].state # "RUNNING"
               PROVE  proc'[r].ofile = [fd \in Fds |-> 0] /\ proc'[r].closing = {} /\ proc'[r].script = <<>>
    BY DEF Ended
  <2>1. CASE r = q
    BY <1>4, <2>1
  <2>2. CASE r = p
    <3>1. proc[p].state # "RUNNING" /\ s = <<>>
      BY <1>2, <2>2 DEF ScriptOnly
    <3> QED
      BY <1>1, <1>2, <2>2, <3>1 DEF FilesInv, Ended, ScriptOnly
  <2>3. CASE r # q /\ r # p
    BY <1>2, <2>3 DEF FilesInv, Ended
  <2> QED
    BY <2>1, <2>2, <2>3
<1> QED
  BY <1>2, <1>5, <1>6, QuietKeeps DEF FilesInv

----
\* What a process that is not init does next, by the kind of its call.
LEMMA CommandCalls ==
  ASSUME NEW a \in CommandOps
  PROVE  /\ a.call \in {"close", "dup", "run", "fork", "open", "pipe", "wait", "program", "exit"}
         /\ a.call \in {"close", "dup"} => a.fd \in {0, 1, P0, P1}
         /\ a.call = "fork" => a.child \in Seq(ChildOps)
         /\ a.call = "open" => a.must
<1>1. \A x \in ChildOps : \/ x.call \in {"close", "dup"} /\ x.fd \in {0, 1, P0, P1}
                          \/ x.call = "run"
  BY DEF ChildOps
<1>2. \/ a \in ChildOps
      \/ a.call = "fork" /\ a.child \in Seq(ChildOps)
      \/ a.call = "open" /\ a.must
      \/ a.call \in {"pipe", "wait", "program", "exit"}
  BY DEF CommandOps
<1> QED
  BY <1>1, <1>2, SMTT(30)

\* The first call of a script, and the others.
LEMMA HeadOne == \A a, s : s = <<a>> => Head(s) = a /\ Tail(s) = <<>>
  BY SMTT(30)

\* The same for two calls.
LEMMA HeadTwo == \A a, b, s : s = <<a, b>> => Head(s) = a /\ Tail(s) = <<b>>
  BY SMTT(30)

\* The same for three calls.
LEMMA HeadThree == \A a, b, d, s : s = <<a, b, d>> => Head(s) = a /\ Tail(s) = <<b, d>>
  BY SMTT(30)

\* Either the script is one of a command, or it is the shell's own.
CallOk(a, t, o) ==
    \/ a \in CommandOps /\ t \in Seq(CommandOps)
    \/ a = Open(FALSE) /\ t = <<Close(3), Call("prompt")>> /\ o = Standard
    \/ a = Close(3) /\ t = <<Call("prompt")>> /\ \A fd \in Fds \ {3} : o[fd] = Standard[fd]
    \/ a = Call("prompt") /\ o = Standard
    \/ a = Call("wait") /\ t = <<Call("prompt")>> /\ o = Standard
    \/ (\E cmd \in Commands : a = Fork(<<Run(cmd)>>)) /\ t = <<Call("wait"), Call("prompt")>> /\ o = Standard

\* The next call and the rest of such a script.
LEMMA ShellCalls ==
  ASSUME NEW s, NEW o, ShellOk(s, o), s # <<>>
  PROVE  CallOk(Head(s), Tail(s), o)
<1>1. CASE s \in Seq(CommandOps)
  BY <1>1, HeadAndTail DEF CallOk
<1>2. CASE s = main /\ o = Standard
  <2>1. Head(s) = Open(FALSE) /\ Tail(s) = <<Close(3), Call("prompt")>>
    BY <1>2, HeadThree, SMTT(30) DEF main
  <2> QED
    BY <1>2, <2>1 DEF CallOk
<1>3. CASE s = <<Close(3), Call("prompt")>> /\ \A fd \in Fds \ {3} : o[fd] = Standard[fd]
  <2>1. Head(s) = Close(3) /\ Tail(s) = <<Call("prompt")>>
    BY <1>3, HeadTwo, SMTT(30)
  <2> QED
    BY <1>3, <2>1 DEF CallOk
<1>4. CASE s = <<Call("prompt")>> /\ o = Standard
  BY <1>4, HeadOne DEF CallOk
<1>5. CASE s = <<Call("wait"), Call("prompt")>> /\ o = Standard
  <2>1. Head(s) = Call("wait") /\ Tail(s) = <<Call("prompt")>>
    BY <1>5, HeadTwo, SMTT(30)
  <2> QED
    BY <1>5, <2>1 DEF CallOk
<1>6. CASE (\E cmd \in Commands : s = <<Fork(<<Run(cmd)>>), Call("wait"), Call("prompt")>>) /\ o = Standard
  <2>1. PICK cmd \in Commands : s = <<Fork(<<Run(cmd)>>), Call("wait"), Call("prompt")>>
    BY <1>6
  <2>2. Head(s) = Fork(<<Run(cmd)>>) /\ Tail(s) = <<Call("wait"), Call("prompt")>>
    BY <2>1, HeadThree, SMTT(30)
  <2> QED
    BY <1>6, <2>2 DEF CallOk
<1> QED
  BY <1>1, <1>2, <1>3, <1>4, <1>5, <1>6 DEF ShellOk, Prompting

\* The call each of these makes
LEMMA CallNames ==
  /\ Open(FALSE).call = "open" /\ ~Open(FALSE).must /\ Close(3).call = "close" /\ Close(3).fd = 3
  /\ Call("prompt").call = "prompt" /\ Call("wait").call = "wait" /\ Call("init").call = "init"
  /\ Head(Exit).call = "exit" /\ Tail(Exit) = <<>>
  /\ \A child : Fork(child).call = "fork" /\ Fork(child).child = child
  BY SMTT(30) DEF Open, Close, Call, Fork, Exit

\* What is known of the rest of the script, by the call.
LEMMA CallKinds ==
  ASSUME NEW a, NEW t, NEW o, CallOk(a, t, o)
  PROVE  /\ a.call \in {"dup", "run", "program", "pipe", "exit"} => t \in Seq(CommandOps)
         /\ a.call = "open" => \/ t \in Seq(CommandOps) /\ a.must
                               \/ ~a.must /\ t = <<Close(3), Call("prompt")>> /\ o = Standard
         /\ a.call = "close" => \/ t \in Seq(CommandOps)
                                \/ a.fd = 3 /\ t = <<Call("prompt")>> /\ \A fd \in Fds \ {3} : o[fd] = Standard[fd]
         /\ a.call = "fork" => /\ a.child \in Seq(ChildOps)
                               /\ \/ t \in Seq(CommandOps)
                                  \/ t = <<Call("wait"), Call("prompt")>> /\ o = Standard
         /\ a.call = "wait" => t \in Seq(CommandOps) \/ (t = <<Call("prompt")>> /\ o = Standard)
         /\ a.call = "prompt" => o = Standard
         /\ a.call # "init"
<1>1. CASE a \in CommandOps /\ t \in Seq(CommandOps)
  BY <1>1, CommandCalls, SMTT(30)
<1>2. CASE a = Open(FALSE) /\ t = <<Close(3), Call("prompt")>> /\ o = Standard
  <2>1. a.call = "open" /\ ~a.must
    BY <1>2, CallNames
  <2>2. a.call \notin {"dup", "run", "program", "pipe", "exit", "close", "fork", "wait", "prompt", "init"}
    BY <2>1, SMTT(30)
  <2> QED
    BY <1>2, <2>1, <2>2
<1>3. CASE a = Close(3) /\ t = <<Call("prompt")>> /\ \A fd \in Fds \ {3} : o[fd] = Standard[fd]
  <2>1. a.call = "close" /\ a.fd = 3
    BY <1>3, CallNames, SMTT(30)
  <2> QED
    BY <1>3, <2>1, SMTT(30)
<1>4. CASE a = Call("prompt") /\ o = Standard
  <2>1. a.call = "prompt"
    BY <1>4, CallNames, SMTT(30)
  <2> QED
    BY <1>4, <2>1, SMTT(30)
<1>5. CASE a = Call("wait") /\ t = <<Call("prompt")>> /\ o = Standard
  <2>1. a.call = "wait"
    BY <1>5, CallNames, SMTT(30)
  <2> QED
    BY <1>5, <2>1, SMTT(30)
<1>6. CASE (\E cmd \in Commands : a = Fork(<<Run(cmd)>>)) /\ t = <<Call("wait"), Call("prompt")>> /\ o = Standard
  <2>1. PICK cmd \in Commands : a = Fork(<<Run(cmd)>>)
    BY <1>6
  <2>2. a.call = "fork" /\ a.child = <<Run(cmd)>>
    BY <2>1, CallNames, SMTT(30)
  <2>3. <<Run(cmd)>> \in Seq(ChildOps)
    BY CallsIn, SMTT(30)
  <2> QED
    BY <1>6, <2>2, <2>3, SMTT(30)
<1> QED
  BY <1>1, <1>2, <1>3, <1>4, <1>5, <1>6 DEF CallOk

----
\* What InitInv and ShellInv say of a slot
SameSlot(r, t) == /\ r.state = t.state /\ r.parent = t.parent /\ r.script = t.script
                  /\ r.ofile = t.ofile /\ r.pid = t.pid

\* The processes outside X are as they were, and those in X are as they should be.
Kept(X) ==
    /\ \A q \in Pids : q \notin X => SameSlot(proc'[q], proc[q])
    /\ \A q \in Pids : q \in X /\ q # 1 => ShellOk(proc'[q].script, proc'[q].ofile)
    /\ 1 \in X => InitOk(proc'[1])

\* Then init is still init, and the others are shells or run commands.
LEMMA KeepInv ==
  ASSUME InitInv, ShellInv, NEW X, Kept(X)
  PROVE  InitInv' /\ ShellInv'
<1>1. 1 \in Pids
  BY Sizes, SMTT(30) DEF Pids
<1>2. InitInv'
  <2>1. CASE 1 \in X
    BY <2>1 DEF Kept, InitInv
  <2>2. CASE 1 \notin X
    <3>1. SameSlot(proc'[1], proc[1])
      BY <1>1, <2>2 DEF Kept
    <3> QED
      BY <3>1 DEF InitInv, InitOk, SameSlot
  <2> QED
    BY <2>1, <2>2
<1>3. ShellInv'
  <2> SUFFICES ASSUME NEW q \in Pids, q # 1 PROVE ShellOk(proc'[q].script, proc'[q].ofile)
    BY DEF ShellInv
  <2>1. CASE q \in X
    BY <2>1 DEF Kept
  <2>2. CASE q \notin X
    <3>1. proc'[q].script = proc[q].script /\ proc'[q].ofile = proc[q].ofile
      BY <2>2 DEF Kept, SameSlot
    <3>2. ShellOk(proc[q].script, proc[q].ofile)
      BY DEF ShellInv
    <3> QED
      BY <3>1, <3>2
  <2> QED
    BY <2>1, <2>2
<1> QED
  BY <1>2, <1>3

\* A process that makes a call.
LEMMA Caller ==
  ASSUME SInv, NEW p \in Pids, NEW c, Does(p, c)
  PROVE  /\ proc[p] \in Slots /\ proc[p].state = "RUNNING" /\ proc[p].closing = {}
         /\ Arg(p) \in Ops /\ Rest(p) \in Seq(Ops) /\ Arg(p).call = c
         /\ p # 1 => CallOk(Arg(p), Rest(p), proc[p].ofile)
         /\ p = 1 => \/ c = "init" /\ Rest(p) = <<>> /\ proc[p].parent = 0 /\ proc[p].ofile = Standard
                     \/ c = "exit" /\ proc[p].script = Exit /\ proc[p].parent = 0 /\ \A fd \in Fds : proc[p].ofile[fd] \in {0, 1}
<1>1. /\ proc[p].state = "RUNNING" /\ proc[p].closing = {} /\ proc[p].script # <<>>
      /\ Head(proc[p].script).call = c
  BY DEF Does
<1>2. FilesType /\ proc[p] \in Slots
  BY DEF SInv, FilesInv, FilesType
<1>3. Arg(p) \in Ops /\ Rest(p) \in Seq(Ops)
  BY <1>1, <1>2, ScriptFacts
<1>4. p # 1 => CallOk(Arg(p), Rest(p), proc[p].ofile)
  <2> HAVE p # 1
  <2>1. ShellOk(proc[p].script, proc[p].ofile)
    BY DEF SInv, ShellInv
  <2> QED
    BY <1>1, <2>1, ShellCalls DEF Arg, Rest
<1>5. ASSUME p = 1
      PROVE  \/ c = "init" /\ Rest(p) = <<>> /\ proc[p].parent = 0 /\ proc[p].ofile = Standard
             \/ c = "exit" /\ proc[p].script = Exit /\ proc[p].parent = 0 /\ \A fd \in Fds : proc[p].ofile[fd] \in {0, 1}
  <2>1. InitOk(proc[p])
    BY <1>5 DEF SInv, InitInv
  <2>2. CASE proc[p].script = <<Call("init")>> /\ proc[p].ofile = Standard
    <3>1. Head(proc[p].script) = Call("init") /\ Tail(proc[p].script) = <<>>
      BY <2>2, HeadOne
    <3> QED
      BY <1>1, <2>1, <2>2, <3>1, CallNames DEF Rest, InitOk
  <2>3. CASE proc[p].script = Exit /\ \A fd \in Fds : proc[p].ofile[fd] \in {0, 1}
    BY <1>1, <2>1, <2>3, CallNames DEF InitOk
  <2> QED
    BY <1>1, <2>1, <2>2, <2>3 DEF InitOk
<1> QED
  BY <1>1, <1>2, <1>3, <1>4, <1>5 DEF Arg

\* The argument of close and dup is a descriptor.
LEMMA FdOfType ==
  ASSUME NEW p, proc[p] \in Slots, NEW x \in {0, 1, 3, P0, P1}
  PROVE  FdOf(p, x) \in Fds /\ (x = 3 => FdOf(p, x) = 3)
<1>1. proc[p].p \in Fds \X Fds
  BY SlotTypes
<1>2. proc[p].p[1] \in Fds /\ proc[p].p[2] \in Fds
  BY <1>1, SMTT(30)
<1>3. 0 \in Fds /\ 1 \in Fds /\ 3 \in Fds
  BY Sizes, SMTT(30) DEF Fds
<1>4. CASE x = P0
  BY <1>2, <1>4, SMTT(30) DEF FdOf, P0, P1
<1>5. CASE x = P1
  BY <1>2, <1>5, SMTT(30) DEF FdOf, P0, P1
<1>6. CASE x \in {0, 1, 3}
  BY <1>3, <1>6, SMTT(30) DEF FdOf, P0, P1
<1> QED
  BY <1>4, <1>5, <1>6, SMTT(30)

\* A step of a process that is not init and changes its script only.
LEMMA ScriptKeeps ==
  ASSUME SInv, NEW p \in Pids, NEW s, p # 1, proc[p].state = "RUNNING", s \in Seq(Ops), ShellOk(s, proc[p].ofile),
         proc' = [proc EXCEPT ![p].script = s], file' = file, pipe' = pipe
  PROVE  SInv'
<1>1. ScriptSet(proc, p, s, proc')
  BY DEF ScriptSet, SInv, FilesInv, FilesType
<1>2. FilesInv'
  BY <1>1, StepScript DEF SInv
<1>3. /\ proc'[p].script = s
      /\ \A q \in Pids : ScriptOnly(proc'[q], proc[q]) /\ (q # p => proc'[q] = proc[q])
  <2>1. ScriptSetFacts(proc, p, s, proc')
    BY <1>1, SetScript
  <2> QED
    BY <2>1 DEF ScriptSetFacts
<1>4. InitInv' /\ ShellInv'
  <2>1. \A q \in Pids : q \notin {p} => SameSlot(proc'[q], proc[q])
    BY <1>3 DEF SameSlot
  <2>2. ShellOk(proc'[p].script, proc'[p].ofile)
    BY <1>3 DEF ScriptOnly
  <2> QED
    <3>1. Kept({p})
      BY <2>1, <2>2 DEF Kept
    <3> QED
      BY <3>1, KeepInv DEF SInv
<1> QED
  BY <1>2, <1>4 DEF SInv

\* Commands' scripts
LEMMA CommandScript ==
  ASSUME NEW s, NEW o, s \in Seq(CommandOps)
  PROVE  ShellOk(s, o) /\ s \in Seq(Ops)
  BY OpsIn, SeqMono DEF ShellOk

\* dup and open keep the invariant where the script and descriptors fit.
LEMMA MoreKeeps ==
  ASSUME SInv, NEW p, NEW s, NEW fd, NEW f, p # 1, FdSet(proc, p, s, fd, f, proc'), OneMore(p, fd, f),
         ShellOk(s, [proc[p].ofile EXCEPT ![fd] = f])
  PROVE  SInv'
<1>1. FilesInv'
  BY StepMore DEF SInv
<1>2. FdSetFacts(proc, p, s, fd, f, proc')
  BY SetFd
<1>3. \A q \in Pids : q \notin {p} => SameSlot(proc'[q], proc[q])
  BY <1>2 DEF FdSetFacts, SameSlot
<1>4. ShellOk(proc'[p].script, proc'[p].ofile)
  BY <1>2 DEF FdSetFacts
<1>5. Kept({p})
  BY <1>3, <1>4 DEF Kept
<1> QED
  BY <1>1, <1>5, KeepInv DEF SInv

\* The shell itself exits only after its script has been replaced.
LEMMA ExitScript ==
  ASSUME NEW s, NEW o, ShellOk(s, o), s # <<>>, Head(s).call = "exit"
  PROVE  s \in Seq(CommandOps)
<1>1. CASE s = main
  <2>1. Head(s) = Open(FALSE)
    BY <1>1, HeadThree, SMTT(30) DEF main
  <2> QED
    BY <2>1, CallNames
<1>2. CASE s = <<Close(3), Call("prompt")>>
  <2>1. Head(s) = Close(3)
    BY <1>2, HeadTwo, SMTT(30)
  <2> QED
    BY <2>1, CallNames, SMTT(30)
<1>3. CASE s = <<Call("prompt")>>
  <2>1. Head(s) = Call("prompt")
    BY <1>3, HeadOne, SMTT(30)
  <2> QED
    BY <2>1, CallNames, SMTT(30)
<1>4. CASE s = <<Call("wait"), Call("prompt")>>
  <2>1. Head(s) = Call("wait")
    BY <1>4, HeadTwo, SMTT(30)
  <2> QED
    BY <2>1, CallNames, SMTT(30)
<1>5. CASE \E cmd \in Commands : s = <<Fork(<<Run(cmd)>>), Call("wait"), Call("prompt")>>
  <2>1. PICK cmd \in Commands : s = <<Fork(<<Run(cmd)>>), Call("wait"), Call("prompt")>>
    BY <1>5
  <2>2. Head(s) = Fork(<<Run(cmd)>>)
    BY <2>1, HeadThree, SMTT(30)
  <2> QED
    BY <2>2, CallNames, SMTT(30)
<1> QED
  BY <1>1, <1>2, <1>3, <1>4, <1>5 DEF ShellOk, Prompting

----
\* The file table is finite.
LEMMA TableFinite == IsFiniteSet(Table)
  BY Sizes, FS_Interval, SMTT(30) DEF Table

\* There are finitely many processes.
LEMMA PidsFinite == IsFiniteSet(Pids)
  BY Sizes, FS_Interval, SMTT(30) DEF Pids

\* A set of two has two members.
LEMMA TwoElements ==
  ASSUME NEW a, NEW b, a # b
  PROVE  IsFiniteSet({a, b}) /\ Cardinality({a, b}) = 2
<1>1. IsFiniteSet({a}) /\ Cardinality({a}) = 1
  BY FS_Singleton
<1>2. {a} \cup {b} = {a, b} /\ b \notin {a}
  OBVIOUS
<1>3. IsFiniteSet({a, b}) /\ Cardinality({a, b}) = 1 + 1
  BY <1>1, <1>2, FS_AddElement
<1> QED
  BY <1>3, SMTT(30)

\* A set of three has three.
LEMMA ThreeElements ==
  ASSUME NEW a, NEW b, NEW d, a # b, a # d, b # d
  PROVE  Cardinality({a, b, d}) = 3
<1>1. IsFiniteSet({a, b}) /\ Cardinality({a, b}) = 2
  BY TwoElements
<1>2. {a, b} \cup {d} = {a, b, d} /\ d \notin {a, b}
  OBVIOUS
<1>3. Cardinality({a, b, d}) = 2 + 1
  BY <1>1, <1>2, FS_AddElement
<1> QED
  BY <1>3, SMTT(30)

\* A subset with as many members is the whole set.
LEMMA SameCard ==
  ASSUME NEW S, NEW T \in SUBSET S, IsFiniteSet(S), Cardinality(S) = 2, Cardinality(T) = 2
  PROVE  S = T
  BY FS_Subset, SMTT(30)

\* Descriptors that are the standard ones one by one are the standard ones.
LEMMA SameFds ==
  ASSUME NEW o \in [Fds -> 0..NFILE], \A d \in Fds : o[d] = Standard[d]
  PROVE  o = Standard
  BY SMTT(30) DEF Standard

\* Descriptors without one of them.
LEMMA FdCleared ==
  ASSUME NEW o \in [Fds -> 0..NFILE], NEW fd
  PROVE  [o EXCEPT ![fd] = 0] \in [Fds -> 0..NFILE]
<1>1. 0 \in 0..NFILE
  BY Sizes, SMTT(30)
<1> QED
  BY <1>1

\* The two lowest members of a set with at least two.
LEMMA TwoLowest ==
  ASSUME NEW S, S \subseteq Nat, IsFiniteSet(S), ~(Cardinality(S) < 2)
  PROVE  Lowest(S) \in S /\ Lowest(S \ {Lowest(S)}) \in S \ {Lowest(S)}
<1>1. S # {}
  <2>1. Cardinality({}) = 0
    BY FS_EmptySet
  <2> QED
    BY <2>1, SMTT(30)
<1>2. Lowest(S) \in S
  BY <1>1, LowestIs
<1>3. S \ {Lowest(S)} # {}
  <2> SUFFICES ASSUME S \ {Lowest(S)} = {} PROVE FALSE
    BY SMTT(30)
  <2>1. S = {Lowest(S)}
    BY <1>2
  <2>2. Cardinality({Lowest(S)}) = 1
    BY FS_Singleton
  <2>3. Cardinality(S) = 1
    BY <2>1, <2>2
  <2> QED
    BY <2>3, SMTT(30)
<1>4. S \ {Lowest(S)} \in SUBSET Nat
  OBVIOUS
<1> QED
  BY <1>2, <1>3, <1>4, LowestIs

\* sys_dup keeps the invariant.
LEMMA DupKeeps ==
  ASSUME SInv, NEW p \in Pids, sys_dup(p)
  PROVE  SInv'
<1>0. Does(p, "dup")
  BY DEF sys_dup
<1>1. /\ proc[p] \in Slots /\ proc[p].state = "RUNNING" /\ Arg(p) \in Ops /\ Rest(p) \in Seq(Ops) /\ Arg(p).call = "dup"
      /\ p # 1 /\ CallOk(Arg(p), Rest(p), proc[p].ofile)
  BY <1>0, Caller, SMTT(30)
<1>2. Rest(p) \in Seq(CommandOps)
  BY <1>1, CallKinds, SMTT(30)
<1>3. \A o : ShellOk(Rest(p), o)
  BY <1>2, CommandScript
<1>4. FdOf(p, Arg(p).fd) \in Fds
  <2>1. Arg(p).fd \in {0, 1, 3, P0, P1}
    BY <1>1, OpArgs, SMTT(30)
  <2> QED
    BY <1>1, <2>1, FdOfType
<1>5. PICK f : f = proc[p].ofile[FdOf(p, Arg(p).fd)]
  OBVIOUS
<1>6. CASE f = 0 \/ FreeFds(p) = {}
  <2>1. proc' = [proc EXCEPT ![p].script = Rest(p)] /\ file' = file /\ pipe' = pipe
    BY <1>5, <1>6 DEF sys_dup
  <2> QED
    BY <1>1, <1>3, <2>1, ScriptKeeps
<1>7. CASE f # 0 /\ FreeFds(p) # {}
  <2>1. PICK fd \in FreeFds(p) : fd = Lowest(FreeFds(p))
    <3>1. FreeFds(p) \subseteq Nat
      BY SMTT(30) DEF FreeFds, Fds
    <3> QED
      BY <1>7, <3>1, LowestIs
  <2>2. fd \in Fds /\ proc[p].ofile[fd] = 0
    BY <2>1 DEF FreeFds
  <2>3. /\ proc' = [proc EXCEPT ![p].script = Rest(p), ![p].ofile[fd] = f]
        /\ file' = [file EXCEPT ![f].ref = @ + 1] /\ pipe' = pipe
    BY <1>5, <1>7, <2>1 DEF sys_dup
  <2>4. f \in Table /\ file[f].ref > 0
    BY <1>4, <1>5, <1>7, InUse DEF SInv
  <2>5. proc \in [Pids -> Slots] /\ file \in [Table -> FileRecs]
    BY DEF SInv, FilesInv, FilesType
  <2>6. f \in 0..NFILE
    BY <2>4, Sizes, SMTT(30) DEF Table
  <2>7. FdSet(proc, p, Rest(p), fd, f, proc')
    BY <1>1, <2>2, <2>3, <2>5, <2>6 DEF FdSet
  <2>8. file[f].ref \in Nat
    BY <2>4, <2>5, FileTypes
  <2>9. PICK m \in Nat : m = file[f].ref + 1
    BY <2>8, SMTT(30)
  <2>10. file' = [file EXCEPT ![f].ref = m]
    BY <2>3, <2>9
  <2>11. /\ file' \in [Table -> FileRecs] /\ file'[f].ref = m
         /\ \A g \in Table : /\ file'[g].type = file[g].type /\ file'[g].pipe = file[g].pipe
                             /\ file'[g].writable = file[g].writable
                             /\ (g # f => file'[g] = file[g])
    <3>1. RefChanged(file, f, m, file')
      BY <2>4, <2>5, <2>10 DEF RefChanged
    <3>2. RefFacts(file, f, m, file')
      BY <3>1, SetRef
    <3> QED
      BY <3>2 DEF RefFacts
  <2>12. OneMore(p, fd, f)
    BY <1>1, <2>2, <2>3, <2>4, <2>9, <2>11 DEF OneMore
  <2> QED
    BY <1>1, <1>3, <2>7, <2>12, MoreKeeps
<1> QED
  BY <1>6, <1>7

\* sys_open keeps it: main's open of the console gives descriptor 3.
LEMMA OpenKeeps ==
  ASSUME SInv, NEW p \in Pids, sys_open(p)
  PROVE  SInv'
<1>0. Does(p, "open")
  BY DEF sys_open
<1>1. /\ proc[p] \in Slots /\ proc[p].state = "RUNNING" /\ Rest(p) \in Seq(Ops) /\ Arg(p).call = "open"
      /\ p # 1 /\ CallOk(Arg(p), Rest(p), proc[p].ofile)
  BY <1>0, Caller, SMTT(30)
<1>2. \/ Rest(p) \in Seq(CommandOps) /\ Arg(p).must
      \/ ~Arg(p).must /\ Rest(p) = <<Close(3), Call("prompt")>> /\ proc[p].ofile = Standard
  BY <1>1, CallKinds, SMTT(30)
<1>3. CASE FreeFds(p) = {} \/ FreeFiles = {}
  <2>1. proc' = [proc EXCEPT ![p].script = IF Arg(p).must THEN Exit ELSE Rest(p)] /\ file' = file /\ pipe' = pipe
    BY <1>3 DEF sys_open
  <2>2. CASE Arg(p).must
    <3>1. Exit \in Seq(Ops) /\ ShellOk(Exit, proc[p].ofile)
      BY ExitIn, CommandScript
    <3>2. proc' = [proc EXCEPT ![p].script = Exit]
      BY <2>1, <2>2
    <3> QED
      BY <1>1, <2>1, <3>1, <3>2, ScriptKeeps
  <2>3. CASE ~Arg(p).must
    <3>1. ShellOk(Rest(p), proc[p].ofile)
      BY <1>2, <2>3 DEF ShellOk
    <3>2. proc' = [proc EXCEPT ![p].script = Rest(p)]
      BY <2>1, <2>3
    <3> QED
      BY <1>1, <2>1, <3>1, <3>2, ScriptKeeps
  <2> QED
    BY <2>2, <2>3
<1>4. CASE FreeFds(p) # {} /\ FreeFiles # {}
  <2>1. PICK fd \in FreeFds(p) : fd = Lowest(FreeFds(p)) /\ \A y \in FreeFds(p) : fd <= y
    <3>1. FreeFds(p) \subseteq Nat
      BY SMTT(30) DEF FreeFds, Fds
    <3> QED
      BY <1>4, <3>1, LowestIs
  <2>a. PICK f \in FreeFiles : f = Lowest(FreeFiles)
    <3>1. FreeFiles \subseteq Nat
      BY SMTT(30) DEF FreeFiles, Table
    <3> QED
      BY <1>4, <3>1, LowestIs
  <2>2. fd \in Fds /\ proc[p].ofile[fd] = 0 /\ f \in Table /\ file[f].ref = 0
    BY <2>1, <2>a DEF FreeFds, FreeFiles
  <2> DEFINE R == [NoFile EXCEPT !.ref = 1, !.type = "inode"]
  <2>3. /\ proc' = [proc EXCEPT ![p].script = Rest(p), ![p].ofile[fd] = f]
        /\ file' = [file EXCEPT ![f] = R] /\ pipe' = pipe
    BY <1>4, <2>1, <2>a DEF sys_open
  <2>4. R \in FileRecs /\ R.ref = 1 /\ R.type = "inode"
    BY NewInode
  <2> HIDE DEF R
  <2>5. proc \in [Pids -> Slots] /\ file \in [Table -> FileRecs]
    BY DEF SInv, FilesInv, FilesType
  <2>6. f \in 0..NFILE
    BY <2>2, Sizes, SMTT(30) DEF Table
  <2>7. FdSet(proc, p, Rest(p), fd, f, proc')
    BY <1>1, <2>2, <2>3, <2>5, <2>6 DEF FdSet
  <2>8. file' \in [Table -> FileRecs] /\ file'[f] = R /\ \A g \in Table : g # f => file'[g] = file[g]
    BY <2>2, <2>3, <2>4, <2>5
  <2>9. 1 = 0 + 1
    BY SMTT(30)
  <2>10. file'[f].ref = file[f].ref + 1
    BY <2>2, <2>4, <2>8, <2>9
  <2>11. OneMore(p, fd, f)
    BY <1>1, <2>2, <2>3, <2>4, <2>8, <2>10 DEF OneMore
  <2>12. ShellOk(Rest(p), [proc[p].ofile EXCEPT ![fd] = f])
    <3>1. CASE Rest(p) \in Seq(CommandOps)
      BY <3>1, CommandScript
    <3>2. CASE Rest(p) = <<Close(3), Call("prompt")>> /\ proc[p].ofile = Standard
      <4>1. 3 \in FreeFds(p) /\ \A y \in FreeFds(p) : 3 <= y
        BY <3>2, Sizes, SMTT(30) DEF FreeFds, Standard, Fds
      <4>2. fd = 3
        <5>1. fd <= 3 /\ 3 <= fd
          BY <2>1, <4>1
        <5>2. fd \in Nat
          BY <2>2, SMTT(30) DEF Fds
        <5> QED
          BY <5>1, <5>2, SMTT(30)
      <4>3. \A d \in Fds \ {3} : [proc[p].ofile EXCEPT ![fd] = f][d] = Standard[d]
        BY <3>2, <4>2 DEF Standard
      <4> QED
        BY <3>2, <4>3 DEF ShellOk
    <3> QED
      BY <1>2, <3>1, <3>2
  <2> QED
    BY <1>1, <2>7, <2>11, <2>12, MoreKeeps
<1> QED
  BY <1>3, <1>4

----
\* sys_pipe keeps it.
LEMMA PipeKeeps ==
  ASSUME SInv, NEW p \in Pids, sys_pipe(p)
  PROVE  SInv'
<1> DEFINE pages == {k \in 1..NPIPE : ~pipe[k].readopen /\ ~pipe[k].writeopen}
<1>0. Does(p, "pipe")
  BY DEF sys_pipe
<1>1. /\ proc[p] \in Slots /\ proc[p].state = "RUNNING" /\ Rest(p) \in Seq(Ops) /\ Arg(p).call = "pipe"
      /\ p # 1 /\ CallOk(Arg(p), Rest(p), proc[p].ofile)
  BY <1>0, Caller, SMTT(30)
<1>2. Rest(p) \in Seq(CommandOps)
  BY <1>1, CallKinds, SMTT(30)
<1>3. CASE Cardinality(FreeFiles) < 2 \/ pages = {} \/ Cardinality(FreeFds(p)) < 2
  <2>1. proc' = [proc EXCEPT ![p].script = Exit] /\ file' = file /\ pipe' = pipe
    BY <1>3 DEF sys_pipe
  <2>2. Exit \in Seq(Ops) /\ ShellOk(Exit, proc[p].ofile)
    BY ExitIn, CommandScript
  <2> QED
    BY <1>1, <2>1, <2>2, ScriptKeeps
<1>4. CASE ~(Cardinality(FreeFiles) < 2 \/ pages = {} \/ Cardinality(FreeFds(p)) < 2)
  <2>1. FreeFiles \subseteq Nat /\ FreeFds(p) \subseteq Nat /\ pages \subseteq Nat
    BY SMTT(30) DEF FreeFiles, FreeFds, Table, Fds
  <2> HIDE DEF pages
  <2>2. /\ Lowest(FreeFiles) \in FreeFiles /\ Lowest(FreeFiles \ {Lowest(FreeFiles)}) \in FreeFiles \ {Lowest(FreeFiles)}
        /\ Lowest(FreeFds(p)) \in FreeFds(p)
        /\ Lowest(FreeFds(p) \ {Lowest(FreeFds(p))}) \in FreeFds(p) \ {Lowest(FreeFds(p))}
    <3>1. IsFiniteSet(FreeFiles) /\ IsFiniteSet(FreeFds(p))
      <4>1. FreeFiles \subseteq Table /\ FreeFds(p) \subseteq Fds
        BY DEF FreeFiles, FreeFds
      <4> QED
        BY <4>1, FdsFinite, TableFinite, FS_Subset
    <3> QED
      BY <1>4, <2>1, <3>1, TwoLowest
  <2>3. Lowest(pages) \in pages
    BY <1>4, <2>1, LowestIs
  <2>4. PICK f0, f1, fd0, fd1, k : /\ f0 = Lowest(FreeFiles) /\ f1 = Lowest(FreeFiles \ {f0})
                                   /\ fd0 = Lowest(FreeFds(p)) /\ fd1 = Lowest(FreeFds(p) \ {fd0}) /\ k = Lowest(pages)
    OBVIOUS
  <2>5. /\ f0 \in Table /\ f1 \in Table /\ f0 # f1 /\ file[f0].ref = 0 /\ file[f1].ref = 0
        /\ fd0 \in Fds /\ fd1 \in Fds /\ fd0 # fd1 /\ proc[p].ofile[fd0] = 0 /\ proc[p].ofile[fd1] = 0
    BY <2>2, <2>4 DEF FreeFiles, FreeFds
  <2>6. k \in 1..NPIPE /\ ~pipe[k].readopen /\ ~pipe[k].writeopen
    BY <2>3, <2>4 DEF pages
  <2>7. /\ pipe' = [pipe EXCEPT ![k] = [readopen |-> TRUE, writeopen |-> TRUE]]
        /\ file' = [file EXCEPT ![f0] = [ref |-> 1, type |-> "pipe", pipe |-> k, writable |-> FALSE],
                                ![f1] = [ref |-> 1, type |-> "pipe", pipe |-> k, writable |-> TRUE]]
        /\ proc' = [proc EXCEPT ![p].script = Rest(p), ![p].p = <<fd0, fd1>>,
                                ![p].ofile[fd0] = f0, ![p].ofile[fd1] = f1]
    BY <1>4, <2>4 DEF sys_pipe, pages
  <2>8. NewPipe(p, fd0, fd1, f0, f1, k)
    BY <1>1, <2>5, <2>6, <2>7 DEF NewPipe
  <2>9. f0 \in 0..NFILE /\ f1 \in 0..NFILE
    BY <2>5, Sizes, SMTT(30) DEF Table
  <2>10. proc \in [Pids -> Slots]
    BY DEF SInv, FilesInv, FilesType
  <2>11. PipeSet(proc, p, Rest(p), fd0, fd1, f0, f1, proc')
    BY <1>1, <2>5, <2>7, <2>9, <2>10 DEF PipeSet
  <2> HIDE <2>7, <2>4
  <2>12. FilesInv'
    BY <2>8, <2>11, StepPipe DEF SInv
  <2>13. PipeSetFacts(proc, p, Rest(p), fd0, fd1, f0, f1, proc')
    BY <2>11, SetPipe
  <2>14. \A q \in Pids : q \notin {p} => SameSlot(proc'[q], proc[q])
    BY <2>13 DEF PipeSetFacts, SameSlot
  <2>15. ShellOk(proc'[p].script, proc'[p].ofile)
    <3>1. proc'[p].script \in Seq(CommandOps)
      BY <1>2, <2>13 DEF PipeSetFacts
    <3> QED
      BY <3>1, CommandScript
  <2>16. Kept({p})
    BY <1>1, <2>14, <2>15 DEF Kept
  <2> QED
    BY <2>12, <2>16, KeepInv DEF SInv
<1> QED
  BY <1>3, <1>4

\* A process closes a descriptor.
LEMMA CloseFd ==
  ASSUME SInv, NEW p \in Pids, NEW fd \in Fds, NEW s \in Seq(Ops), proc[p].state = "RUNNING",
         proc[p].ofile[fd] # 0, proc[p].closing = {}, fileclose(p, fd, s),
         p # 1 => ShellOk(s, [proc[p].ofile EXCEPT ![fd] = 0]),
         p = 1 => s = Exit /\ proc[p].parent = 0 /\ \A d \in Fds : proc[p].ofile[d] \in {0, 1}
  PROVE  SInv'
<1>1. FilesInv' /\ \E C \in SUBSET PipeEnds : FdClosed(proc, p, s, fd, C, proc')
  BY StepClose DEF SInv
<1>2. PICK C : FdClosed(proc, p, s, fd, C, proc')
  BY <1>1
<1>3. FdClosedFacts(proc, p, s, fd, C, proc')
  BY <1>2, SetClosed
<1>4. \A q \in Pids : q \notin {p} => SameSlot(proc'[q], proc[q])
  BY <1>3 DEF FdClosedFacts, SameSlot
<1>5. /\ proc'[p].script = s /\ proc'[p].ofile = [proc[p].ofile EXCEPT ![fd] = 0]
      /\ proc'[p].state = "RUNNING" /\ proc'[p].parent = proc[p].parent
  BY <1>3 DEF FdClosedFacts
<1>6. p # 1 => ShellOk(proc'[p].script, proc'[p].ofile)
  BY <1>5
<1>7. p = 1 => InitOk(proc'[p])
  <2> HAVE p = 1
  <2>1. proc[p].ofile \in [Fds -> 0..NFILE]
    BY SlotTypes DEF SInv, FilesInv, FilesType
  <2>2. \A d \in Fds : proc'[p].ofile[d] \in {0, 1}
    BY <1>5, <2>1
  <2> QED
    BY <1>5, <2>2 DEF InitOk
<1>8. Kept({p})
  BY <1>4, <1>6, <1>7 DEF Kept
<1> QED
  BY <1>1, <1>8, KeepInv DEF SInv

\* sys_close keeps it: main's close leaves the standard descriptors.
LEMMA CloseKeeps ==
  ASSUME SInv, NEW p \in Pids, sys_close(p)
  PROVE  SInv'
<1>0. Does(p, "close")
  BY DEF sys_close
<1>1. /\ proc[p] \in Slots /\ proc[p].state = "RUNNING" /\ proc[p].closing = {} /\ Arg(p) \in Ops
      /\ Rest(p) \in Seq(Ops) /\ Arg(p).call = "close" /\ p # 1 /\ CallOk(Arg(p), Rest(p), proc[p].ofile)
  BY <1>0, Caller, SMTT(30)
<1>2. \/ Rest(p) \in Seq(CommandOps)
      \/ /\ Arg(p).fd = 3 /\ Rest(p) = <<Call("prompt")>>
         /\ \A d \in Fds \ {3} : proc[p].ofile[d] = Standard[d]
  BY <1>1, CallKinds, SMTT(30)
<1>3. PICK fd : fd = FdOf(p, Arg(p).fd)
  OBVIOUS
<1>4. fd \in Fds /\ (Arg(p).fd = 3 => fd = 3)
  <2>1. Arg(p).fd \in {0, 1, 3, P0, P1}
    BY <1>1, OpArgs, SMTT(30)
  <2> QED
    BY <1>1, <1>3, <2>1, FdOfType
<1>5. proc[p].ofile \in [Fds -> 0..NFILE]
  BY <1>1, SlotTypes
<1>6. /\ Standard \in [Fds -> {0, 1}] /\ 3 \in Fds /\ Standard[3] = 0
      /\ <<Call("prompt")>> \in Prompting
  BY Sizes, SMTT(30) DEF Standard, Fds, Prompting
<1>7. CASE fd \in FreeFds(p)
  <2>1. proc' = [proc EXCEPT ![p].script = Rest(p)] /\ file' = file /\ pipe' = pipe
    BY <1>3, <1>7 DEF sys_close
  <2>2. ShellOk(Rest(p), proc[p].ofile)
    <3>1. CASE Rest(p) \in Seq(CommandOps)
      BY <3>1, CommandScript
    <3>2. CASE /\ Arg(p).fd = 3 /\ Rest(p) = <<Call("prompt")>>
               /\ \A d \in Fds \ {3} : proc[p].ofile[d] = Standard[d]
      <4>1. proc[p].ofile[3] = 0
        BY <1>4, <1>7, <3>2 DEF FreeFds
      <4>2. \A d \in Fds : proc[p].ofile[d] = Standard[d]
        BY <1>6, <3>2, <4>1
      <4>3. proc[p].ofile = Standard
        BY <1>5, <4>2, SameFds
      <4> QED
        BY <1>6, <3>2, <4>3 DEF ShellOk
    <3> QED
      BY <1>2, <3>1, <3>2
  <2> QED
    BY <1>1, <2>1, <2>2, ScriptKeeps
<1>8. CASE fd \notin FreeFds(p)
  <2>1. fileclose(p, fd, Rest(p))
    BY <1>3, <1>8 DEF sys_close
  <2>2. proc[p].ofile[fd] # 0
    BY <1>4, <1>8 DEF FreeFds
  <2>3. ShellOk(Rest(p), [proc[p].ofile EXCEPT ![fd] = 0])
    <3>1. CASE Rest(p) \in Seq(CommandOps)
      BY <3>1, CommandScript
    <3>2. CASE /\ Arg(p).fd = 3 /\ Rest(p) = <<Call("prompt")>>
               /\ \A d \in Fds \ {3} : proc[p].ofile[d] = Standard[d]
      <4> DEFINE o == [proc[p].ofile EXCEPT ![fd] = 0]
      <4>1. o \in [Fds -> 0..NFILE]
        BY <1>5, FdCleared
      <4>2. \A d \in Fds : o[d] = Standard[d]
        <5>1. \A d \in Fds : o[d] = IF d = 3 THEN 0 ELSE proc[p].ofile[d]
          BY <1>4, <1>5, <3>2
        <5> HIDE DEF o
        <5> QED
          BY <1>6, <3>2, <5>1
      <4> HIDE DEF o
      <4>3. o = Standard
        BY <4>1, <4>2, SameFds
      <4> QED
        BY <1>6, <3>2, <4>3 DEF ShellOk, o
    <3> QED
      BY <1>2, <3>1, <3>2
  <2> QED
    BY <1>1, <1>4, <2>1, <2>2, <2>3, CloseFd
<1> QED
  BY <1>7, <1>8

----
\* pipeclose keeps it.
LEMMA PipecloseKeeps ==
  ASSUME SInv, NEW p \in Pids, pipeclose(p)
  PROVE  SInv'
<1>1. /\ FilesInv'
      /\ \A q \in Pids : /\ proc'[q].state = proc[q].state /\ proc'[q].parent = proc[q].parent
                         /\ proc'[q].script = proc[q].script
                         /\ proc'[q].ofile = proc[q].ofile /\ proc'[q].pid = proc[q].pid
  BY StepPipeclose DEF SInv
<1>2. Kept({})
  <2>1. \A q \in Pids : SameSlot(proc'[q], proc[q])
    BY <1>1 DEF SameSlot
  <2> QED
    BY <2>1 DEF Kept
<1> QED
  BY <1>1, <1>2, KeepInv DEF SInv

\* fork by a process whose scripts, the child's included, are as they should be.
ForkArgs(p, child, fail) ==
    /\ p \in Pids /\ proc[p].state = "RUNNING" /\ proc[p].closing = {}
    /\ child \in Seq(Ops) /\ fail \in Seq(Ops) /\ Rest(p) \in Seq(Ops)
    /\ ShellOk(child, proc[p].ofile)
    /\ p # 1 => ShellOk(fail, proc[p].ofile) /\ ShellOk(Rest(p), proc[p].ofile)
    /\ p = 1 => proc[p].parent = 0 /\ fail = Exit /\ Rest(p) = <<>> /\ proc[p].ofile = Standard

\* Such a fork keeps the invariant, whether there is a slot or not.
LEMMA ForkKeeps ==
  ASSUME SInv, NEW p, NEW child, NEW fail, ForkArgs(p, child, fail), fork(p, child, fail)
  PROVE  SInv'
<1> DEFINE free == {q \in Pids : proc[q].state = "UNUSED"}
<1>0. /\ p \in Pids /\ proc[p].state = "RUNNING" /\ proc[p].closing = {}
      /\ child \in Seq(Ops) /\ fail \in Seq(Ops) /\ Rest(p) \in Seq(Ops)
      /\ ShellOk(child, proc[p].ofile)
      /\ p # 1 => ShellOk(fail, proc[p].ofile) /\ ShellOk(Rest(p), proc[p].ofile)
      /\ p = 1 => proc[p].parent = 0 /\ fail = Exit /\ Rest(p) = <<>> /\ proc[p].ofile = Standard
  BY DEF ForkArgs
<1>1. proc \in [Pids -> Slots]
  BY DEF SInv, FilesInv, FilesType
<1>s. \A fd \in Fds : Standard[fd] \in {0, 1}
  BY DEF Standard
<1>2. CASE free = {}
  <2>1. proc' = [proc EXCEPT ![p].script = fail] /\ file' = file /\ pipe' = pipe
    BY <1>2 DEF fork
  <2>2. ScriptSet(proc, p, fail, proc')
    BY <1>0, <1>1, <2>1 DEF ScriptSet
  <2>3. FilesInv'
    BY <1>0, <2>1, <2>2, StepScript DEF SInv
  <2>4. ScriptSetFacts(proc, p, fail, proc')
    BY <2>2, SetScript
  <2>5. /\ proc'[p].script = fail /\ proc'[p].ofile = proc[p].ofile /\ proc'[p].state = "RUNNING"
        /\ proc'[p].parent = proc[p].parent
        /\ \A q \in Pids : q \notin {p} => SameSlot(proc'[q], proc[q])
    BY <1>0, <2>4 DEF ScriptSetFacts, ScriptOnly, SameSlot
  <2>6. p # 1 => ShellOk(proc'[p].script, proc'[p].ofile)
    BY <1>0, <2>5
  <2>7. p = 1 => InitOk(proc'[p])
    BY <1>0, <1>s, <2>5 DEF InitOk
  <2>8. Kept({p})
    BY <2>5, <2>6, <2>7 DEF Kept
  <2> QED
    BY <2>3, <2>8, KeepInv DEF SInv
<1>3. CASE free # {}
  <2>1. PICK n : n = Lowest(free) /\ n \in free
    <3>1. free \subseteq Nat
      BY SMTT(30) DEF Pids
    <3> QED
      BY <1>3, <3>1, LowestIs
  <2>2. n \in Pids /\ proc[n].state = "UNUSED"
    BY <2>1
  <2>3. n # p /\ n # 1
    <3>1. InitOk(proc[1])
      BY DEF SInv, InitInv
    <3>2. proc[1].state # "UNUSED" /\ proc[p].state # "UNUSED"
      BY <1>0, <3>1, SMTT(30) DEF InitOk
    <3> QED
      BY <2>2, <3>2
  <2>4. /\ proc' = [proc EXCEPT ![n] = [proc[p] EXCEPT !.parent = p, !.script = child, !.pid = 0],
                                ![p].script = Rest(p), ![p].pid = n]
        /\ file' = [f \in Table |-> [file[f] EXCEPT !.ref = @ + Shared(p, f)]]
        /\ pipe' = pipe
    BY <1>3, <2>1 DEF fork
  <2>5. Forked(proc, p, n, Rest(p), child, proc')
    BY <1>0, <1>1, <2>2, <2>3, <2>4 DEF Forked
  <2>6. /\ file' = [f \in Table |-> [file[f] EXCEPT !.ref = file[f].ref + Shared(p, f)]]
        /\ pipe' = pipe
    BY <2>4
  <2> HIDE DEF free
  <2>7. FilesInv'
    BY <1>0, <2>2, <2>5, <2>6, StepFork DEF SInv
  <2>8. ForkedFacts(proc, p, n, Rest(p), child, proc')
    BY <2>5, SetForked
  <2>9. /\ proc'[p].script = Rest(p) /\ proc'[p].ofile = proc[p].ofile /\ proc'[p].state = "RUNNING"
        /\ proc'[p].parent = proc[p].parent /\ proc'[n].script = child /\ proc'[n].ofile = proc[p].ofile
        /\ \A q \in Pids : q \notin {p, n} => SameSlot(proc'[q], proc[q])
    BY <1>0, <2>8 DEF ForkedFacts, SameSlot
  <2>10. p # 1 => ShellOk(proc'[p].script, proc'[p].ofile)
    BY <1>0, <2>9
  <2>11. ShellOk(proc'[n].script, proc'[n].ofile)
    BY <1>0, <2>9
  <2>12. p = 1 => InitOk(proc'[p])
    BY <1>0, <2>9 DEF InitOk
  <2>13. Kept({p, n})
    BY <2>3, <2>9, <2>10, <2>11, <2>12 DEF Kept
  <2> QED
    BY <2>7, <2>13, KeepInv DEF SInv
<1> QED
  BY <1>2, <1>3

\* The forks of the shell and of runcmd keep it.
LEMMA Fork1Keeps ==
  ASSUME SInv, NEW p \in Pids, fork1(p)
  PROVE  SInv'
<1>0. Does(p, "fork") /\ fork(p, Arg(p).child, Exit)
  BY DEF fork1
<1>1. /\ proc[p].state = "RUNNING" /\ proc[p].closing = {}
      /\ Rest(p) \in Seq(Ops) /\ Arg(p).call = "fork" /\ p # 1 /\ CallOk(Arg(p), Rest(p), proc[p].ofile)
  BY <1>0, Caller, SMTT(30)
<1>2. /\ Arg(p).child \in Seq(ChildOps)
      /\ \/ Rest(p) \in Seq(CommandOps)
         \/ Rest(p) = <<Call("wait"), Call("prompt")>> /\ proc[p].ofile = Standard
  BY <1>1, CallKinds, SMTT(30)
<1>3. Arg(p).child \in Seq(CommandOps)
  BY <1>2, OpsIn, SeqMono
<1>4. ShellOk(Arg(p).child, proc[p].ofile) /\ Arg(p).child \in Seq(Ops)
  BY <1>3, CommandScript
<1>5. ShellOk(Exit, proc[p].ofile) /\ Exit \in Seq(Ops)
  BY ExitIn, CommandScript
<1>6. ShellOk(Rest(p), proc[p].ofile)
  <2>1. CASE Rest(p) \in Seq(CommandOps)
    BY <2>1, CommandScript
  <2>2. CASE Rest(p) = <<Call("wait"), Call("prompt")>> /\ proc[p].ofile = Standard
    BY <2>2 DEF ShellOk, Prompting
  <2> QED
    BY <1>2, <2>1, <2>2
<1>7. ForkArgs(p, Arg(p).child, Exit)
  BY <1>1, <1>4, <1>5, <1>6 DEF ForkArgs
<1> QED
  BY <1>0, <1>7, ForkKeeps

\* init's fork keeps it: the child is a shell with the standard descriptors.
LEMMA InitForkKeeps ==
  ASSUME SInv, NEW p \in Pids, init_fork(p)
  PROVE  SInv'
<1>0. Does(p, "init") /\ fork(p, main, Exit)
  BY DEF init_fork
<1>1. /\ proc[p].state = "RUNNING" /\ proc[p].closing = {} /\ Rest(p) \in Seq(Ops) /\ Arg(p).call = "init"
      /\ p # 1 => CallOk(Arg(p), Rest(p), proc[p].ofile)
      /\ p = 1 => \/ "init" = "init" /\ Rest(p) = <<>> /\ proc[p].parent = 0 /\ proc[p].ofile = Standard
                  \/ "init" = "exit" /\ proc[p].script = Exit /\ proc[p].parent = 0 /\ \A fd \in Fds : proc[p].ofile[fd] \in {0, 1}
  BY <1>0, Caller, SMTT(30)
<1>2. p = 1
  BY <1>1, CallKinds, SMTT(30)
<1>3. Rest(p) = <<>> /\ proc[p].parent = 0 /\ proc[p].ofile = Standard
  BY <1>1, <1>2, SMTT(30)
<1>4. ShellOk(main, proc[p].ofile)
  BY <1>3 DEF ShellOk, Prompting
<1>5. main \in Seq(Ops)
  <2>1. Open(FALSE) \in Ops /\ Close(3) \in Ops /\ Call("prompt") \in Ops
    BY CallsIn
  <2> QED
    BY <2>1, ThreeIn DEF main
<1>6. Exit \in Seq(Ops)
  BY ExitIn, CommandScript
<1>7. ForkArgs(p, main, Exit)
  BY <1>1, <1>2, <1>3, <1>4, <1>5, <1>6 DEF ForkArgs
<1> QED
  BY <1>0, <1>7, ForkKeeps

----
\* run, program and the end of a program
LEMMA RunKeeps ==
  ASSUME SInv, NEW p \in Pids, run(p) \/ program(p) \/ program_early(p)
  PROVE  SInv'
<1>1. CASE run(p)
  <2>1. Does(p, "run") /\ proc' = [proc EXCEPT ![p].script = runcmd(Arg(p).cmd)] /\ file' = file /\ pipe' = pipe
    BY <1>1 DEF run
  <2>2. proc[p].state = "RUNNING" /\ Arg(p) \in Ops /\ Arg(p).call = "run" /\ p # 1
    BY <2>1, Caller, SMTT(30)
  <2>3. Arg(p).cmd \in Commands
    BY <2>2, OpArgs, SMTT(30)
  <2>4. runcmd(Arg(p).cmd) \in Seq(CommandOps)
    BY <2>3, RunTypes
  <2>5. ShellOk(runcmd(Arg(p).cmd), proc[p].ofile) /\ runcmd(Arg(p).cmd) \in Seq(Ops)
    BY <2>4, CommandScript
  <2> QED
    BY <2>1, <2>2, <2>5, ScriptKeeps
<1>2. CASE program(p) \/ program_early(p)
  <2>1. Does(p, "program") /\ proc' = [proc EXCEPT ![p].script = Exit] /\ file' = file /\ pipe' = pipe
    BY <1>2 DEF program, program_early
  <2>2. proc[p].state = "RUNNING" /\ p # 1
    BY <2>1, Caller, SMTT(30)
  <2>3. ShellOk(Exit, proc[p].ofile) /\ Exit \in Seq(Ops)
    BY ExitIn, CommandScript
  <2> QED
    BY <2>1, <2>2, <2>3, ScriptKeeps
<1> QED
  BY <1>1, <1>2

\* getcmd keeps it.
LEMMA PromptKeeps ==
  ASSUME SInv, NEW p \in Pids, getcmd(p)
  PROVE  SInv'
<1>0. Does(p, "prompt") /\ file' = file /\ pipe' = pipe
  BY DEF getcmd
<1>1. /\ proc[p].state = "RUNNING" /\ Arg(p).call = "prompt" /\ p # 1 /\ CallOk(Arg(p), Rest(p), proc[p].ofile)
  BY <1>0, Caller, SMTT(30)
<1>2. proc[p].ofile = Standard
  BY <1>1, CallKinds, SMTT(30)
<1>3. CASE \E cmd \in Commands : proc' = [proc EXCEPT ![p].script = <<Fork(<<Run(cmd)>>), Call("wait"), Call("prompt")>>]
  <2>1. PICK cmd \in Commands : proc' = [proc EXCEPT ![p].script = <<Fork(<<Run(cmd)>>), Call("wait"), Call("prompt")>>]
    BY <1>3
  <2> DEFINE s == <<Fork(<<Run(cmd)>>), Call("wait"), Call("prompt")>>
  <2>2. ShellOk(s, proc[p].ofile)
    BY <1>2 DEF ShellOk, Prompting
  <2>3. s \in Seq(Ops)
    <3>1. <<Run(cmd)>> \in Seq(ChildOps)
      BY CallsIn, SMTT(30)
    <3>2. Fork(<<Run(cmd)>>) \in Ops /\ Call("wait") \in Ops /\ Call("prompt") \in Ops
      BY <3>1, CallsIn, OpsIn
    <3> QED
      BY <3>2, ThreeIn
  <2>4. proc' = [proc EXCEPT ![p].script = s]
    BY <2>1
  <2> HIDE DEF s
  <2> QED
    BY <1>0, <1>1, <2>2, <2>3, <2>4, ScriptKeeps
<1>4. CASE proc' = [proc EXCEPT ![p].script = Exit]
  <2>1. ShellOk(Exit, proc[p].ofile) /\ Exit \in Seq(Ops)
    BY ExitIn, CommandScript
  <2> QED
    BY <1>0, <1>1, <1>4, <2>1, ScriptKeeps
<1> QED
  BY <1>3, <1>4 DEF getcmd

\* A zombie is reaped.
LEMMA ReapKeeps ==
  ASSUME SInv, NEW p, NEW q, NEW s, ReapedBy(proc, p, q, s, proc'), proc[q].state = "ZOMBIE", proc[q].parent # 0,
         proc[p].state = "RUNNING" \/ s = <<>>, file' = file, pipe' = pipe,
         p # 1 => ShellOk(s, proc[p].ofile),
         p = 1 => s = proc[1].script \/ (s = <<Call("init")>> /\ proc[1].state = "RUNNING" /\ proc[1].script = <<>>)
  PROVE  SInv'
<1>0. p \in Pids /\ q \in Pids /\ q # p
  BY DEF ReapedBy
<1>1. FilesInv'
  BY StepReap DEF SInv
<1>2. ReapedFacts(proc, p, q, s, proc')
  BY SetReaped
<1>3. InitOk(proc[1])
  BY DEF SInv, InitInv
<1>4. q # 1
  BY <1>3 DEF InitOk
<1>5. /\ proc'[p].script = s /\ ScriptOnly(proc'[p], proc[p]) /\ proc'[q] = Unused
      /\ \A r \in Pids : r \notin {p, q} => SameSlot(proc'[r], proc[r])
  BY <1>2 DEF ReapedFacts, SameSlot
<1>6. ShellOk(proc'[q].script, proc'[q].ofile)
  <2>1. proc'[q].script \in Seq(CommandOps)
    <3>1. Unused.script = <<>>
      BY UnusedSlot
    <3>2. <<>> \in Seq(CommandOps)
      BY SMTT(30)
    <3> QED
      BY <1>5, <3>1, <3>2
  <2> QED
    BY <2>1, CommandScript
<1>7. p # 1 => ShellOk(proc'[p].script, proc'[p].ofile)
  BY <1>5 DEF ScriptOnly
<1>8. p = 1 => InitOk(proc'[p])
  <2> HAVE p = 1
  <2>1. /\ proc'[1].script = s /\ proc'[1].state = proc[1].state /\ proc'[1].ofile = proc[1].ofile
        /\ proc'[1].parent = proc[1].parent /\ proc'[1].pid = proc[1].pid
    BY <1>5 DEF ScriptOnly
  <2>2. CASE s = proc[1].script
    BY <1>3, <2>1, <2>2 DEF InitOk
  <2>3. CASE s = <<Call("init")>> /\ proc[1].state = "RUNNING" /\ proc[1].script = <<>>
    <3>1. Exit # <<>>
      BY ExitIn
    <3>2. proc[1].ofile = Standard /\ proc[1].parent = 0
      BY <1>3, <2>3, <3>1, SMTT(30) DEF InitOk
    <3> QED
      BY <2>1, <2>3, <3>2 DEF InitOk
  <2> QED
    BY <2>2, <2>3
<1>9. Kept({p, q})
  BY <1>4, <1>5, <1>6, <1>7, <1>8 DEF Kept
<1> QED
  BY <1>1, <1>9, KeepInv DEF SInv

\* wait keeps it.
LEMMA WaitKeeps ==
  ASSUME SInv, NEW p \in Pids, sh_wait(p)
  PROVE  SInv'
<1>0. Does(p, "wait") /\ ((\E q \in Pids : wait(p, q)) \/ wait_none(p))
  BY DEF sh_wait
<1>1. /\ proc[p].state = "RUNNING" /\ Rest(p) \in Seq(Ops) /\ Arg(p).call = "wait" /\ p # 1
      /\ CallOk(Arg(p), Rest(p), proc[p].ofile)
  BY <1>0, Caller, SMTT(30)
<1>2. Rest(p) \in Seq(CommandOps) \/ (Rest(p) = <<Call("prompt")>> /\ proc[p].ofile = Standard)
  BY <1>1, CallKinds, SMTT(30)
<1>3. ShellOk(Rest(p), proc[p].ofile)
  BY <1>2 DEF ShellOk, Prompting
<1>4. proc \in [Pids -> Slots]
  BY DEF SInv, FilesInv, FilesType
<1>5. CASE wait_none(p)
  <2>1. proc' = [proc EXCEPT ![p].script = Rest(p)] /\ file' = file /\ pipe' = pipe
    BY <1>5 DEF wait_none
  <2> QED
    BY <1>1, <1>3, <2>1, ScriptKeeps
<1>6. CASE \E q \in Pids : wait(p, q)
  <2>1. PICK q \in Pids : wait(p, q)
    BY <1>6
  <2>2. proc[q].state = "ZOMBIE" /\ proc[q].parent = p /\ file' = file /\ pipe' = pipe
        /\ proc' = [proc EXCEPT ![q] = Unused, ![p].script = Rest(p)]
    BY <2>1 DEF wait, Children, Reaped
  <2>3. q # p
    BY <1>1, <2>2, SMTT(30)
  <2>4. ReapedBy(proc, p, q, Rest(p), proc')
    BY <1>1, <1>4, <2>2, <2>3 DEF ReapedBy
  <2>5. proc[q].parent # 0
    BY <2>2, SMTT(30) DEF Pids
  <2> HIDE <2>1
  <2> QED
    BY <1>1, <1>3, <2>2, <2>4, <2>5, ReapKeeps
<1> QED
  BY <1>0, <1>5, <1>6

\* init's wait keeps it.
LEMMA InitWaitKeeps ==
  ASSUME SInv, init_wait
  PROVE  SInv'
<1>0. 1 \in Pids /\ proc \in [Pids -> Slots] /\ InitOk(proc[1])
  <2>1. 1 \in Pids
    BY Sizes, SMTT(30) DEF Pids
  <2> QED
    BY <2>1 DEF SInv, InitInv, FilesInv, FilesType
<1>1. PICK q \in Children(1) :
       /\ proc[1].script = <<>> /\ proc[q].state = "ZOMBIE"
       /\ proc' = [proc EXCEPT ![q] = Unused,
                     ![1].script = IF q = proc[1].pid THEN <<Call("init")>> ELSE <<>>]
       /\ file' = file /\ pipe' = pipe
  BY DEF init_wait, Reaped
<1>2. q \in Pids /\ proc[q].parent = 1
  BY <1>1 DEF Children
<1>3. q # 1 /\ proc[q].parent # 0
  <2>1. proc[1].parent = 0
    BY <1>0 DEF InitOk
  <2>2. 1 # 0
    BY SMTT(30)
  <2> QED
    BY <1>2, <2>1, <2>2
<1>4. PICK s : s = IF q = proc[1].pid THEN <<Call("init")>> ELSE <<>>
  OBVIOUS
<1>5. s \in Seq(Ops)
  <2>1. <<Call("init")>> \in Seq(Ops)
    BY CallsIn, SMTT(30)
  <2>2. <<>> \in Seq(Ops)
    BY SMTT(30)
  <2> QED
    BY <1>4, <2>1, <2>2
<1>6. ReapedBy(proc, 1, q, s, proc')
  BY <1>0, <1>1, <1>2, <1>3, <1>4, <1>5 DEF ReapedBy
<1>7. s = proc[1].script \/ (s = <<Call("init")>> /\ proc[1].state = "RUNNING" /\ proc[1].script = <<>>)
  <2>1. CASE q = proc[1].pid
    <3>1. proc[1].pid # 0
      BY <1>2, <2>1, SMTT(30) DEF Pids
    <3>2. proc[1].state = "RUNNING"
      BY <1>0, <3>1 DEF InitOk
    <3> QED
      BY <1>1, <1>4, <2>1, <3>2
  <2>2. CASE q # proc[1].pid
    BY <1>1, <1>4, <2>2
  <2> QED
    BY <2>1, <2>2
<1>8. proc[1].state = "RUNNING" \/ s = <<>>
  BY <1>1, <1>7
<1>9. proc[q].state = "ZOMBIE" /\ file' = file /\ pipe' = pipe
  BY <1>1
<1> HIDE <1>1, <1>4
<1> QED
  BY <1>3, <1>6, <1>7, <1>8, <1>9, ReapKeeps

\* exit keeps it, while it closes descriptors and when it ends.
LEMMA ExitKeeps ==
  ASSUME SInv, NEW p \in Pids, exit(p)
  PROVE  SInv'
<1>0. Does(p, "exit")
  BY DEF exit
<1>1. /\ proc[p] \in Slots /\ proc[p].state = "RUNNING" /\ proc[p].closing = {} /\ proc[p].script # <<>>
      /\ p # 1 => CallOk(Arg(p), Rest(p), proc[p].ofile)
      /\ p = 1 => /\ proc[p].script = Exit /\ proc[p].parent = 0
                  /\ \A fd \in Fds : proc[p].ofile[fd] \in {0, 1}
  <2>1. proc[p].script # <<>>
    BY <1>0 DEF Does
  <2> QED
    BY <1>0, <2>1, Caller, SMTT(30)
<1>2. CASE FreeFds(p) # Fds
  <2>1. PICK fd \in Fds \ FreeFds(p) : fd = Lowest(Fds \ FreeFds(p))
    <3>1. Fds \ FreeFds(p) \in SUBSET Nat
      BY SMTT(30) DEF Fds
    <3>2. Fds \ FreeFds(p) # {}
      BY <1>2 DEF FreeFds
    <3> QED
      BY <3>1, <3>2, LowestIs
  <2>2. fd \in Fds /\ proc[p].ofile[fd] # 0
    BY <2>1 DEF FreeFds
  <2>3. fileclose(p, fd, proc[p].script)
    BY <1>2, <2>1 DEF exit
  <2>4. proc[p].script \in Seq(Ops)
    BY <1>1, SlotTypes
  <2>5. p # 1 => ShellOk(proc[p].script, [proc[p].ofile EXCEPT ![fd] = 0])
    <3> HAVE p # 1
    <3>1. proc[p].script \in Seq(CommandOps)
      <4>1. ShellOk(proc[p].script, proc[p].ofile)
        BY DEF SInv, ShellInv
      <4> QED
        BY <1>0, <4>1, ExitScript DEF Does
    <3> QED
      BY <3>1, CommandScript
  <2> QED
    BY <1>1, <2>2, <2>3, <2>4, <2>5, CloseFd
<1>3. CASE FreeFds(p) = Fds
  <2>1. /\ proc' = [q \in Pids |->
                  IF q = p THEN [Unused EXCEPT !.state = "ZOMBIE", !.parent = proc[p].parent]
                  ELSE IF q \in Children(p) THEN [proc[q] EXCEPT !.parent = 1] ELSE proc[q]]
        /\ file' = file /\ pipe' = pipe
    BY <1>3 DEF exit
  <2>2. ExitedAs(proc, p, Children(p), proc')
    BY <2>1 DEF ExitedAs, SInv, FilesInv, FilesType
  <2>3. file' = file /\ pipe' = pipe
    BY <2>1
  <2> HIDE <2>1
  <2>4. FilesInv'
    BY <1>1, <1>3, <2>2, <2>3, StepExit DEF SInv
  <2>5. ExitedFacts(proc, p, Children(p), proc')
    BY <2>2, SetExited
  <2>6. InitOk(proc[1]) /\ 1 \notin Children(p)
    <3>1. InitOk(proc[1])
      BY DEF SInv, InitInv
    <3>2. p # 0
      BY SMTT(30) DEF Pids
    <3> QED
      BY <3>1, <3>2 DEF InitOk, Children
  <2>7. p # 1 => SameSlot(proc'[1], proc[1])
    <3>1. 1 \in Pids
      BY Sizes, SMTT(30) DEF Pids
    <3> QED
      BY <2>5, <2>6, <3>1 DEF ExitedFacts, SameSlot
  <2>8. p = 1 => InitOk(proc'[1])
    BY <1>1, <2>5 DEF ExitedFacts, InitOk
  <2>9. InitInv'
    BY <2>6, <2>7, <2>8 DEF InitInv, InitOk, SameSlot
  <2>10. ShellInv'
    <3> SUFFICES ASSUME NEW q \in Pids, q # 1 PROVE ShellOk(proc'[q].script, proc'[q].ofile)
      BY DEF ShellInv
    <3>1. CASE q = p
      <4>2. <<>> \in Seq(CommandOps)
        BY SMTT(30)
      <4>1. proc'[q].script \in Seq(CommandOps)
        BY <2>5, <3>1, <4>2 DEF ExitedFacts
      <4> QED
        BY <4>1, CommandScript
    <3>2. CASE q # p
      <4>1. proc'[q].script = proc[q].script /\ proc'[q].ofile = proc[q].ofile
        BY <2>5, <3>2 DEF ExitedFacts
      <4>2. ShellOk(proc[q].script, proc[q].ofile)
        BY DEF SInv, ShellInv
      <4> QED
        BY <4>1, <4>2
    <3> QED
      BY <3>1, <3>2
  <2> QED
    BY <2>4, <2>9, <2>10 DEF SInv
<1> QED
  BY <1>2, <1>3

----
\* The processes at the start.
LEMMA InitSlots ==
  ASSUME ShellInit
  PROVE  FilesType /\ Ended /\ InitInv /\ ShellInv /\ \A q \in Pids : q # 1 => proc[q] = Unused
<1> DEFINE r == [Unused EXCEPT !.state = "RUNNING", !.script = <<Call("init")>>, !.ofile = Standard]
<1>0. proc = [q \in Pids |-> IF q # 1 THEN Unused ELSE r]
  BY DEF ShellInit, Standard
<1>1. 1 \in Pids
  BY Sizes, SMTT(30) DEF Pids
<1>2. Standard \in [Fds -> 0..NFILE] /\ <<Call("init")>> \in Seq(Ops)
  BY Sizes, CallsIn, SMTT(30) DEF Standard
<1>3. /\ r \in Slots /\ r.state = "RUNNING" /\ r.script = <<Call("init")>> /\ r.ofile = Standard
      /\ r.parent = 0 /\ r.closing = {}
  BY <1>2, UnusedSlot DEF Slots
<1> HIDE DEF r
<1>4. proc[1] = r /\ (\A q \in Pids : q # 1 => proc[q] = Unused) /\ proc \in [Pids -> Slots]
  BY <1>0, <1>1, <1>3, UnusedSlot
<1>5. FilesType
  <2>1. Console \in FileRecs /\ NoFile \in FileRecs
    <3>1. NoFile \in FileRecs
      BY Sizes, SMTT(30) DEF NoFile, FileRecs
    <3>2. 3 \in Nat
      BY SMTT(30)
    <3> QED
      BY <3>1, <3>2 DEF Console, FileRecs
  <2>2. file \in [Table -> FileRecs]
    BY <2>1 DEF ShellInit
  <2>3. [readopen |-> FALSE, writeopen |-> FALSE] \in PipeRecs
    BY SMTT(30) DEF PipeRecs
  <2>4. pipe \in [1..NPIPE -> PipeRecs]
    BY <2>3 DEF ShellInit
  <2> QED
    BY <1>4, <2>2, <2>4 DEF FilesType
<1>6. Ended
  BY <1>3, <1>4, UnusedSlot DEF Ended
<1>7. InitInv
  BY <1>3, <1>4 DEF InitInv, InitOk
<1>8. ShellInv
  <2>1. \A q \in Pids \ {1} : proc[q].script = <<>>
    BY <1>4, UnusedSlot
  <2>2. <<>> \in Seq(CommandOps)
    BY SMTT(30)
  <2> QED
    BY <2>1, <2>2 DEF ShellInv, ShellOk
<1> QED
  BY <1>4, <1>5, <1>6, <1>7, <1>8

\* The console has init's three descriptors, and no other file is open.
LEMMA InitCounted ==
  ASSUME ShellInit
  PROVE  FilesCounted
<1>0. FilesType /\ InitInv /\ \A q \in Pids : q # 1 => proc[q] = Unused
  BY InitSlots
<1>1. proc[1].ofile = Standard /\ 1 \in Pids
  <2>1. 1 \in Pids
    BY Sizes, SMTT(30) DEF Pids
  <2>2. proc[1].state = "RUNNING" /\ proc[1].script = <<Call("init")>>
    BY <2>1, UnusedSlot DEF ShellInit, Slots
  <2>3. <<Call("init")>> # Exit
    BY CallNames, HeadOne, SMTT(30)
  <2> QED
    BY <1>0, <2>1, <2>2, <2>3, SMTT(30) DEF InitInv, InitOk
<1>2. \A q \in Pids, fd \in Fds : Descriptors[q][fd] = IF q = 1 /\ fd < 3 THEN 1 ELSE 0
  <2> TAKE q \in Pids, fd \in Fds
  <2>1. CASE q = 1
    BY <1>1, <2>1 DEF Descriptors, Standard
  <2>2. CASE q # 1
    BY <1>0, <2>2, UnusedSlot DEF Descriptors
  <2> QED
    BY <2>1, <2>2
<1>3. ASSUME NEW f \in Table PROVE file[f].ref = Cardinality(RefSet(Descriptors, f))
  <2>0. f # 0
    BY SMTT(30) DEF Table
  <2>1. CASE f = 1
    <3>1. RefSet(Descriptors, f) = {<<1, 0>>, <<1, 1>>, <<1, 2>>}
      <4>1. ASSUME NEW x \in Pids \X Fds PROVE Descriptors[x[1]][x[2]] = 1 <=> x[1] = 1 /\ x[2] < 3
        BY <1>2, <4>1, SMTT(30)
      <4>2. RefSet(Descriptors, f) = {x \in Pids \X Fds : x[1] = 1 /\ x[2] < 3}
        BY <2>1, <4>1 DEF RefSet
      <4>3. {x \in Pids \X Fds : x[1] = 1 /\ x[2] < 3} = {<<1, 0>>, <<1, 1>>, <<1, 2>>}
        BY <1>1, Sizes, SMTT(30) DEF Fds
      <4> QED
        BY <4>2, <4>3
    <3>2. Cardinality({<<1, 0>>, <<1, 1>>, <<1, 2>>}) = 3
      <4>1. <<1, 0>> # <<1, 1>> /\ <<1, 0>> # <<1, 2>> /\ <<1, 1>> # <<1, 2>>
        BY SMTT(30)
      <4> QED
        BY <4>1, ThreeElements
    <3>3. file[f].ref = 3
      <4>1. NoFile \in FileRecs
        BY Sizes, SMTT(30) DEF NoFile, FileRecs
      <4>2. Console.ref = 3
        BY <4>1 DEF Console, FileRecs
      <4> QED
        BY <2>1, <4>2 DEF ShellInit
    <3> QED
      BY <3>1, <3>2, <3>3
  <2>2. CASE f # 1
    <3>1. RefSet(Descriptors, f) = {}
      <4>1. ASSUME NEW x \in Pids \X Fds PROVE Descriptors[x[1]][x[2]] # f
        BY <1>2, <2>0, <2>2, <4>1, SMTT(30)
      <4> QED
        BY <4>1 DEF RefSet
    <3>2. file[f].ref = 0
      <4>1. file[f] = NoFile
        BY <2>2 DEF ShellInit
      <4> QED
        BY <4>1, SMTT(30) DEF NoFile
    <3> QED
      BY <3>1, <3>2, FS_EmptySet
  <2> QED
    BY <2>1, <2>2
<1> QED
  BY <1>0, <1>3, CountedIs DEF AllCounted, Counted

\* The invariant holds at the start.
LEMMA InitSInv ==
  ASSUME ShellInit
  PROVE  SInv
<1>0. FilesType /\ Ended /\ InitInv /\ ShellInv /\ (\A q \in Pids : q # 1 => proc[q] = Unused) /\ FilesCounted
  BY InitSlots, InitCounted
<1>1. \A f \in Table : file[f].type # "pipe"
  <2>1. NoFile.type = "none" /\ Console.type = "inode"
    BY SMTT(30) DEF NoFile, Console
  <2>2. \A f \in Table : file[f] = NoFile \/ file[f] = Console
    BY DEF ShellInit
  <2> QED
    BY <2>1, <2>2
<1>2. \A q \in Pids : proc[q].closing = {}
  <2>1. Unused \in Slots /\ Unused.closing = {}
    BY UnusedSlot
  <2> QED
    BY <2>1 DEF ShellInit, Slots
<1>3. \A f \in Table : ~OpenEnd(f)
  BY <1>1 DEF OpenEnd
<1>4. OneOwner
  BY <1>2, <1>3 DEF OneOwner
<1>5. EndsAgree
  <2>1. \A k \in 1..NPIPE, w \in BOOLEAN : ~Held(k, w)
    BY <1>2, <1>3 DEF Held
  <2>2. \A k \in 1..NPIPE : ~pipe[k].readopen /\ ~pipe[k].writeopen
    <3>1. \A k \in 1..NPIPE : pipe[k] = [readopen |-> FALSE, writeopen |-> FALSE]
      BY DEF ShellInit
    <3> QED
      BY <3>1, SMTT(30)
  <2> QED
    BY <2>1, <2>2 DEF EndsAgree, EndInUse
<1> QED
  BY <1>0, <1>4, <1>5, EndsOpenIs DEF SInv, FilesInv

\* Every step keeps the invariant.
LEMMA StepKeeps ==
  ASSUME SInv, [ShellNext]_shellVars
  PROVE  SInv'
<1>1. CASE UNCHANGED shellVars
  <2>1. proc' = proc /\ file' = file /\ pipe' = pipe
    BY <1>1 DEF shellVars
  <2>2. Quiet
    BY <2>1 DEF Quiet
  <2>3. proc' \in [Pids -> Slots]
    BY <2>1 DEF SInv, FilesInv, FilesType
  <2>4. FilesType' /\ OneOwner' /\ FilesCounted' /\ EndsOpen'
    BY <2>2, <2>3, QuietKeeps DEF SInv
  <2>5. Ended' /\ InitInv' /\ ShellInv'
    BY <2>1 DEF SInv, FilesInv, Ended, InitInv, ShellInv
  <2> QED
    BY <2>4, <2>5 DEF SInv, FilesInv
<1>2. ASSUME NEW p \in Pids, getcmd(p) PROVE SInv'
  BY <1>2, PromptKeeps
<1>3. ASSUME init_wait PROVE SInv'
  BY <1>3, InitWaitKeeps
<1>4. ASSUME NEW p \in Pids, ShellStep(p) PROVE SInv'
  <2>1. CASE sys_dup(p) \/ sys_open(p) \/ sys_pipe(p) \/ sys_close(p) \/ pipeclose(p)
    BY <2>1, DupKeeps, OpenKeeps, PipeKeeps, CloseKeeps, PipecloseKeeps
  <2>2. CASE fork1(p) \/ run(p) \/ program(p) \/ sh_wait(p) \/ exit(p) \/ init_fork(p)
    BY <2>2, Fork1Keeps, RunKeeps, WaitKeeps, ExitKeeps, InitForkKeeps
  <2> QED
    BY <1>4, <2>1, <2>2 DEF ShellStep
<1>5. ASSUME NEW p \in Pids, program_early(p) PROVE SInv'
  BY <1>5, RunKeeps
<1> QED
  BY <1>1, <1>2, <1>3, <1>4, <1>5 DEF ShellNext

\* With two processes left, one of them a shell at its prompt, the other is
\* init, and all their descriptors are of the console.
LEMMA ConsoleLeft ==
  SInv => NothingLeft
<1> SUFFICES ASSUME SInv, NEW p \in Pids, Does(p, "prompt"),
                    Cardinality({q \in Pids : proc[q].state # "UNUSED"}) = 2
             PROVE  Cardinality({f \in Table : file[f].ref > 0}) = 1
  BY DEF NothingLeft
<1>1. proc[p].state = "RUNNING" /\ p # 1 /\ Arg(p).call = "prompt" /\ CallOk(Arg(p), Rest(p), proc[p].ofile)
  BY Caller, SMTT(30)
<1>2. proc[p].ofile = Standard
  BY <1>1, CallKinds, SMTT(30)
<1>3. 1 \in Pids /\ InitOk(proc[1])
  <2>1. 1 \in Pids
    BY Sizes, SMTT(30) DEF Pids
  <2> QED
    BY <2>1 DEF SInv, InitInv
<1>4. {q \in Pids : proc[q].state # "UNUSED"} = {1, p}
  <2> DEFINE S == {q \in Pids : proc[q].state # "UNUSED"}
  <2>1. proc[1].state # "UNUSED" /\ proc[p].state # "UNUSED"
    BY <1>1, <1>3, SMTT(30) DEF InitOk
  <2>2. {1, p} \in SUBSET S
    BY <1>3, <2>1
  <2>3. Cardinality({1, p}) = 2
    BY <1>1, TwoElements
  <2>4. IsFiniteSet(S)
    <3>1. S \subseteq Pids
      OBVIOUS
    <3>2. IsFiniteSet(Pids)
      BY PidsFinite
    <3> QED
      BY <3>1, <3>2, FS_Subset
  <2>5. Cardinality(S) = 2
    OBVIOUS
  <2> HIDE DEF S
  <2>6. S = {1, p}
    <3>1. PICK T : T = {1, p}
      OBVIOUS
    <3>2. T \in SUBSET S /\ Cardinality(T) = 2
      BY <2>2, <2>3, <3>1
    <3>3. S = T
      BY <2>4, <2>5, <3>2, SameCard, SMTT(30)
    <3> QED
      BY <3>1, <3>3
  <2> QED
    BY <2>6 DEF S
<1>5. \A q \in Pids, fd \in Fds : proc[q].ofile[fd] \in {0, 1}
  <2> TAKE q \in Pids, fd \in Fds
  <2>s. Standard[fd] \in {0, 1}
    BY DEF Standard
  <2>1. CASE q = p
    BY <1>2, <2>1, <2>s
  <2>2. CASE q = 1
    <3>1. CASE proc[1].state = "ZOMBIE"
      <4>1. proc[1].ofile = [d \in Fds |-> 0]
        BY <1>3, <3>1 DEF SInv, FilesInv, Ended
      <4> QED
        BY <2>2, <4>1
    <3>2. CASE proc[1].ofile = Standard
      BY <2>2, <2>s, <3>2
    <3>3. CASE \A d \in Fds : proc[1].ofile[d] \in {0, 1}
      BY <2>2, <3>3
    <3> QED
      BY <1>3, <3>1, <3>2, <3>3 DEF InitOk
  <2>3. CASE q # p /\ q # 1
    <3>1. proc[q].state = "UNUSED"
      BY <1>4, <2>3
    <3>2. proc[q].ofile = [d \in Fds |-> 0]
      BY <3>1 DEF SInv, FilesInv, Ended
    <3> QED
      BY <3>2
  <2> QED
    BY <2>1, <2>2, <2>3
<1>6. \A f \in Table : f # 1 => ~(file[f].ref > 0)
  <2> TAKE f \in Table
  <2> HAVE f # 1
  <2>0. f # 0
    BY SMTT(30) DEF Table
  <2>1. Descriptors \in Owned /\ AllCounted
    BY CountedIs DEF SInv, FilesInv
  <2>2. RefSet(Descriptors, f) = {}
    <3>1. ASSUME NEW x \in Pids \X Fds PROVE Descriptors[x[1]][x[2]] # f
      <4>1. x[1] \in Pids /\ x[2] \in Fds
        BY <3>1, SMTT(30)
      <4>2. Descriptors[x[1]][x[2]] = proc[x[1]].ofile[x[2]]
        BY <4>1 DEF Descriptors
      <4>3. proc[x[1]].ofile[x[2]] \in {0, 1}
        BY <1>5, <4>1
      <4> QED
        BY <2>0, <4>2, <4>3
    <3> QED
      BY <3>1 DEF RefSet
  <2>3. file[f].ref = 0
    BY <2>1, <2>2, FS_EmptySet DEF AllCounted, Counted
  <2> QED
    BY <2>3, SMTT(30)
<1>7. 1 \in Table /\ file[1].ref > 0
  <2>1. 0 \in Fds /\ Standard[0] = 1 /\ 1 # 0
    BY Sizes, SMTT(30) DEF Fds, Standard
  <2>2. proc[p].ofile[0] = 1
    BY <1>2, <2>1
  <2> QED
    BY <2>1, <2>2, InUse DEF SInv
<1>8. {f \in Table : file[f].ref > 0} = {1}
  BY <1>6, <1>7
<1> QED
  BY <1>8, FS_Singleton

----
\* The shell and its commands keep the inductive invariant.
THEOREM ShellKeeps == Spec => []SInv
<1>1. ShellInit => SInv
  BY InitSInv
<1>2. SInv /\ [ShellNext]_shellVars => SInv'
  BY StepKeeps
<1> QED
  BY <1>1, <1>2, PTL DEF Spec

\* file.c, pipe.c: whatever commands run, every entry's count is the number of
\* descriptors that refer to it, and a pipe end is open exactly while it is used.
THEOREM TablesAreCounted == Spec => []TablesCounted
<1>1. SInv => TablesCounted
  BY DEF SInv, FilesInv, TablesCounted
<1> QED
  BY <1>1, ShellKeeps, PTL

\* sh.c, init.c: back at the prompt with no background job left, only the
\* console is open, whichever calls failed on the way.
THEOREM NothingIsLeft == Spec => []NothingLeft
  BY ShellKeeps, ConsoleLeft, PTL
====
