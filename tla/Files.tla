---- MODULE Files ----
(***************************************************************************)
(* Open files: the file table (file.c), the descriptor calls of sysfile.c, *)
(* the two ends of pipes (pipe.c), and what fork, exit and wait do to      *)
(* descriptors and processes (proc.c).  Each process runs a script of      *)
(* calls; module Shell supplies the scripts.                               *)
(*                                                                         *)
(* fileclose is two steps: the table under ftable.lock, then, for the last *)
(* reference to a pipe end, pipeclose.                                     *)
(***************************************************************************)
EXTENDS Naturals, FiniteSets, Sequences

CONSTANTS NPROC, NOFILE, NFILE, NPIPE
ASSUME FilesAssumption == {NPROC, NOFILE, NFILE, NPIPE} \subseteq Nat \ {0}

Pids == 1..NPROC
Fds == 0..(NOFILE - 1)
Table == 1..NFILE

VARIABLES proc,     \* each process slot: its state, parent, script, descriptors,
                    \* p[2] of its last pipe call, its last fork's child, and the
                    \* pipe ends it is closing
          file,     \* the file table
          pipe      \* the open ends of each pipe; a free page has none

NoFile == [ref |-> 0, type |-> "none", pipe |-> 0, writable |-> FALSE]
Unused == [state |-> "UNUSED", parent |-> 0, script |-> <<>>, closing |-> {},
           ofile |-> [fd \in Fds |-> 0], p |-> <<0, 0>>, pid |-> 0]

\* p[0] and p[1] as arguments of a call: the descriptors the last pipe call made
P0 == 100
P1 == 101
FdOf(p, x) == CASE x = P0 -> proc[p].p[1] [] x = P1 -> proc[p].p[2] [] OTHER -> x

Lowest(S) == CHOOSE x \in S : \A y \in S : x <= y
FreeFds(p) == {fd \in Fds : proc[p].ofile[fd] = 0}
FreeFiles == {f \in Table : file[f].ref = 0}
Children(p) == {q \in Pids : proc[q].state # "UNUSED" /\ proc[q].parent = p}

\* Process p is about to make call `call`.
Does(p, call) == /\ proc[p].state = "RUNNING" /\ proc[p].closing = {}
                 /\ proc[p].script # <<>> /\ Head(proc[p].script).call = call
Arg(p) == Head(proc[p].script)
Rest(p) == Tail(proc[p].script)
Exit == <<[call |-> "exit"]>>

\* sys_dup: fdalloc finds the lowest free descriptor; with none it fails.
sys_dup(p) ==
    LET f == proc[p].ofile[FdOf(p, Arg(p).fd)]
    IN /\ Does(p, "dup")
       /\ IF f = 0 \/ FreeFds(p) = {}
          THEN proc' = [proc EXCEPT ![p].script = Rest(p)] /\ UNCHANGED file
          ELSE /\ proc' = [proc EXCEPT ![p].script = Rest(p), ![p].ofile[Lowest(FreeFds(p))] = f]
               /\ file' = [file EXCEPT ![f].ref = @ + 1]
       /\ UNCHANGED pipe

\* sys_open of a file or device: a table entry and a descriptor, or failure,
\* after which a redirection exits (sh.c, REDIR).
sys_open(p) ==
    /\ Does(p, "open")
    /\ IF FreeFds(p) = {} \/ FreeFiles = {}
       THEN proc' = [proc EXCEPT ![p].script = IF Arg(p).must THEN Exit ELSE Rest(p)] /\ UNCHANGED file
       ELSE LET f == Lowest(FreeFiles)
            IN /\ proc' = [proc EXCEPT ![p].script = Rest(p), ![p].ofile[Lowest(FreeFds(p))] = f]
               /\ file' = [file EXCEPT ![f] = [NoFile EXCEPT !.ref = 1, !.type = "inode"]]
    /\ UNCHANGED pipe

\* sys_pipe with pipealloc: two table entries, a page and two descriptors, or
\* everything undone and failure, after which the shell exits.
sys_pipe(p) ==
    LET pages == {k \in 1..NPIPE : ~pipe[k].readopen /\ ~pipe[k].writeopen}
        f0 == Lowest(FreeFiles)           f1 == Lowest(FreeFiles \ {f0})
        fd0 == Lowest(FreeFds(p))         fd1 == Lowest(FreeFds(p) \ {fd0})
        k == Lowest(pages)
    IN /\ Does(p, "pipe")
       /\ IF Cardinality(FreeFiles) < 2 \/ pages = {} \/ Cardinality(FreeFds(p)) < 2
          THEN proc' = [proc EXCEPT ![p].script = Exit] /\ UNCHANGED <<file, pipe>>
          ELSE /\ pipe' = [pipe EXCEPT ![k] = [readopen |-> TRUE, writeopen |-> TRUE]]
               /\ file' = [file EXCEPT ![f0] = [ref |-> 1, type |-> "pipe", pipe |-> k, writable |-> FALSE],
                                       ![f1] = [ref |-> 1, type |-> "pipe", pipe |-> k, writable |-> TRUE]]
               /\ proc' = [proc EXCEPT ![p].script = Rest(p), ![p].p = <<fd0, fd1>>,
                                       ![p].ofile[fd0] = f0, ![p].ofile[fd1] = f1]

\* How many of p's descriptors refer to f
Shared(p, f) == Cardinality({fd \in Fds : proc[p].ofile[fd] = f})

\* fileclose of descriptor fd under ftable.lock, going on with the given script.
\* A pipe end that is no longer referenced is still to close.
fileclose(p, fd, script) ==
    LET f == proc[p].ofile[fd]
        last == file[f].ref = 1
    IN /\ file' = [file EXCEPT ![f] = IF last THEN NoFile ELSE [file[f] EXCEPT !.ref = @ - 1]]
       /\ proc' = [proc EXCEPT ![p].script = script, ![p].ofile[fd] = 0,
                      ![p].closing = IF last /\ file[f].type = "pipe"
                                     THEN {<<file[f].pipe, file[f].writable>>} ELSE {}]
       /\ UNCHANGED pipe

\* sys_close; a descriptor that is not open is refused
sys_close(p) ==
    LET fd == FdOf(p, Arg(p).fd)
    IN /\ Does(p, "close")
       /\ IF fd \in FreeFds(p) THEN proc' = [proc EXCEPT ![p].script = Rest(p)] /\ UNCHANGED <<file, pipe>>
          ELSE fileclose(p, fd, Rest(p))

Closed_ReadOnly(end, writable) == IF writable THEN end ELSE [end EXCEPT !.readopen = FALSE]
\* One end of a pipe closed
Closed(end, writable) == IF writable THEN [end EXCEPT !.writeopen = FALSE]
                         ELSE [end EXCEPT !.readopen = FALSE]

\* pipeclose: with both ends closed the page is free.
pipeclose(p) ==
    \E end \in proc[p].closing :
       /\ pipe' = [pipe EXCEPT ![end[1]] = Closed(@, end[2])]
       /\ proc' = [proc EXCEPT ![p].closing = @ \ {end}]
       /\ UNCHANGED file

\* fork: the child has the parent's descriptors, each of them counted; without
\* a free slot it fails, and the caller goes on at `fail`.
fork(p, child, fail) ==
    LET free == {q \in Pids : proc[q].state = "UNUSED"}
    IN IF free = {}
       THEN proc' = [proc EXCEPT ![p].script = fail] /\ UNCHANGED <<file, pipe>>
       ELSE /\ proc' = [proc EXCEPT ![Lowest(free)] = [proc[p] EXCEPT !.parent = p, !.script = child,
                                                                       !.pid = 0],
                                    ![p].script = Rest(p), ![p].pid = Lowest(free)]
            /\ file' = [f \in Table |-> [file[f] EXCEPT !.ref = @ + Shared(p, f)]]
            /\ UNCHANGED pipe

\* exit: close the descriptors one by one, then become a zombie and leave the
\* children to init (process 1).
exit(p) ==
    /\ Does(p, "exit")
    /\ IF FreeFds(p) # Fds THEN fileclose(p, Lowest(Fds \ FreeFds(p)), proc[p].script)
       ELSE /\ proc' = [q \in Pids |->
                  IF q = p THEN [Unused EXCEPT !.state = "ZOMBIE", !.parent = proc[p].parent]
                  ELSE IF q \in Children(p) THEN [proc[q] EXCEPT !.parent = 1] ELSE proc[q]]
            /\ UNCHANGED <<file, pipe>>

Reaped_Kept(q) == [proc[q] EXCEPT !.parent = 0]
\* The slot of a child that wait has cleaned up
Reaped(q) == Unused

\* wait: reap a zombie child, or return at once when there are no children;
\* otherwise sleep.
wait(p, q) ==
    /\ q \in Children(p) /\ proc[q].state = "ZOMBIE"
    /\ proc' = [proc EXCEPT ![q] = Reaped(q), ![p].script = Rest(p)]
    /\ UNCHANGED <<file, pipe>>
wait_none(p) ==
    /\ Children(p) = {}
    /\ proc' = [proc EXCEPT ![p].script = Rest(p)]
    /\ UNCHANGED <<file, pipe>>
====
