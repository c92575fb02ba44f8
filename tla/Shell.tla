---- MODULE Shell ----
(***************************************************************************)
(* The shell (sh.c) and init (init.c) running over the file table: what    *)
(* runcmd does for each kind of command, as the calls it makes, and the    *)
(* programs it executes, seen as what they do to their standard input and  *)
(* output.                                                                 *)
(***************************************************************************)
EXTENDS Files

CONSTANTS Commands,     \* the command trees typed at the prompt, and all their parts
          MaxTyped      \* how many are typed

ASSUME ShellAssumption ==
    /\ NOFILE > 3
    /\ \A cmd \in Commands :
          \/ cmd.type = "EXEC"
          \/ cmd.type = "REDIR" /\ cmd.fd \in {0, 1} /\ cmd.cmd \in Commands
          \/ cmd.type = "BACK" /\ cmd.cmd \in Commands
          \/ cmd.type \in {"LIST", "PIPE"} /\ {cmd.left, cmd.right} \subseteq Commands

VARIABLES mode,         \* what programs do: drain their input, or fill their output
          typed         \* the commands typed so far

shellVars == <<proc, file, pipe, mode, typed>>

Close(x) == [call |-> "close", fd |-> x]
Dup(x) == [call |-> "dup", fd |-> x]
Fork(child) == [call |-> "fork", child |-> child]
Run(cmd) == [call |-> "run", cmd |-> cmd]
Open(must) == [call |-> "open", must |-> must]
Call(name) == [call |-> name]

Parent_KeepWrite == <<Close(P0), Call("wait"), Call("wait")>>
\* runcmd, PIPE: the shell's own part once both sides run
Parent == <<Close(P0), Close(P1), Call("wait"), Call("wait")>>

\* runcmd: the calls made for a command, all of them ending in exit.
runcmd(cmd) ==
    CASE cmd.type = "EXEC" -> <<Call("program")>> \o Exit
      [] cmd.type = "REDIR" -> <<Close(cmd.fd), Open(TRUE), Run(cmd.cmd)>>
      [] cmd.type = "LIST" -> <<Fork(<<Run(cmd.left)>>), Call("wait"), Run(cmd.right)>>
      [] cmd.type = "BACK" -> <<Fork(<<Run(cmd.cmd)>>)>> \o Exit
      [] cmd.type = "PIPE" ->
            <<Call("pipe"),
              Fork(<<Close(1), Dup(P1), Close(P0), Close(P1), Run(cmd.left)>>),
              Fork(<<Close(0), Dup(P0), Close(P0), Close(P1), Run(cmd.right)>>)>>
            \o Parent \o Exit

main_KeepFd == <<Open(FALSE), Call("prompt")>>
\* sh.c main: open the console until three descriptors are in use, then prompt.
main == <<Open(FALSE), Close(3), Call("prompt")>>

Console == [NoFile EXCEPT !.ref = 3, !.type = "inode"]

\* init has the console as its descriptors 0, 1 and 2 and starts the shell.
ShellInit ==
    /\ proc = [q \in Pids |-> IF q # 1 THEN Unused
                 ELSE [Unused EXCEPT !.state = "RUNNING", !.script = <<Call("init")>>,
                                     !.ofile = [fd \in Fds |-> IF fd < 3 THEN 1 ELSE 0]]]
    /\ file = [f \in Table |-> IF f = 1 THEN Console ELSE NoFile]
    /\ pipe = [k \in 1..NPIPE |-> [readopen |-> FALSE, writeopen |-> FALSE]]
    /\ mode \in {"drain", "fill"} /\ typed = 0

\* main reads a command and forks a shell to run it, or exits at end of file.
getcmd(p) ==
    /\ Does(p, "prompt")
    /\ \/ \E cmd \in Commands :
             /\ typed < MaxTyped /\ typed' = typed + 1
             /\ proc' = [proc EXCEPT ![p].script = <<Fork(<<Run(cmd)>>), Call("wait"), Call("prompt")>>]
       \/ proc' = [proc EXCEPT ![p].script = Exit] /\ UNCHANGED typed
    /\ UNCHANGED <<file, pipe>>

\* fork1: the shell exits when fork fails.
fork1(p) == Does(p, "fork") /\ fork(p, Arg(p).child, Exit)

run(p) == /\ Does(p, "run")
          /\ proc' = [proc EXCEPT ![p].script = runcmd(Arg(p).cmd)]
          /\ UNCHANGED <<file, pipe>>

\* A program that drains its input ends when read returns 0 (the pipe has no
\* writer), one that fills its output when write fails (it has no reader); any
\* other file serves it without waiting.
Ends(p) ==
    LET f == file[proc[p].ofile[IF mode = "drain" THEN 0 ELSE 1]]
    IN proc[p].ofile[IF mode = "drain" THEN 0 ELSE 1] # 0 /\ f.type = "pipe"
          => IF mode = "drain" THEN f.writable \/ ~pipe[f.pipe].writeopen
             ELSE ~f.writable \/ ~pipe[f.pipe].readopen

program(p) == /\ Does(p, "program") /\ Ends(p)
              /\ proc' = [proc EXCEPT ![p].script = Exit]
              /\ UNCHANGED <<file, pipe>>

\* A program may also end early, or fail to be executed.
program_early(p) == /\ Does(p, "program") /\ ~Ends(p)
                    /\ proc' = [proc EXCEPT ![p].script = Exit]
                    /\ UNCHANGED <<file, pipe>>

sh_wait(p) == /\ Does(p, "wait")
              /\ (\E q \in Pids : wait(p, q)) \/ wait_none(p)

\* init.c main: start a shell; init exits when fork fails.
init_fork(p) == Does(p, "init") /\ fork(p, main, Exit)

\* init.c's inner loop: reap orphans until it is the shell that died.
init_wait ==
    \E q \in Children(1) :
       /\ proc[1].script = <<>> /\ proc[q].state = "ZOMBIE"
       /\ proc' = [proc EXCEPT ![q] = Reaped(q),
                     ![1].script = IF q = proc[1].pid THEN <<Call("init")>> ELSE <<>>]
       /\ UNCHANGED <<file, pipe>>

ShellStep(p) == \/ sys_dup(p) \/ sys_open(p) \/ sys_pipe(p) \/ sys_close(p) \/ pipeclose(p)
                \/ fork1(p) \/ run(p) \/ program(p) \/ sh_wait(p) \/ exit(p) \/ init_fork(p)

ShellNext == /\ \/ \E p \in Pids : getcmd(p)
                \/ UNCHANGED typed /\ (init_wait \/ \E p \in Pids : ShellStep(p) \/ program_early(p))
             /\ UNCHANGED mode

Spec == ShellInit /\ [][ShellNext]_shellVars

\* The scheduler runs every process that can run (NoStarvation of the process
\* model); nobody has to type, and no program has to end early.
FairSpec == /\ Spec /\ WF_shellVars(init_wait /\ UNCHANGED <<mode, typed>>)
            /\ \A p \in Pids : WF_shellVars(ShellStep(p) /\ UNCHANGED <<mode, typed>>)

----
\* Every table entry's count is the number of descriptors, of all processes,
\* that refer to it: over fork, dup, exit and every failing call (file.c).
FilesCounted ==
    \A f \in Table : file[f].ref = Cardinality({x \in Pids \X Fds : proc[x[1]].ofile[x[2]] = f})

\* A pipe end is open exactly while an open file refers to it or a process is
\* between fileclose's two steps for it; so the page is freed once, after the
\* last use of either end.
EndsOpen ==
    \A k \in 1..NPIPE, writable \in BOOLEAN :
        (IF writable THEN pipe[k].writeopen ELSE pipe[k].readopen)
        <=> \/ \E f \in Table : /\ file[f].ref > 0 /\ file[f].type = "pipe"
                                 /\ file[f].pipe = k /\ file[f].writable = writable
            \/ \E p \in Pids : <<k, writable>> \in proc[p].closing

\* file.c, pipe.c: the file table and the pipes agree with the descriptors.
TablesCounted == FilesCounted /\ EndsOpen

\* When the shell is back at its prompt and no background job is left, no open
\* file but the console's is left behind, whatever failed on the way.
NothingLeft ==
    (\E p \in Pids : Does(p, "prompt")) /\ Cardinality({p \in Pids : proc[p].state # "UNUSED"}) = 2
        => Cardinality({f \in Table : file[f].ref > 0}) = 1

\* init never exits (proc.c:296 panics if it does): there is always a process
\* slot to restart the shell in.
InitStays == proc[1].script # Exit

\* Whatever command was typed, a shell prompts again: in a pipeline every
\* reader gets its end of file and every writer its broken pipe, because no
\* process, the waiting shells included, keeps the other end open.
PromptReturns == []<>(\E p \in Pids : Does(p, "prompt"))
====
