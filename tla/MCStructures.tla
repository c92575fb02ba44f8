---- MODULE MCStructures ----
(***************************************************************************)
(* The scheduling queues, the clock, the console, the spinlocks, a pipe's  *)
(* ring, memory, files on the disk, and the algorithms of the kernel's and *)
(* the user's library and of the shell: parts whose properties are safety  *)
(* properties.  They share no state, so a behaviour is one part's and the  *)
(* others stay as they start.                                              *)
(***************************************************************************)
EXTENDS Queues, Clock, Console, Spinlock, Pipe, Memory, Blocks, Text, Heap, Parser

VARIABLE part

\* The segments of the files that are executed, and the arguments of sbrk.
programs == {<<1, 3>>, <<5>>}
deltas == {-3, -1, 1, 2}
\* The files mkfs is given.
small == << <<1>> >>
disks == {<< <<1, 2, 1, 2, 1>>, <<>>, <<2>> >>, small}

Init == /\ part \in {"queues", "clock", "console", "screen", "keyboard", "locks", "pipe", "memory", "files",
                    "text", "heap", "parser"}
        /\ QueuesInit /\ ClockInit /\ ConInit /\ ScreenInit /\ KbdInit /\ SpinInit /\ MemInit /\ HeapInit
        /\ PipeInit /\ (part # "pipe" => ring[0] = 0)
        /\ BlockInit /\ (part # "files" => made = small)
        /\ IF part = "text" THEN TextInit ELSE fn = "none" /\ arg = "none" /\ res = Todo
        /\ IF part = "parser" THEN ParserInit ELSE line = <<>> /\ tree = Unparsed

\* The variables of every part but p stay.
Others(p) == /\ p # "queues" => UNCHANGED queueVars
             /\ p # "clock" => UNCHANGED clockVars
             /\ p # "console" => UNCHANGED conVars
             /\ p # "screen" => UNCHANGED screen
             /\ p # "keyboard" => UNCHANGED <<kbd, down>>
             /\ p # "locks" => UNCHANGED spinVars
             /\ p # "pipe" => UNCHANGED pipeVars
             /\ p # "memory" => UNCHANGED memVars
             /\ p # "files" => UNCHANGED blockVars
             /\ p # "text" => UNCHANGED textVars
             /\ p # "heap" => UNCHANGED heapVars
             /\ p # "parser" => UNCHANGED parserVars
             /\ UNCHANGED part

Next == \/ part = "queues" /\ QueuesNext /\ Others("queues")
        \/ part = "clock" /\ ClockNext /\ Others("clock")
        \/ part = "console" /\ ConNext /\ Others("console")
        \/ part = "screen" /\ ScreenNext /\ Others("screen")
        \/ part = "keyboard" /\ KbdNext /\ Others("keyboard")
        \/ part = "locks" /\ SpinNext /\ Others("locks")
        \/ part = "pipe" /\ PipeNext /\ Others("pipe")
        \/ part = "memory" /\ MemNext /\ Others("memory")
        \/ part = "files" /\ BlockNext /\ Others("files")
        \/ part = "text" /\ TextNext /\ Others("text")
        \/ part = "heap" /\ HeapNext /\ Others("heap")
        \/ part = "parser" /\ parsecmd /\ Others("parser")

\* Processes, and CPUs, are interchangeable.
perms == Permutations(Tasks) \cup Permutations(Cpus)

vars == <<part, queueVars, clockVars, conVars, screen, kbd, down, spinVars, pipeVars,
          memVars, blockVars, textVars, heapVars, parserVars>>
Spec == Init /\ [][Next]_vars
====
