---- MODULE MCWaiting ----
(***************************************************************************)
(* The buffer cache with the disk, and a pipe: the parts in which calls    *)
(* sleep for each other.  They share no state, so a behaviour is one       *)
(* part's and the other stays as it starts.                                *)
(***************************************************************************)
EXTENDS BufCache, Pipe

VARIABLE part

Init == part \in {"buffers", "pipe"} /\ BufInit /\ PipeInit

Next == /\ \/ part = "buffers" /\ BufNext /\ UNCHANGED pipeVars
           \/ part = "pipe" /\ PipeNext /\ UNCHANGED bufVars
        /\ UNCHANGED part

vars == <<part, bufVars, pipeVars>>
\* What process p is guaranteed to do if it can do it again and again: take and
\* give back a buffer; go on with a call on the pipe, for which it needs its lock.
Keeps(p) == \/ part = "buffers" /\ p \in Procs /\ GetsOrGives(p) /\ UNCHANGED <<part, pipeVars>>
            \/ part = "pipe" /\ PipeStep(p) /\ UNCHANGED <<part, bufVars>>

Spec == /\ Init /\ [][Next]_vars
        /\ WF_bufVars(Interrupts) /\ \A p \in Procs : WF_bufVars(Runs(p))
        /\ \A p \in PipeProcs : SF_vars(Keeps(p))
====
