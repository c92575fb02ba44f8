---- MODULE BlockStore ----
(***************************************************************************)
(* What the buffer cache promises its callers (the interface comment at    *)
(* the top of bio.c): a disk block has one content, at most one process    *)
(* has a block at a time, and only the process that has it changes it.     *)
(***************************************************************************)
CONSTANTS Procs, Blocks, Values, NoBlock
VARIABLES content,      \* content[b]: what the block holds
          has           \* has[p]: the block p got from bread, or NoBlock

Init == /\ content \in [Blocks -> Values]
        /\ has = [p \in Procs |-> NoBlock]

Take(p, b) == /\ has[p] = NoBlock
              /\ \A q \in Procs : has[q] # b
              /\ has' = [has EXCEPT ![p] = b]
              /\ UNCHANGED content

Change(p, v) == /\ has[p] # NoBlock
                /\ content' = [content EXCEPT ![has[p]] = v]
                /\ UNCHANGED has

Give(p) == /\ has[p] # NoBlock
           /\ has' = [has EXCEPT ![p] = NoBlock]
           /\ UNCHANGED content

Next == \E p \in Procs : \/ \E b \in Blocks : Take(p, b)
                         \/ \E v \in Values : Change(p, v)
                         \/ Give(p)

Spec == Init /\ [][Next]_<<content, has>>
====
