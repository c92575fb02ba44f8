---- MODULE FlatFile ----
(***************************************************************************)
(* What the block layer promises its callers: each inode is one sequence   *)
(* of bytes that a write overwrites and extends, without holes, a read     *)
(* returns a part of, and freeing the inode empties.                       *)
(***************************************************************************)
EXTENDS Integers, SequencesExt

CONSTANTS Inodes, Lens, Byte
VARIABLES start,      \* the contents on a fresh disk
          content, got

Init == content = start /\ got = <<>>

\* The bytes d replace those from offset off on.
Over(s, off, d) == [k \in 1..(IF off + Len(d) > Len(s) THEN off + Len(d) ELSE Len(s)) |->
                       IF k > off /\ k <= off + Len(d) THEN d[k - off] ELSE s[k]]

\* A write into inode i, or freeing it.
Change(i) == LET s == content[i]
                 t == content'[i]
             IN /\ \A j \in Inodes \ {i} : content'[j] = content[j]
                /\ \/ t = <<>>
                   \/ \E off \in 0..Len(s), n \in Lens : t = Over(s, off, [k \in 1..n |-> Byte])
                /\ got' = <<>>
Read(i) == LET s == content[i]
           IN \E off \in 0..Len(s) : \E to \in off..Len(s) : got' = SubSeq(s, off + 1, to)
Fail == got' = <<>>

Next == \/ UNCHANGED content /\ (Fail \/ \E i \in Inodes : Read(i))
        \/ \E i \in Inodes : Change(i)
Spec == Init /\ [][Next]_<<content, got>>
====
