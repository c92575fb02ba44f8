---- MODULE Terminal ----
(***************************************************************************)
(* What the console promises a reader: finished lines, in the order they   *)
(* were typed, and one line that can still be edited; together they never  *)
(* exceed the size of the input buffer.                                    *)
(***************************************************************************)
EXTENDS Integers, Sequences

CONSTANTS Size, Letters, Ends     \* Ends: what finishes a line
VARIABLES ready, line

Init == ready = <<>> /\ line = <<>>

Commit(l) == ready' = ready \o l /\ line' = <<>>
Type == /\ Len(ready) + Len(line) < Size
        /\ \E c \in Letters \cup Ends :
              LET l == Append(line, c)
              IN IF c \in Ends \/ Len(ready) + Len(l) = Size THEN Commit(l)
                 ELSE line' = l /\ UNCHANGED ready
Erase == line # <<>> /\ line' = SubSeq(line, 1, Len(line) - 1) /\ UNCHANGED ready
Kill == line' = <<>> /\ UNCHANGED ready
Take == ready # <<>> /\ ready' = Tail(ready) /\ UNCHANGED line

Next == Type \/ Erase \/ Kill \/ Take
Spec == Init /\ [][Next]_<<ready, line>>
====
