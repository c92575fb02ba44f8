----------------------------- MODULE ByteStream -----------------------------
(***************************************************************************)
(* What a pipe promises (kernel/pipe.c): the bytes of the writes come out  *)
(* at the other end in the order in which they went in.                    *)
(***************************************************************************)
EXTENDS Integers, Sequences

CONSTANTS Writers, Readers, Inputs, Capacity

VARIABLES stream,   \* the bytes on the way
          unsent,   \* what is left of the write of each writer
          got       \* what the last read of each reader returned

bvars == <<stream, unsent, got>>

BInit ==
  /\ stream = <<>>
  /\ unsent = [w \in Writers |-> <<>>]
  /\ got = [r \in Readers |-> <<>>]

\* A writer starts a call, or gives up on what is left of it.
Offer(w, s) ==
  /\ unsent' = [unsent EXCEPT ![w] = s]
  /\ UNCHANGED <<stream, got>>

\* A writer puts its next k bytes into the stream; a failing call puts them
\* in and gives up on the rest.
Send(w, k) ==
  /\ Len(stream) + k <= Capacity
  /\ stream' = stream \o SubSeq(unsent[w], 1, k)
  /\ \/ unsent' = [unsent EXCEPT ![w] = SubSeq(@, k + 1, Len(@))]
     \/ unsent' = [unsent EXCEPT ![w] = <<>>]
  /\ UNCHANGED got

\* A reader takes the oldest k bytes.
Receive(r, k) ==
  /\ got' = [got EXCEPT ![r] = SubSeq(stream, 1, k)]
  /\ stream' = SubSeq(stream, k + 1, Len(stream))
  /\ UNCHANGED unsent

BNext ==
  \/ \E w \in Writers : \/ \E s \in Inputs : Offer(w, s)
                       \/ \E k \in 1 .. Len(unsent[w]) : Send(w, k)
  \/ \E r \in Readers : \E k \in 0 .. Len(stream) : Receive(r, k)

BSpec == BInit /\ [][BNext]_bvars
=============================================================================
