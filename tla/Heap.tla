---- MODULE Heap ----
(***************************************************************************)
(* The user library's allocator, libs/umalloc.c: a circular list of free   *)
(* blocks in the order of their addresses, searched from freep (next fit). *)
(* Addresses count units of one Header; sbrk is contiguous, but the program*)
(* may also call it itself between two calls of the allocator.             *)
(***************************************************************************)
EXTENDS Integers, FiniteSets, Functions

CONSTANTS HEADER,             \* sizeof(Header)
          NALLOC,             \* the units morecore asks for at least (4096)
          HEAP0, HEAPEND,     \* the first address sbrk gives, and where it fails
          Requests            \* the arguments of malloc, in bytes

ASSUME HeapAssumption == 0 < HEADER /\ 0 < NALLOC /\ 0 < HEAP0 /\ HEAP0 < HEAPEND /\ Requests \subseteq Nat

VARIABLES hdr,       \* the headers of blocks and of base: ptr and size
          freep,     \* where the search starts; NoHdr before the first malloc
          brk,       \* the program's end
          live,      \* the blocks the program holds
          own        \* the units the program took with sbrk itself

heapVars == <<hdr, freep, brk, live, own>>

base == 0            \* a static header of size 0, below the heap
NoHdr == 0 - 1
HeapInit == /\ hdr = [a \in {base} |-> [ptr |-> base, size |-> 0]] /\ freep = NoHdr
            /\ brk = HEAP0 /\ live = {} /\ own = {}

nunits(nbytes) == (nbytes + HEADER - 1) \div HEADER + 1

----
RECURSIVE Before(_, _, _)
\* The block after which bp belongs: free's loop.
Before(h, p, bp) ==
    LET q == h[p].ptr
    IN IF (bp > p /\ bp < q) \/ (p >= q /\ (bp > p \/ bp < q)) THEN p ELSE Before(h, q, bp)

JoinUp_Keep(h, p, bp) == [h EXCEPT ![bp].ptr = h[p].ptr]
\* bp with the free block above it, if they touch.
JoinUp(h, p, bp) ==
    LET q == h[p].ptr
    IN IF bp + h[bp].size = q
       THEN Restrict([h EXCEPT ![bp] = [ptr |-> h[q].ptr, size |-> @.size + h[q].size]], DOMAIN h \ {q})
       ELSE [h EXCEPT ![bp].ptr = q]
\* p with bp, if they touch.
JoinDown(h, p, bp) ==
    IF p + h[p].size = bp
    THEN Restrict([h EXCEPT ![p] = [ptr |-> h[bp].ptr, size |-> @.size + h[bp].size]], DOMAIN h \ {bp})
    ELSE [h EXCEPT ![p].ptr = bp]
\* free, from a list h whose search starts at f: the new headers and freep.
Freed(h, f, bp) == LET p == Before(h, f, bp) IN [h |-> JoinDown(JoinUp(h, p, bp), p, bp), f |-> p]

free(bp) == /\ bp \in live
            /\ hdr' = Freed(hdr, freep, bp).h /\ freep' = Freed(hdr, freep, bp).f
            /\ live' = live \ {bp} /\ UNCHANGED <<brk, own>>

----
RECURSIVE Fit(_, _, _, _)
\* The predecessor of the first block of at least n units after prevp, or NoHdr
\* when the search has come round to f.
Fit(h, f, prevp, n) ==
    LET p == h[prevp].ptr IN IF h[p].size >= n THEN prevp ELSE IF p = f THEN NoHdr ELSE Fit(h, f, p, n)

\* The headers after n units of prevp's successor are handed out, and their address.
Carved(h, prevp, n) ==
    LET p == h[prevp].ptr
        rest == h[p].size - n
    IN IF rest = 0 THEN [h |-> [h EXCEPT ![prevp].ptr = h[p].ptr], at |-> p]
       ELSE [h |-> [a \in DOMAIN h \union {p + rest} |->
                      CASE a = p -> [h[p] EXCEPT !.size = rest]
                        [] a = p + rest -> [ptr |-> base, size |-> n]
                        [] OTHER -> h[a]],
             at |-> p + rest]

Core(n) == IF n < NALLOC THEN NALLOC ELSE n
\* morecore: the list with a new block of the units sbrk gives.
More(h, f, n) ==
    Freed([a \in DOMAIN h \union {brk} |-> IF a = brk THEN [ptr |-> base, size |-> Core(n)] ELSE h[a]], f, brk)

First == IF freep = NoHdr THEN base ELSE freep
Give(h, prevp, n) == /\ hdr' = Carved(h, prevp, n).h /\ freep' = prevp
                     /\ live' = live \union {Carved(h, prevp, n).at} /\ UNCHANGED own

malloc(n) == Fit(hdr, First, First, n) # NoHdr /\ Give(hdr, Fit(hdr, First, First, n), n) /\ UNCHANGED brk
\* The search came round: morecore, and on from the freep it leaves.
malloc_more(n) ==
    LET m == More(hdr, First, n)
    IN /\ Fit(hdr, First, First, n) = NoHdr /\ brk + Core(n) <= HEAPEND
       /\ Fit(m.h, m.f, m.f, n) # NoHdr      \* the new block fits
       /\ Give(m.h, Fit(m.h, m.f, m.f, n), n) /\ brk' = brk + Core(n)
malloc_null(n) == /\ Fit(hdr, First, First, n) = NoHdr /\ brk + Core(n) > HEAPEND
                  /\ freep' = First /\ UNCHANGED <<hdr, brk, live, own>>

\* The program moves its end by a unit itself.
heap_sbrk == /\ brk < HEAPEND /\ brk' = brk + 1 /\ own' = own \union {brk} /\ UNCHANGED <<hdr, freep, live>>

HeapNext == \/ heap_sbrk
            \/ \E bp \in live : free(bp)
            \/ \E nbytes \in Requests : \/ malloc(nunits(nbytes)) \/ malloc_more(nunits(nbytes))
                                        \/ malloc_null(nunits(nbytes))

----
FreeBlocks == (DOMAIN hdr) \ (live \union {base})
Units(a) == a..(a + hdr[a].size - 1)
\* umalloc.c: the blocks in use, the free blocks and the program's own memory
\* tile what sbrk gave: nothing overlaps, nothing is lost, and free leaves no two
\* free blocks side by side.
HeapTiled ==
    /\ UNION {Units(a) : a \in DOMAIN hdr} \union own = HEAP0..(brk - 1)
    /\ \A a, b \in DOMAIN hdr : a # b => Units(a) \intersect (Units(b) \union own) = {}
    /\ \A a, b \in FreeBlocks : a + hdr[a].size # b

\* umalloc.c:30-32: the free list visits every free block once, upwards from
\* base and back, and freep is on it, so that both searches come to an end.
ListAscends ==
    /\ freep \in FreeBlocks \union {base, NoHdr}
    /\ \A a \in FreeBlocks \union {base} :
          LET above == {b \in FreeBlocks : b > a}
          IN hdr[a].ptr = IF above = {} THEN base ELSE CHOOSE b \in above : \A c \in above : b <= c

\* umalloc.c:74-86: wherever the last search stopped, malloc finds a block when
\* some free block has the units asked for: it needs no more memory before.
FitsWhenFree ==
    \A nbytes \in Requests : Fit(hdr, First, First, nunits(nbytes)) = NoHdr
                                => \A a \in FreeBlocks : hdr[a].size < nunits(nbytes)

\* umalloc.c: the heap is tiled, its free list in order, and free memory found.
HeapSound == HeapTiled /\ ListAscends /\ FitsWhenFree
====
