---- MODULE Memory ----
(***************************************************************************)
(* Physical memory and address spaces: the page allocator (kalloc.c), page *)
(* tables (vm.c), and the calls that build, copy, resize and discard an    *)
(* address space: exec (exec.c), fork, sbrk/growproc and wait (proc.c).    *)
(*                                                                         *)
(* Sizes are in units of which PGSIZE make a page; a page-table page maps  *)
(* NPTENTRIES pages.  The free list is kept as a set: which free page      *)
(* kalloc returns makes no difference.  exec reads its file between its    *)
(* allocations, so it is several steps; the others are one.                *)
(***************************************************************************)
EXTENDS Integers, FiniteSets, SequencesExt

CONSTANTS MemProcs,
          NPAGES,       \* physical pages for kernel heap and users
          PGSIZE, NPTENTRIES,
          KERNBASE,     \* first address, in units, that is not a user address
          KTABLES,      \* page-table pages that setupkvm's mappings need
          UINT,         \* 2^32: sizes are unsigned
          Programs,     \* the segments of the files executed: sequences of
                        \* sizes vaddr + memsz, in units
          Deltas        \* the arguments of sbrk

ASSUME MemAssumption == /\ {NPAGES, PGSIZE, NPTENTRIES, KERNBASE, UINT} \subseteq Nat \ {0}
                        /\ KTABLES \in Nat /\ KERNBASE % PGSIZE = 0 /\ KERNBASE < UINT

VARIABLES freelist,     \* kmem.freelist
          as,           \* each process's address space and size, or NoSpace
          kstack,       \* each process's kernel stack, 0 for an unused slot
          new,          \* the address space exec is building, or NoSpace
          todo,         \* the segments exec still has to load
          failed,       \* whether the last step was a call that failed
          vmpanic

memVars == <<freelist, as, kstack, new, todo, failed, vmpanic>>

Pages == 1..NPAGES
UserPages == 0..(KERNBASE \div PGSIZE - 1)
PDX(v) == v \div NPTENTRIES
Tables == {PDX(v) : v \in UserPages} \cup {0 - k : k \in 1..KTABLES}     \* negative: the kernel's
PGROUNDUP(sz) == (sz + PGSIZE - 1) \div PGSIZE     \* as a page number

\* A page directory, its page-table pages and the pages it maps; 0 is absent.
NoSpace == [pgdir |-> 0, tab |-> [t \in Tables |-> 0], map |-> [v \in UserPages |-> 0], sz |-> 0]

\* Allocation threads the free list through the address space being changed:
\* m.free and m.as, with m.ok false once something has failed.
kalloc(m) == CHOOSE pg \in m.free : \A q \in m.free : pg <= q
kfree(m, pgs) == [m EXCEPT !.free = @ \cup (pgs \ {0})]
Out(m) == m.free = {}

\* walkpgdir(alloc): the page-table page of table t, made if need be.
walkpgdir(m, t) ==
    IF ~m.ok \/ m.as.tab[t] # 0 THEN m
    ELSE IF Out(m) THEN [m EXCEPT !.ok = FALSE]
    ELSE [m EXCEPT !.free = @ \ {kalloc(m)}, !.as.tab[t] = kalloc(m)]

\* The pages deallocuvm visits: from sz, rounded up, up to old.
Above(sz, old) == {v \in UserPages : v >= PGROUNDUP(sz) /\ v * PGSIZE < old}

\* deallocuvm: unmap and free the pages from sz up to old.
deallocuvm(m, old, sz) ==
    [kfree(m, {m.as.map[v] : v \in Above(sz, old)})
        EXCEPT !.as.map = [v \in UserPages |-> IF v \in Above(sz, old) THEN 0 ELSE @[v]]]

\* freevm: the user pages, the page-table pages and the directory.
freevm(m) ==
    LET d == deallocuvm(m, KERNBASE, 0)
    IN [kfree(d, {d.as.tab[t] : t \in Tables} \cup {d.as.pgdir}) EXCEPT !.as = NoSpace]

\* setupkvm: a directory and the kernel's page tables, or nothing.
setupkvm(free) ==
    LET m == [free |-> free, as |-> NoSpace, ok |-> TRUE]
        d == [m EXCEPT !.free = @ \ {kalloc(m)}, !.as.pgdir = kalloc(m)]
        k == FoldLeft(walkpgdir, d, [i \in 1..KTABLES |-> 0 - i])
    IN IF Out(m) THEN [m EXCEPT !.ok = FALSE] ELSE IF k.ok THEN k ELSE freevm(k)

MapFailed_Lose(m, pg) == m
\* The page that could not be mapped goes back.
MapFailed(m, pg) == kfree(m, {pg})

\* kalloc and mappages of one user page: the body of allocuvm's and copyuvm's
\* loops.  When the page-table page cannot be had, the page is given back.
MapPage(m, v) ==
    IF ~m.ok THEN m
    ELSE IF Out(m) THEN [m EXCEPT !.ok = FALSE]
    ELSE LET pg == kalloc(m)
             w == walkpgdir([m EXCEPT !.free = @ \ {pg}], PDX(v))
         IN IF w.ok THEN [w EXCEPT !.as.map[v] = pg] ELSE MapFailed(w, pg)

Range2Seq(a, b) == [i \in 1..(b - a) |-> a + i - 1]

\* allocuvm from size old to size sz; on failure what it added is undone.
allocuvm(m, old, sz) ==
    IF sz >= KERNBASE THEN [m EXCEPT !.ok = FALSE]
    ELSE IF sz < old THEN [m EXCEPT !.as.sz = old]
    ELSE LET r == FoldLeft(MapPage, m, Range2Seq(PGROUNDUP(old), PGROUNDUP(sz)))
         IN IF r.ok THEN [r EXCEPT !.as.sz = sz] ELSE deallocuvm(r, sz, old)

\* copyuvm: a new space with a copy of each of the size's pages, or nothing.
copyuvm(free, old) ==
    LET k == setupkvm(free)
        r == FoldLeft(MapPage, k, Range2Seq(0, PGROUNDUP(old.sz)))
    IN IF ~k.ok THEN k ELSE IF r.ok THEN [r EXCEPT !.as.sz = old.sz] ELSE freevm(r)

----
Of(p) == [free |-> freelist, as |-> as[p], ok |-> TRUE]

initproc == CHOOSE p \in MemProcs : TRUE

\* userinit: the first process has a kernel stack and one page (inituvm).
MemInit ==
    LET m == allocuvm(setupkvm(Pages), 0, PGSIZE)
    IN /\ freelist = m.free \ {kalloc(m)}
       /\ as = [p \in MemProcs |-> IF p = initproc THEN m.as ELSE NoSpace]
       /\ kstack = [p \in MemProcs |-> IF p = initproc THEN kalloc(m) ELSE 0]
       /\ new = [p \in MemProcs |-> NoSpace] /\ todo = [p \in MemProcs |-> <<>>]
       /\ failed = FALSE /\ vmpanic = FALSE

\* A process that has unmapped its own code makes no more calls: it faults.
Alive(p) == as[p].map[0] # 0
Running(p) == ~vmpanic /\ kstack[p] # 0 /\ new[p].pgdir = 0 /\ Alive(p)

\* fork: the first free slot's kernel stack (allocproc), then a copy of the space.
fork(p, q) ==
    LET m == copyuvm(freelist \ {kalloc(Of(p))}, as[p])
    IN /\ Running(p) /\ kstack[q] = 0
       /\ IF Out(Of(p)) THEN failed' = TRUE /\ UNCHANGED <<freelist, as, kstack, vmpanic>>
          ELSE IF \E v \in UserPages : v * PGSIZE < as[p].sz /\ as[p].map[v] = 0
          THEN vmpanic' = TRUE /\ UNCHANGED <<freelist, as, kstack, failed>>
          ELSE IF ~m.ok
          THEN /\ freelist' = m.free \cup {kalloc(Of(p))}
               /\ failed' = TRUE /\ UNCHANGED <<as, kstack, vmpanic>>
          ELSE /\ freelist' = m.free
               /\ as' = [as EXCEPT ![q] = m.as]
               /\ kstack' = [kstack EXCEPT ![q] = kalloc(Of(p))]
               /\ failed' = FALSE /\ UNCHANGED vmpanic
       /\ UNCHANGED <<new, todo>>

\* sbrk: growproc.  The new size is computed with wrap-around; both allocuvm
\* and deallocuvm report failure by returning size 0, so shrinking to nothing
\* unmaps every page and then fails.  init calls no sbrk.
growproc(p, n) ==
    LET sz == (as[p].sz + n) % UINT
        m == IF n > 0 THEN allocuvm(Of(p), as[p].sz, sz)
             ELSE IF sz >= as[p].sz THEN Of(p)
             ELSE [deallocuvm(Of(p), as[p].sz, sz) EXCEPT
                       !.ok = (sz # 0), !.as.sz = IF sz # 0 THEN sz ELSE @]
    IN /\ Running(p) /\ p # initproc
       /\ freelist' = m.free /\ as' = [as EXCEPT ![p] = m.as]
       /\ failed' = ~m.ok
       /\ UNCHANGED <<kstack, new, todo, vmpanic>>

\* exec has read and accepted the file's header: set up an empty space.
exec_begin(p, segments) ==
    LET m == setupkvm(freelist)
    IN /\ Running(p)
       /\ freelist' = m.free /\ new' = [new EXCEPT ![p] = m.as]
       /\ todo' = [todo EXCEPT ![p] = IF m.ok THEN segments ELSE <<>>]
       /\ failed' = ~m.ok /\ UNCHANGED <<as, kstack, vmpanic>>

\* exec's goto bad: the space built so far is freed.
ExecBad(p, m) == /\ freelist' = freevm(m).free
                 /\ new' = [new EXCEPT ![p] = NoSpace] /\ todo' = [todo EXCEPT ![p] = <<>>]
                 /\ failed' = TRUE
                 /\ UNCHANGED <<as, kstack, vmpanic>>
Built(p) == [free |-> freelist, as |-> new[p], ok |-> TRUE]

\* exec loads the next segment; the file may be short, or the header wrong.
exec_segment(p, bad) ==
    LET m == allocuvm(Built(p), new[p].sz, Head(todo[p]))
    IN /\ ~vmpanic /\ new[p].pgdir # 0 /\ todo[p] # <<>>
       /\ IF bad \/ ~m.ok THEN ExecBad(p, m)
          ELSE /\ freelist' = m.free /\ new' = [new EXCEPT ![p] = m.as]
               /\ todo' = [todo EXCEPT ![p] = Tail(@)]
               /\ failed' = FALSE /\ UNCHANGED <<as, kstack, vmpanic>>

\* exec's last act frees the space it replaces.
OldFreed(p, free) == freevm([free |-> free, as |-> as[p], ok |-> TRUE]).free

\* The guard and stack pages, the arguments, and the switch to the new space.
exec_commit(p, bad) ==
    LET sz == PGROUNDUP(new[p].sz) * PGSIZE
        m == allocuvm(Built(p), sz, sz + 2 * PGSIZE)
    IN /\ ~vmpanic /\ new[p].pgdir # 0 /\ todo[p] = <<>>
       /\ IF bad \/ ~m.ok THEN ExecBad(p, m)
          ELSE /\ freelist' = OldFreed(p, m.free)
               /\ as' = [as EXCEPT ![p] = m.as] /\ new' = [new EXCEPT ![p] = NoSpace]
               /\ failed' = FALSE /\ UNCHANGED <<kstack, todo, vmpanic>>

\* A process exits and its parent's wait frees its stack and space.
exit_wait(p) ==
    /\ ~vmpanic /\ kstack[p] # 0 /\ new[p].pgdir = 0 /\ p # initproc
    /\ freelist' = freevm(Of(p)).free \cup {kstack[p]}
    /\ as' = [as EXCEPT ![p] = NoSpace] /\ kstack' = [kstack EXCEPT ![p] = 0]
    /\ failed' = FALSE /\ UNCHANGED <<new, todo, vmpanic>>

MemNext == \E p \in MemProcs :
              \/ \E q \in MemProcs : fork(p, q)
              \/ \E n \in Deltas : growproc(p, n)
              \/ \E segments \in Programs : exec_begin(p, segments)
              \/ \E bad \in BOOLEAN : exec_segment(p, bad)
              \/ \E bad \in BOOLEAN : exec_commit(p, bad)
              \/ exit_wait(p)

----
\* The places that hold a page: mappings, tables and the directory of an
\* address space in use or being built, and kernel stacks.
AddrSpace(p, w) == IF w = "as" THEN as[p] ELSE new[p]
Spaces == MemProcs \X {"as", "new"}
Maps == {x \in Spaces \X UserPages : AddrSpace(x[1][1], x[1][2]).map[x[2]] # 0}
Tabs == {x \in Spaces \X Tables : AddrSpace(x[1][1], x[1][2]).tab[x[2]] # 0}
Dirs == {x \in Spaces : AddrSpace(x[1], x[2]).pgdir # 0}
Stacks == {p \in MemProcs : kstack[p] # 0}
HeldPages == {AddrSpace(x[1][1], x[1][2]).map[x[2]] : x \in Maps} \cup {AddrSpace(x[1][1], x[1][2]).tab[x[2]] : x \in Tabs}
         \cup {AddrSpace(x[1], x[2]).pgdir : x \in Dirs} \cup {kstack[p] : p \in Stacks}

\* kalloc.c, vm.c: whatever fails half way, every physical page is either free
\* or held in exactly one place: none is leaked, shared or freed twice.
PagesConserved ==
    /\ freelist \cup HeldPages = Pages
    /\ Cardinality(freelist) + Cardinality(Maps) + Cardinality(Tabs) + Cardinality(Dirs)
         + Cardinality(Stacks) = NPAGES

\* vm.c:325-329: the pages below a process's size are mapped and no others, so
\* copyuvm never panics, as long as the process still has its code.
SizeMapped ==
    /\ ~vmpanic
    /\ \A p \in {q \in MemProcs : Alive(q)}, v \in UserPages :
          /\ as[p].map[v] # 0 <=> v * PGSIZE < as[p].sz
          /\ as[p].map[v] # 0 => as[p].tab[PDX(v)] # 0

\* exec.c, proc.c:225-231: a fork, sbrk or exec that fails leaves every process
\* with the memory it had and at most extra page-table pages, unless it asked
\* to have no memory at all.
FailureHarmless ==
    [][failed' => \A p \in MemProcs : \/ Alive(p) /\ ~Alive(p)' /\ as'[p].pgdir # 0
                                   \/ /\ as'[p].map = as[p].map /\ as'[p].sz = as[p].sz
                                      /\ as'[p].pgdir = as[p].pgdir /\ kstack'[p] = kstack[p]]_memVars

\* kalloc.c, vm.c, exec.c: memory is accounted for, mapped as its size says,
\* and kept by calls that fail.
MemorySound == [](PagesConserved /\ SizeMapped) /\ FailureHarmless
====
