---- MODULE Blocks ----
(***************************************************************************)
(* The block layer of fs.c: the free bitmap, an inode's blocks, reading    *)
(* and writing them (readi, writei), freeing them (itrunc), and file.c's   *)
(* fileread and filewrite, on the image that mkfs builds.  A chunk of a    *)
(* write is one step: it runs in one transaction with the inode locked.    *)
(***************************************************************************)
EXTENDS Mkfs, FiniteSets

CONSTANTS BlockProcs, Disks,  \* Disks: the lists of files mkfs may be given
          MAXOPBLOCKS,
          Lens, Byte,         \* how much is read or written at once, and what
          MaxCalls

VARIABLES fsys,     \* disk, bitmap, inode in memory and dinode on disk; wrote: the blocks the
                    \* last transaction logged; panic
          f,        \* each process's open file: inode, offset, bytes left to write
          out,      \* what the last read returned
          made,     \* the files of the image
          calls     \* system calls so far, at most MaxCalls

blockVars == <<fsys, f, out, made, calls>>

IBLOCK(i) == 2 + LOGSIZE + i \div IPB
BBLOCK(b) == 2 + LOGSIZE + NINODES \div IPB + 1 + b \div (BSIZE * 8)

Logged(s, blocks) == [s EXCEPT !.wrote = @ \cup blocks]

FreeBits(s) == 0..(FSSIZE - 1) \ s.bitmap
Lowest(s) == CHOOSE b \in FreeBits(s) : \A c \in FreeBits(s) : b <= c
\* balloc and bzero: the first free block, zeroed.  It is never 0, the boot block.
balloc(s) == Logged([s EXCEPT !.bitmap = @ \cup {Lowest(s)}, !.disk[Lowest(s)] = zeroes],
                    {BBLOCK(Lowest(s)), Lowest(s)})
Full(s) == FreeBits(s) = {}
Panic(s) == [s EXCEPT !.panic = TRUE]

\* bfree of a block number read from an inode; 0 is no block.
bfree(s, b) == IF b = 0 THEN s
               ELSE IF b \notin s.bitmap THEN Panic(s)
               ELSE Logged([s EXCEPT !.bitmap = @ \ {b}], {BBLOCK(b)})

\* bmap: make file block bn of inode i exist.  The inode's own change is
\* written by the caller's iupdate.
Addr(s, i, n) == IF s.inode[i].addrs[n] # 0 THEN s
                 ELSE IF Full(s) THEN Panic(s)
                 ELSE [balloc(s) EXCEPT !.inode[i].addrs[n] = Lowest(s)]
bmap(s, i, bn) ==
    IF bn < NDIRECT THEN Addr(s, i, bn)
    ELSE LET d == Addr(s, i, NDIRECT)
             x == d.inode[i].addrs[NDIRECT]
         IN IF bn >= MAXFILE THEN Panic(s)
            ELSE IF d.panic \/ d.disk[x][bn - NDIRECT] # 0 THEN d
            ELSE IF Full(d) THEN Panic(d)
            ELSE Logged([balloc(d) EXCEPT !.disk[x][bn - NDIRECT] = Lowest(d)], {x})

\* iupdate: copy the inode to its disk block.
iupdate(s, i) == Logged([s EXCEPT !.dinode[i] = s.inode[i]], {IBLOCK(i)})

Indirect_Unread(s, x) == <<x>>
\* The blocks the indirect block x leads to, and x itself.
Indirect(s, x) == IF x = 0 THEN <<>> ELSE [k \in 1..BSIZE |-> s.disk[x][k - 1]] \o <<x>>
Emptied_Size(ip) == [NewInode(ip.type) EXCEPT !.size = ip.size]
Emptied(ip) == NewInode(ip.type)
itrunc(s, i) ==
    LET addrs == s.inode[i].addrs
        freed == FoldLeft(bfree, s, [k \in 1..NDIRECT |-> addrs[k - 1]] \o Indirect(s, addrs[NDIRECT]))
    IN iupdate([freed EXCEPT !.inode[i] = Emptied(@)], i)

\* readi: the bytes of [off, off + n) that the file has; a block that is not
\* there would be allocated, and so reads as zeroes.
readi(s, i, off, n) ==
    LET ip == s.inode[i]
        end == IF off + n > ip.size THEN ip.size ELSE off + n
        Byteat(at) == LET x == Block(s.disk, ip, at \div BSIZE) IN IF x = 0 THEN 0 ELSE s.disk[x][at % BSIZE]
    IN [k \in 1..(end - off) |-> Byteat(off + k - 1)]

Grew(ip, end) == end > ip.size
Accepts(ip, off, n) == off <= ip.size /\ off + n <= MAXFILE * BSIZE
writei(s, i, off, d) ==
    LET Piece(t, piece) == LET r == bmap(t, i, piece.bn)
                               x == Block(r.disk, r.inode[i], piece.bn)
                           IN IF t.panic \/ r.panic THEN Panic(t)
                              ELSE Logged([r EXCEPT !.disk[x] = Fill(@, piece, d, off)], {x})
        w == FoldLeft(Piece, s, Pieces(off, Len(d)))
        end == off + Len(d)
    IN IF Grew(w.inode[i], end) THEN iupdate([w EXCEPT !.inode[i].size = end], i) ELSE w

\* What filewrite writes in one transaction.
ChunkLen(n) == LET max == ((MAXOPBLOCKS - 1 - 1 - 2) \div 2) * BSIZE IN IF n > max THEN max ELSE n

----
BlockInit ==
    /\ made \in Disks
    /\ LET g == Image(made)
       IN fsys = [disk |-> g.disk, bitmap |-> g.bitmap, inode |-> g.inode, dinode |-> g.inode,
                  wrote |-> {}, panic |-> FALSE]
    /\ f = [p \in BlockProcs |-> [ip |-> 0, off |-> 0, left |-> <<>>]]
    /\ out = <<>> /\ calls = 0

Call == ~fsys.panic /\ calls < MaxCalls /\ calls' = calls + 1
Idle(p) == f[p].left = <<>> /\ Call
Begun == [fsys EXCEPT !.wrote = {}]

\* The transaction of a call that panics is never committed.
Committed(s) == IF s.panic THEN Panic(fsys) ELSE s

open(p, i) == /\ Idle(p) /\ f[p].ip = 0 /\ fsys.inode[i].type # "none"
              /\ f' = [f EXCEPT ![p] = [ip |-> i, off |-> 0, left |-> <<>>]]
              /\ out' = <<>> /\ UNCHANGED <<fsys, made>>
close(p) == /\ Idle(p) /\ f[p].ip # 0
            /\ f' = [f EXCEPT ![p] = [ip |-> 0, off |-> 0, left |-> <<>>]]
            /\ out' = <<>> /\ UNCHANGED <<fsys, made>>

\* fileread: a missing block would be allocated, outside of any transaction.
fileread(p, n) ==
    LET i == f[p].ip
        r == readi(fsys, i, f[p].off, n)
        holes == \E k \in f[p].off..(f[p].off + n - 1) :
                     k < fsys.inode[i].size /\ Block(fsys.disk, fsys.inode[i], k \div BSIZE) = 0
    IN /\ Idle(p) /\ i # 0
       /\ IF holes THEN fsys' = Panic(fsys) /\ UNCHANGED <<f, out>>
          ELSE /\ out' = r /\ f' = [f EXCEPT ![p].off = @ + Len(r)] /\ fsys' = Begun
       /\ UNCHANGED made

\* filewrite is called; directories are not opened for writing.
filewrite(p, d) ==
    /\ Idle(p) /\ f[p].ip # 0 /\ fsys.inode[f[p].ip].type = "file"
    /\ f' = [f EXCEPT ![p].left = d] /\ out' = <<>> /\ UNCHANGED <<fsys, made>>

\* One round of filewrite's loop: a transaction with the inode locked.
filewrite_chunk(p) ==
    LET n1 == ChunkLen(Len(f[p].left))
        d == SubSeq(f[p].left, 1, n1)
        w == writei(Begun, f[p].ip, f[p].off, d)
    IN /\ ~fsys.panic /\ f[p].left # <<>>
       /\ IF Accepts(fsys.inode[f[p].ip], f[p].off, n1)
          THEN /\ fsys' = Committed(w)
               /\ f' = [f EXCEPT ![p].off = @ + n1, ![p].left = SubSeq(@, n1 + 1, Len(@))]
          ELSE f' = [f EXCEPT ![p].left = <<>>] /\ fsys' = Begun
       /\ out' = <<>> /\ UNCHANGED <<made, calls>>

\* iput of an unlinked file's last reference truncates it and frees the inode.
iput_free(i) ==
    /\ Call /\ fsys.inode[i].type = "file" /\ \A p \in BlockProcs : f[p].ip # i
    /\ fsys' = Committed(iupdate([itrunc(Begun, i) EXCEPT !.inode[i].type = "none"], i))
    /\ out' = <<>> /\ UNCHANGED <<f, made>>

\* sys_open with O_CREATE of a new name: ialloc takes the first free inode.
create(p) ==
    LET unused == {i \in Inums : fsys.inode[i].type = "none"}
        i == CHOOSE x \in unused : \A y \in unused : x <= y
    IN /\ Idle(p) /\ f[p].ip = 0
       /\ IF unused = {} THEN fsys' = Panic(fsys) /\ UNCHANGED f
          ELSE /\ fsys' = Logged([Begun EXCEPT !.inode[i] = NewInode("file"), !.dinode[i] = NewInode("file")],
                                 {IBLOCK(i)})
               /\ f' = [f EXCEPT ![p] = [ip |-> i, off |-> 0, left |-> <<>>]]
       /\ out' = <<>> /\ UNCHANGED made

BlockNext == \/ \E p \in BlockProcs, i \in Inums : open(p, i)
             \/ \E p \in BlockProcs : close(p) \/ create(p) \/ filewrite_chunk(p)
             \/ \E p \in BlockProcs, n \in Lens : fileread(p, n)
             \/ \E p \in BlockProcs, n \in Lens : filewrite(p, [k \in 1..n |-> Byte])
             \/ \E i \in Inums : iput_free(i)

----
\* fs.c:53-95: every block in use belongs to the metadata or is the direct,
\* indirect or indirectly addressed block of exactly one inode: nothing is
\* lost, shared, or in use while marked free.
BlocksOwned ==
    LET block == [sl \in Inums \X (0..(MAXFILE - 1)) |-> Block(fsys.disk, fsys.inode[sl[1]], sl[2])]
        Filled == {sl \in DOMAIN block : block[sl] # 0}
        Tables == {i \in Inums : fsys.inode[i].addrs[NDIRECT] # 0}
        owned == {block[sl] : sl \in Filled} \cup {fsys.inode[i].addrs[NDIRECT] : i \in Tables}
    IN /\ Cardinality(owned) = Cardinality(Filled) + Cardinality(Tables)
       /\ fsys.bitmap = owned \cup 0..(nmeta - 1)

\* fs.c:216-219 "Must be called after every change to an ip->xxx field that
\* lives on disk": between transactions the disk has the inode as it is.
InodesWritten == fsys.dinode = fsys.inode

\* file.c:126-131: a chunk of a write logs no more than MAXOPBLOCKS blocks,
\* counting the inode, the bitmap and the indirect block.
ChunkFits == Cardinality(fsys.wrote) <= MAXOPBLOCKS

Content(i) == readi(fsys, i, 0, fsys.inode[i].size)
Zeros(n) == [k \in 1..n |-> 0]
Given == [i \in Inums |->
             IF i = 1
             THEN LET n == 2 + Len(made)
                  IN <<1, 1>> \o [k \in 1..Len(made) |-> k + 1] \o Zeros((n \div BSIZE + 1) * BSIZE - n)
             ELSE IF i - 1 \in DOMAIN made THEN made[i - 1] ELSE <<>>]

Flat == INSTANCE FlatFile WITH Inodes <- Inums, Lens <- 1..ChunkLen(FSSIZE), start <- Given,
            content <- [i \in Inums |-> Content(i)], got <- out

\* fs.c:449-511, mkfs.c: through the bitmap, direct and indirect blocks and
\* chunked writes, every inode behaves as one flat sequence of bytes, which
\* starts as mkfs was given it and is empty after it is freed.
ImplementsFlatFile == Flat!Spec

\* fs.c, file.c: the bitmap and the inodes on disk agree with the files, and a
\* transaction fits.
DiskSound == BlocksOwned /\ InodesWritten /\ ChunkFits
====
