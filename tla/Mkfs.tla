---- MODULE Mkfs ----
(***************************************************************************)
(* mkfs.c: the file-system image a kernel is started on.  A block is BSIZE *)
(* cells; a cell holds a byte of a file, a directory entry (as its inode   *)
(* number) or a block number, so an indirect block holds BSIZE numbers.    *)
(***************************************************************************)
EXTENDS Integers, SequencesExt

CONSTANTS BSIZE, NDIRECT, NINODES, IPB, LOGSIZE, FSSIZE

ASSUME MkfsAssumption == /\ {BSIZE, NDIRECT, NINODES, IPB, LOGSIZE, FSSIZE} \subseteq Nat \ {0}
                         /\ FSSIZE <= BSIZE * 8       \* one bitmap block

MAXFILE == NDIRECT + BSIZE
nmeta == 2 + LOGSIZE + (NINODES \div IPB + 1) + (FSSIZE \div (BSIZE * 8) + 1)
Inums == 1..(NINODES - 1)
zeroes == [k \in 0..(BSIZE - 1) |-> 0]

NewInode(type) == [type |-> type, size |-> 0, addrs |-> [n \in 0..NDIRECT |-> 0]]

\* main, up to the root directory: a zeroed image of which the metadata is used.
Blank == [disk |-> [b \in nmeta..(FSSIZE - 1) |-> zeroes],
          inode |-> [i \in Inums |-> NewInode("none")],
          freeblock |-> nmeta, freeinode |-> 1]

ialloc(g, type) == [g EXCEPT !.inode[g.freeinode] = NewInode(type), !.freeinode = @ + 1]

\* The pieces, one per block, of n bytes at offset off: [from, to) of the file.
Pieces(off, n) ==
    LET first == off \div BSIZE
        count == IF n = 0 THEN 0 ELSE (off + n - 1) \div BSIZE - first + 1
    IN [k \in 1..count |-> LET bn == first + k - 1
                           IN [bn |-> bn, from |-> IF k = 1 THEN off ELSE bn * BSIZE,
                               to |-> IF k = count THEN off + n ELSE (bn + 1) * BSIZE]]

\* iappend's block for file block fbn, taking blocks from freeblock as needed.
Direct(g, inum, fbn) == IF g.inode[inum].addrs[fbn] # 0 THEN g
                        ELSE [g EXCEPT !.inode[inum].addrs[fbn] = g.freeblock, !.freeblock = @ + 1]
Placed(g, inum, fbn) ==
    IF fbn < NDIRECT THEN Direct(g, inum, fbn)
    ELSE LET d == Direct(g, inum, NDIRECT)
             x == d.inode[inum].addrs[NDIRECT]
         IN IF d.disk[x][fbn - NDIRECT] # 0 THEN d
            ELSE [d EXCEPT !.disk[x][fbn - NDIRECT] = d.freeblock, !.freeblock = @ + 1]

\* Where a file's block is: in the inode or in the indirect block; 0 if nowhere.
Block(disk, ip, bn) == IF bn < NDIRECT THEN ip.addrs[bn]
                       ELSE IF ip.addrs[NDIRECT] = 0 THEN 0 ELSE disk[ip.addrs[NDIRECT]][bn - NDIRECT]

\* bcopy of one piece of the bytes s, which start at offset off.
Fill(cells, piece, s, off) ==
    [k \in DOMAIN cells |-> LET at == piece.bn * BSIZE + k
                            IN IF at >= piece.from /\ at < piece.to THEN s[at - off + 1] ELSE cells[k]]

iappend(g, inum, s) ==
    LET off == g.inode[inum].size
        Piece(h, piece) == LET r == Placed(h, inum, piece.bn)
                               x == Block(r.disk, r.inode[inum], piece.bn)
                           IN [r EXCEPT !.disk[x] = Fill(@, piece, s, off)]
    IN [FoldLeft(Piece, g, Pieces(off, Len(s))) EXCEPT !.inode[inum].size = off + Len(s)]

\* A file: its inode, its entry in the root directory, and its bytes, which
\* are read a block at a time.
AddFile(g, bytes) ==
    LET inum == g.freeinode
        named == iappend(ialloc(g, "file"), 1, <<inum>>)
        Chunk(h, piece) == iappend(h, inum, SubSeq(bytes, piece.from + 1, piece.to))
    IN FoldLeft(Chunk, named, Pieces(0, Len(bytes)))

\* The root directory's size is rounded up past its entries.
RootSize(off) == (off \div BSIZE + 1) * BSIZE

\* balloc: the bitmap has the first freeblock blocks in use.
InUse(freeblock) == 0..(freeblock - 1)

\* main: root directory with "." and "..", the files, the root's size, the bitmap.
Image(files) ==
    LET root == iappend(iappend(ialloc(Blank, "dir"), 1, <<1>>), 1, <<1>>)
        full == FoldLeft(AddFile, root, files)
    IN [disk |-> full.disk, bitmap |-> InUse(full.freeblock),
        inode |-> [full.inode EXCEPT ![1].size = RootSize(@)]]
====
