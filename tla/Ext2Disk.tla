------------------------------ MODULE Ext2Disk ------------------------------
(***************************************************************************)
(* What kernel/ext2.c keeps on the disk, and its helpers that change it:   *)
(* the block and inode allocators, the inode table, the block map of an    *)
(* inode with its indirect block.                                          *)
(*                                                                         *)
(* The driver has no write cache, so an operation is the sequence of the   *)
(* disks its block writes leave behind, in the order of the code.  Every   *)
(* operator here takes such a history and appends to it; the last element  *)
(* is the disk as it is now, and a power failure leaves any element.  The  *)
(* device is assumed to complete every request it is given.                *)
(*                                                                         *)
(* Lengths are counted in 4-byte words, the size of a block pointer and    *)
(* the alignment of a directory entry.                                     *)
(***************************************************************************)
EXTENDS Integers, Sequences, FiniteSets, SequencesExt, FiniteSetsExt

CONSTANTS
  NBLOCKS,      \* sb.blocks_count
  BLOCKS_PG,    \* sb.blocks_per_group
  NINODES,      \* sb.inodes_count
  INODES_PG,    \* sb.inodes_per_group
  BSIZE,        \* fs->block_size, in words
  NDIRECT       \* direct block pointers of an inode (12)

ASSUME Ext2DiskAssumption ==
  /\ NBLOCKS \in Nat \ {0} /\ BLOCKS_PG \in Nat \ {0}
  /\ NINODES \in Nat \ {0} /\ INODES_PG \in Nat \ {0}
  /\ BSIZE \in Nat /\ BSIZE >= 6
  /\ NDIRECT \in Nat \ {0}

Block == 0 .. NBLOCKS - 1
Inode == 1 .. NINODES
Root == 2                          \* EXT2_ROOT_INO
BlockGroup(b) == b \div BLOCKS_PG
InodeGroup(i) == (i - 1) \div INODES_PG
Group == 0 .. BlockGroup(NBLOCKS - 1)
Slot == 0 .. NDIRECT               \* block[0..11], and block[12]
Junk == NBLOCKS                    \* a pointer made of some other data

NoInode == [type |-> "none", links |-> 0, size |-> 0,
            block |-> [k \in Slot |-> 0]]

\* The contents of a block: file data (0 when the block is all zeros), the
\* entries of a directory, or block pointers; and a block read as pointers,
\* which any other data makes junk of.
Word == 0 .. BSIZE - 1
Content(data, dirents, pointers) ==
  [data |-> data, dirents |-> dirents, pointers |-> pointers]
Data(x) ==
  Content(x, <<>>, [w \in Word |-> IF x = 0 THEN 0 ELSE Junk])
Dirents(es) == Content(1, es, [w \in Word |-> Junk])
Pointers(f) == Content(1, <<>>, f)

BlocksFor(size) == (size + BSIZE - 1) \div BSIZE

Now(h) == h[Len(h)]
Write(h, d) == Append(h, d)
WriteBlock(h, b, c) ==
  Write(h, IF b \in Block THEN [Now(h) EXCEPT !.content[b] = c]
                          ELSE [Now(h) EXCEPT !.broken = @ \cup {"junk"}])
WriteInode(h, i, raw) == Write(h, [Now(h) EXCEPT !.inode[i] = raw])

-----------------------------------------------------------------------------
(* The allocators.  Each writes the bitmap, then the group descriptor, then *)
(* the superblock.  A block's number is the number of its bit.              *)

FreeBlocks(d) ==
  {b \in Block : b \notin d.bused /\ d.bfree[BlockGroup(b)] > 0}

AllocBlock(h) ==
  IF FreeBlocks(Now(h)) = {} THEN [h |-> h, n |-> 0]
  ELSE LET b  == Min(FreeBlocks(Now(h)))
           d1 == [Now(h) EXCEPT !.bused = @ \cup {b}]
           d2 == [d1 EXCEPT !.bfree[BlockGroup(b)] = @ - 1]
           d3 == [d2 EXCEPT !.sbfree.blocks = @ - 1]
       IN [h |-> h \o <<d1, d2, d3>>, n |-> b]

\* Nothing tells the pointer apart from a number outside the disk.
FreeBlock(h, b) ==
  IF b \notin Block
  THEN Write(h, [Now(h) EXCEPT !.broken = @ \cup {"junk"}])
  ELSE LET d1 == [Now(h) EXCEPT !.bused = @ \ {b}]
           d2 == [d1 EXCEPT !.bfree[BlockGroup(b)] = @ + 1]
           d3 == [d2 EXCEPT !.sbfree.blocks = @ + 1]
       IN h \o <<d1, d2, d3>>

FreeInodes(d) ==
  {i \in Inode : i \notin d.iused /\ d.ifree[InodeGroup(i)] > 0}

AllocInode(h) ==
  IF FreeInodes(Now(h)) = {} THEN [h |-> h, n |-> 0]
  ELSE LET i  == Min(FreeInodes(Now(h)))
           d1 == [Now(h) EXCEPT !.iused = @ \cup {i}]
           d2 == [d1 EXCEPT !.ifree[InodeGroup(i)] = @ - 1]
           d3 == [d2 EXCEPT !.sbfree.inodes = @ - 1]
       IN [h |-> h \o <<d1, d2, d3>>, n |-> i]

FreeInode(h, i) ==
  LET d1 == [Now(h) EXCEPT !.iused = @ \ {i}]
      d2 == [d1 EXCEPT !.ifree[InodeGroup(i)] = @ + 1]
      d3 == [d2 EXCEPT !.sbfree.inodes = @ + 1]
  IN h \o <<d1, d2, d3>>

-----------------------------------------------------------------------------
(* The block map of an inode: NDIRECT direct pointers and one indirect      *)
(* block.  An absent indirect block reads as block 0, the boot block, whose *)
(* words are zero; so do the double and triple indirect blocks, which       *)
(* set_bmap never makes.                                                    *)

Bmap(d, raw, idx) ==
  IF idx < NDIRECT THEN raw.block[idx]
  ELSE IF idx - NDIRECT \in Word
       THEN d.content[raw.block[NDIRECT]].pointers[idx - NDIRECT]
       ELSE 0

\* A fresh indirect block keeps the words its last owner left in it.
SetPointer(h, b, w, phys, fresh) ==
  LET old == Now(h).content[b].pointers
      h1  == WriteBlock(h, b, Pointers([old EXCEPT ![w] = phys]))
  IN IF fresh /\ \E x \in Word : old[x] # 0
     THEN Write(h1, [Now(h1) EXCEPT !.broken = @ \cup {"indirect"}])
     ELSE h1

SetBmap(h, raw, idx, phys) ==
  IF idx < NDIRECT
  THEN [h |-> h, raw |-> [raw EXCEPT !.block[idx] = phys], ok |-> TRUE]
  ELSE IF idx - NDIRECT \notin Word
  THEN [h |-> h, raw |-> raw, ok |-> FALSE]
  ELSE IF raw.block[NDIRECT] = 0 /\ phys = 0
  THEN [h |-> h, raw |-> raw, ok |-> TRUE]
  ELSE LET fresh == raw.block[NDIRECT] = 0
           a == IF fresh THEN AllocBlock(h)
                         ELSE [h |-> h, n |-> raw.block[NDIRECT]]
       IN IF a.n = 0 THEN [h |-> a.h, raw |-> raw, ok |-> FALSE]
          ELSE [h   |-> SetPointer(a.h, a.n, idx - NDIRECT, phys, fresh),
                raw |-> [raw EXCEPT !.block[NDIRECT] = a.n],
                ok  |-> TRUE]

\* The loop of truncate, unlink and rmdir over the blocks from .. to - 1.
FreeRange(h, raw, from, to) ==
  FoldLeft(LAMBDA acc, idx :
             LET b == Bmap(Now(acc.h), acc.raw, idx)
                 s == SetBmap(acc.h, acc.raw, idx, 0)
             IN IF b = 0 THEN acc
                ELSE [h |-> FreeBlock(s.h, b), raw |-> s.raw],
           [h |-> h, raw |-> raw],
           [k \in 1 .. IF to > from THEN to - from ELSE 0 |-> from + k - 1])

-----------------------------------------------------------------------------
(* File data: ext2_inode_write and ext2_truncate.                           *)

\* One round of the write loop; stop is the break.
WriteRound(acc, idx, x) ==
  LET b == Bmap(Now(acc.h), acc.raw, idx)
      a == IF b = 0 THEN AllocBlock(acc.h) ELSE [h |-> acc.h, n |-> b]
      s == IF b = 0 THEN SetBmap(a.h, acc.raw, idx, a.n)
                    ELSE [h |-> a.h, raw |-> acc.raw, ok |-> TRUE]
  IN IF acc.stop THEN acc
     ELSE IF a.n = 0 THEN [acc EXCEPT !.stop = TRUE, !.h = a.h]
     ELSE IF ~s.ok
     THEN [acc EXCEPT !.stop = TRUE, !.h = FreeBlock(s.h, a.n), !.raw = s.raw]
     ELSE [acc EXCEPT !.h = WriteBlock(s.h, a.n, Data(x)), !.raw = s.raw,
                      !.pos = (idx + 1) * BSIZE]

\* Empties the file: a write of nothing at offset 0, or open with O_TRUNC.
InodeEmpty(h, i) ==
  LET raw == Now(h).inode[i]
      f   == FreeRange(h, raw, 0, BlocksFor(raw.size))
  IN WriteInode(f.h, i, [f.raw EXCEPT !.size = 0])

\* Writes the whole blocks idx .. idx + n - 1 with the data x.
InodeWrite(h, i, idx, n, x) ==
  LET raw == Now(h).inode[i]
      w == FoldLeft(LAMBDA acc, k : WriteRound(acc, k, x),
                    [h |-> h, raw |-> raw, pos |-> idx * BSIZE, stop |-> FALSE],
                    [k \in 1 .. n |-> idx + k - 1])
  IN IF n = 0 /\ idx = 0 THEN InodeEmpty(h, i)
     ELSE IF w.pos = idx * BSIZE THEN w.h
     ELSE WriteInode(w.h, i, [w.raw EXCEPT !.size = Max({@, w.pos})])

Truncate(h, i, length) ==
  LET raw == Now(h).inode[i]
      f   == FreeRange(h, raw, BlocksFor(length), BlocksFor(raw.size))
  IN IF length >= raw.size THEN WriteInode(h, i, [raw EXCEPT !.size = length])
     ELSE WriteInode(f.h, i, [f.raw EXCEPT !.size = length])
=============================================================================
