------------------------------ MODULE Ext2Dir -------------------------------
(***************************************************************************)
(* Directories of kernel/ext2.c.  A directory block is a row of entries    *)
(* that fill it: each has an inode number, 0 when it is free, a record     *)
(* length that reaches to the next entry, and a name.  Removing an entry   *)
(* zeroes its inode number and keeps its name and length; adding one takes *)
(* a free entry, or the slack behind an entry, or a new block.             *)
(***************************************************************************)
EXTENDS Ext2Disk

CONSTANT NameWords    \* the words of each name; of ".", "..", and "" too

Name == DOMAIN NameWords \ {"", ".", ".."}
Entry(i, rec, nm) == [ino |-> i, rec |-> rec, name |-> nm]

HEADER == 2                                  \* sizeof(struct ext2_dirent)
DOT == 3                                     \* the 12 bytes of "."
Used(nm) == HEADER + NameWords[nm]
NeedRecLen(nm) == Max({Used(nm), 3})

\* The blocks of a directory in scan order, the entries of each, and all of
\* them with the block and the place in it.
Indices(d, raw) ==
  {idx \in 0 .. BlocksFor(raw.size) - 1 : Bmap(d, raw, idx) # 0}
Row(d, raw, idx) ==
  LET b == Bmap(d, raw, idx)
  IN IF b \in Block THEN d.content[b].dirents ELSE <<>>
Entries(d, raw) ==
  UNION {LET row == Row(d, raw, idx)
         IN {[idx |-> idx, k |-> k, e |-> row[k]] : k \in DOMAIN row} :
         idx \in Indices(d, raw)}

\* Every scan of the file: the first, block by block, of the entries it accepts.
FirstEntry(hits) ==
  CHOOSE x \in hits : \A y \in hits : x.idx < y.idx \/ (x.idx = y.idx /\ x.k <= y.k)

Named(d, raw, nm) == {x \in Entries(d, raw) : x.e.ino # 0 /\ x.e.name = nm}

Lookup(d, dir, nm) ==
  LET hits == Named(d, d.inode[dir], nm)
  IN IF hits = {} THEN 0 ELSE FirstEntry(hits).e.ino

\* The entries that hold a name, "." and ".." aside.
Places(d, dir) ==
  {x \in Entries(d, d.inode[dir]) : x.e.ino # 0 /\ x.e.name \in Name}

-----------------------------------------------------------------------------
\* A free entry big enough for its old name and the new one beside it, or a
\* live one with room behind its name.
HasRoom(e, nm) ==
  /\ e.rec - Used(e.name) >= NeedRecLen(nm)
  /\ e.ino # 0 => e.rec > NeedRecLen(nm)

\* Mutant: the new entry does not reach to the end of the old one.
InsertedShort(e, nm, i) ==
  IF e.ino # 0
  THEN <<[e EXCEPT !.rec = Used(e.name)], Entry(i, NeedRecLen(nm), nm)>>
  ELSE <<Entry(i, e.rec, nm)>>

\* The entry e with the new one put in it or behind it.
Inserted(e, nm, i) ==
  LET need == NeedRecLen(nm) IN
  IF e.ino # 0
  THEN <<[e EXCEPT !.rec = Used(e.name)],
         Entry(i, e.rec - Used(e.name), nm)>>
  ELSE IF e.rec - Used(e.name) > need
  THEN <<Entry(i, need, nm), Entry(0, e.rec - need, "")>>
  ELSE <<Entry(i, e.rec, nm)>>

\* The tail of ext2_add_entry: a new block at index size / block_size.
AddBlock(h, dir, nm, i) ==
  LET raw == Now(h).inode[dir]
      a   == AllocBlock(h)
      s   == SetBmap(a.h, raw, raw.size \div BSIZE, a.n)
  IN IF a.n = 0 THEN [h |-> a.h, ok |-> FALSE]
     ELSE IF ~s.ok THEN [h |-> FreeBlock(s.h, a.n), ok |-> FALSE]
     ELSE [h  |-> WriteInode(WriteBlock(s.h, a.n,
                                        Dirents(<<Entry(i, BSIZE, nm)>>)),
                             dir, [s.raw EXCEPT !.size = @ + BSIZE]),
           ok |-> TRUE]

\* The size of the directory grows with every entry, wherever it is put.
AddEntry(h, dir, nm, i) ==
  LET d    == Now(h)
      raw  == d.inode[dir]
      hits == {x \in Entries(d, raw) : HasRoom(x.e, nm)}
      at   == FirstEntry(hits)
      row  == Row(d, raw, at.idx)
      new  == SubSeq(row, 1, at.k - 1)
              \o Inserted(at.e, nm, i)
              \o SubSeq(row, at.k + 1, Len(row))
  IN IF hits = {} THEN AddBlock(h, dir, nm, i)
     ELSE [h  |-> WriteInode(WriteBlock(h, Bmap(d, raw, at.idx), Dirents(new)),
                             dir, [raw EXCEPT !.size = @ + NeedRecLen(nm)]),
           ok |-> TRUE]

RemoveEntry(h, dir, nm) ==
  LET d    == Now(h)
      raw  == d.inode[dir]
      hits == Named(d, raw, nm)
      at   == FirstEntry(hits)
  IN IF hits = {} THEN [h |-> h, ok |-> FALSE]
     ELSE [h  |-> WriteBlock(h, Bmap(d, raw, at.idx),
                    Dirents([Row(d, raw, at.idx) EXCEPT ![at.k].ino = 0])),
           ok |-> TRUE]
=============================================================================
