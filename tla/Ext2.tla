-------------------------------- MODULE Ext2 --------------------------------
(***************************************************************************)
(* The operations of kernel/ext2.c as the VFS calls them, and power        *)
(* failures.  System calls run with interrupts off and never block on the  *)
(* disk, so an operation is one step of the system; what can cut it short  *)
(* is the machine going down between two of its block writes.  After that  *)
(* the kernel boots, mounts the disk as it finds it, and has lost its open *)
(* files.                                                                  *)
(*                                                                         *)
(* disk.broken is a history variable: the events after which the driver    *)
(* makes no promise any more.  "junk": a block number made of other data   *)
(* was freed or written; "indirect": a reused block became an indirect     *)
(* block with its old contents; "open": the inode of an open file was      *)
(* freed; "torn": power failed inside a rename or a truncation; "dirlink": *)
(* a directory got a second name; "lent": a file of the image was written, *)
(* truncated or removed while the driver took one of its blocks for free.  *)
(* The model stops there.                                                  *)
(***************************************************************************)
EXTENDS Ext2Dir

CONSTANTS
  Image,          \* the disk that mkfs.ext2 and debugfs made
  SymlinkWords,   \* the lengths of symbolic link targets
  FAST_SYMLINK,   \* the longest target kept in the inode (60 bytes)
  Workloads,      \* the mixes of operations of a run, each with a bound on
                  \* the size of a directory that gets an entry
  MaxBlocks,      \* bound: blocks of a file
  MaxDepth,       \* bound: components of a path
  MaxCrashes      \* bound: power failures

VARIABLES
  disk,       \* what the disk holds
  mounted,    \* ext2_mount has succeeded: fs_pool_next = 1
  full,       \* the pool of inode data, or of VFS inodes, is used up
  open,       \* the inode number behind an open file; 0 if none
  crashes,    \* power failures so far
  work        \* the mix of operations that programs use

vars == <<disk, mounted, full, open, crashes, work>>

ASSUME Ext2Assumption ==
  /\ Root \in Image.iused
  /\ Image.inode[Root].type = "dir"
  /\ {MaxBlocks, MaxDepth, MaxCrashes, FAST_SYMLINK} \subseteq Nat

\* The files of the image with a block that the driver takes for free.
Unmarked(i) == {k \in Slot : Image.inode[i].block[k] \notin Image.bused}
Lent == {i \in Image.iused : Image.inode[i].type = "reg" /\ Unmarked(i) # {}}

Failed(h) == [h |-> h, ok |-> FALSE]
Done(h) == [h |-> h, ok |-> TRUE]

-----------------------------------------------------------------------------
(* The operations, from one disk to the history of the next ones.           *)

\* vfs_create_file with ext2_add_entry's first part: the inode exists on
\* the disk before its name does.  noroom: ext2_alloc_data fails.
Create(h, p, nm, noroom) ==
  LET a  == AllocInode(h)
      h1 == WriteInode(a.h, a.n,
                       [NoInode EXCEPT !.type = "reg", !.links = 1])
  IN IF a.n = 0 THEN Failed(a.h)
     ELSE IF noroom THEN Failed(FreeInode(h1, a.n))
     ELSE AddEntry(h1, p, nm, a.n)

\* valid: the mode says character or block device.
Mknod(h, p, nm, valid, noroom) ==
  LET a  == AllocInode(h)
      h1 == WriteInode(a.h, a.n, [NoInode EXCEPT !.type = "dev", !.links = 1,
                                                 !.block[0] = Junk])
  IN IF a.n = 0 THEN Failed(a.h)
     ELSE IF noroom \/ ~valid THEN Failed(FreeInode(h1, a.n))
     ELSE AddEntry(h1, p, nm, a.n)

\* Mutant: the block is not given back.
MkdirUndoneKeepsBlock(h, b, i) == Failed(FreeInode(h, i))

\* The way out of mkdir when the name cannot be added.
MkdirUndone(h, b, i) == Failed(FreeInode(FreeBlock(h, b), i))

Mkdir(h, p, nm, noroom) ==
  LET i  == AllocInode(h)
      b  == AllocBlock(i.h)
      h1 == WriteBlock(b.h, b.n,
              Dirents(<<Entry(i.n, DOT, "."), Entry(p, BSIZE - DOT, "..")>>))
      h2 == WriteInode(h1, i.n,
              [NoInode EXCEPT !.type = "dir", !.links = 2, !.size = BSIZE,
                              !.block[0] = b.n])
      e  == AddEntry(h2, p, nm, i.n)
      up == [Now(e.h).inode[p] EXCEPT !.links = @ + 1]
  IN IF i.n = 0 THEN Failed(i.h)
     ELSE IF b.n = 0 THEN Failed(FreeInode(b.h, i.n))
     ELSE IF noroom THEN MkdirUndone(h2, b.n, i.n)
     ELSE IF ~e.ok THEN MkdirUndone(e.h, b.n, i.n)
     ELSE Done(WriteInode(e.h, p, up))

\* A short target is kept where the block pointers are.
Symlink(h, p, nm, words, noroom) ==
  LET fast == words <= FAST_SYMLINK
      i  == AllocInode(h)
      b  == IF fast THEN [h |-> i.h, n |-> Junk] ELSE AllocBlock(i.h)
      h1 == IF fast THEN b.h ELSE WriteBlock(b.h, b.n, Data(1))
      h2 == WriteInode(h1, i.n,
              [NoInode EXCEPT !.type = IF fast THEN "fastlnk" ELSE "lnk",
                              !.links = 1, !.size = words, !.block[0] = b.n])
      h3 == IF fast THEN h2 ELSE FreeBlock(h2, b.n)
  IN IF i.n = 0 THEN Failed(i.h)
     ELSE IF b.n = 0 THEN Failed(FreeInode(b.h, i.n))
     ELSE IF noroom THEN Failed(FreeInode(h3, i.n))
     ELSE AddEntry(h2, p, nm, i.n)

\* Mutant: the name is there before the count goes up.
LinkNameFirst(h, p, nm, i) ==
  LET e   == AddEntry(h, p, nm, i)
      raw == Now(e.h).inode[i]
  IN IF e.ok THEN Done(WriteInode(e.h, i, [raw EXCEPT !.links = @ + 1]))
     ELSE Failed(e.h)

\* The count goes up before the name is there, and back if it fails.
Link(h, p, nm, i) ==
  LET raw == Now(h).inode[i]
      h1  == WriteInode(h, i, [raw EXCEPT !.links = @ + 1])
      e   == AddEntry(h1, p, nm, i)
  IN IF e.ok THEN e ELSE Failed(WriteInode(e.h, i, raw))

\* The name goes before the count, and the blocks only with the last name.
Unlink(h, p, nm) ==
  LET i   == Lookup(Now(h), p, nm)
      r   == RemoveEntry(h, p, nm)
      raw == [Now(r.h).inode[i] EXCEPT !.links = @ - 1]
      f   == FreeRange(r.h, raw, 0, BlocksFor(raw.size))
  IN IF i = 0 THEN Failed(h)
     ELSE IF raw.links > 0 THEN Done(WriteInode(r.h, i, raw))
     ELSE Done(FreeInode(WriteInode(f.h, i, [f.raw EXCEPT !.size = 0]), i))

\* The test for "only . and ..": the link count, and the entry behind ".".
LooksEmpty(d, i) ==
  LET b  == Bmap(d, d.inode[i], 0)
      up == d.content[b].dirents[2]
  IN /\ d.inode[i].links <= 2
     /\ b # 0 => ~(up.rec > DOT /\ up.ino # 0)

\* Mutant: the blocks go before the name.
RmdirFreesFirst(h, p, nm) ==
  LET d  == Now(h)
      i  == Lookup(d, p, nm)
      f  == FreeRange(h, d.inode[i], 0, BlocksFor(d.inode[i].size))
      r  == RemoveEntry(FreeInode(f.h, i), p, nm)
      up == [Now(r.h).inode[p] EXCEPT !.links = @ - 1]
  IN IF i = 0 THEN Failed(h)
     ELSE IF d.inode[i].type # "dir" \/ ~LooksEmpty(d, i) THEN Failed(h)
     ELSE Done(WriteInode(r.h, p, up))

Rmdir(h, p, nm) ==
  LET d  == Now(h)
      i  == Lookup(d, p, nm)
      r  == RemoveEntry(h, p, nm)
      f  == FreeRange(r.h, d.inode[i], 0, BlocksFor(d.inode[i].size))
      h1 == FreeInode(f.h, i)
      up == [Now(h1).inode[p] EXCEPT !.links = @ - 1]
  IN IF i = 0 THEN Failed(h)
     ELSE IF d.inode[i].type # "dir" THEN Failed(h)
     ELSE IF ~LooksEmpty(d, i) THEN Failed(h)
     ELSE Done(WriteInode(h1, p, up))

\* Mutant: the directory keeps its old "..".
MovedNoUp(h, i, p, np) ==
  LET h1 == WriteInode(h, p, [Now(h).inode[p] EXCEPT !.links = @ - 1])
  IN WriteInode(h1, np, [Now(h1).inode[np] EXCEPT !.links = @ + 1])

\* A directory that moves takes its ".." and one link of its parent along.
\* The parents are compared as VFS inodes, of which every lookup makes a new
\* one: only the root is ever the same twice.
Moved(h, i, p, np) ==
  LET h1 == WriteInode(h, p, [Now(h).inode[p] EXCEPT !.links = @ - 1])
      h2 == WriteInode(h1, np, [Now(h1).inode[np] EXCEPT !.links = @ + 1])
      b  == Bmap(Now(h2), Now(h2).inode[i], 0)
  IN IF b = 0 THEN h2
     ELSE WriteBlock(h2, b,
            Dirents([Now(h2).content[b].dirents EXCEPT ![2].ino = np]))

Rename(h, p, nm, np, nnm) ==
  LET i == Lookup(Now(h), p, nm)
      same == p = Root /\ np = Root
      a == AddEntry(h, np, nnm, i)
      r == RemoveEntry(a.h, p, nm)
  IN IF i = 0 THEN Failed(h)
     ELSE IF same /\ nm = nnm THEN Done(h)
     ELSE IF ~a.ok THEN Failed(a.h)
     ELSE IF Now(h).inode[i].type = "dir" /\ ~same THEN Done(Moved(r.h, i, p, np))
     ELSE Done(r.h)

-----------------------------------------------------------------------------
(* The state machine.                                                       *)

Init ==
  /\ disk = Image
  /\ mounted = FALSE
  /\ full = FALSE
  /\ open = 0
  /\ crashes = 0
  /\ work \in Workloads

\* What the names of a directory lead to, and everything a path can lead to.
Children(d, dir) ==
  IF d.inode[dir].type # "dir" THEN {}
  ELSE {x.e.ino : x \in Places(d, dir)}
Reachable(d) ==
  LET Within[n \in 0 .. MaxDepth] ==
        IF n = 0 THEN {Root}
        ELSE LET nearer == Within[n - 1]
             IN nearer \cup UNION {Children(d, i) : i \in nearer}
  IN Within[MaxDepth]

\* A directory that a path leads to: the root needs no lookup.
Parent == {i \in Reachable(disk) :
             disk.inode[i].type = "dir" /\ (i = Root \/ ~full)}
Growable == {i \in Parent : disk.inode[i].size <= work.dirsize}

PowerFails(d) ==
  /\ crashes < MaxCrashes
  /\ crashes' = crashes + 1
  /\ disk' = d
  /\ mounted' = FALSE
  /\ full' = FALSE
  /\ open' = 0
  /\ UNCHANGED work

\* What free inodes and blocks still hold is never read again, but for
\* whether a block is all zeros.
Forgotten(d) ==
  [d EXCEPT !.inode = [i \in Inode |-> IF i \in d.iused THEN @[i] ELSE NoInode],
            !.content = [b \in Block |-> IF b \in d.bused THEN @[b]
                                         ELSE Data(@[b].data)]]

\* An operation ends, or the power fails between two of its writes.
Settled(d) ==
  IF open \in d.iused \cup {0} THEN Forgotten(d)
  ELSE [d EXCEPT !.broken = @ \cup {"open"}]
Torn(d) == [d EXCEPT !.broken = @ \cup {"torn"}]
Calls(op) == mounted /\ disk.broken = {} /\ op \in work.ops
Run(op, h) ==
  \/ disk' = Settled(Now(h)) /\ UNCHANGED <<mounted, full, open, crashes, work>>
  \/ \E k \in 2 .. Len(h) - 1 :
       PowerFails(IF op \in {"rename", "truncate"} THEN Torn(h[k])
                  ELSE Forgotten(h[k]))

\* The disk on which the blocks of i are about to be written or freed.
Lending(i) ==
  IF i \in Lent THEN [disk EXCEPT !.broken = @ \cup {"lent"}] ELSE disk

\* sys_open with O_CREAT of a name that does not resolve: it is not there, is
\* a link to nothing, or the pool has no room for the lookup.
Resolves(p, nm) ==
  LET i == Lookup(disk, p, nm) IN
  ~full /\ i # 0 /\ disk.inode[i].type \notin {"lnk", "fastlnk"}
CreateFile ==
  /\ Calls("create")
  /\ \E p \in Growable, nm \in Name :
       /\ ~Resolves(p, nm)
       /\ Run("create", Create(<<disk>>, p, nm, full).h)

MakeNode ==
  /\ Calls("mknod")
  /\ \E p \in Growable, nm \in Name, valid \in BOOLEAN :
       Run("mknod", Mknod(<<disk>>, p, nm, valid, full).h)

MakeDir ==
  /\ Calls("mkdir")
  /\ \E p \in Growable, nm \in Name :
       Run("mkdir", Mkdir(<<disk>>, p, nm, full).h)

MakeSymlink ==
  /\ Calls("symlink")
  /\ \E p \in Growable, nm \in Name, words \in SymlinkWords :
       Run("symlink", Symlink(<<disk>>, p, nm, words, full).h)

\* vfs_link follows symbolic links, so existing is never one.
DirLinked(i) ==
  [disk EXCEPT !.broken = @ \cup IF disk.inode[i].type = "dir" THEN {"dirlink"}
                                 ELSE {}]
MakeLink ==
  /\ Calls("link") /\ ~full
  /\ \E p \in Growable, nm \in Name, i \in Reachable(disk) :
       /\ disk.inode[i].type \notin {"lnk", "fastlnk"}
       /\ Run("link", Link(<<DirLinked(i)>>, p, nm, i).h)

RemoveFile ==
  /\ Calls("unlink")
  /\ \E p \in Parent, nm \in Name :
       LET i == Lookup(disk, p, nm) IN
       /\ i # 0
       /\ Run("unlink", Unlink(<<IF disk.inode[i].links = 1 THEN Lending(i) ELSE disk>>,
                               p, nm).h)

RemoveDir ==
  /\ Calls("rmdir")
  /\ \E p \in Parent, nm \in Name :
       /\ Lookup(disk, p, nm) # 0
       /\ Run("rmdir", Rmdir(<<disk>>, p, nm).h)

Move ==
  /\ Calls("rename") /\ ~full
  /\ \E p \in Parent, np \in Growable, nm \in Name, nnm \in Name :
       /\ Lookup(disk, p, nm) # 0
       /\ Run("rename", Rename(<<disk>>, p, nm, np, nnm).h)

OpenFile ==
  /\ Calls("open") /\ ~full
  /\ \E p \in Parent, nm \in Name :
       LET i == Lookup(disk, p, nm) IN
       /\ i # 0 /\ disk.inode[i].type = "reg"
       /\ open' = i
  /\ UNCHANGED <<disk, mounted, full, crashes, work>>

WriteFile ==
  /\ Calls("write") /\ open # 0
  /\ \E idx \in 0 .. MaxBlocks - 1, n \in 1 .. MaxBlocks :
       /\ idx + n <= MaxBlocks
       /\ Run("write", InodeWrite(<<Lending(open)>>, open, idx, n, 1))

\* ftruncate, open with O_TRUNC, and a write of no bytes at offset 0.
TruncateFile ==
  /\ Calls("truncate") /\ open # 0
  /\ \/ \E n \in 0 .. MaxBlocks : Run("truncate", Truncate(<<Lending(open)>>, open, n * BSIZE))
     \/ Run("truncate", InodeWrite(<<Lending(open)>>, open, 0, 0, 0))

\* The last free slot of a pool that nothing is ever given back to is taken
\* by some lookup.
PoolFills ==
  /\ mounted /\ ~full /\ "pool" \in work.ops
  /\ full' = TRUE
  /\ UNCHANGED <<disk, mounted, open, crashes, work>>

PowerFailsBetween == mounted /\ PowerFails(disk)

\* One file system can be mounted, once per boot.
Mount ==
  /\ ~mounted
  /\ mounted' = TRUE
  /\ UNCHANGED <<disk, full, open, crashes, work>>

Next ==
  \/ CreateFile \/ MakeNode \/ MakeDir \/ MakeSymlink \/ MakeLink
  \/ RemoveFile \/ RemoveDir \/ Move
  \/ OpenFile \/ WriteFile \/ TruncateFile
  \/ PoolFills \/ PowerFailsBetween \/ Mount

Spec == Init /\ [][Next]_vars

-----------------------------------------------------------------------------
(* Properties.                                                              *)

EntryType == [ino : 0 .. NINODES, rec : 1 .. BSIZE, name : DOMAIN NameWords]
ContentOK(c) ==
  /\ c.data \in {0, 1}
  /\ c.pointers \in [Word -> 0 .. NBLOCKS]
  /\ \A k \in DOMAIN c.dirents : c.dirents[k] \in EntryType
RawType ==
  [type : {"none", "reg", "dir", "dev", "lnk", "fastlnk"}, links : Nat,
   size : Nat, block : [Slot -> 0 .. NBLOCKS]]

\* Every field of the disk and of the mounted file system has its type, and
\* an open file is one of an inode in use as long as nothing broke.
TypeOK ==
  /\ disk.bused \subseteq Block /\ disk.iused \subseteq Inode
  /\ disk.bfree \in [Group -> Nat]
  /\ disk.ifree \in [0 .. InodeGroup(NINODES) -> Nat]
  /\ disk.sbfree \in [blocks : Int, inodes : Int]
  /\ DOMAIN disk.inode = Inode /\ DOMAIN disk.content = Block
  /\ \A i \in Inode : disk.inode[i] \in RawType
  /\ \A b \in Block : ContentOK(disk.content[b])
  /\ mounted \in BOOLEAN /\ full \in BOOLEAN
  /\ open \in {0} \cup Inode /\ crashes \in 0 .. MaxCrashes
  /\ disk.broken = {} => open \in disk.iused \cup {0}

Sound == disk.broken = {}
Live == Reachable(disk)
LiveDirs == {i \in Live : disk.inode[i].type = "dir"}

\* The block pointers of what a path can lead to, each with its place.
Pointer(i, k) ==
  IF k \in Slot THEN disk.inode[i].block[k]
  ELSE Bmap(disk, disk.inode[i], k - 1)
Owners ==
  {o \in {i \in Live : disk.inode[i].type \in {"reg", "dir", "lnk"}}
          \X (0 .. NDIRECT + BSIZE) : Pointer(o[1], o[2]) # 0}

\* No block is in two files, nor twice in one, and each is marked in the
\* bitmap, so that ext2_alloc_block never hands it out: through any sequence
\* of operations and a power failure between any two block writes
\* (ext2_inode_write, ext2_add_entry, ext2_mkdir allocate before they link;
\* ext2_unlink and ext2_rmdir unlink before they free).  The exception is
\* the block of the image that was unmarked from the start: it may get one
\* more owner, and no more than one.
BlocksOwnedOnce ==
  Sound => LET owners == {o \in Owners : ~(o[1] \in Lent /\ o[2] \in Unmarked(o[1]))}
               owned  == {Pointer(o[1], o[2]) : o \in owners}
           IN Cardinality(owners) = Cardinality(owned) /\ owned \subseteq disk.bused

\* The names that lead to inode i, "." and ".." aside.
NamesOf(i) ==
  UNION {{<<dir, x>> : x \in {y \in Places(disk, dir) : y.e.ino = i}} :
           dir \in LiveDirs}

\* A name leads to an inode in use with at least as many links as names, so
\* that ext2_unlink of one name never frees what another leads to; after a
\* power failure inside any operation but rename it may have too many.
LinksCoverNames ==
  Sound => \A i \in Live \ {Root} :
             /\ i \in disk.iused
             /\ disk.inode[i].type # "none"
             /\ disk.inode[i].type # "dir" =>
                  disk.inode[i].links >= Cardinality(NamesOf(i))

\* The link count by which ext2_rmdir sees subdirectories: each counts, and
\* a directory has one name, whose parent its ".." is.
DirectoriesCounted ==
  Sound => \A i \in LiveDirs :
    LET up == disk.content[disk.inode[i].block[0]].dirents[2] IN
    /\ crashes = 0 => disk.inode[i].links >=
         2 + Cardinality({x \in Places(disk, i) :
                            disk.inode[x.e.ino].type = "dir"})
    /\ i # Root => /\ Cardinality(NamesOf(i)) = 1
                   /\ \E e \in NamesOf(i) : up = [up EXCEPT !.ino = e[1],
                                                            !.name = ".."]

\* The entries of a directory block fill it exactly, each long enough for
\* its name: the scans of ext2.c, which stop at a record length of 0 without
\* moving on, always come to the end of the block.
BlocksTiled ==
  Sound => \A i \in LiveDirs :
    \A idx \in Indices(disk, disk.inode[i]) :
      LET row == Row(disk, disk.inode[i], idx)
          End[k \in 0 .. Len(row)] == IF k = 0 THEN 0 ELSE End[k - 1] + row[k].rec
      IN
      /\ End[Len(row)] = BSIZE
      /\ \A k \in DOMAIN row : row[k].rec >= Used(row[k].name)

\* The free counts of the group descriptors and of the superblock follow the
\* bitmaps; a power failure between the three writes costs one.
Near(a, b) == a - b \in -crashes .. crashes
CountsFollowBitmaps ==
  Sound =>
    /\ \A g \in Group :
         Near(disk.bfree[g],
              Cardinality({b \in Block \ disk.bused : BlockGroup(b) = g}))
    /\ \A g \in DOMAIN disk.ifree :
         Near(disk.ifree[g],
              Cardinality({i \in Inode \ disk.iused : InodeGroup(i) = g}))
    /\ Near(disk.sbfree.blocks, Cardinality(Block \ disk.bused))
    /\ Near(disk.sbfree.inodes, Cardinality(Inode \ disk.iused))

\* What the allocators of ext2.c rest on: every block that a path leads to is
\* marked and has one owner, and the counts follow the bitmaps.
DiskInv == TypeOK /\ BlocksOwnedOnce /\ CountsFollowBitmaps

\* What a failed operation must not change: the bitmaps, and for everything
\* reachable its link count and its names.
Visible(d) ==
  <<d.bused, d.iused,
    [i \in Reachable(d) |->
       [links |-> d.inode[i].links,
        names |-> IF d.inode[i].type # "dir" THEN {}
                  ELSE {<<x.idx, x.k, x.e.name, x.e.ino>> :
                          x \in Places(d, i)}]]>>

\* ext2_mkdir, ext2_link and ext2_rename give back what they took when they
\* fail half-way for want of blocks, inodes or pool slots.
FailureLeavesNoTrace ==
  LET before == Visible(disk)
      Clean(r) == r.ok \/ Now(r.h).broken # {} \/ Visible(Now(r.h)) = before
  IN Sound => \A p \in Growable, nm \in Name :
       /\ Clean(Mkdir(<<disk>>, p, nm, full))
       /\ \A i \in Live \ {Root} : Clean(Link(<<disk>>, p, nm, i))
       /\ \A q \in Parent, old \in Name : Clean(Rename(<<disk>>, q, old, p, nm))
=============================================================================
