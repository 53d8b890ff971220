------------------------------- MODULE MCExt2 -------------------------------
(* Instance of Ext2 for TLC: a small disk as mkfs.ext2 and debugfs leave it. *)
EXTENDS Ext2

MCNameWords ==
  [nm \in {"", ".", "..", "a", "b"} |-> CASE nm = "" -> 0 [] nm = "b" -> 2 [] OTHER -> 1]

\* An image of the Makefile: the root directory in block 1, and the last file
\* that debugfs wrote, in the last block in use.  With 1 KiB blocks the first
\* bit of the bitmap stands for block 1, and the last bit for none, while the
\* driver takes bit n for block n.
MCImage ==
  LET last == 2
      used == 0 .. last - 1 \cup {NBLOCKS - 1}
  IN
  [bused  |-> used,
   iused  |-> {1, Root, 3},
   bfree  |-> [g \in Group |->
                 Cardinality({b \in Block \ used : BlockGroup(b) = g})],
   ifree  |-> [g \in 0 .. InodeGroup(NINODES) |->
                 Cardinality({i \in Inode \ {1, Root, 3} : InodeGroup(i) = g})],
   sbfree |-> [blocks |-> NBLOCKS - 1 - last, inodes |-> NINODES - 3],
   inode  |-> [i \in Inode |->
                 IF i = Root THEN [NoInode EXCEPT !.type = "dir", !.links = 2,
                                                  !.size = BSIZE, !.block[0] = 1]
                 ELSE IF i = 3 THEN [NoInode EXCEPT !.type = "reg", !.links = 1,
                                                    !.size = BSIZE, !.block[0] = last]
                 ELSE NoInode],
   content |-> [b \in Block |->
                 IF b = 1 THEN Dirents(<<Entry(Root, DOT, "."), Entry(Root, DOT, ".."),
                                         Entry(3, BSIZE - 2 * DOT, "a")>>)
                 ELSE IF b = last THEN Data(1)
                 ELSE Data(0)],
   broken |-> {}]

MCSymlinkWords == {1, 3}

\* Trees of files and directories; directories that move, alone and with
\* files; hard links, with the pools running out; devices and symbolic
\* links; the data of files, one of them open.
MCMixes ==
  {[ops |-> {"create", "mkdir", "unlink", "rmdir"}, dirsize |-> 21],
   [ops |-> {"mkdir", "rmdir", "rename"}, dirsize |-> 21],
   [ops |-> {"create", "mkdir", "rename"}, dirsize |-> 21],
   [ops |-> {"create", "link", "unlink", "rename", "pool"}, dirsize |-> 24],
   [ops |-> {"create", "mknod", "symlink", "unlink"}, dirsize |-> 21],
   [ops |-> {"create", "open", "write", "truncate", "unlink"}, dirsize |-> 18]}
=============================================================================
