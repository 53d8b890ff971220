-------------------------------- MODULE Names -------------------------------
(***************************************************************************)
(* Names: the inodes and the mount table of kernel/vfs.c, path resolution, *)
(* the directories of kernel/devtmpfs.c, and the current directory of a    *)
(* task.  Every system call runs with interrupts off and is one step.      *)
(*                                                                         *)
(* A path is the sequence of its components.  Inodes are never taken back  *)
(* once they have a name, so an inode is its place in the pool, which also *)
(* stands for its number.  The entries of a directory are in a store of    *)
(* their own: the first four are static, the others come from a pool that  *)
(* only grows.                                                             *)
(***************************************************************************)
EXTENDS Integers, Sequences, FiniteSetsExt, Functions

CONSTANTS
  NINODES,       \* VFS_MAX_INODES
  MAX_ENTRIES,   \* DEVTMPFS_MAX_ENTRIES
  MAX_DIRS,      \* DEVTMPFS_MAX_DIRS
  MAX_SYMLINKS,  \* DEVTMPFS_MAX_SYMLINKS
  MAX_MOUNTS,    \* VFS_MAX_MOUNTS
  MAX_FOLLOW,    \* symbolic links that a resolution follows before it gives up
  Devices,       \* names of the registered devices, in order
  Targets,       \* bound: the targets of symbolic links, all of them absolute
  Moves,         \* bound: the relative paths that programs change directory to
  MaxTrail,      \* bound: components of all the directory changes together
  Workloads      \* bound: the system calls that programs make, and the paths

ASSUME NamesAssumption ==
  /\ {NINODES, MAX_ENTRIES, MAX_MOUNTS} \subseteq Nat \ {0}
  /\ {MAX_DIRS, MAX_SYMLINKS, MAX_FOLLOW, MaxTrail} \subseteq Nat
  /\ Devices \in Seq(STRING) /\ Moves \subseteq Seq(STRING)
  /\ NINODES >= 3 + Len(Devices) /\ Len(Devices) <= MAX_ENTRIES /\ MAX_ENTRIES >= 2
  /\ \A w \in Workloads : /\ w.paths \subseteq Seq(STRING) \ {<<>>}
                          /\ \A p \in w.paths : \A k \in DOMAIN p : p[k] # "/"

\* True of every string, and stated because no prover knows it.
ASSUME StringAssumption == {"dev", "mnt"} \subseteq STRING

VARIABLES
  work,      \* the workload of this behaviour
  node,      \* vfs_inodes
  dirs,      \* the stores of entries
  ndirs,     \* devtmpfs_dir_next
  nlinks,    \* devtmpfs_symlink_next
  mounts,    \* vfs_mounts, vfs_mount_count of them
  cwd,       \* task->cwd
  trail      \* history: the components of all directory changes

vars == <<work, node, dirs, ndirs, nlinks, mounts, cwd, trail>>

Paths == work.paths

Ino == 1 .. NINODES
RootIno == 1
RootStore == 1
DevStore == 2
DevMount == 4                           \* devtmpfs_devmount_root
Store == 1 .. 4 + MAX_DIRS

Node(type, store, target) == [type |-> type, store |-> store, target |-> target]
Unused == Node("free", 0, <<>>)
Dir(store) == Node("dir", store, <<>>)
Entry(name, ino) == [name |-> name, ino |-> ino]

-----------------------------------------------------------------------------
(* The stores of devtmpfs.  t has the inodes and the stores.                *)

T == [node |-> node, dirs |-> dirs]

SetNode(t, i, n) == [t EXCEPT !.node[i] = n]
SetDir(t, s, es) == [t EXCEPT !.dirs[s] = es]

FreeInos(t) == {i \in Ino : t.node[i].type = "free"}
AllocInode(t) == IF FreeInos(t) = {} THEN 0 ELSE Min(FreeInos(t))

\* devtmpfs_lookup: the first entry of that name.
LookupIn(es, name) ==
  LET hits == {i \in DOMAIN es : es[i].name = name}
  IN IF hits = {} THEN 0 ELSE es[Min(hits)].ino

Lookup(t, dir, name) ==
  IF t.node[dir].type # "dir" THEN 0 ELSE LookupIn(t.dirs[t.node[dir].store], name)

RoomIn(t, s) == Len(t.dirs[s]) < MAX_ENTRIES

\* devtmpfs_add_entry, which does not look for the name.
AddEntry(t, s, name, ino) ==
  IF RoomIn(t, s) THEN SetDir(t, s, Append(t.dirs[s], Entry(name, ino))) ELSE t

\* The table es when entry i goes and the last one moves into the hole.
Without(es, i) == [k \in 1 .. Len(es) - 1 |-> IF k = i THEN es[Len(es)] ELSE es[k]]

\* Mutant: the last entry is dropped and not moved into the hole.
RemoveFromDropsLast(es, name) == SubSeq(es, 1, Len(es) - 1)

\* devtmpfs_remove_entry
RemoveFrom(es, name) == Without(es, Min({k \in DOMAIN es : es[k].name = name}))

\* populate_dir: a device that gets no inode, or no entry, is left out.
Populate(t, s, name) ==
  LET i == AllocInode(t)
  IN IF i = 0 THEN t
     ELSE AddEntry(SetNode(t, i, Node("dev", 0, <<>>)), s, name, i)

PopulateDir(t, s) ==
  LET After[k \in 0 .. Len(Devices)] ==
        IF k = 0 THEN t ELSE Populate(After[k - 1], s, Devices[k])
  IN After[Len(Devices)]

\* devtmpfs_init and devtmpfs_create_nodes.
Boot ==
  LET t == [node |-> [i \in Ino |-> IF i <= 3 THEN Dir(i) ELSE Unused],
            dirs |-> [s \in Store |-> IF s = RootStore
                                      THEN <<Entry("dev", 2), Entry("mnt", 3)>>
                                      ELSE <<>>]]
  IN PopulateDir(t, DevStore)

Init ==
  /\ work \in Workloads
  /\ node = Boot.node /\ dirs = Boot.dirs
  /\ ndirs = 0 /\ nlinks = 0 /\ mounts = <<>>
  /\ cwd = [path |-> <<>>, slash |-> FALSE] /\ trail = <<>>

-----------------------------------------------------------------------------
(* Path resolution.                                                         *)

\* vfs_resolve_mount: one step, the first entry of the table.
Mounted(ino) ==
  LET hits == {i \in DOMAIN mounts : mounts[i].point = ino}
  IN IF hits = {} THEN ino ELSE mounts[Min(hits)].root

\* A path as the two loops below read it, behind its first slash: the names,
\* a slash behind each but the last, and behind that one perhaps.
Text(p, slash) ==
  [k \in 1 .. (IF slash \/ p = <<>> THEN 2 * Len(p) ELSE 2 * Len(p) - 1) |->
     IF k % 2 = 0 THEN "/" ELSE p[(k + 1) \div 2]]

SlashAt(s, i) == i <= Len(s) /\ s[i] = "/"
Skip(s, i) == IF SlashAt(s, i) THEN i + 1 ELSE i

\* What both loops carry: the place in the text, the inode, 0 for failure, and
\* the links followed.
Start == [pos |-> 1, ino |-> RootIno, links |-> 0]
AtEnd(s, at) == at.ino = 0 \/ at.pos > Len(s)
Found(s, at) == Lookup(T, Mounted(at.ino), s[at.pos])

\* An absolute link continues at the root, whatever its target.
FollowedFrom(at) == IF at.links > MAX_FOLLOW THEN 0 ELSE RootIno
IsLink(i) == i # 0 /\ node[i].type = "link"

\* Mutant: the slash behind a name is taken without a look at what is there.
FollowUnguarded(s, at) ==
  LET i == Found(s, at)
      next == at.pos + 1
  IN IF IsLink(i)
     THEN [pos |-> Skip(s, next) + 1, ino |-> FollowedFrom(at), links |-> at.links + 1]
     ELSE [pos |-> next + 1, ino |-> i, links |-> at.links]

\* One name in the loop of vfs_resolve_path, which takes the slash behind a
\* link where it follows it, and then one more if there is one.
Follow(s, at) ==
  LET i == Found(s, at)
      next == at.pos + 1
  IN IF IsLink(i)
     THEN [pos |-> Skip(s, Skip(s, next)), ino |-> FollowedFrom(at), links |-> at.links + 1]
     ELSE [pos |-> Skip(s, next), ino |-> i, links |-> at.links]

\* One name in the loop of vfs_resolve_path_no_follow, which looks at links
\* only where a slash follows the name, and then takes it.
NoFollow(s, at) ==
  LET i == Found(s, at)
      next == at.pos + 1
  IN IF ~SlashAt(s, next) THEN [pos |-> next, ino |-> i, links |-> at.links]
     ELSE IF IsLink(i)
     THEN [pos |-> next + 1, ino |-> FollowedFrom(at), links |-> at.links + 1]
     ELSE [pos |-> next + 1, ino |-> i, links |-> at.links]

Walk(s) ==
  LET at[k \in 0 .. Len(s)] ==
        IF k = 0 THEN Start
        ELSE IF AtEnd(s, at[k - 1]) THEN at[k - 1] ELSE Follow(s, at[k - 1])
  IN at[Len(s)]

WalkNoFollow(s) ==
  LET at[k \in 0 .. Len(s)] ==
        IF k = 0 THEN Start
        ELSE IF AtEnd(s, at[k - 1]) THEN at[k - 1] ELSE NoFollow(s, at[k - 1])
  IN at[Len(s)]

Arrives(at) == IF at.ino = 0 THEN 0 ELSE Mounted(at.ino)

\* vfs_resolve_path
ResolveText(s) == Arrives(Walk(s))
Resolve(p) == ResolveText(Text(p, FALSE))

\* vfs_resolve_path_no_follow
ResolveNoFollow(s) == Arrives(WalkNoFollow(s))

\* vfs_split_path
DirPart(p) == SubSeq(p, 1, Len(p) - 1)
NamePart(p) == p[Len(p)]

\* Mutant: ".." behind a component that was taken back takes nothing.
NormalForgets(o, c) ==
  CASE c = "."  -> o
    [] c = ".." -> [path |-> IF o.path = <<>> \/ o.slash THEN o.path ELSE DirPart(o.path),
                    slash |-> Len(o.path) > 1]
    [] OTHER    -> [path |-> Append(o.path, c), slash |-> FALSE]

\* One component of normalize_path.  A ".." takes the last component and
\* leaves the slash before it.
Normal(o, c) ==
  CASE c = "."  -> o
    [] c = ".." -> [path |-> IF o.path = <<>> THEN <<>> ELSE DirPart(o.path),
                    slash |-> Len(o.path) > 1]
    [] OTHER    -> [path |-> Append(o.path, c), slash |-> FALSE]

\* normalize_path, on a path without dots and the components p behind it.
Normalize(from, p) ==
  LET After[k \in 0 .. Len(p)] == IF k = 0 THEN [path |-> from, slash |-> FALSE]
                                  ELSE Normal(After[k - 1], p[k])
  IN After[Len(p)]

-----------------------------------------------------------------------------
(* The system calls, on normalized absolute paths: vfs_split_path, then the *)
(* parent, then the operation of its file system.                           *)

Parent(p) == Resolve(DirPart(p))
ParentIsDir(p) == Parent(p) # 0 /\ node[Parent(p)].type = "dir"
StoreOf(p) == node[Parent(p)].store

Becomes(t) == node' = t.node /\ dirs' = t.dirs
SameDir == UNCHANGED <<cwd, trail>>

\* A new inode n of p, entered in its directory.
Entered(p, i, n) == AddEntry(SetNode(T, i, n), StoreOf(p), NamePart(p), i)

\* sys_open with O_CREAT; vfs_create_file takes the inode back when it
\* cannot be entered.
CreateFile(p) ==
  LET i == AllocInode(T) IN
  /\ Resolve(p) = 0 /\ ParentIsDir(p) /\ i # 0
  /\ IF RoomIn(T, StoreOf(p)) THEN Becomes(Entered(p, i, Node("file", 0, <<>>)))
     ELSE UNCHANGED <<node, dirs>>
  /\ UNCHANGED <<ndirs, nlinks, mounts>> /\ SameDir

\* Mutant: the store that was used last is used again.
NewStoreStuck(n) == 4 + (IF n > 1 THEN n - 1 ELSE n)

NewStore(n) == 4 + n

\* devtmpfs_mkdir: the store is taken even when there is no inode for it.
Mkdir(p) ==
  LET i == AllocInode(T) IN
  /\ ParentIsDir(p) /\ RoomIn(T, StoreOf(p)) /\ ndirs < MAX_DIRS
  /\ ndirs' = ndirs + 1
  /\ IF i = 0 THEN UNCHANGED <<node, dirs>>
     ELSE Becomes(SetDir(Entered(p, i, Dir(NewStore(ndirs + 1))),
                         NewStore(ndirs + 1), <<>>))
  /\ UNCHANGED <<nlinks, mounts>> /\ SameDir

\* devtmpfs_mknod
Mknod(p) ==
  LET i == AllocInode(T) IN
  /\ ParentIsDir(p) /\ RoomIn(T, StoreOf(p)) /\ i # 0
  /\ Becomes(Entered(p, i, Node("null", 0, <<>>)))
  /\ UNCHANGED <<ndirs, nlinks, mounts>> /\ SameDir

\* devtmpfs_symlink: inode and target are gone when there is no room.
Symlink(p, target) ==
  LET i == AllocInode(T) IN
  /\ ParentIsDir(p) /\ nlinks < MAX_SYMLINKS /\ i # 0
  /\ Becomes(Entered(p, i, Node("link", 0, target)))
  /\ nlinks' = nlinks + 1
  /\ UNCHANGED <<ndirs, mounts>> /\ SameDir

Removed(t, p) == SetDir(t, StoreOf(p), RemoveFrom(t.dirs[StoreOf(p)], NamePart(p)))

\* devtmpfs_unlink removes whatever has the name; the inode stays in use.
Unlink(p) ==
  /\ ParentIsDir(p) /\ Lookup(T, Parent(p), NamePart(p)) # 0
  /\ Becomes(Removed(T, p))
  /\ UNCHANGED <<ndirs, nlinks, mounts>> /\ SameDir

\* devtmpfs_rmdir reads the entry count of whatever has the name.  What it
\* reads in a device or a link is not a count: either outcome is possible.
RmdirAllows(i) == node[i].type = "dir" => dirs[node[i].store] = <<>>

Rmdir(p) ==
  LET i == Lookup(T, Parent(p), NamePart(p)) IN
  /\ ParentIsDir(p) /\ i # 0 /\ RmdirAllows(i)
  /\ Becomes(Removed(T, p))
  /\ UNCHANGED <<ndirs, nlinks, mounts>> /\ SameDir

\* vfs_rename without a rename operation: the new name, then the old one.
Rename(p, q) ==
  LET i == Lookup(T, Parent(p), NamePart(p)) IN
  /\ ParentIsDir(p) /\ ParentIsDir(q) /\ i # 0 /\ RoomIn(T, StoreOf(q))
  /\ Becomes(Removed(AddEntry(T, StoreOf(q), NamePart(q), i), p))
  /\ UNCHANGED <<ndirs, nlinks, mounts>> /\ SameDir

\* devtmpfs_create_mount: all mounts share one store, which is emptied and
\* filled again.
CreateMount(i) ==
  PopulateDir(SetDir(SetNode(T, i, Dir(DevMount)), DevMount, <<>>), DevMount)

\* vfs_mount_create
TableWith(point, root) ==
  IF Len(mounts) >= MAX_MOUNTS THEN mounts
  ELSE Append(mounts, [point |-> point, root |-> root])

\* sys_mount of a devtmpfs: the table is looked at last.
Mount(p) ==
  LET i == AllocInode(T) IN
  /\ Resolve(p) # 0 /\ i # 0
  /\ Becomes(CreateMount(i))
  /\ mounts' = TableWith(Resolve(p), i)
  /\ UNCHANGED <<ndirs, nlinks>> /\ SameDir

\* Mutant: the mount of the highest index goes, whichever was asked for.
TableWithoutLast(i) == SubSeq(mounts, 1, Len(mounts) - 1)

\* vfs_mount_destroy: the last mount moves into the hole.
TableWithout(i) == Without(mounts, i)

\* sys_unmount
Unmount(p) ==
  LET hits == {i \in DOMAIN mounts : mounts[i].root = Resolve(p)} IN
  /\ Resolve(p) # 0 /\ hits # {}
  /\ mounts' = TableWithout(Min(hits))
  /\ UNCHANGED <<node, dirs, ndirs, nlinks>> /\ SameDir

\* sys_chdir with a relative path.
Chdir(p) ==
  LET to == Normalize(cwd.path, p)
      i == ResolveText(Text(to.path, to.slash)) IN
  /\ Len(trail) + Len(p) <= MaxTrail
  /\ i # 0 /\ node[i].type = "dir"
  /\ cwd' = to /\ trail' = trail \o p
  /\ UNCHANGED <<node, dirs, ndirs, nlinks, mounts>>

Calls ==
  \/ \E p \in Paths :
       \/ "create" \in work.calls /\ CreateFile(p)
       \/ "mkdir" \in work.calls /\ Mkdir(p)
       \/ "mknod" \in work.calls /\ Mknod(p)
       \/ "symlink" \in work.calls /\ \E target \in Targets : Symlink(p, target)
       \/ "unlink" \in work.calls /\ Unlink(p)
       \/ "rmdir" \in work.calls /\ Rmdir(p)
       \/ "rename" \in work.calls /\ \E q \in Paths : Rename(p, q)
  \/ "mount" \in work.calls /\ \E p \in Paths \cup {<<>>} : Mount(p) \/ Unmount(p)
  \/ "chdir" \in work.calls /\ \E p \in Moves : Chdir(p)

Next == UNCHANGED work /\ Calls

Spec == Init /\ [][Next]_vars

-----------------------------------------------------------------------------
(* Properties.                                                              *)

\* Inodes, stores and counters have the types of their C declarations, and
\* no array holds more than its size.
TypeOK ==
  /\ \A i \in Ino : node[i].type \in {"free", "dir", "dev", "null", "file", "link"}
  /\ \A s \in Store : Len(dirs[s]) <= MAX_ENTRIES
  /\ ndirs \in 0 .. MAX_DIRS /\ nlinks \in 0 .. MAX_SYMLINKS
  /\ Len(mounts) <= MAX_MOUNTS

Named == UNION {{e.ino : e \in Range(dirs[s])} : s \in Store}

\* No name and no mount leads to an inode that was given back: creating
\* a file takes its inode back when the directory is full, and nothing else
\* ever does.
NoDanglingNames ==
  \A i \in Named \cup {m.root : m \in Range(mounts)} \cup {m.point : m \in Range(mounts)} :
    node[i].type # "free"

\* Two directories never share their entries, except for the roots of
\* mounted devtmpfs file systems, which all are the same directory.
DirsSeparate ==
  \A i, j \in Ino :
    /\ i # j /\ node[i].type = "dir" /\ node[j].type = "dir"
    /\ node[i].store = node[j].store
    => node[i].store = DevMount

\* The two loops of path resolution agree, through links and mounts on the
\* way, on every path but one that ends in a symbolic link without a slash
\* behind it.
LoopsAgree(p, slash) ==
  LET s == Text(p, slash)
  IN slash \/ ~IsLink(ResolveNoFollow(s)) => ResolveText(s) = ResolveNoFollow(s)

\* The loop of vfs_resolve_path_no_follow finds, under any mount, the inode
\* of the name that unlink, rename and the others act on: the last name,
\* looked up in what the other loop makes of the names before it.
LastNameAgrees(p) ==
  Parent(p) # 0 =>
    ResolveNoFollow(Text(p, FALSE)) =
      LET i == Lookup(T, Parent(p), NamePart(p)) IN IF i = 0 THEN 0 ELSE Mounted(i)

\* The two loops of path resolution, each with its own idea of where a slash
\* is taken, lead to the same inode from every path where they should: what
\* stat, lstat, readlink and unlink make of a path never differs by the loop
\* that read it.
ResolversAgree ==
  \A p \in Paths : LastNameAgrees(p) /\ \A slash \in BOOLEAN : LoopsAgree(p, slash)

\* The mounts but for those on the root of another one: resolution goes one
\* mount deep, so these stay hidden, however many there are.
Plain == {m \in Range(mounts) : node[m.point].store # DevMount}

\* Every mount in the table is in effect: no two cover the same directory,
\* although vfs_mount_destroy changes the order of the table and resolution
\* takes the first that matches.
MountsInEffect ==
  \A m \in Plain : Mounted(m.point) = m.root

\* What resolution rests on: names lead to inodes in use, directories do not
\* share entries, and the mount table has one answer for each directory.
NamesInv == TypeOK /\ NoDanglingNames /\ DirsSeparate /\ MountsInEffect

\* An unmount brings the covered directory back, and changes nothing for any
\* directory that another mount covers.
UnmountUncovers ==
  [][\A m \in Plain :
       Len(mounts') < Len(mounts) =>
         IF \E p \in Paths \cup {<<>>} : Unmount(p) /\ Resolve(p) = m.root
         THEN Mounted(m.point)' = m.point ELSE Mounted(m.point)' = m.root]_vars

Unique(es) == \A j, k \in DOMAIN es : es[j].name = es[k].name => j = k

\* Two paths that lead to one name of one directory.
SameName(p, q) == StoreOf(p) = StoreOf(q) /\ NamePart(p) = NamePart(q)

\* In a directory without duplicate names, removing or renaming one (the last
\* entry moves into its place) takes that name away and leaves every other
\* name as it was.
OthersStay ==
  [][\A p \in Paths :
       LET s == StoreOf(p) IN
       /\ \/ Unlink(p) \/ Rmdir(p)
          \/ \E q \in Paths : Rename(p, q) /\ ~SameName(p, q)
       /\ Unique(dirs[s]) /\ Unique(dirs'[s])
       => \A e \in Range(dirs[s]) :
            LookupIn(dirs'[s], e.name) = IF e.name = NamePart(p) THEN 0 ELSE e.ino]_vars

\* The steps of a walk that lead into a directory, those that lead out of one,
\* and the ones whose directory was not left again.
Ins(steps, i, j) == {k \in i + 1 .. j : steps[k] \notin {".", ".."}}
Outs(steps, i, j) == {k \in i + 1 .. j : steps[k] = ".."}
Stay(steps) ==
  {i \in Ins(steps, 0, Len(steps)) :
     \A j \in i + 1 .. Len(steps) :
       Cardinality(Outs(steps, i, j)) <= Cardinality(Ins(steps, i, j))}

LeadsTo(steps, path) ==
  /\ Len(path) = Cardinality(Stay(steps))
  /\ \A i \in Stay(steps) : path[Cardinality({k \in Stay(steps) : k <= i})] = steps[i]

\* However a program walked there, the current directory is the one that the
\* names on its way lead to, with every ".." taken back the name before it.
CwdIsWhereWeWent == LeadsTo(trail, cwd.path)
=============================================================================
