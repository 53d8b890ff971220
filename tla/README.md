# A TLA+ model of homunculos

homunculos is a small i386 kernel: one CPU, static tables, preemptive round
robin, UNIX-like system calls, pipes, an ext2 and a device file system. This
directory holds TLA+ modules that follow its source, TLC configurations that
check them on small instances, and proofs, checked by TLAPS, that hold for
constants of any size. `PROJECT.json` maps every definition to the lines it models.

## The system and its parts

| Part | Source | State, and the operations that change it | Who runs it |
|---|---|---|---|
| Tasks, scheduler | `kernel/task.c`, `kernel/scheduler.c` | `tasks[]`, `next_pid`, the linked run queue, `current_task`, `tick_count`; fork, exit, block, wake, waitpid, `schedule`, `scheduler_tick` | system calls of any task, the timer |
| Interrupt entry and return | `arch/i386/isrs.S`, `interrupts.c`, `kernel/irq.c` | the CPU's interrupt flag; every gate turns it off | every entry to the kernel |
| Context switch | `arch/i386/context_switch.S`, `arch/i386/task.c` | saved registers, not the flags | `schedule` |
| Signals | `kernel/signal.c` | pending and masked sets, handlers, one sigframe slot per task | kill, exit, exceptions, Ctrl+C; delivered on return to ring 3 |
| Sleeping | `sys_nanosleep` in `kernel/syscall.c` | `wakeup_tick`; the only `sti` of the kernel after boot | system call, timer |
| Pipes | `kernel/pipe.c` | a ring of bytes, two reference counts, one sleeping reader and one writer | read, write, close, exit |
| Descriptors, open files | `kernel/vfs.c`, `kernel/syscall.c` | `fd_table` per task, shared `vfs_open_files` with counts | open, close, dup, fcntl, pipe, fork, exit |
| Paths, inodes, mounts | `kernel/vfs.c` | inode pool, mount table | calls that take a path |
| Memory, exec | `arch/i386/mm.c`, `kernel/syscall.c`, `kernel/elf.c` | frame bitmap, page directories, VMAs, break | brk, mmap, fork, exec |
| ext2 | `kernel/ext2.c` | bitmaps, inodes, blocks, directory entries | path and file calls |
| devtmpfs, partitions, block layer, ATA | `kernel/devtmpfs.c`, `part.c`, `block.c`, `drivers/ata` | device nodes; sector reads and writes | path and file calls |
| Keyboard, tty, vga | `drivers/` | a ring of characters; the screen | keyboard interrupt, read, write |
| init, shell, libc | `init/`, `shell/`, `libc/` | user programs | |

Concurrency comes from one source: kernel code runs with interrupts off and
gives up the CPU only by calling `schedule()`. There is one exception.
`sys_nanosleep` executes `sti; hlt`, and `switch_context` does not save the
flags, so the task resumed next inside the kernel runs with interrupts on.

## Modules

### Tasks (`Tasks`, `TasksProofs`, `MCTasks`)

A step is a stretch of kernel code between two points where a tick may come in
or `schedule()` may switch. `pc` says where each task stands, `irq` whether an
interrupt handler is on top of that, and `interrupts` is the CPU flag.

* `Schedule` is `schedule()` with `move_to_tail` (`MoveToTail`) and the search
  for a READY task (`FirstReady`). When there is none the caller goes on, in
  whatever state it is: the code has no idle task.
* `Tick` is the timer interrupt. It wakes sleepers and preempts at the end of a
  slice. `IrqReturn`, `SysRet` and `Iret` are the ways out of the kernel;
  `Deliver` is the delivery of signals on the first two.
* `Fork`, `ForkFail` (no memory: the slot is lost) and `ForkNoSlot`; `Exit`,
  `ExitWake`, `ExitYield`; `Waitpid`, `NoneExited`, `Block`, `Reap`;
  `WaitNoHang`; `Yield`; `Kill`; `Sigprocmask`; `Nanosleep` and the steps of its
  loop; `Fault`; `CtrlC`; `Panic`.
* `wakeup` is the distance from `tick_count` to `wakeup_tick`, so the tick
  counter needs no bound. Its 32-bit wrap is left out.
* Signals are two: SIGTERM stands for those that terminate and can be masked,
  SIGCHLD for those ignored by default. User handlers are in `Signals`.
* `Workload` selects the calls and events of a run.

### Pipes (`Pipe`, `PipeFifo`, `PipeProofs`, `MCPipe`)

One pipe and the tasks around it. Bytes are numbered as they are written, so
order, loss and repetition show. A task in `pipe_read_op` or `pipe_write_op`
goes through the code's loops: it returns, blocks, or gives up (`ReadLoop`,
`WriteLoop`). `Close`, `Exit` and `Fork` change who holds which end;
`CloseEnds` counts the ends, wakes and frees. `Kill` is a death by signal, which
closes nothing in the code. `Signal` wakes a blocked task for no reason of the
pipe's. Blocks of kernel code are atomic here: the leaked interrupt flag is a
matter of `Tasks`.

`PipeFifo` is what a pipe promises: a bounded first-in first-out channel.

### Files (`Files`, `Descriptors`, `FilesProofs`, `MCFiles`)

The descriptor tables of all tasks, the open-file table and the pool of pipes,
with the code's first-free allocation and reference counts. There is one action
for each way a call can end once it has taken something: `Open`, `OpenNoFd`,
`MakePipe`, `PipeNoFile`, `PipeOneFile`, `PipeNoFd`, `Fork`, `ForkFail`.
`Close`, `Exit`, `Dup2`, `Dup`, `DupFrom` (F_DUPFD) and `Kill` complete it.
`Close` and `Exit` release files and pipes through `CloseFiles`. F_DUPFD takes any
minimum: with a negative one (`DupBelow`) it stores the file in front of
`fd_table`. `stray` counts these references, which no close gives back; when the
place was in use, `wild` is set and the model stops. A call that
fails before it changes anything is a stuttering step. File positions, flags
and `fd_flags` are left out: no release depends on them. So are the two files
that the kernel's own output may hold at boot.

`Descriptors` is the same interface without counts: a file exists as long as
some descriptor names it, or for good once it is `pinned` by such an F_DUPFD.

### Signals (`Signals`, `SignalsProofs`, `MCSignals`)

One user task with handlers. `Tasks` has signals between tasks and the
scheduler, `Signals` what happens to the task that gets them. The task is a
record; an operation maps it to the next, and ends with `Deliver`
(`signal_check_and_deliver`) where the code passes it on the way to ring 3.

* The user stack is the sequence of the signal frames on it; `slot` is
  `task->signal_sigframe`, the one place where the kernel remembers a frame.
* `SetAction`, `SetHandler`, `SetMask`, `HandlerReturns` (sigreturn), `KillSelf`,
  `KilledByOther`, `Executes`, `BecomesChild` (fork, seen from the child),
  `Traps` (an exception in ring 3) and `Returns` (any other way back).
* Frames are in user memory: `RewritesFrame` writes over the mask that one saved,
  and sigreturn puts back what it finds. The saved registers are left out.
* `base`, `killed` and `events` are history variables.

### Memory (`Memory`, `MemoryLemmas`, `MemoryProofs`, `MCMemory`)

The frame bitmap, the page directory, tables and entries of every task, the VMA
array, the break, and the calls that change them: `ExecCall`, `Fork`, `Reap`,
`Brk`, `Mmap2`, `Munmap`, `Mprotect`. Each call runs its loops page by page
(`AllocAt`, `ClonePage`, `CloneTable`), so that running out of frames half-way
leaves what the code leaves; a loop is a function of the number of turns
(`After`), which is what the proofs reason about. Addresses are counted in pages. `lost` records the
frames that the code is known to drop, and `events` what makes later promises
void.

### ext2 (`Ext2Disk`, `Ext2Dir`, `Ext2`, `MCExt2`)

`Ext2Disk` has the disk: bitmaps, the counts of groups and superblock, the inode
table, block contents, the block map with its indirect block. `Ext2Dir` has
directory blocks as rows of entries with record lengths. `Ext2` has the
operations.

An operation is the sequence of disks that its block writes leave behind, in the
order of the code: there is no write cache. A completed call takes the last of
them; a power failure (`PowerFails`) any other, after which `Mount` starts again
from that disk with no open files. The disk starts as one of the repository's
images (`MCImage`): mkfs with blocks of 1 KiB, `lost+found` removed, and files
written by debugfs (`Makefile`, `tests/build-disk.sh`). The driver takes bit n of
the bitmap for block n, although the first bit stands for block 1, so the last
block of the last file is free to it (`Lent`). `disk.broken` records the events after which
the driver promises nothing (see the deviations); the model stops there.

### Names (`Names`, `NamesProofs`, `MCNames`)

The inode pool, the directories of devtmpfs, the mount table, both copies of path
resolution, and the current directory with `normalize_path`. A path is the
sequence of its components; the resolvers read it as a text of names and slashes
(`Text`), perhaps with a slash at the end. Each has its own loop: `Follow` is a turn
of `vfs_resolve_path`, `NoFollow` one of `vfs_resolve_path_no_follow`, and they
take the slashes at different places. The root is a devtmpfs, as it is when the
kernel starts. `CreateFile`, `Mkdir`, `Mknod`, `Symlink`, `Unlink`, `Rmdir`, `Rename`,
`Mount`, `Unmount` and `Chdir` are the calls. `trail` is the history of the steps
of chdir.

### Devices (`Keyboard`, `BlockDev`, `DevicesProofs`, `MCDevices`)

`Keyboard` has the controller with its queue and latched interrupt, the driver
with its ring of characters, and the user's hand. `Interrupt` is the handler;
`Read` is `kbd_read`, which polls the controller itself when the ring is empty.

`BlockDev` has a disk and its partitions as files: the clipping at the end, the
split of a byte range into sectors (`Pieces`), transfers that time out, and the
file position. A byte is known by the address it was meant for. `DevicesFit` is
assumed: partitions lie within the disk, and no request that starts on a device
ends past 2^32 bytes. The code checks neither.

The two share no state; `MCDevices` puts them in one instance, a behaviour of
which exercises one or the other.

## Runs

| Run | Instance | Checks |
|---|---|---|
| `tasks_life` | 4 tasks, slice 2, no sleep, fair | `ZombieOnlyIfOrphan`, `ReapedOnceByParent`, `WaitpidReturns` |
| `tasks_sleep` | 3 tasks, sleeps to 2 ticks, faults, Ctrl+C, failing forks, fair | `SpinsOnlyWhenIdle`, `SleepersWakeOrFreeze`, `ReadyRuns` |
| `tasks_signals` | 3 tasks, slice 1, sleep, kill and masks | `ExitInv` |
| `tasks_freeze` | 3 tasks, sleep, fair | `SleepersWake`: violated |
| `pipe_pair` | a writer and a reader, buffer of 3, writes to 5, fair | `BlockedOnlyByOversized`, `ReaderServed`, `WriterServed`, `FifoSpec` |
| `pipe_shared` | 3 tasks that share both ends, buffer of 2 | `PipeInv`, `SleepersRecorded` |
| `files` | 2 tasks, 2 descriptors, 4 files, 2 pipes, 1 stray reference | `FilesInv`, `DescriptorsKeepFiles`, `DescSpec` |
| `signals` | 4 signals, 3 frames deep, 3 sent, fair | `SignalsInv`, `MaskRestored`, `NoReentry`, `PlainHandlersReturn`, `KillKills` |
| `memory` | 2 tasks, 19 frames, 8 pages, 2 VMAs | `MemoryInv`, `VmasDisjoint`, `VmaWalks`, `MappedHasVma`, `HeapOK` |
| `ext2` | 7 blocks in 2 groups, 5 inodes, a file on the image, 1 direct pointer, 1 power failure | `DiskInv`, `LinksCoverNames`, `DirectoriesCounted`, `BlocksTiled`, `FailureLeavesNoTrace` |
| `names` | 11 inodes, directories of 3 entries, 3 mounts | `NamesInv`, `ResolversAgree`, `CwdIsWhereWeWent`, `UnmountUncovers`, `OthersStay` |
| `devices` | a ring of 3 places and 6 key events; 6 sectors of 3 bytes, 2 partitions | `BytesAtHome`, `PositionFollows`, `KeysInOrder`, `RingKeeps` |

The state invariants of the modules are conjunctions: `ExitInv` (types, run
queue, one RUNNING task, parents, exited tasks), `PipeInv` (ring, ends, end of
file, holders), `FilesInv` (counts of files and of pipe ends), `SignalsInv`,
`DiskInv` (`BlocksOwnedOnce`, `CountsFollowBitmaps`),
`MemoryInv` (`SoleUse`, `FramesAccounted`) and `NamesInv` (`NoDanglingNames`,
`DirsSeparate`, `MountsInEffect`); the last three with their `TypeOK`.

What each property says is in the comment above it. `PROJECT.json` lists, for
each, a plausible slip in the code (a definition marked "Mutant") that breaks it,
and the hazards it is there for.

### The violation

`tasks_freeze`: a child sleeps, then its parent calls waitpid. `task_block` finds
nobody READY and comes back, waitpid loops with interrupts off, and no tick comes
again. In the usual order (waitpid first, then the sleep) the sleeper's own
`sti; hlt` keeps time, which is why the tests pass. `SleepersWakeOrFreeze` is
what does hold.

### Bounds

* Tasks. Four tasks are init, its waiter, a child and a grandchild: the least with
  an orphan. Sleeps of two ticks let a tick come before the one that is due. A
  slice of two has ticks that preempt and ticks that do not; `tasks_signals`
  takes one tick, so that the masks fit. `tasks_sleep` has three tasks: its
  properties also hold for four that fork, exit, wait and sleep, which takes ten
  minutes to check and is not kept as a run. With five and Ctrl+C a parent that
  came back to ring 3 marked BLOCKED can spin in its next waitpid while a task is
  READY, which is why `SpinsOnlyWhenIdle` excludes such tasks; the proof showed
  that nothing else has to be excluded.
* Pipe. Three bytes with reads to three and writes to five wrap, fill, empty and
  overflow within ten bytes. `pipe_shared` spends its states on forks, closes,
  exits, kills and signals.
* Files. Each table fills up: two tasks with two descriptors each name four files.
  With one standard descriptor (`STD`; three in the code) there is room for a pipe.
  One stray reference shows that its file outlives every descriptor.
* Signals. Two catchable signals with handlers, one ignored, SIGKILL; three frames
  are a handler in a handler in a handler.
* Memory, ext2, names. A behaviour starts by choosing a mix of calls
  (`Workloads`), because all calls together would need far more states than their
  interplay is worth; each mix joins the calls that touch the same state. In
  `memory` a task with its program takes five frames, so a fork, an exec and an
  mmap can fail at each of their allocations; a page table covers three of the
  eight pages, so ranges cross tables. In `ext2` one direct pointer brings the
  indirect block in at the second block of a file, directories grow to a second
  block, names of one and of two words leave gaps that fit one and not the other,
  and blocks, inodes and directory room all run out. In `names` a link that
  leads on to another one is refused (`MAX_FOLLOW`), and inodes, entries,
  directories, links and mounts run out.
* Devices. A ring of three places holds two characters and overflows; requests of
  up to eight bytes span four sectors. `WORD` is larger than the disk.
* The last task may exit, and the calls of the other modules may all fail or run
  into a bound, so only the runs of `Tasks` check for deadlock.

### Fairness

* Tasks: a handler returns and reached kernel code executes (weak fairness for
  the return, strong fairness for kernel steps, which ticks can interrupt but
  not for ever). The timer keeps ticking; the interrupt controller latches a
  tick while interrupts are off, so strong fairness. Programs promise nothing.
* Pipe: a task that is READY inside a pipe operation goes on, which is what
  `ReadyRuns` gives. Nobody has to call read or write.
* Signals: the task comes back from the kernel again and again (`Returns`),
  because the timer interrupts it. Programs promise nothing.

## Where the code departs from what one might expect

The properties above are stated so that they hold of the code. What they leave
out, or accept by a history variable, is this.

Tasks
* `WaitpidReturns` holds when nobody sleeps. With the interrupt flag that
  nanosleep leaves on, a tick can come between waitpid's look for an exited child
  and `task_block`: the child exits, finds its parent not BLOCKED, and the parent
  blocks for good; or, if nobody else is READY, comes back, takes the child, and
  returns to ring 3 marked BLOCKED. Once preempted it runs
  again only if a signal wakes it.
* A task whose parent has exited, and that exits while nobody is READY, returns
  from `sys_exit` to ring 3 (`ZombieOnlyIfOrphan` is the part that holds).
* A fork that runs out of memory leaves its slot in the task table.

Pipes and files
* A reader can stay blocked on a pipe that has data while one write larger than
  the buffer is under way (`BlockedOnlyByOversized`).
* A death by signal closes no descriptor.
* F_DUPFD with a negative minimum counts a reference that no descriptor holds, or
  writes over other fields of the task (`stray`, `wild`).
* A second task that blocks on one side of a pipe takes the place of the first,
  which nobody wakes any more (`SleepersRecorded`).

Signals
* There is one slot for the frame: a handler that interrupts another, or a fork in
  a handler, loses the outer frame, and the outer handler's return is refused
  (`PlainHandlersReturn` is about the others).
* sigreturn puts back the mask in the frame unchecked. A program that writes
  SIGKILL into it blocks SIGKILL ("edited"; `KillKills` makes that its exception).
* The frame keeps no general registers, and sigreturn leaves 0 in eax.
* The stub for exceptions with an error code takes it off the stack twice, and the
  return faults in the kernel ("halted").

Memory
* Frames are never given back by the buffer init was loaded from, by the end of a
  task, by the old program of an exec and by an exec that fails late (`lost`).
* A page that loses all rights loses its frame.
* exec gives back as many frames from the first of its buffer on as the buffer
  had, although they need not be contiguous ("stray").
* munmap of a part of a mapping drops the whole mapping ("partial").
* A break that was lowered, or raised in vain, leaves pages above it, and a later
  brk stops there ("brk").
* exec keeps the mappings of the old program in the VMA array, and fails for a
  program whose segments share a page.

ext2
* With blocks of 1 KiB, `alloc_block` takes bit n for block n, while the bitmap
  starts at block 1 (`ext2.c:207`; `first_data_block` is never read): the first
  block it hands out belongs to the file written last when the image was made,
  which on the test image is `/nested/deep/secret.txt`. One `mkdir` is enough, and
  the file's text becomes directory entries. `BlocksOwnedOnce` says that this block
  gets one more owner and no other block is shared; what happens when the file is
  written, truncated or removed is not followed ("lent"). In a later group the same
  slip hands out the last block of its inode table, which the model does not have.
* The indirect block is neither cleared when it is made ("indirect") nor freed.
* unlink of a short symbolic link frees its text as block numbers ("junk").
* unlink frees the inode and the blocks of a file that is open ("open").
* link accepts directories ("dirlink"), and mkdir, link and rename do not look
  for an existing name. unlink works on directories.
* `rmdir` takes the length of ".." for the sign of an empty directory: it refuses
  what mkdir has just made, and accepts what had an entry.
* create, mknod and symlink keep the inode when the directory cannot grow.
* A power failure inside rename or truncate leaves states that nothing repairs
  ("torn"); elsewhere it costs at most a count off by one, and lost blocks and
  inodes.

Names
* `vfs_resolve_path_no_follow` follows a link at the end of a path when a slash is
  behind it. What `vfs_resolve_path` has behind its loop for such a link is never
  reached: the loop has followed it.
* An absolute link leads to the root directory, whatever its target is.
* All mounted devtmpfs share one directory, and a new mount empties it.
* Resolution goes one mount deep: a mount on the root of a mount stays hidden.
* Removing a directory that is a mount point leaves its entry in the mount table.
  Mounting and unmounting take inodes and give none back.
* mkdir and rename do not look for an existing name.

Devices
* A request that starts inside a sector and goes on behind it continues in the
  same sector (`Ragged`, `part.c:98`).
* The size in bytes and the end of a request are taken modulo 2^32.
* Letting go of one of two shift keys ends the shift. A full ring drops
  characters.

## Proofs

All are for any values of the constants that the modules' assumptions allow.

* `TasksProofs`: the invariant `ExitInv` is inductive (`ExitInvariant`). Type,
  run queue and sole runner support each other. To prove `ZombieOnlyIfOrphan`
  the invariant adds who can be a parent (`ParentsOK`) and what an exited task
  still on the CPU implies (`ZombiesOK`): past `task_wake` its parent is READY
  or EXITED, so `schedule()` comes back only in the second case. `TypeCorrect`,
  `RunQueueCorrect`, `OneRunner`, `ZombiesAreOrphans` follow, and `ReapedOnce`
  is the action property. `SpinsOnlyIdle` is `SpinsOnlyWhenIdle`: a BLOCKED task
  loops in waitpid with interrupts off only after a `schedule()` that found nobody
  READY, and until interrupts come on again nobody becomes READY.
  `KernelRunsUninterrupted` says where its hypothesis holds: without nanosleep no
  kernel code is interrupted and no program runs in a BLOCKED task. Its invariant
  `QuietInv` adds that a handler is on top of ring 3 only, and that a BLOCKED task
  on the CPU is in waitpid and has no exited child to return for.
  `SpinsIdleWithoutSleep` joins the two.
* `PipeProofs`: `PipeInv` is inductive (`PipeInvariant`). Ring arithmetic is in
  lemmas on `At`; a store behind the content overwrites none of it
  (`AtInjective`). `HoldsWhatItUses` is the strengthening: an operation under
  way holds its end, so no pipe is freed under it. `RingCorrect`, `EndsCorrect`,
  `EofCorrect` follow, and `SleepersKeepPlace` for `SleepersRecorded`.
  `BlockedReadersWait` is `BlockedOnlyByOversized` for every behaviour in which one
  task has the read end, as in `pipe_pair`; of two sleeping readers the pipe
  remembers one, and the property is false. `ReaderInv` adds that the reader that
  sleeps is the one recorded, so every write and the last close wake it.
  `PipeIsFifo` shows the refinement of `PipeFifo`, action by action.
* `FilesProofs`: `FilesInv` is inductive (`FilesInvariant`). Counts equal
  cardinalities of sets of descriptors, so each action has a lemma on how it
  changes those sets. `SlotsOK` is the strengthening: a slot not handed out yet
  has no descriptors, so fork's copies are all new. `RefcountCorrect`,
  `PipeRefsCorrect` and the action property `DescriptorsKeep` follow, and the
  refinement of `Descriptors` (`FilesImplementDescriptors`).
  By the invariant a file entry is in use exactly when a descriptor names it or a
  stray reference pins it, and a pipe exactly when a file leads to it (`StepBecomes`); what is left is that
  each call changes the descriptors as its abstract counterpart does, and that
  the error paths change nothing.
* `SignalsProofs`: `SignalsInv` is inductive (`SignalsInvariant`). It adds to the
  type where the slot may point (`Slots`) and which signals are blocked while a
  frame is on the stack (`Blocked`), and keeps SIGKILL out of every mask that the
  program did not write into a frame itself (`Deadly`). One lemma for each operation and one for
  `Deliver`, which every operation ends with. `KillAlwaysDeadly`,
  `MaskAlwaysRestored`, `HandlersNotReentered`, `PlainHandlersAlwaysReturn` and
  `SignalsTypeCorrect` follow.
* Loops, in `MemoryLemmas`, `NamesProofs` and `DevicesProofs`: a loop of the code is
  a function of the number of turns. `LoopExists` shows that such a function
  satisfies its equation, `LoopKeeps` that what holds before the first turn and is
  kept by each holds at the end; each loop gets a lemma of its own from these two.
  `MinIn`, `MaxIn` and `Counting` are what searches and counts need.
* `MemoryLemmas` has what each operation does to one address space and one array
  of mappings, `MemoryProofs` the invariant `IInv`, which is inductive
  (`MemoryInductive`).
  `Exact(a, O)` is what every loop keeps: the
  computation `a` has the frames `O` of everybody else, those of its own space
  and those it hid, and no two of these meet. So the accounts are right at
  whichever turn frames run out, and `SpaceStepInv` carries that over to all
  tasks. `IInv` adds to the checked invariants that page tables and pages of a
  space are different frames (`Separate`), that the bitmap is the disjoint union
  of the kernel, the spaces and `lost` (`Accounted`), and that nothing is mapped
  behind the break until brk failed or shrank (`HeapClear`), without which a
  growing heap could hit a page. `MemoryIsExact`, `MappingsAreDisjoint`,
  `WalksAreRight`, `MappedPagesCovered` and `HeapIsOK` follow. The last one counts
  frames: brk succeeds if there is one for each page and for each missing table
  (`AllocRangeSucceeds`). `vma_find_gap` is a recursion whose argument grows;
  `FindGapLowest` shows that the lowest gap satisfies its equation, and that
  nothing else does.
* `NamesProofs`: the invariant `IInv` is inductive (`NamesInductive`). It has
  three parts. `PoolInv`: inodes and entries have their types, every entry names
  an inode in use, a store that was not handed out belongs to no directory.
  Without the last, mkdir could give a directory the entries of another one.
  `MountInv`: no two mounts have the same root, and none but those on
  the root of a mount the same directory; so the order of the table, which unmount
  changes, says nothing. `WalkInv`: the current path has the
  components of `trail` that were not taken back, in order. One component of
  `normalize_path` keeps that (`WalkStays`, `WalkInto`, `WalkOut`), so any number
  does. `NamesAreSound`, `CwdFollows`, `ResolutionsAgree`, and the action
  properties `UnmountsUncover` and `OthersAreKept` follow. For `ResolutionsAgree` a
  walk over names (`Step`) says what both loops should do; `Stands` is where a loop
  over the text stands after k turns, and `NameTurns` that a turn of either reads
  one name with the slash behind it. `OthersAreKept` excludes a
  rename of a name to itself (`SameName`): the code enters the new name, then
  removes the first entry of that name, and one of the two stays.
  `StringAssumption` is true of strings; no prover knows it.

* `DevicesProofs`, disk: `PiecesAre` shows that the pieces of a request follow each
  other without gap or overlap and, unless the request is ragged, each lies where
  its bytes belong (`Home`); `RequestIs` adds the clipping at the end of the device. So
  the transfers up to the first that fails move a part of the request that has no
  holes, and `DiskOK` is inductive. `BytesStayHome` and the action property
  `PositionsFollow` follow.
* `DevicesProofs`, keyboard: the driver lags behind the user by the bytes on their
  way. `DriverOK` says that there is a row of hands (`Chain`), one for each of these
  bytes, that leads from what the driver knows (`Knows`) to the user's hand; and
  that the byte read last would change nothing if it were read again (`Seen`),
  which is what an interrupt does whose byte was polled away. A byte taken from the
  queue moves the driver one hand on (`TakeNext`), a key event adds one
  (`ArriveOK`); characters read and characters in the ring, taken together, only
  grow (`PushOut`, `PopOut`). `KeysComeInOrder` and `RingStays` follow.

Only model-checked: all liveness, which is out of the prover's reach, and ext2.
Its operations are folds over the disks that they leave behind, and each of its
invariants speaks of the inodes that paths reach and the blocks they list: both are
inductions over data.

## Not modelled, and why

* Screen output, the tty and null devices, and the formatting of libc hold no
  protocol. The set-up of IDT, GDT, PIC and PIT, and the ATA commands, are
  register accesses.
* The shell and the programs are covered by letting tasks make any system call.
* The 32-bit wrap of the tick counter (`syscall.c:1556`), and a tick that lands
  inside `schedule()` (`scheduler.c:111`) when interrupts leaked on: the models
  take `schedule()` as one step and the alarm as a distance.
* ext2: reading, readdir, times, permissions, and a device that reports errors.
  Double and triple indirect blocks are only read by the code, never made.
* Names: links with relative targets, components longer than the buffers, rename
  through a parent that is no directory; permissions.
* Memory: the rights kept in a VMA, which the code never reads; addresses outside
  the area of mmap for munmap, mprotect and MAP_FIXED; the arguments and the
  environment on a new stack.
* stat, getdents, access, chmod, ioctl, gettimeofday and times read or forward.
