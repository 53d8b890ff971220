------------------------------ MODULE BlockDev ------------------------------
(***************************************************************************)
(* Disks and their partitions as files: kernel/part.c and kernel/block.c   *)
(* over the sector transfers of drivers/ata/ata.c, and the position that   *)
(* vfs_file_read, vfs_file_write and sys_lseek keep.                       *)
(*                                                                         *)
(* A byte of the disk is known by its address; the bytes that programs     *)
(* write are marked with the address they are meant for.  A system call    *)
(* runs with interrupts off and is one step; any sector transfer in it may *)
(* time out, and it ends there.                                            *)
(***************************************************************************)
EXTENDS Integers, Sequences, FiniteSets, FiniteSetsExt

CONSTANTS
  SECTOR,      \* BLOCK_SECTOR_SIZE
  WORD,        \* 2^32: sizes and offsets in bytes are uint32_t
  NSECTORS,    \* num_blocks of the disk
  Mbr,         \* partition table: type, lba_start and sector_count of 4 entries
  MaxBytes     \* bound: bytes of a request

ASSUME BlockDevAssumption ==
  /\ {SECTOR, WORD, NSECTORS} \subseteq Nat \ {0} /\ MaxBytes \in Nat
  /\ Len(Mbr) = 4

VARIABLES
  disk,   \* the bytes of the disk: the address that each was meant for
  dev,    \* the device of the open file
  pos,    \* its f->pos
  last    \* history: the last call, the bytes it read, the addresses it wrote,
          \* and whether it was ragged, after which nothing more happens

vars == <<disk, dev, pos, last>>

Addr == 0 .. NSECTORS * SECTOR - 1

\* parse_mbr: the disk, and a device for every entry that is in use.
Device(start, count) == [start |-> start, count |-> count]
Used(e) == e.type # 0 /\ e.sector_count # 0
Devices ==
  <<Device(0, NSECTORS)>>
    \o LET inuse == SelectSeq(Mbr, Used)
       IN [i \in DOMAIN inuse |-> Device(inuse[i].lba_start, inuse[i].sector_count)]

Dev == DOMAIN Devices
Base(d) == Devices[d].start * SECTOR
Bytes(d) == Devices[d].count * SECTOR

\* The partition table is one that fits the disk, and no request that starts on
\* a device ends past 2^32 bytes.  The code checks neither.
DevicesFit ==
  \A d \in Dev : /\ Devices[d].start \in Nat /\ Devices[d].count \in Nat
                 /\ Devices[d].start + Devices[d].count <= NSECTORS
                 /\ Bytes(d) + MaxBytes < WORD

ASSUME FitAssumption == DevicesFit

-----------------------------------------------------------------------------
(* The split of a request into sectors.                                     *)

\* What is left of n bytes at off before the end of the device.
Clipped(d, off, n) ==
  LET size == Bytes(d) % WORD
  IN IF off >= size THEN 0
     ELSE IF (off + n) % WORD > size THEN size - off ELSE n

Piece(lba, skip, from, len) == [lba |-> lba, skip |-> skip, from |-> from, len |-> len]

\* The partial first sector, if there is one.
FirstPiece(off, n) ==
  IF off % SECTOR = 0 \/ n = 0 THEN <<>>
  ELSE <<Piece(off \div SECTOR, off % SECTOR, 0, Min({SECTOR - (off % SECTOR), n}))>>

\* The whole sectors and the partial last one, behind done bytes.
OtherPieces(off, n, done) ==
  [k \in 1 .. (n - done + SECTOR - 1) \div SECTOR |->
     LET total == done + (k - 1) * SECTOR
     IN Piece(off \div SECTOR + total \div SECTOR, 0, total, Min({SECTOR, n - total}))]

Pieces(off, n) ==
  LET first == FirstPiece(off, n)
  IN first \o OtherPieces(off, n, IF first = <<>> THEN 0 ELSE first[1].len)

\* Request n at off of d, when the transfers of the pieces up to good succeed:
\* the pieces that were moved, and the result.
Moved(d, off, n, good) == SubSeq(Pieces(off, Clipped(d, off, n)), 1, good)
Total(ps) == IF ps = <<>> THEN 0 ELSE ps[Len(ps)].from + ps[Len(ps)].len

\* Mutant: the whole request counts as done.
ResultAll(d, off, n, good) == Clipped(d, off, n)

Result(d, off, n, good) ==
  LET ps == Pieces(off, Clipped(d, off, n))
  IN IF good = 0 /\ ps # <<>> /\ ps[1].skip # 0 THEN -1
     ELSE Total(Moved(d, off, n, good))

\* Mutant: a partial first sector is copied from and to its start.
PlaceNoSkip(d, ps, j) ==
  LET p == CHOOSE p \in Range(ps) : j \in p.from .. p.from + p.len - 1
  IN Base(d) + p.lba * SECTOR + j - p.from

\* The address of byte j of the buffer, which lies in one of the pieces ps.
Place(d, ps, j) ==
  LET p == CHOOSE p \in Range(ps) : j \in p.from .. p.from + p.len - 1
  IN Base(d) + p.lba * SECTOR + p.skip + j - p.from

-----------------------------------------------------------------------------
Init ==
  /\ disk = [a \in Addr |-> a]
  /\ dev \in Dev /\ pos = 0
  /\ last = [call |-> "none", pos |-> 0, bytes |-> <<>>, wrote |-> {}, ragged |-> FALSE]

\* A request that starts inside a sector and goes on behind it.
Ragged(off, n) == off % SECTOR # 0 /\ (off % SECTOR) + n > SECTOR

Logged(call, n, bytes, wrote) ==
  last' = [call |-> call, pos |-> pos, bytes |-> bytes, wrote |-> wrote,
           ragged |-> Ragged(pos, Clipped(dev, pos, n))]

\* vfs_file_read and vfs_file_write move the position by what was done.
Advance(ret) == pos' = IF ret > 0 THEN (pos + ret) % WORD ELSE pos

Goods(n) == 0 .. Len(Pieces(pos, Clipped(dev, pos, n)))

\* block_file_read
Read(n, good) ==
  LET ps == Moved(dev, pos, n, good) IN
  /\ Logged("read", n, [j \in 1 .. Total(ps) |-> disk[Place(dev, ps, j - 1)]], {})
  /\ Advance(Result(dev, pos, n, good))
  /\ UNCHANGED <<disk, dev>>

\* block_file_write.  Where two pieces overlap the later one stays.
Write(n, good) ==
  LET ps      == Moved(dev, pos, n, good)
      Hits(a) == {j \in 0 .. Total(ps) - 1 : Place(dev, ps, j) = a}
      wrote   == {Place(dev, ps, j) : j \in 0 .. Total(ps) - 1}
  IN /\ Logged("write", n, <<>>, wrote)
     /\ Advance(Result(dev, pos, n, good))
     /\ disk' = [a \in Addr |-> IF a \in wrote THEN Base(dev) + pos + Max(Hits(a))
                               ELSE disk[a]]
     /\ UNCHANGED dev

\* sys_lseek
Lseek(to) ==
  /\ pos' = to
  /\ last' = [last EXCEPT !.call = "lseek", !.wrote = {}, !.bytes = <<>>]
  /\ UNCHANGED <<disk, dev>>

Next ==
  /\ ~last.ragged
  /\ \/ \E n \in 0 .. MaxBytes : \E good \in Goods(n) : Read(n, good)
     \/ \E n \in 0 .. MaxBytes : \E good \in Goods(n) : Write(n, good)
     \/ \E to \in 0 .. Bytes(dev) : Lseek(to)

Spec == Init /\ [][Next]_vars

-----------------------------------------------------------------------------
(* Properties.                                                              *)

\* Every byte that programs write is at the address it was meant for, a read
\* gives the bytes at the position of the file, and no other byte of the disk
\* changes, whichever transfers time out.  Exception: a ragged request
\* continues in the sector that it started in.  Even that one touches nothing
\* outside the partition.
BytesAtHome ==
  /\ last.wrote \subseteq Base(dev) .. Base(dev) + Bytes(dev) - 1
  /\ ~last.ragged =>
       /\ \A a \in Addr : disk[a] = a
       /\ \A j \in DOMAIN last.bytes : last.bytes[j] = Base(dev) + last.pos + j - 1

\* Reading and writing move the position forward and never behind the end of
\* the device, by as many bytes as were read or written, so that a copy loop
\* reads each byte once and stops at the end.
PositionFollows ==
  [][last'.call # "lseek" /\ pos' # pos =>
       /\ pos' <= Bytes(dev)
       /\ last'.call = "read" => pos' - pos = Len(last'.bytes)
       /\ last'.call = "write" /\ ~last'.ragged => pos' - pos = Cardinality(last'.wrote)]_vars
=============================================================================
