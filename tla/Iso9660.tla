------------------------------ MODULE Iso9660 ------------------------------
(***************************************************************************)
(* The ISO 9660 driver (fs/iso9660.c).  One step reads one block.          *)
(*                                                                         *)
(* A disk is what disk_read returns: the type of the descriptor in each    *)
(* sector, the fields of the primary descriptor as iso9660.h lays them     *)
(* out, and the directory records of the blocks that begin at each sector. *)
(* A record of length zero has kind "zero", the records of a directory and *)
(* of its parent "dot".  A data byte is the pair of its sector and its     *)
(* place.  sound (extents that hold what the records say) and origin (the  *)
(* sector those extents are counted from) are not on the disk.             *)
(*                                                                         *)
(* ok says whether the allocation or the disk read of a step succeeds.  A  *)
(* call ends at "crashed" when it divides by zero, and at "overrun" when   *)
(* it leaves a buffer.                                                     *)
(***************************************************************************)
EXTENDS FsDriver

CONSTANTS
  IsoDisks, IsoCalls,
  SECTOR,           \* bytes in a sector: 512
  BYTE,             \* 256
  UINT32,           \* 2^32
  SYSTEM_AREA,      \* sectors before the first descriptor: 16
  MAX_DESCRIPTORS,  \* descriptors looked at: 32
  Upper             \* names in upper case

Init ==
  /\ disk \in IsoDisks
  /\ call \in IsoCalls
  /\ at \in {"detect", "mount"}
  /\ priv = none
  /\ local = [failed |-> FALSE, sector |-> 0, lba |-> 0, extent |-> 0, size |-> 0, off |-> 0,
              path |-> call.path, dirs |-> 0, blocks |-> {}]
  /\ buf = << >>
  /\ heap = {}
  /\ result = 0

\* What a mounted volume keeps allocated.  An allocation is a name and, for the
\* buffers of iso9660_find_entry, the depth of the call.
Volume == {<<"priv", 0>>, <<"path_table", 0>>}

Crash == at' = "crashed" /\ UNCHANGED <<local, buf, heap, result>>

-----------------------------------------------------------------------------
(* Blocks.                                                                 *)

\* priv->block_size: the logical_block_size of the primary descriptor.
block_size == disk.block_size

SectorsPerBlock == block_size \div SECTOR

\* Where iso9660_read_blocks reads a block.
SectorOf(block) == (local.lba + block * SectorsPerBlock) % UINT32

\* The bytes it writes.
BytesRead(count) == ((count * SectorsPerBlock) % UINT32) * SECTOR

\* Whether a buffer of whole blocks is filled: no sector is read for a block
\* that is shorter than one.
Filled == block_size >= SECTOR /\ block_size % SECTOR = 0

\* The records of a block before the one of length zero.
Used(records) ==
  LET k == FirstOf({i \in DOMAIN records : records[i].kind = "zero"})
  IN  IF k = 0 THEN records ELSE SubSeq(records, 1, k - 1)

RecordsAt(sector) ==
  IF sector \in DOMAIN disk.records THEN Used(disk.records[sector]) ELSE << >>

\* What a directory buffer may hold after a block is read into it: a buffer that
\* is not filled holds anything.
Records(block) ==
  IF Filled THEN {RecordsAt(SectorOf(block))}
  ELSE {RecordsAt(s) : s \in DOMAIN disk.records}

\* Byte i of a buffer the blocks from start on are read into.
ByteOf(start, i) ==
  IF Filled THEN <<SectorOf(start) + i \div SECTOR, i % SECTOR>> ELSE <<"unset">>

-----------------------------------------------------------------------------
(* Detection, mount and unmount.                                           *)

Descriptor(sector) == IF sector \in DOMAIN disk.sectors THEN disk.sectors[sector] ELSE "other"

iso9660_detect(ok) ==
  /\ at = "detect"
  /\ IF ~ok THEN Fail
     ELSE IF Descriptor(disk.lba + SYSTEM_AREA) = "primary"
     THEN at' = "mount" /\ UNCHANGED <<local, result>>
     ELSE Return(-1) /\ UNCHANGED local
  /\ UNCHANGED <<disk, call, priv, buf, heap>>

\* kmalloc; priv->lba is already past the system area.
iso9660_mount(ok) ==
  /\ at = "mount"
  /\ IF ok
     THEN /\ at' = "descriptor" /\ heap' = {<<"priv", 0>>}
          /\ local' = [local EXCEPT !.sector = SYSTEM_AREA, !.lba = disk.lba + SYSTEM_AREA]
          /\ UNCHANGED result
     ELSE Fail /\ UNCHANGED heap
  /\ UNCHANGED <<disk, call, priv, buf>>

\* One turn of iso9660_read_volume_descriptor.
ReadDescriptor(ok) ==
  /\ at = "descriptor"
  /\ LET type == Descriptor(local.lba + local.sector)
     IN  IF local.sector >= SYSTEM_AREA + MAX_DESCRIPTORS \/ (ok /\ type = "end")
         THEN Return(-1) /\ heap' = {} /\ UNCHANGED local
         ELSE IF ~ok THEN Fail /\ heap' = {}
         ELSE IF type = "primary"
         THEN at' = "path_table" /\ UNCHANGED <<local, heap, result>>
         ELSE local' = [local EXCEPT !.sector = @ + 1] /\ UNCHANGED <<at, heap, result>>
  /\ UNCHANGED <<disk, call, priv, buf>>

\* iso9660_read_path_table rounds the table up to whole blocks.
TableBlocks == ((disk.path_table_size + block_size - 1) % UINT32) \div block_size

TableFits == BytesRead(TableBlocks) <= disk.path_table_size

\* Without the table the volume is mounted too.  Only the first byte of the
\* extent of the root directory is looked at.
ReadPathTable(allocated, ok) ==
  /\ at = "path_table"
  /\ IF allocated /\ block_size = 0 THEN Crash /\ UNCHANGED priv
     ELSE /\ heap' = IF allocated /\ ok THEN heap \cup {<<"path_table", 0>>} ELSE heap
          /\ priv' = [mounted |-> TRUE]
          /\ local' = [local EXCEPT !.extent = disk.root.extent % BYTE, !.size = disk.root.size]
          /\ at' = "find"
          /\ UNCHANGED <<buf, result>>
  /\ UNCHANGED <<disk, call>>

\* The last block of the table may be written over something that is in use.
PathTableOverrun ==
  /\ at = "path_table" /\ block_size # 0 /\ ~TableFits
  /\ at' = "overrun"
  /\ UNCHANGED <<disk, call, priv, local, buf, heap, result>>

iso9660_unmount ==
  /\ at = "return"
  /\ at' = "unmounted"
  /\ heap' = IF priv.mounted THEN heap \ Volume ELSE heap
  /\ UNCHANGED <<disk, call, priv, local, buf, result>>

-----------------------------------------------------------------------------
(* iso9660_find_entry.  Each call holds a buffer until the one it makes    *)
(* has returned; dirs counts them, and whatever the last one returns is    *)
(* what the first returns.                                                 *)

\* Mutant: only the innermost call frees its buffer.
FreeInnermost == heap' = heap \ {<<"dir", local.dirs>>}

FreeDirs == heap' = heap \ {<<"dir", k>> : k \in 1..local.dirs}

FindEnter(ok) ==
  /\ at = "find"
  /\ IF ok
     THEN /\ at' = "scan" /\ UNCHANGED result
          /\ local' = [local EXCEPT !.dirs = @ + 1, !.off = 0]
          /\ heap' = heap \cup {<<"dir", local.dirs + 1>>}
     ELSE Fail /\ FreeDirs
  /\ UNCHANGED <<disk, call, priv, buf>>

\* The record is the one looked for: with more of the path to come only a
\* directory is.
Takes(r, path) ==
  /\ r.kind = "entry" /\ r.name = Upper[Head(path)]
  /\ Len(path) > 1 => r.dir

\* The entry looked for is in one of the records of the block; if not, the next
\* block is read.
ScanBlock(records) ==
  LET k == FirstOf({i \in DOMAIN records : Takes(records[i], local.path)})
  IN  /\ IF k = 0
         THEN /\ local' = [local EXCEPT !.off = (@ + block_size) % UINT32]
              /\ UNCHANGED <<at, heap>>
         ELSE /\ local' = [local EXCEPT !.extent = records[k].extent, !.size = records[k].size,
                                        !.path = Tail(@)]
              /\ IF Len(local.path) > 1 THEN at' = "find" /\ UNCHANGED heap
                 ELSE at' = "found" /\ FreeDirs
      /\ UNCHANGED <<buf, result>>

FindScan(ok) ==
  /\ at = "scan"
  /\ IF local.off >= local.size THEN Return(-1) /\ FreeDirs /\ UNCHANGED <<local, buf>>
     ELSE IF block_size = 0 THEN Crash
     ELSE IF ~ok THEN Fail /\ FreeDirs /\ UNCHANGED buf
     ELSE \E records \in Records(local.extent + local.off \div block_size) : ScanBlock(records)
  /\ UNCHANGED <<disk, call, priv>>

-----------------------------------------------------------------------------
(* The operations.                                                         *)

Clamp(size, offset, file_size) ==
  IF (offset + size) % UINT32 > file_size THEN file_size - offset ELSE size

\* The blocks from the first byte to the last.
BlockCount(offset, size) ==
  (((offset + size - 1) % UINT32) \div block_size - offset \div block_size + 1) % UINT32

\* What is read and what is copied lie inside the buffer of count blocks.
BufferHolds(count, offset, size) ==
  LET allocated == (count * block_size) % UINT32
  IN  BytesRead(count) <= allocated /\ (offset % block_size) + size <= allocated

\* iso9660_read_file: the blocks are read into a buffer, and the bytes copied out
\* of it.
iso9660_read_file(ok) ==
  /\ at = "found" /\ call.op = "read"
  /\ LET size == Clamp(call.size, call.offset, local.size)
         start == local.extent + call.offset \div block_size
         count == BlockCount(call.offset, size)
     IN  IF call.offset >= local.size
         THEN Return(0) /\ UNCHANGED <<local, buf>>
         ELSE IF ~ok THEN Fail /\ UNCHANGED buf
         ELSE IF ~BufferHolds(count, call.offset, size)
         THEN at' = "overrun" /\ UNCHANGED <<local, buf, result>>
         ELSE /\ local' = [local EXCEPT !.blocks = start .. start + count - 1]
              /\ buf' = [i \in 1..size |-> ByteOf(start, (call.offset % block_size) + i - 1)]
              /\ Return(size)
  /\ UNCHANGED <<disk, call, priv, heap>>

ListStart(ok) ==
  /\ at = "found" /\ call.op = "list"
  /\ IF ok
     THEN /\ at' = "list" /\ UNCHANGED result
          /\ heap' = heap \cup {<<"list", 0>>}
          /\ local' = [local EXCEPT !.off = 0]
     ELSE Fail /\ UNCHANGED heap
  /\ UNCHANGED <<disk, call, priv, buf>>

\* The entries of a block are listed as long as there is room.
ListRecords(records) ==
  LET entries == SelectSeq(records, LAMBDA r : r.kind = "entry")
      room == call.size - Len(buf)
  IN  /\ buf' = buf \o [k \in 1..(IF Len(entries) < room THEN Len(entries) ELSE room) |->
                           entries[k].name]
      /\ local' = [local EXCEPT !.off = (@ + block_size) % UINT32]
      /\ UNCHANGED <<at, heap, result>>

\* One block of iso9660_list_dir.
ListBlock(ok) ==
  /\ at = "list"
  /\ IF local.off >= local.size \/ Len(buf) >= call.size
     THEN Return(Len(buf)) /\ heap' = heap \ {<<"list", 0>>} /\ UNCHANGED <<local, buf>>
     ELSE IF ~ok THEN Fail /\ heap' = heap \ {<<"list", 0>>} /\ UNCHANGED buf
     ELSE \E records \in Records(local.extent + local.off \div block_size) : ListRecords(records)
  /\ UNCHANGED <<disk, call, priv>>

\* iso9660_get_info looks for the record in the block extent / (block_size / 256):
\* found says whether some place of that block looks like it, and as what.
iso9660_get_info(ok, found, dir) ==
  /\ at = "found" /\ call.op = "info"
  /\ IF ~ok THEN Fail /\ UNCHANGED <<buf, heap>>
     ELSE IF block_size \div (SECTOR \div 2) = 0 THEN Crash
     ELSE IF found
     THEN Return(0) /\ buf' = <<local.size, dir>> /\ UNCHANGED <<local, heap>>
     ELSE Return(-1) /\ UNCHANGED <<local, buf, heap>>
  /\ UNCHANGED <<disk, call, priv>>

iso9660_find_file_fs ==
  /\ at = "found" /\ call.op = "find"
  /\ buf' = <<local.extent>>
  /\ Return(0)
  /\ UNCHANGED <<disk, call, priv, local, heap>>

Next ==
  \/ \E ok \in BOOLEAN :
       \/ iso9660_detect(ok) \/ iso9660_mount(ok) \/ ReadDescriptor(ok)
       \/ \E allocated \in BOOLEAN : ReadPathTable(allocated, ok)
       \/ FindEnter(ok) \/ FindScan(ok) \/ iso9660_read_file(ok) \/ ListStart(ok) \/ ListBlock(ok)
       \/ \E found, dir \in BOOLEAN : iso9660_get_info(ok, found, dir)
  \/ PathTableOverrun \/ iso9660_find_file_fs \/ iso9660_unmount

Fairness == WF_driverVars(Next)

-----------------------------------------------------------------------------
(* Properties.                                                             *)

\* Extents are counted from where the driver counts them, the sector priv->lba,
\* and lead to the files; the one of the root fits a byte.
Sound ==
  /\ disk.sound /\ Filled
  /\ disk.origin = disk.lba + SYSTEM_AREA
  /\ disk.root.extent < BYTE

\* The end of a read, rounded up to whole blocks, fits 32 bits, and there is a
\* byte before it.
RequestFits ==
  call.op = "read" => call.offset + call.size \in 1 .. UINT32 - block_size

\* The sum that steps through an extent reaches its end.
Steps(d) == d.size <= UINT32 - block_size

Ends ==
  /\ Filled /\ TableFits
  /\ Steps(disk.root)
  /\ \A s \in DOMAIN disk.records :
       \A k \in DOMAIN disk.records[s] : Steps(disk.records[s][k])

\* The sector of byte i of an extent as it was written.
Written(d, i) == disk.origin + d.extent * SectorsPerBlock + i \div SECTOR

\* The entries of a directory as they were written.
EntriesOf(d) ==
  LET blocks == (d.size + block_size - 1) \div block_size
  IN  SelectSeq(Joined([k \in 1..blocks |-> RecordsAt(Written(d, (k - 1) * block_size))]),
                LAMBDA r : r.kind = "entry")

\* The file or directory a path of one or two names leads to, if any.
Target(path) ==
  LET tops == SelectSeq(EntriesOf(disk.root),
                        LAMBDA r : r.name = Upper[path[1]] /\ (Len(path) = 2 => r.dir))
  IN  IF tops = << >> THEN << >>
      ELSE IF Len(path) = 1 THEN <<Head(tops)>>
      ELSE LET subs == SelectSeq(EntriesOf(Head(tops)), LAMBDA r : r.name = Upper[path[2]])
           IN  IF subs = << >> THEN << >> ELSE <<Head(subs)>>

Delivered ==
  IF Target(call.path) = << >> THEN result = -1
  ELSE LET file == Head(Target(call.path))
           end == IF call.offset + call.size < file.size THEN call.offset + call.size
                  ELSE file.size
           length == IF end > call.offset THEN end - call.offset ELSE 0
       IN  /\ result = length
           /\ buf = [i \in 1..length |->
                       <<Written(file, call.offset + i - 1), (call.offset + i - 1) % SECTOR>>]

Read == at = "return" /\ priv.mounted /\ ~local.failed /\ call.op = "read" /\ RequestFits

\* A read finds the file a path leads to, through its directories, and gives
\* its bytes from the offset on up to its end or the size of the buffer.
IsoReadDelivers == Read /\ Sound => Delivered

\* Reads touch the blocks of the file and no others, and leave their buffer only
\* when the request does not fit 32 bits or is empty.  A listing has no more
\* entries than the caller's array: the first entries of the directory, without
\* "." and "..".
IsoBounds ==
  /\ at = "return" /\ call.op = "read" /\ result > 0 /\ RequestFits =>
       \A b \in local.blocks :
         b >= local.extent /\ (b - local.extent) * block_size < local.size
  /\ at = "overrun" => ~TableFits \/ ~RequestFits
  /\ at = "crashed" => block_size < SECTOR
  /\ at = "return" /\ call.op = "list" /\ result >= 0 =>
       /\ result = Len(buf) /\ result <= call.size
       /\ Sound =>
            LET entries == EntriesOf(Head(Target(call.path)))
            IN  Begins(buf, [k \in DOMAIN entries |-> entries[k].name])

\* Every way out frees the directory buffers of all levels, and unmounting the
\* rest.
IsoReleased ==
  /\ at = "return" => heap \subseteq Volume
  /\ at = "unmounted" => heap = {}

\* Every operation returns when the blocks are whole sectors and no extent is so
\* long that the step through it wraps: an extent has an end, and a record of
\* length zero ends its block.
IsoReturns == (Ends /\ RequestFits) ~> at = "unmounted"

\* A volume that is detected can be mounted.  Detection looks at sector 16 and
\* mounting at the sectors from 32 on.
DetectedMounts ==
  at = "return" /\ ~local.failed /\ Descriptor(disk.lba + SYSTEM_AREA) = "primary" =>
    priv.mounted

\* Extents are counted from the beginning of the volume.  The driver adds the
\* system area.
StandardReads == Read /\ disk.sound /\ Filled /\ disk.origin = disk.lba => Delivered

\* A directory may lie in any block.  The extent of the root is cut to a byte.
AnyRootReads ==
  Read /\ disk.sound /\ Filled /\ disk.origin = disk.lba + SYSTEM_AREA => Delivered

\* A read of no bytes stays in its buffer.  The block of the byte before the
\* first is computed.
EmptyReadInside == call.op = "read" /\ call.size = 0 => at # "overrun"

\* The path table fits what is allocated for it.
PathTableFits == at = "overrun" => ~RequestFits

=============================================================================
