-------------------------------- MODULE Ext2 --------------------------------
(***************************************************************************)
(* The ext2 driver (fs/ext2.c).  One step reads one block.                 *)
(*                                                                         *)
(* A disk is what disk_read returns, block by block: the superblock, the   *)
(* descriptors found in a block (the inode table of each group), the inode *)
(* at a place of a block, and the directory records of a block.  Of a      *)
(* record's length only whether it is zero is kept: any other leads to the *)
(* next record.  A data byte is the pair of its block and its place.       *)
(* inodes (which inode is which) and sound (descriptors where the driver   *)
(* reads them) are not on the disk.                                        *)
(*                                                                         *)
(* ok says whether the allocation or the disk read of a step succeeds.     *)
(***************************************************************************)
EXTENDS FsDriver, TLC

CONSTANTS
  ExtDisks, ExtCalls,
  DIRECT,           \* direct blocks of an inode: 12
  SUPER_OFFSET      \* bytes before the superblock, the smallest block: 1024

ROOT_INODE == 2

\* The caller's buffer, rounded up to whole blocks.  A cell that was not written
\* holds the empty sequence.
Cells == 0 .. 2 * call.size + 2 * disk.sb.block_size

Init ==
  /\ disk \in ExtDisks
  /\ call \in ExtCalls
  /\ at \in {"detect", "mount"}
  /\ priv = none
  /\ local = [failed |-> FALSE]
  /\ buf = [i \in Cells |-> << >>]
  /\ heap = {}
  /\ result = 0

-----------------------------------------------------------------------------
(* Detection, mount and unmount.                                           *)

ext2_detect(ok) ==
  /\ at = "detect"
  /\ IF ~ok THEN Fail
     ELSE IF ~disk.sb.magic \/ (disk.sb.rev_level = 0 /\ disk.sb.first_ino # 11)
     THEN Return(-1) /\ UNCHANGED local
     ELSE at' = "mount" /\ UNCHANGED <<local, result>>
  /\ UNCHANGED <<disk, call, priv, buf, heap>>

\* kmalloc, and the superblock.
ext2_mount(ok) ==
  /\ at = "mount"
  /\ IF ~ok THEN Fail /\ UNCHANGED heap
     ELSE IF ~disk.sb.magic THEN Return(-1) /\ UNCHANGED <<local, heap>>
     ELSE at' = "descriptors" /\ heap' = {"priv"} /\ UNCHANGED <<local, result>>
  /\ UNCHANGED <<disk, call, priv, buf>>

\* "starts at first block after superblock".
GdBlock(block_size) == 1 + (IF block_size > SUPER_OFFSET THEN 1 ELSE 0)

GroupCount(sb) == (sb.blocks_count + sb.blocks_per_group - 1) \div sb.blocks_per_group

\* ext2_read_group_descriptors; when the read fails gd stays allocated.
ReadDescriptors(allocated, ok) ==
  /\ at = "descriptors"
  /\ IF allocated /\ ok
     THEN /\ heap' = heap \cup {"gd"}
          /\ priv' = [mounted |-> TRUE,
                      group_count |-> GroupCount(disk.sb),
                      gd |-> disk.descriptors[GdBlock(disk.sb.block_size)]]
          /\ at' = CASE call.op \in {"list", "info"} /\ call.path = "/" -> "inode"
                     [] OTHER -> "find"
          /\ local' = [inode_num |-> ROOT_INODE] @@ local
          /\ UNCHANGED result
     ELSE /\ heap' = (heap \ {"priv"}) \cup (IF allocated THEN {"gd"} ELSE {})
          /\ Fail /\ UNCHANGED priv
  /\ UNCHANGED <<disk, call, buf>>

ext2_unmount ==
  /\ at = "return"
  /\ at' = "unmounted"
  /\ heap' = IF priv.mounted THEN heap \ {"priv", "gd"} ELSE heap
  /\ UNCHANGED <<disk, call, priv, local, buf, result>>

-----------------------------------------------------------------------------
(* Inodes.                                                                 *)

GroupOf(n) == (n - 1) \div disk.sb.inodes_per_group

\* The place of inode n: its block, and the offset in it.
Place(n) ==
  LET byte == ((n - 1) % disk.sb.inodes_per_group) * disk.sb.inode_size
  IN  <<priv.gd[GroupOf(n) + 1] + byte \div disk.sb.block_size, byte % disk.sb.block_size>>

InodeNumberOK(n) == n # 0 /\ GroupOf(n) < priv.group_count

ext2_read_inode(n) == disk.inode_at[Place(n)]

-----------------------------------------------------------------------------
(* ext2_find_file: the first block of the root directory.                  *)

\* The first record the search stops at: the name, or one of length zero.
FindStop(records, name) ==
  FirstOf({k \in DOMAIN records :
             (records[k].inode # 0 /\ records[k].name = name) \/ records[k].zero})

ext2_find_file(ok) ==
  /\ at = "find"
  /\ LET root == ext2_read_inode(ROOT_INODE)
         records == disk.records[root.blocks[1]]
         k == FindStop(records, call.path)
     IN  IF ~ok THEN Fail
         ELSE IF ~InodeNumberOK(ROOT_INODE) THEN Return(-1) /\ UNCHANGED local
         ELSE IF k # 0 /\ records[k].inode # 0 /\ records[k].name = call.path
         THEN /\ local' = [inode_num |-> records[k].inode, pos |-> 0] @@ local
              /\ IF call.op = "find" THEN Return(0)
                 ELSE at' = (IF call.op = "read" THEN "chunk" ELSE "inode") /\ UNCHANGED result
         ELSE Return(-1) /\ UNCHANGED local
  /\ UNCHANGED <<disk, call, priv, buf, heap>>

\* ext2_read_inode for ext2_list_dir, ext2_get_info and ext2_read_file.
ReadInode(ok) ==
  /\ at = "inode"
  /\ IF ~ok THEN Fail
     ELSE IF ~InodeNumberOK(local.inode_num) THEN Return(-1) /\ UNCHANGED local
     ELSE /\ local' = [inode |-> ext2_read_inode(local.inode_num), block |-> 1,
                       read_bytes |-> 0, count |-> 0, record |-> 0] @@ local
          /\ at' = CASE call.op \in {"read", "direct"} -> "read"
                     [] call.op = "list" -> "list"
                     [] OTHER -> "info"
          /\ UNCHANGED result
  /\ UNCHANGED <<disk, call, priv, buf, heap>>

-----------------------------------------------------------------------------
(* ext2_fs_read_file: chunks of at most one block, each a new              *)
(* ext2_read_file of the whole file; offset is not looked at.  The         *)
(* operation "direct" is ext2_read_file called with the size itself.       *)

Least(a, b) == IF a < b THEN a ELSE b

\* The size ext2_read_file was called with.
MaxSize ==
  IF call.op = "direct" THEN call.size ELSE Least(call.size - local.pos, disk.sb.block_size)

Chunk ==
  /\ at = "chunk"
  /\ IF local.pos < call.size
     THEN at' = "inode" /\ UNCHANGED result
     ELSE Return(local.pos)
  /\ UNCHANGED <<disk, call, priv, local, buf, heap>>

\* One turn of the loop over the direct blocks: a whole block is read, however
\* few bytes of it are wanted.
ReadBlock(ok) ==
  /\ at = "read"
  /\ LET to_read == Least(local.inode.size, MaxSize)
         start == local.pos + local.read_bytes
         block == local.inode.blocks[local.block]
     IN  IF local.block <= DIRECT /\ local.read_bytes < to_read /\ block # 0
         THEN IF ~ok THEN Fail /\ UNCHANGED buf
              ELSE /\ buf' = [i \in DOMAIN buf |->
                                IF i \in start .. start + disk.sb.block_size - 1
                                THEN <<block, i - start>> ELSE buf[i]]
                   /\ local' = [local EXCEPT !.block = @ + 1,
                                  !.read_bytes = @ + Least(to_read - @, disk.sb.block_size)]
                   /\ UNCHANGED <<at, result>>
         ELSE /\ IF call.op = "direct"
                 THEN Return(0) /\ UNCHANGED local
                 ELSE /\ at' = "chunk" /\ UNCHANGED result
                      /\ local' = [local EXCEPT !.pos = @ + MaxSize]
              /\ UNCHANGED buf
  /\ UNCHANGED <<disk, call, priv, heap>>

-----------------------------------------------------------------------------
(* ext2_list_dir and ext2_get_info.                                        *)

ListStart(ok) ==
  /\ at = "list"
  /\ IF local.inode.type # "dir" THEN Return(-1) /\ UNCHANGED <<local, heap>>
     ELSE IF ~ok THEN Fail /\ UNCHANGED heap
     ELSE at' = "block" /\ heap' = heap \cup {"block"} /\ UNCHANGED <<local, result>>
  /\ UNCHANGED <<disk, call, priv, buf>>

\* The next block of the directory, or the end of the walk.
ListBlock(ok) ==
  /\ at = "block"
  /\ IF local.block <= DIRECT /\ local.inode.blocks[local.block] # 0
     THEN IF ok
          THEN at' = "records" /\ local' = [local EXCEPT !.record = 1] /\ UNCHANGED <<heap, result>>
          ELSE Fail /\ heap' = heap \ {"block"}
     ELSE Return(local.count) /\ heap' = heap \ {"block"} /\ UNCHANGED local
  /\ UNCHANGED <<disk, call, priv, buf>>

\* "Prevent infinite loop": a live record of length zero ends the block.
Stuck(r) == r.inode # 0 /\ r.zero

\* Mutant: the walk does not move past an unused record.
NextRecordLive(k, r) == IF r.inode = 0 \/ r.zero THEN k ELSE k + 1

\* offset += rec_len.
NextRecord(k, r) == IF r.zero THEN k ELSE k + 1

ListRecord ==
  /\ at = "records"
  /\ LET records == disk.records[local.inode.blocks[local.block]]
         r == records[local.record]
     IN  IF local.record > Len(records) \/ local.count >= call.size
         THEN /\ at' = "block" /\ local' = [local EXCEPT !.block = @ + 1]
              /\ UNCHANGED buf
         ELSE IF r.inode = 0
         THEN local' = [local EXCEPT !.record = NextRecord(@, r)] /\ UNCHANGED <<at, buf>>
         ELSE /\ buf' = [buf EXCEPT ![local.count] = <<r.name>>]
              /\ IF Stuck(r)
                 THEN /\ at' = "block"
                      /\ local' = [local EXCEPT !.count = @ + 1, !.block = @ + 1]
                 ELSE /\ local' = [local EXCEPT !.count = @ + 1, !.record = NextRecord(@, r)]
                      /\ UNCHANGED at
  /\ UNCHANGED <<disk, call, priv, heap, result>>

ext2_get_info ==
  /\ at = "info"
  /\ buf' = [buf EXCEPT ![0] = <<local.inode.size>>, ![1] = <<local.inode.type>>]
  /\ Return(0)
  /\ UNCHANGED <<disk, call, priv, local, heap>>

Next ==
  \/ \E ok \in BOOLEAN :
       \/ ext2_detect(ok) \/ ext2_mount(ok) \/ \E allocated \in BOOLEAN : ReadDescriptors(allocated, ok)
       \/ ext2_find_file(ok) \/ ReadInode(ok) \/ ReadBlock(ok) \/ ListStart(ok) \/ ListBlock(ok)
  \/ Chunk \/ ListRecord \/ ext2_get_info \/ ext2_unmount

Fairness == WF_driverVars(Next)

-----------------------------------------------------------------------------
(* Properties.                                                             *)

\* The records of the first block of the root, as they were written.
RootRecords == disk.records[disk.inodes[ROOT_INODE].blocks[1]]

NamedInode(name) ==
  LET k == FirstOf({i \in DOMAIN RootRecords :
                      RootRecords[i].inode # 0 /\ RootRecords[i].name = name})
  IN  IF k = 0 THEN 0 ELSE RootRecords[k].inode

ByteAt(file, i) ==
  <<file.blocks[i \div disk.sb.block_size + 1], i % disk.sb.block_size>>

\* What a read gives is the file that bears the name, wherever its inode lies:
\* ext2_read_file gives as many bytes as fit the buffer and lie in direct
\* blocks, ext2_fs_read_file gives the first block of the file.
ExtReadDelivers ==
  at = "return" /\ priv.mounted /\ disk.sound /\ ~local.failed
    /\ call.op \in {"read", "direct"} =>
    LET n == NamedInode(call.path)
        file == disk.inodes[n]
        limit == Least(Least(call.size, file.size),
                       disk.sb.block_size * (IF call.op = "direct" THEN DIRECT ELSE 1))
    IN  IF n = 0 THEN result = -1
        ELSE result >= 0 /\ \A i \in 0 .. limit - 1 : buf[i] = ByteAt(file, i)

\* The names ext2_list_dir should give for the root: the live records of its
\* direct blocks, in their order.
LiveNames ==
  LET blocks == SelectSeq(disk.inodes[ROOT_INODE].blocks, LAMBDA b : b # 0)
      all == Joined([k \in DOMAIN blocks |-> disk.records[blocks[k]]])
  IN  SelectSeq(all, LAMBDA r : r.inode # 0)

\* A listing fills no more than the caller's array; of the root it holds the
\* live entries in their order, as many as fit.
ExtBounds ==
  at = "return" /\ call.op = "list" /\ result >= 0 =>
    /\ result <= call.size
    /\ call.path = "/" /\ disk.sound =>
         /\ result = Least(call.size, Len(LiveNames))
         /\ \A i \in 0 .. result - 1 : buf[i] = <<LiveNames[i + 1].name>>

\* Every way out of an operation frees the block it works in, and unmounting
\* frees the rest.  A mount whose descriptors cannot be read leaves gd behind.
ExtReleased ==
  /\ at \in {"return", "unmounted"} => "block" \notin heap
  /\ at = "unmounted" => heap = {} \/ ~priv.mounted

\* On a disk with no unused record of length zero every operation returns.
ExtReturns == ~disk.stuck ~> at = "unmounted"

\* "Prevent infinite loop": ext2_list_dir returns on every disk.  It does not
\* when a record of length zero is unused: the test comes after the continue.
ListAlwaysReturns == <>(at = "unmounted")

\* "Read group descriptors (starts at first block after superblock)": they are
\* read from the block that follows the one the superblock lies in.
DescriptorsAfterSuperblock ==
  GdBlock(disk.sb.block_size) = SUPER_OFFSET \div disk.sb.block_size + 1

\* A read honours its offset, and stays in the buffer it was given.
ReadHonoursOffset ==
  at = "return" /\ call.op = "read" /\ result > 0 /\ disk.sound =>
    buf[0] = ByteAt(disk.inodes[NamedInode(call.path)], call.offset)

ReadStaysInBuffer ==
  at = "return" /\ call.op \in {"read", "direct"} =>
    \A i \in DOMAIN buf : buf[i] # << >> => i < call.size

=============================================================================
