--------------------------- MODULE MC_Filesystem ---------------------------
(***************************************************************************)
(* The file system layer: the mount table of fs_mount.c, the one of        *)
(* fs_common.c, the path normalization of fs_common.c, and the drivers     *)
(* behind the tables: fat32.c, ext2.c and iso9660.c.  A build links one of *)
(* the two tables, a path is normalized without looking at either, and a   *)
(* call into a driver runs to its end, so one part runs and the others     *)
(* stay at an initial state.  The drivers share their variables.           *)
(*                                                                         *)
(* Names of two lengths, buffers that just hold or just miss two of them,  *)
(* nested mount paths, two types and room to register three.  Small disks: *)
(* files of several clusters or blocks, a directory below the root, chains *)
(* that are cut, leave the volume or run into themselves, records that     *)
(* lead nowhere, volumes that are not recognized.                          *)
(***************************************************************************)
EXTENDS FsLayer, FsDriver, TLC

CONSTANTS
  FatDisks, FatCalls, SECTOR, ENTRY_SIZE, Stack, END_OF_CHAIN, UINT32, ShortName, ShortLength,
  ExtDisks, ExtCalls, DIRECT, SUPER_OFFSET,
  IsoDisks, IsoCalls, ISO_SECTOR, BYTE, SYSTEM_AREA, MAX_DESCRIPTORS, Upper

VARIABLE part       \* the one that runs

Fat == INSTANCE Fat32

Ext == INSTANCE Ext2

Iso == INSTANCE Iso9660 WITH SECTOR <- ISO_SECTOR

MCLength == [n \in Names \cup {".."} |-> IF n = "boot" THEN 4 ELSE 2]

MCBuiltIn == <<"fat32", "ext2">>

MCPaths == {<< >>, <<"boot">>, <<"boot", "efi">>}

-----------------------------------------------------------------------------
(* FAT32 disks.  Five clusters, 2 to 6; the last sector of the volume is   *)
(* no whole cluster when sectors_per_cluster is 2.                         *)

File(name, first, size) == [kind |-> "live", name |-> name, first |-> first, size |-> size]

Mark(kind) == [kind |-> kind, name |-> "", first |-> 0, size |-> 0]

MCShortName ==
  [n \in {"kernel", "Kernel.img", "initrd", "boot"} |->
     CASE n \in {"kernel", "Kernel.img"} -> "KERNEL"
       [] n = "initrd" -> "INITRD"
       [] n = "boot" -> "BOOT"]

MCShortLength == [n \in {"KERNEL", "INITRD", "BOOT"} |-> IF n = "BOOT" THEN 2 ELSE 3]

BootSector(spc) ==
  [signature |-> TRUE, fs_type |-> TRUE, bytes_per_sector |-> SECTOR,
   sectors_per_cluster |-> spc, reserved |-> 1, num_fats |-> 2,
   sectors_per_fat_32 |-> 1, sectors_per_fat_16 |-> 7,
   total_sectors_32 |-> 0, total_sectors_16 |-> 3 + 5 * spc + spc \div 2, root_cluster |-> 2]

\* root: 2, 4; KERNEL: 3, 6; BOOT: 5 with INITRD in it.
FatDisk(spc) ==
  [bs |-> BootSector(spc), lba |-> 10, sound |-> TRUE,
   fat |-> [c \in 0..9 |-> CASE c = 2 -> 4 [] c = 3 -> 6 [] OTHER -> END_OF_CHAIN + (c % 8)],
   dirents |-> [c \in 2..6 |->
     CASE c = 2 -> <<Mark("deleted"), Mark("long"), File("KERNEL", 3, 3 * spc)>>
       [] c = 4 -> <<File("BOOT", 5, 0), Mark("end"), File("INITRD", 3, 1)>>
       [] OTHER -> <<File("INITRD", 6, 2), Mark("end")>>],
   chains |-> [c \in {2, 3, 5} |-> CASE c = 2 -> <<2, 4>> [] c = 3 -> <<3, 6>> [] c = 5 -> <<5>>]]

\* No end mark: the root fills its clusters.
FullRoot ==
  [FatDisk(1) EXCEPT !.dirents[4] = <<File("BOOT", 5, 0), File("INITRD", 6, 2)>>,
                     !.chains = (6 :> <<6>>) @@ @]

Broken(d) == [d EXCEPT !.sound = FALSE]

MCFatDisks ==
  {FatDisk(1), FatDisk(2), FullRoot,
   Broken([FatDisk(1) EXCEPT !.fat[3] = 7]),                     \* past the volume
   Broken([FatDisk(2) EXCEPT !.fat[3] = END_OF_CHAIN]),          \* cut short
   Broken([FullRoot EXCEPT !.fat[4] = 2]),                       \* a ring
   Broken([FatDisk(1) EXCEPT !.bs.signature = FALSE]),
   Broken([FatDisk(1) EXCEPT !.bs.fs_type = FALSE]),
   [FatDisk(1) EXCEPT !.bs.bytes_per_sector = 2 * SECTOR],
   [FatDisk(1) EXCEPT !.bs.bytes_per_sector = SECTOR - 1],
   Broken([FatDisk(1) EXCEPT !.bs.sectors_per_cluster = 0]),
   FatDisk(3)}

MCFatCalls ==
  [op : {"read"}, path : {<<"kernel">>, <<"Kernel.img">>}, offset : 0..4,
   size : {0, 1, 2, 4, UINT32 - 1}]
  \cup [op : {"read"}, path : {<<"initrd">>, <<"boot", "initrd">>, << >>}, offset : {0},
        size : {2}]
  \cup [op : {"list"}, path : {<< >>, <<"boot">>}, offset : {0}, size : {4, 7, 20}]
  \cup [op : {"info"}, path : {<<"kernel">>, <<"initrd">>}, offset : {0}, size : {0}]

-----------------------------------------------------------------------------
(* ext2 disks.  Two groups of three inodes, two inodes to a block of two   *)
(* bytes; the second group is not full.                                    *)

Record(inode, name, zero) == [inode |-> inode, name |-> name, zero |-> zero]

Inode(type, size, b1, b2) == [type |-> type, size |-> size, blocks |-> <<b1, b2>>]

NoInode == Inode("none", 0, 0, 0)

MCInodes ==
  [n \in 1..6 |->
     CASE n = 2 -> Inode("dir", 4, 8, 9)
       [] n = 3 -> Inode("file", 1, 10, 0)
       [] n = 4 -> Inode("file", 3, 11, 12)
       [] n = 5 -> Inode("dir", 2, 13, 0)
       [] OTHER -> NoInode]

\* Tables at block 3 (group 1, two blocks) and 6.
ExtDisk(block_size) ==
  [sb |-> [magic |-> TRUE, rev_level |-> 0, first_ino |-> 11, block_size |-> block_size,
           blocks_count |-> 14, blocks_per_group |-> 8, inodes_per_group |-> 3,
           inode_size |-> block_size \div 2],
   descriptors |-> [b \in 1..2 |-> <<3, 6>>],
   inodes |-> MCInodes,
   inode_at |-> [p \in (0..7) \X (0..block_size - 1) |->
     LET slot == p[2] \div (block_size \div 2)
     IN  CASE p[1] \in {3, 4} /\ 2 * (p[1] - 3) + slot < 3 -> MCInodes[2 * (p[1] - 3) + slot + 1]
           [] p[1] \in {6, 7} /\ 2 * (p[1] - 6) + slot < 3 -> MCInodes[2 * (p[1] - 6) + slot + 4]
           [] OTHER -> NoInode],
   records |-> [b \in 0..13 |->
     CASE b = 8 -> <<Record(0, "", FALSE), Record(4, "kernel", FALSE), Record(3, "initrd", FALSE)>>
       [] b = 9 -> <<Record(5, "boot", FALSE), Record(0, "kernel", FALSE)>>
       [] b = 13 -> <<Record(3, "initrd", TRUE), Record(4, "kernel", FALSE)>>
       [] OTHER -> <<Record(0, "", TRUE)>>],
   sound |-> TRUE, stuck |-> FALSE]

MCExtDisks ==
  {ExtDisk(2), ExtDisk(4),
   [ExtDisk(2) EXCEPT !.records[9] = <<Record(5, "boot", FALSE), Record(0, "", TRUE)>>,
                      !.sound = FALSE, !.stuck = TRUE],
   \* descriptors where the superblock leaves room for them
   [ExtDisk(2) EXCEPT !.descriptors = <<<<0, 0>>, <<3, 6>>>>, !.sound = FALSE, !.stuck = TRUE],
   [ExtDisk(2) EXCEPT !.sb.magic = FALSE, !.sound = FALSE],
   [ExtDisk(2) EXCEPT !.sb.first_ino = 12]}

MCExtCalls ==
  [op : {"read"}, path : {"kernel", "initrd"}, offset : {0, 1}, size : {0, 1, 3}]
  \cup [op : {"direct"}, path : {"kernel", "initrd", "none"}, offset : {0}, size : {1, 3, 4}]
  \cup [op : {"list"}, path : {"/", "boot", "kernel"}, offset : {0}, size : {0, 2, 4}]
  \cup [op : {"info", "find"}, path : {"/", "kernel"}, offset : {0}, size : {0}]

-----------------------------------------------------------------------------
(* ISO 9660 disks: a root of two blocks and a directory below it.          *)

Entry(name, extent, size, dir) ==
  [kind |-> "entry", name |-> name, extent |-> extent, size |-> size, dir |-> dir]

Other(kind) == [kind |-> kind, name |-> "", extent |-> 0, size |-> 0, dir |-> FALSE]

MCUpper ==
  [n \in {"", "kernel", "boot", "initrd"} |->
     CASE n = "kernel" -> "KERNEL" [] n = "boot" -> "BOOT" [] n = "initrd" -> "INITRD" [] OTHER -> ""]

\* Blocks 2 to 6 of a volume whose blocks are counted from origin.
IsoDisk(block_size, origin) ==
  LET sector(b) == origin + b * (block_size \div ISO_SECTOR)
  IN  [lba |-> 5, block_size |-> block_size, path_table_size |-> block_size,
       root |-> [extent |-> 2, size |-> 2 * block_size],
       sectors |-> (5 + 2 * SYSTEM_AREA :> "boot") @@ (6 + 2 * SYSTEM_AREA :> "primary")
                   @@ (5 + SYSTEM_AREA :> "primary"),
       records |->
         (sector(2) :> <<Other("dot"), Entry("BOOT", 6, 1, FALSE), Other("zero"),
                         Entry("INITRD", 6, 1, FALSE)>>)
         @@ (sector(3) :> <<Entry("BOOT", 4, block_size, TRUE),
                            Entry("KERNEL", 5, block_size + 1, FALSE)>>)
         @@ (sector(4) :> <<Other("dot"), Entry("KERNEL", 6, 2, FALSE)>>),
       origin |-> origin, sound |-> TRUE]

IsoOrigin == 5 + SYSTEM_AREA

MCIsoDisks ==
  {IsoDisk(4, IsoOrigin), IsoDisk(8, IsoOrigin),
   [IsoDisk(4, IsoOrigin) EXCEPT !.sectors = 5 + SYSTEM_AREA :> "primary"],
   [IsoDisk(4, IsoOrigin) EXCEPT !.sectors = 5 + 2 * SYSTEM_AREA :> "end"],
   \* a directory that is its own entry
   [IsoDisk(4, IsoOrigin) EXCEPT
      !.records = (IsoOrigin + 4 :> <<Entry("BOOT", 4, 4, TRUE), Other("zero")>>) @@ @],
   \* extents counted from the beginning of the volume
   IsoDisk(4, 5),
   \* a root directory past block 255
   [IsoDisk(4, IsoOrigin) EXCEPT !.root.extent = 3 + BYTE],
   \* a path table that ends in the middle of a block
   [IsoDisk(4, IsoOrigin) EXCEPT !.path_table_size = 3],
   \* block sizes of no byte, below 256 and below 512
   [IsoDisk(0, IsoOrigin) EXCEPT !.root.size = 4], IsoDisk(1, IsoOrigin), IsoDisk(2, IsoOrigin),
   \* extents of 2^32 - 1 bytes
   [IsoDisk(4, IsoOrigin) EXCEPT !.root.size = UINT32 - 1],
   [IsoDisk(4, IsoOrigin) EXCEPT
      !.records = (IsoOrigin + 3 :> <<Entry("BOOT", 4, UINT32 - 1, TRUE),
                                      Entry("KERNEL", 5, UINT32 - 1, FALSE)>>) @@ @]}

MCIsoCalls ==
  [op : {"read"}, path : {<<"kernel">>, <<"boot", "kernel">>}, offset : {0, 1, 3, 4, 5},
   size : {0, 1, 2, 5, 9, UINT32 - 1}]
  \cup [op : {"read"}, path : {<<"initrd">>, <<"kernel", "boot">>, <<"">>}, offset : {0}, size : {1}]
  \cup [op : {"list"}, path : {<<"boot">>, <<"boot", "boot">>}, offset : {0}, size : {0, 1, 4}]
  \cup [op : {"info", "find"}, path : {<<"boot">>, <<"boot", "kernel">>}, offset : {0}, size : {0}]

-----------------------------------------------------------------------------

Idle(v) == disk = v /\ call = v /\ at = v /\ priv = v /\ local = v /\ buf = v /\ heap = v /\ result = v

LayerInit ==
  /\ Init /\ TablesInit
  /\ part \in {"normalize", "fs_mount", "fs_common", "fat32", "ext2", "iso9660"}
  /\ part # "normalize" => is_absolute /\ out_size = 2
  /\ CASE part = "fat32" -> Fat!Init
       [] part = "ext2" -> Ext!Init
       [] part = "iso9660" -> Iso!Init
       [] OTHER -> Idle("idle")

LayerNext ==
  /\ \/ part = "normalize" /\ Next /\ UNCHANGED <<tableVars, listVars, driverVars>>
     \/ part = "fs_mount" /\ Mount!Next /\ UNCHANGED <<vars, listVars, driverVars>>
     \/ part = "fs_common" /\ Common!Next /\ UNCHANGED <<vars, tableVars, driverVars>>
     \/ part = "fat32" /\ Fat!Next /\ UNCHANGED <<vars, tableVars, listVars>>
     \/ part = "ext2" /\ Ext!Next /\ UNCHANGED <<vars, tableVars, listVars>>
     \/ part = "iso9660" /\ Iso!Next /\ UNCHANGED <<vars, tableVars, listVars>>
  /\ UNCHANGED part

layerVars == <<part, vars, tableVars, listVars, driverVars>>

\* A call into a driver is sequential code: it takes its next step.
LayerSpec ==
  /\ LayerInit /\ [][LayerNext]_layerVars
  /\ WF_layerVars(part \in {"fat32", "ext2", "iso9660"} /\ LayerNext)

\* A read through a driver gives the bytes of the file the name stands for:
\* fat32_read along the chain of clusters, ext2_read_file wherever the inode
\* lies, iso9660_read_file through the directories.  No driver reads a sector
\* outside the area it is to look at, and each lists the first entries of a
\* directory, no more than the caller has room for.
DriverReads ==
  /\ part = "fat32" => Fat!FatReadDelivers /\ Fat!FatBounds
  /\ part = "ext2" => Ext!ExtReadDelivers /\ Ext!ExtBounds
  /\ part = "iso9660" => Iso!IsoReadDelivers /\ Iso!IsoBounds

\* Every way out of a driver operation, at any failed allocation or disk read,
\* frees what the operation allocated, and unmounting frees the rest.
DriverReleases ==
  /\ part = "fat32" => Fat!FatReleased
  /\ part = "ext2" => Ext!ExtReleased
  /\ part = "iso9660" => Iso!IsoReleased

\* Every driver operation returns: fat32 on chains that end, ext2 when no
\* unused directory record has length zero, iso9660 when blocks are whole
\* sectors and the sums that step through an extent or round a request up to
\* whole blocks fit 32 bits.
DriverReturns ==
  /\ (part = "fat32" /\ Fat!Sound) ~> (part = "fat32" /\ at = "unmounted")
  /\ (part = "ext2" /\ ~disk.stuck) ~> (part = "ext2" /\ at = "unmounted")
  /\ (part = "iso9660" /\ Iso!Ends /\ Iso!RequestFits) ~> (part = "iso9660" /\ at = "unmounted")

=============================================================================
