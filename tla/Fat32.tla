------------------------------- MODULE Fat32 -------------------------------
(***************************************************************************)
(* The FAT32 driver (fs/fat32.c): detection, mount, the walk through the   *)
(* root directory, and the three operations.  One step reads one cluster.  *)
(*                                                                         *)
(* A disk is what read_sector returns: the boot sector bs, the table fat   *)
(* with the high bits of its entries masked off, and the directory entries *)
(* each cluster holds when it is read as a directory.  A data byte is the  *)
(* pair of its sector and its place in the sector; a place past SECTOR is  *)
(* one that read_sector does not fill.  chains and sound are not on the    *)
(* disk: they say which clusters make up each file, and whether the table  *)
(* agrees.                                                                 *)
(*                                                                         *)
(* ok says whether the allocation of a step succeeds.  A call ends at      *)
(* "crashed" when it divides by zero, and at "overrun" when it writes past *)
(* a buffer.                                                               *)
(***************************************************************************)
EXTENDS FsDriver, TLC

CONSTANTS
  FatDisks, FatCalls,
  SECTOR,           \* bytes read_sector reads: 512
  ENTRY_SIZE,       \* bytes in an entry of the table: 4
  Stack,            \* what may lie on the stack past a sector buffer
  END_OF_CHAIN,     \* 0x0FFFFFF8
  UINT32,           \* 2^32
  ShortName,        \* the 8.3 form of each name: truncated and in upper case
  ShortLength       \* characters in an 8.3 form as it is listed

Init ==
  /\ disk \in FatDisks
  /\ call \in FatCalls
  /\ at \in {"detect", "mount"}
  /\ priv = none
  /\ local = [path |-> call.path, failed |-> FALSE]
  /\ buf = << >>
  /\ heap = {}
  /\ result = 0

-----------------------------------------------------------------------------
(* The volume.                                                             *)

PowersOfTwo == {1, 2, 4, 8, 16, 32, 64, 128}

fat32_detect ==
  /\ at = "detect"
  /\ IF /\ disk.bs.signature /\ disk.bs.fs_type
        /\ disk.bs.bytes_per_sector \in {SECTOR * k : k \in {1, 2, 4, 8}}
        /\ disk.bs.sectors_per_cluster \in PowersOfTwo
     THEN at' = "mount" /\ UNCHANGED result
     ELSE Return(-1)
  /\ UNCHANGED <<disk, call, priv, local, buf, heap>>

Either(a, b) == IF a # 0 THEN a ELSE b

Layout(bs, lba) ==
  LET fat_begin == lba + bs.reserved
      cluster_begin ==
        fat_begin + bs.num_fats * Either(bs.sectors_per_fat_32, bs.sectors_per_fat_16)
      data_sectors ==
        (Either(bs.total_sectors_32, bs.total_sectors_16) - (cluster_begin - lba)) % UINT32
  IN  [mounted |-> TRUE,
       cluster_begin |-> cluster_begin,
       root |-> bs.root_cluster,
       bytes_per_cluster |-> bs.bytes_per_sector * bs.sectors_per_cluster,
       total_clusters |-> data_sectors \div bs.sectors_per_cluster]

fat32_mount(ok) ==
  /\ at = "mount"
  /\ IF ~ok THEN Fail /\ UNCHANGED <<priv, heap>>
     ELSE IF ~disk.bs.signature THEN Return(-1) /\ UNCHANGED <<priv, heap, local>>
     ELSE IF disk.bs.sectors_per_cluster = 0
     THEN at' = "crashed" /\ UNCHANGED <<priv, heap, local, result>>
     ELSE /\ priv' = Layout(disk.bs, disk.lba)
          /\ heap' = {"priv"}
          /\ at' = "find"
          /\ UNCHANGED <<local, result>>
  /\ UNCHANGED <<disk, call, buf>>

fat32_unmount ==
  /\ at = "return"
  /\ at' = "unmounted"
  /\ heap' = heap \ {"priv"}
  /\ UNCHANGED <<disk, call, priv, local, buf, result>>

-----------------------------------------------------------------------------
(* Clusters.                                                               *)

AtEnd(cluster) == cluster >= END_OF_CHAIN

\* What fat32_get_cluster may return: an entry that lies past the part of the
\* sector that was read is whatever is on the stack.
fat32_get_cluster(cluster) ==
  IF AtEnd(cluster) THEN {END_OF_CHAIN}
  ELSE IF (cluster * ENTRY_SIZE) % disk.bs.bytes_per_sector < SECTOR THEN {disk.fat[cluster]}
  ELSE Stack

\* fat32_read_cluster does not return -1.
Readable(cluster) == cluster >= 2 /\ cluster < priv.total_clusters + 2

Sectors(cluster) ==
  LET first == priv.cluster_begin + (cluster - 2) * disk.bs.sectors_per_cluster
  IN  first .. first + disk.bs.sectors_per_cluster - 1

\* The last sector of a cluster is written past its buffer.
Overruns == disk.bs.bytes_per_sector < SECTOR

\* Byte i of a cluster, from 0.
ByteOf(cluster, i) ==
  <<priv.cluster_begin + (cluster - 2) * disk.bs.sectors_per_cluster
      + i \div disk.bs.bytes_per_sector,
    i % disk.bs.bytes_per_sector>>

\* The entries a directory cluster may be found to hold: those of a buffer that
\* is not filled are anything.
Entries(cluster) ==
  IF disk.bs.bytes_per_sector = SECTOR THEN {disk.dirents[cluster]}
  ELSE {disk.dirents[c] : c \in DOMAIN disk.dirents}

Overrun == at' = "overrun" /\ UNCHANGED <<local, buf, heap, result>>

-----------------------------------------------------------------------------
(* fat32_find_file.                                                        *)

\* The root is found at once; for a component one cluster buffer is taken and
\* the search starts at the root directory, whatever component it is.
FindStart(ok) ==
  /\ at = "find"
  /\ IF local.path = << >>
     THEN /\ at' = "found"
          /\ local' = [cluster |-> priv.root, size |-> 0] @@ local
          /\ UNCHANGED <<heap, result>>
     ELSE IF ok
     THEN /\ at' = "scan"
          /\ local' = [cluster |-> priv.root] @@ local
          /\ heap' = heap \cup {"cluster_buf"}
          /\ UNCHANGED result
     ELSE Fail /\ UNCHANGED heap
  /\ UNCHANGED <<disk, call, priv, buf>>

\* The entries at which the search through one cluster stops.
Stops(name, entries) ==
  {i \in DOMAIN entries :
     \/ entries[i].kind = "end"
     \/ entries[i].kind = "live" /\ entries[i].name = ShortName[name]}

Free == heap' = heap \ {"cluster_buf"}

ScanEntries(entries) ==
  LET stops == Stops(Head(local.path), entries)
      hit == entries[FirstOf(stops)]
  IN  IF stops = {}
      THEN /\ \E next \in fat32_get_cluster(local.cluster) :
                local' = [local EXCEPT !.cluster = next]
           /\ UNCHANGED <<at, heap, result>>
      ELSE IF hit.kind = "end"
      THEN Return(-1) /\ Free /\ UNCHANGED local
      ELSE /\ local' = [cluster |-> hit.first, size |-> hit.size,
                        path |-> Tail(local.path)] @@ local
           /\ at' = IF Len(local.path) = 1 THEN "found" ELSE "find"
           /\ Free /\ UNCHANGED result

FindScan ==
  /\ at = "scan"
  /\ IF AtEnd(local.cluster) \/ ~Readable(local.cluster)
     THEN Return(-1) /\ Free /\ UNCHANGED <<local, buf>>
     ELSE IF Overruns THEN Overrun
     ELSE \E entries \in Entries(local.cluster) : ScanEntries(entries) /\ UNCHANGED buf
  /\ UNCHANGED <<disk, call, priv>>

-----------------------------------------------------------------------------
(* fat32_read.                                                             *)

\* Mutant: the end of the file is not looked at.
ClampNot(size, offset, file_size) == size

\* offset + size is a sum of 32 bits.
Clamp(size, offset, file_size) ==
  IF (offset + size) % UINT32 > file_size THEN file_size - offset ELSE size

ReadStart ==
  /\ at = "found" /\ call.op = "read"
  /\ IF call.offset >= local.size
     THEN Return(0) /\ UNCHANGED local
     ELSE /\ at' = "skip"
          /\ local' = [want |-> Clamp(call.size, call.offset, local.size),
                       skip |-> call.offset \div priv.bytes_per_cluster,
                       in_cluster |-> call.offset % priv.bytes_per_cluster] @@ local
          /\ UNCHANGED result
  /\ UNCHANGED <<disk, call, priv, buf, heap>>

ReadSkip ==
  /\ at = "skip" /\ local.skip > 0
  /\ \E next \in fat32_get_cluster(local.cluster) :
       /\ local' = [local EXCEPT !.cluster = next, !.skip = @ - 1]
       /\ IF AtEnd(next) THEN Return(-1) ELSE UNCHANGED <<at, result>>
  /\ UNCHANGED <<disk, call, priv, buf, heap>>

\* One turn of the read loop; its buffer is freed on every way out.  The search
\* has read a cluster already, so this one does not overrun.
ReadCopy(ok) ==
  /\ at = "skip" /\ local.skip = 0
  /\ Len(buf) < local.want /\ ~AtEnd(local.cluster)
  /\ LET room == priv.bytes_per_cluster - local.in_cluster
         to_copy == IF Len(buf) + room > local.want THEN local.want - Len(buf) ELSE room
     IN  IF ~ok THEN Fail /\ UNCHANGED buf
         ELSE IF Readable(local.cluster)
         THEN /\ buf' = buf \o [i \in 1..to_copy |->
                                  ByteOf(local.cluster, local.in_cluster + i - 1)]
              /\ \E next \in fat32_get_cluster(local.cluster) :
                   local' = [local EXCEPT !.cluster = next, !.in_cluster = 0]
              /\ UNCHANGED <<at, result>>
         ELSE Return(-1) /\ UNCHANGED <<buf, local>>
  /\ UNCHANGED <<disk, call, priv, heap>>

ReadDone ==
  /\ at = "skip" /\ local.skip = 0
  /\ Len(buf) >= local.want \/ AtEnd(local.cluster)
  /\ Return(Len(buf))
  /\ UNCHANGED <<disk, call, priv, local, buf, heap>>

-----------------------------------------------------------------------------
(* fat32_read_dir and fat32_get_info.                                      *)

ListStart(ok) ==
  /\ at = "found" /\ call.op = "list"
  /\ IF ok
     THEN /\ at' = "list" /\ UNCHANGED result
          /\ heap' = heap \cup {"cluster_buf"}
          /\ local' = [offset |-> 0] @@ local
     ELSE Fail /\ UNCHANGED heap
  /\ UNCHANGED <<disk, call, priv, buf>>

\* "Name + space + newline".
NoSpace(offset, length) == offset + length + 2 > call.size

\* One entry: s is the list so far, with s.stop when the walk is over.
ListEntry(s, e) ==
  IF s.stop \/ e.kind \notin {"end", "live"} THEN s
  ELSE IF e.kind = "end" \/ NoSpace(s.offset, ShortLength[e.name])
  THEN [s EXCEPT !.stop = TRUE]
  ELSE [s EXCEPT !.names = Append(@, e.name), !.offset = @ + ShortLength[e.name] + 1]

\* The entries of one directory cluster in turn.
ListEntries(entries) ==
  LET s[k \in 0..Len(entries)] ==
        IF k = 0 THEN [names |-> buf, offset |-> local.offset, stop |-> FALSE]
        ELSE ListEntry(s[k - 1], entries[k])
  IN  s[Len(entries)]

ListNames(entries) ==
  LET s == ListEntries(entries)
  IN  /\ buf' = s.names
      /\ \E next \in IF s.stop THEN {local.cluster} ELSE fat32_get_cluster(local.cluster) :
           local' = [local EXCEPT !.offset = s.offset, !.cluster = next]
      /\ IF s.stop THEN Return(s.offset) /\ Free ELSE UNCHANGED <<at, heap, result>>

ListCluster ==
  /\ at = "list"
  /\ IF AtEnd(local.cluster)
     THEN Return(local.offset) /\ Free /\ UNCHANGED <<local, buf>>
     ELSE IF ~Readable(local.cluster)
     THEN Return(-1) /\ Free /\ UNCHANGED <<local, buf>>
     ELSE IF Overruns THEN Overrun
     ELSE \E entries \in Entries(local.cluster) : ListNames(entries)
  /\ UNCHANGED <<disk, call, priv>>

\* is_dir is bit 4 of the cluster number, where ATTR_DIRECTORY would be.
fat32_get_info ==
  /\ at = "found" /\ call.op = "info"
  /\ buf' = <<local.size, (local.cluster \div 16) % 2 = 1>>
  /\ Return(0)
  /\ UNCHANGED <<disk, call, priv, local, heap>>

Next ==
  \/ fat32_detect \/ FindScan
  \/ \E ok \in BOOLEAN : fat32_mount(ok) \/ FindStart(ok) \/ ReadCopy(ok) \/ ListStart(ok)
  \/ ReadStart \/ ReadSkip \/ ReadDone
  \/ ListCluster \/ fat32_get_info \/ fat32_unmount

Fairness == WF_driverVars(Next)

-----------------------------------------------------------------------------
(* Properties.                                                             *)

\* The table agrees with the chains, and sectors are those of read_sector.
Sound == disk.sound /\ disk.bs.bytes_per_sector = SECTOR

\* The root directory as it was written: the live entries before the end mark.
RootEntries ==
  LET all == Joined([k \in DOMAIN disk.chains[disk.bs.root_cluster] |->
                           disk.dirents[disk.chains[disk.bs.root_cluster][k]]])
      ends == {i \in DOMAIN all : all[i].kind = "end"} \cup {Len(all) + 1}
  IN  SelectSeq(SubSeq(all, 1, FirstOf(ends) - 1), LAMBDA e : e.kind = "live")

Matches(name) == SelectSeq(RootEntries, LAMBDA e : e.name = ShortName[name])

\* The bytes of a file: those of its clusters, cut at its size.
Content(e) ==
  SubSeq(Joined([k \in DOMAIN disk.chains[e.first] |->
           [i \in 1..priv.bytes_per_cluster |-> ByteOf(disk.chains[e.first][k], i - 1)]]),
         1, e.size)

\* fat32_read gives a file of the root directory as it was written: from the
\* offset on, up to the end of the file or the size of the buffer, across the
\* clusters of the chain.  The sum of size and offset must fit 32 bits.
FatReadDelivers ==
  at = "return" /\ priv.mounted /\ Sound /\ call.op = "read"
    /\ Len(call.path) = 1 /\ ~local.failed /\ call.offset + call.size < UINT32 =>
    IF Matches(call.path[1]) = << >> THEN result = -1
    ELSE LET content == Content(Head(Matches(call.path[1])))
             last == IF call.offset + call.size < Len(content)
                     THEN call.offset + call.size ELSE Len(content)
         IN  /\ buf = SubSeq(content, call.offset + 1, last)
             /\ result = Len(buf)

\* Whatever the chains are, only sectors of the data area are read as clusters,
\* and a listing stays inside the caller's buffer and holds the first live
\* entries of the root in their order.
FatBounds ==
  /\ at \in {"scan", "skip", "list"} /\ Readable(local.cluster) =>
       \A s \in Sectors(local.cluster) :
         s < disk.lba + Either(disk.bs.total_sectors_32, disk.bs.total_sectors_16)
  /\ at = "return" /\ result >= 0 /\ call.op = "list" =>
       /\ result <= call.size
       /\ call.path = << >> /\ Sound =>
            Begins(buf, [k \in DOMAIN RootEntries |-> RootEntries[k].name])

\* Every way out of an operation frees the cluster buffer.
FatReleased == at \in {"return", "unmounted"} => heap \subseteq {"priv"}

\* On a sound volume every operation returns.  The end of a chain is the only
\* way out of the walks, so a chain that runs into itself is walked for ever.
FatReturns == Sound ~> at = "unmounted"

\* "Otherwise, continue with next component": a file below a directory of the
\* root is found.  The search starts again at the root, so it is not.
NestedFound ==
  at = "return" /\ priv.mounted /\ Sound /\ Len(call.path) = 2
    /\ ~local.failed /\ Matches(call.path[1]) # << >> =>
    LET entries == disk.dirents[Head(Matches(call.path[1])).first]
    IN  (result >= 0) = (\E i \in DOMAIN entries :
                       entries[i].kind = "live" /\ entries[i].name = ShortName[call.path[2]])

=============================================================================
