---------------------------- MODULE DriverProofs ----------------------------
(***************************************************************************)
(* Proofs about the drivers of fs/, for all disks and calls: every way out *)
(* of an operation of fat32.c, ext2.c and iso9660.c frees what it          *)
(* allocated, and unmounting frees the rest.  And about the network, whose *)
(* answers the PXE loader uses: see the end of the module.                 *)
(***************************************************************************)
EXTENDS MC_Filesystem, Pxe, TLAPS

\* What fat32.c has allocated, by what runs next.
FatHeap ==
  /\ at \in {"detect", "mount", "unmounted"} => heap = {}
  /\ at \in {"find", "found", "skip", "return"} => heap \subseteq {"priv"}
  /\ at \in {"scan", "list"} => heap \subseteq {"priv", "cluster_buf"}

\* Every step of fat32.c keeps it.
LEMMA FatStep ==
  ASSUME FatHeap, Fat!Next
  PROVE  FatHeap'
<1> USE DEF FatHeap, Fat!Return, Fat!Fail, Fat!Free
<1>1. CASE Fat!fat32_detect
  BY <1>1, Zenon DEF Fat!fat32_detect
<1>2. CASE Fat!FindScan
  BY <1>2, Zenon DEF Fat!FindScan, Fat!ScanEntries, Fat!Overrun
<1>3. ASSUME NEW ok \in BOOLEAN, Fat!fat32_mount(ok) PROVE FatHeap'
  BY <1>3, Zenon DEF Fat!fat32_mount
<1>4. ASSUME NEW ok \in BOOLEAN, Fat!FindStart(ok) PROVE FatHeap'
  BY <1>4, Zenon DEF Fat!FindStart
<1>5. ASSUME NEW ok \in BOOLEAN, Fat!ReadCopy(ok) PROVE FatHeap'
  BY <1>5, Zenon DEF Fat!ReadCopy
<1>6. ASSUME NEW ok \in BOOLEAN, Fat!ListStart(ok) PROVE FatHeap'
  BY <1>6, Zenon DEF Fat!ListStart
<1>7. CASE Fat!ReadStart
  BY <1>7, Zenon DEF Fat!ReadStart
<1>8. CASE Fat!ReadSkip
  BY <1>8, Zenon DEF Fat!ReadSkip
<1>9. CASE Fat!ReadDone
  BY <1>9, Zenon DEF Fat!ReadDone
<1>10. CASE Fat!ListCluster
  BY <1>10, Zenon DEF Fat!ListCluster, Fat!ListNames, Fat!Overrun
<1>11. CASE Fat!fat32_get_info
  BY <1>11, Zenon DEF Fat!fat32_get_info
<1>12. CASE Fat!fat32_unmount
  BY <1>12, Zenon DEF Fat!fat32_unmount
<1> QED
  BY <1>1, <1>2, <1>3, <1>4, <1>5, <1>6, <1>7, <1>8, <1>9, <1>10, <1>11, <1>12, Zenon
     DEF Fat!Next

\* What ext2.c has allocated.  Before the descriptors are read there is no
\* volume to unmount.
ExtHeap ==
  /\ priv.mounted \in BOOLEAN
  /\ at \in {"detect", "mount"} => heap = {} /\ ~priv.mounted
  /\ at = "descriptors" => heap = {"priv"} /\ ~priv.mounted
  /\ at \in {"find", "inode", "chunk", "read", "list", "info", "return"} =>
       heap \subseteq {"priv", "gd"}
  /\ at \in {"block", "records"} => heap \subseteq {"priv", "gd", "block"}
  /\ at = "unmounted" => "block" \notin heap /\ (priv.mounted => heap = {})

\* Every step of ext2.c keeps it.
LEMMA ExtStep ==
  ASSUME ExtHeap, Ext!Next
  PROVE  ExtHeap'
<1> USE DEF ExtHeap, Ext!Return, Ext!Fail
<1>1. ASSUME NEW ok \in BOOLEAN, Ext!ext2_detect(ok) PROVE ExtHeap'
  BY <1>1, Zenon DEF Ext!ext2_detect
<1>2. ASSUME NEW ok \in BOOLEAN, Ext!ext2_mount(ok) PROVE ExtHeap'
  BY <1>2, Zenon DEF Ext!ext2_mount
<1>3. ASSUME NEW ok \in BOOLEAN, NEW allocated \in BOOLEAN,
             Ext!ReadDescriptors(allocated, ok)
      PROVE  ExtHeap'
  <2>1. CASE allocated /\ ok
    <3>1. heap' = heap \cup {"gd"} /\ at' \in {"inode", "find"} /\ at = "descriptors"
      BY <1>3, <2>1 DEF Ext!ReadDescriptors
    <3>2. priv'.mounted = TRUE
      BY <1>3, <2>1 DEF Ext!ReadDescriptors
    <3> QED
      BY <3>1, <3>2, ZenonT(30)
  <2>2. CASE ~(allocated /\ ok)
    <3>1. /\ heap' = (heap \ {"priv"}) \cup (IF allocated THEN {"gd"} ELSE {})
          /\ at' = "return" /\ at = "descriptors" /\ priv' = priv
      BY <1>3, <2>2 DEF Ext!ReadDescriptors
    <3> QED
      BY <3>1, Zenon
  <2> QED
    BY <2>1, <2>2, Zenon
<1>4. ASSUME NEW ok \in BOOLEAN, Ext!ext2_find_file(ok) PROVE ExtHeap'
  BY <1>4, Zenon DEF Ext!ext2_find_file
<1>5. ASSUME NEW ok \in BOOLEAN, Ext!ReadInode(ok) PROVE ExtHeap'
  BY <1>5, Zenon DEF Ext!ReadInode
<1>6. ASSUME NEW ok \in BOOLEAN, Ext!ReadBlock(ok) PROVE ExtHeap'
  BY <1>6, Zenon DEF Ext!ReadBlock
<1>7. ASSUME NEW ok \in BOOLEAN, Ext!ListStart(ok) PROVE ExtHeap'
  BY <1>7, Zenon DEF Ext!ListStart
<1>8. ASSUME NEW ok \in BOOLEAN, Ext!ListBlock(ok) PROVE ExtHeap'
  BY <1>8, Zenon DEF Ext!ListBlock
<1>9. CASE Ext!Chunk
  BY <1>9, Zenon DEF Ext!Chunk
<1>10. CASE Ext!ListRecord
  BY <1>10, Zenon DEF Ext!ListRecord
<1>11. CASE Ext!ext2_get_info
  BY <1>11, Zenon DEF Ext!ext2_get_info
<1>12. CASE Ext!ext2_unmount
  BY <1>12, Zenon DEF Ext!ext2_unmount
<1> QED
  BY <1>1, <1>2, <1>3, <1>4, <1>5, <1>6, <1>7, <1>8, <1>9, <1>10, <1>11, <1>12, ZenonT(30)
     DEF Ext!Next

\* The buffers of the calls of iso9660_find_entry that have not returned.
Dirs(n) == {<<"dir", k>> : k \in 1..n}

\* What iso9660.c has allocated: during the search, one buffer for each call.
IsoHeap ==
  /\ "dirs" \in DOMAIN local /\ local.dirs \in Nat
  /\ priv.mounted \in BOOLEAN
  /\ at \in {"detect", "mount", "unmounted"} => heap = {}
  /\ at \in {"detect", "mount", "descriptor", "path_table"} => ~priv.mounted
  /\ at \in {"descriptor", "path_table"} => heap = {<<"priv", 0>>}
  /\ at \in {"find", "scan", "found", "list"} => priv.mounted
  /\ at \in {"find", "scan"} => heap \subseteq Iso!Volume \cup Dirs(local.dirs)
  /\ at = "found" => heap \subseteq Iso!Volume
  /\ at = "list" => heap \subseteq Iso!Volume \cup {<<"list", 0>>}
  /\ at = "return" => heap \subseteq Iso!Volume /\ (priv.mounted \/ heap = {})

\* Every step of iso9660.c keeps it.
LEMMA IsoStep ==
  ASSUME IsoHeap, Iso!Next
  PROVE  IsoHeap'
<1> USE DEF IsoHeap, Iso!Return, Iso!Fail, Iso!FreeDirs
<1>1. ASSUME NEW ok \in BOOLEAN, Iso!iso9660_detect(ok) PROVE IsoHeap'
  BY <1>1, Zenon DEF Iso!iso9660_detect
<1>2. ASSUME NEW ok \in BOOLEAN, Iso!iso9660_mount(ok) PROVE IsoHeap'
  BY <1>2, Zenon DEF Iso!iso9660_mount
<1>3. ASSUME NEW ok \in BOOLEAN, Iso!ReadDescriptor(ok) PROVE IsoHeap'
  BY <1>3, Zenon DEF Iso!ReadDescriptor
<1>4. ASSUME NEW ok \in BOOLEAN, NEW allocated \in BOOLEAN,
             Iso!ReadPathTable(allocated, ok)
      PROVE  IsoHeap'
  <2>1. CASE Iso!Crash /\ UNCHANGED priv
    BY <1>4, <2>1, Zenon DEF Iso!Crash
  <2>2. CASE ~(Iso!Crash /\ UNCHANGED priv)
    <3>1. /\ heap' = heap \/ heap' = heap \cup {<<"path_table", 0>>}
          /\ priv' = [mounted |-> TRUE] /\ at' = "find" /\ at = "path_table"
          /\ local' = [local EXCEPT !.extent = disk.root.extent % BYTE, !.size = disk.root.size]
      BY <1>4, <2>2, Zenon DEF Iso!ReadPathTable
    <3> QED
      BY <3>1, Zenon DEF Iso!Volume
  <2> QED
    BY <2>1, <2>2, Zenon
<1>5. ASSUME NEW ok \in BOOLEAN, Iso!FindEnter(ok) PROVE IsoHeap'
  <2> DEFINE d == local.dirs
  <2>1. at = "find" /\ d \in Nat /\ heap \subseteq Iso!Volume \cup Dirs(d) /\ priv.mounted
    BY <1>5, Zenon DEF Iso!FindEnter
  <2>2. CASE ok
    <3>1. /\ at' = "scan" /\ heap' = heap \cup {<<"dir", d + 1>>} /\ priv' = priv
          /\ local' = [local EXCEPT !.dirs = d + 1, !.off = 0]
      BY <1>5, <2>2 DEF Iso!FindEnter
    <3>2. DOMAIN local' = DOMAIN local /\ local'.dirs = d + 1 /\ d + 1 \in Nat
      BY <2>1, <3>1
    <3> HIDE DEF d
    <3>3. Dirs(d) \subseteq Dirs(d + 1) /\ <<"dir", d + 1>> \in Dirs(d + 1)
      BY <2>1 DEF Dirs
    <3>4. heap' \subseteq Iso!Volume \cup Dirs(local'.dirs)
      BY <2>1, <3>1, <3>2, <3>3, Zenon
    <3> QED
      BY <2>1, <3>1, <3>2, <3>4, Zenon
  <2>3. CASE ~ok
    <3>1. /\ at' = "return" /\ heap' = heap \ Dirs(d) /\ priv' = priv
          /\ local' = [local EXCEPT !.failed = TRUE]
      BY <1>5, <2>3 DEF Iso!FindEnter, Dirs
    <3>2. DOMAIN local' = DOMAIN local /\ local'.dirs = d
      BY <3>1, Zenon
    <3> HIDE DEF d
    <3>3. heap' \subseteq Iso!Volume
      BY <2>1, <3>1, Zenon
    <3> QED
      BY <2>1, <3>1, <3>2, <3>3, ZenonT(30)
  <2> QED
    BY <2>2, <2>3, Zenon
<1>6. ASSUME NEW ok \in BOOLEAN, Iso!FindScan(ok) PROVE IsoHeap'
  BY <1>6, Zenon DEF Iso!FindScan, Iso!ScanBlock, Iso!Crash, Dirs
<1>7. ASSUME NEW ok \in BOOLEAN, Iso!iso9660_read_file(ok) PROVE IsoHeap'
  BY <1>7, Zenon DEF Iso!iso9660_read_file
<1>8. ASSUME NEW ok \in BOOLEAN, Iso!ListStart(ok) PROVE IsoHeap'
  BY <1>8, Zenon DEF Iso!ListStart
<1>9. ASSUME NEW ok \in BOOLEAN, Iso!ListBlock(ok) PROVE IsoHeap'
  BY <1>9, Zenon DEF Iso!ListBlock, Iso!ListRecords
<1>10. ASSUME NEW ok \in BOOLEAN, NEW found \in BOOLEAN, NEW dir \in BOOLEAN,
              Iso!iso9660_get_info(ok, found, dir)
       PROVE  IsoHeap'
  BY <1>10 DEF Iso!iso9660_get_info, Iso!Crash
<1>11. CASE Iso!iso9660_find_file_fs
  BY <1>11, Zenon DEF Iso!iso9660_find_file_fs
<1>12. CASE Iso!iso9660_unmount
  BY <1>12, Zenon DEF Iso!iso9660_unmount, Iso!Volume
<1>13. CASE Iso!PathTableOverrun
  BY <1>13, Zenon DEF Iso!PathTableOverrun
<1> QED
  BY <1>1, <1>2, <1>3, <1>4, <1>5, <1>6, <1>7, <1>8, <1>9, <1>10, <1>11, <1>12, <1>13, Zenon
     DEF Iso!Next

\* The driver that runs has freed what it must.
DriversInv ==
  /\ part = "fat32" => FatHeap
  /\ part = "ext2" => ExtHeap
  /\ part = "iso9660" => IsoHeap

\* Nothing is allocated before a call.
LEMMA DriversInitInv == LayerInit => DriversInv
<1> SUFFICES ASSUME LayerInit PROVE DriversInv
  BY Zenon
<1>1. ASSUME part = "fat32" PROVE FatHeap
  <2>1. Fat!Init
    BY <1>1, Zenon DEF LayerInit
  <2> QED
    BY <2>1, Zenon DEF Fat!Init, FatHeap
<1>2. ASSUME part = "ext2" PROVE ExtHeap
  <2>1. Ext!Init
    BY <1>2, Zenon DEF LayerInit
  <2> QED
    BY <2>1, Zenon DEF Ext!Init, Ext!none, ExtHeap
<1>3. ASSUME part = "iso9660" PROVE IsoHeap
  <2>1. Iso!Init
    BY <1>3, Zenon DEF LayerInit
  <2> QED
    BY <2>1, Zenon DEF Iso!Init, Iso!none, IsoHeap
<1> QED
  BY <1>1, <1>2, <1>3, Zenon DEF DriversInv

\* A step of one part leaves the drivers that do not run alone.
LEMMA DriversStep ==
  ASSUME DriversInv, [LayerNext]_layerVars
  PROVE  DriversInv'
<1>1. part' = part
  BY Zenon DEF LayerNext, layerVars
<1>2. CASE UNCHANGED driverVars
  BY <1>1, <1>2, Zenon DEF DriversInv, FatHeap, ExtHeap, IsoHeap, driverVars
<1>3. CASE part = "fat32" /\ Fat!Next
  BY <1>1, <1>3, FatStep, Zenon DEF DriversInv
<1>4. CASE part = "ext2" /\ Ext!Next
  BY <1>1, <1>4, ExtStep DEF DriversInv
<1>5. CASE part = "iso9660" /\ Iso!Next
  BY <1>1, <1>5, IsoStep, Zenon DEF DriversInv
<1>6. [LayerNext]_layerVars => \/ UNCHANGED driverVars
                               \/ part = "fat32" /\ Fat!Next
                               \/ part = "ext2" /\ Ext!Next
                               \/ part = "iso9660" /\ Iso!Next
  BY Zenon DEF LayerNext, layerVars
<1> QED
  BY <1>2, <1>3, <1>4, <1>5, <1>6, Zenon

\* At every way out of a driver operation what it allocated is freed, and
\* unmounting frees the rest.
THEOREM DriversRelease == LayerSpec => []DriverReleases
<1>1. DriversInv => DriverReleases
  <2>1. FatHeap => Fat!FatReleased
    BY Zenon DEF FatHeap, Fat!FatReleased
  <2>2. ExtHeap => Ext!ExtReleased
    BY Zenon DEF ExtHeap, Ext!ExtReleased
  <2>3. IsoHeap => Iso!IsoReleased
    BY Zenon DEF IsoHeap, Iso!IsoReleased
  <2> QED
    BY <2>1, <2>2, <2>3, Zenon DEF DriversInv, DriverReleases
<1> QED
  BY <1>1, DriversInitInv, DriversStep, PTL DEF LayerSpec

\* The composition that is model-checked runs each part by its own steps, so
\* what is proved of fs_normalize_path and of the two mount tables holds in it.
THEOREM LayerParts == LayerSpec => Spec /\ TablesSpec
<1>1. LayerInit => Init /\ TablesInit
  BY Zenon DEF LayerInit
<1>2. [LayerNext]_layerVars => [Next]_vars
  BY Zenon DEF LayerNext, layerVars
<1>3. [LayerNext]_layerVars => [TablesNext]_<<tableVars, listVars>>
  BY ZenonT(40) DEF LayerNext, layerVars, TablesNext
<1> QED
  BY <1>1, <1>2, <1>3, PTL DEF LayerSpec, Spec, TablesSpec

-----------------------------------------------------------------------------
(* The network.                                                            *)

Loads == {"size", "allocate", "read", "dispatch", "booted"}

\* The flag pxe_initialized and the stack differ only between pxe_init and the
\* answer to the discovery; a kernel read by this call is kept while the initrd
\* is loaded, and both are there when the protocol is chosen.
NetInv ==
  /\ net_step \in {"idle", "discovered", "init", "discover"} \cup Downloading \cup Loads
  /\ stack_up \in BOOLEAN /\ pxe_initialized \in BOOLEAN
  /\ net_step = "discover" => stack_up = TRUE /\ pxe_initialized = FALSE
  /\ net_step # "discover" => stack_up = pxe_initialized
  /\ net_step \in {"init", "discover"} \cup Downloading => loading = "kernel"
  /\ net_step \in Loads => stack_up = TRUE /\ loading \in {"kernel", "initrd"}
  /\ net_step \in Loads /\ loading = "initrd" => "kernel" \in filled
  /\ net_step \in {"dispatch", "booted"} =>
       "kernel" \in filled /\ (wants = "initrd" => "initrd" \in filled)
  /\ booted # "none" => net_step = "booted"

\* Every packet on the wire was asked for, or has made a claim that is recorded.
EchoAsked ==
  /\ \A q \in asked_of : q.kind = "echo" => [kind |-> "echo", host |-> q.host] \in asked_of
  /\ \A p \in wire : p.kind = "echo" => [kind |-> "echo", host |-> p.host] \in asked_of

ArpClaimed ==
  /\ \A p \in wire : p.kind = "arp" => <<p.host, p.mac>> \in claims /\ p.mac # ""
  /\ arp_cache.valid => arp_cache.mac # ""

WireInv == EchoAsked /\ ArpClaimed /\ AnswersClaimed

\* A step of the PXE calls or of the client keeps the first.
LEMMA NetStepInv ==
  ASSUME NetInv, NetNext
  PROVE  NetInv'
<1> USE DEF NetInv, Loads, Downloading, NetReturn
<1>1. CASE DiscoverReturns
  BY <1>1, Zenon DEF DiscoverReturns
<1>2. CASE DownloadDiscovers
  BY <1>2 DEF DownloadDiscovers, Initialize
<1>3. CASE downloadFile
  BY <1>3, Zenon DEF downloadFile
<1>4. CASE pxe_network_init
  <2>1. CASE pxe_initialized /\ net_step' = "size" /\ UNCHANGED <<stack_up, pxe_initialized>>
    <3>1. stack_up = TRUE /\ stack_up' = TRUE
      BY <1>4, <2>1, Zenon DEF pxe_network_init
    <3> QED
      BY <1>4, <2>1, <3>1, Zenon DEF pxe_network_init
  <2>2. CASE net_step' = "idle" /\ UNCHANGED <<stack_up, pxe_initialized>>
    BY <1>4, <2>2, Zenon DEF pxe_network_init
  <2>3. CASE net_step' = "discover" /\ stack_up' = TRUE /\ UNCHANGED pxe_initialized
    BY <1>4, <2>3, Zenon DEF pxe_network_init
  <2> QED
    BY <1>4, <2>1, <2>2, <2>3, Zenon DEF pxe_network_init
<1>5. CASE DhcpDiscover
  <2>1. CASE pxe_initialized' = TRUE /\ net_step' = "size" /\ UNCHANGED stack_up
    <3>1. stack_up' = TRUE
      BY <1>5, <2>1, Zenon DEF DhcpDiscover
    <3> QED
      BY <1>5, <2>1, <3>1, Zenon DEF DhcpDiscover
  <2>2. CASE stack_up' = FALSE /\ net_step' = "idle" /\ UNCHANGED pxe_initialized
    <3>1. pxe_initialized' = FALSE
      BY <1>5, <2>2, Zenon DEF DhcpDiscover
    <3> QED
      BY <1>5, <2>2, <3>1, Zenon DEF DhcpDiscover
  <2> QED
    BY <1>5, <2>1, <2>2, Zenon DEF DhcpDiscover
<1>6. CASE FileSize
  BY <1>6, Zenon DEF FileSize
<1>7. CASE AllocateFile
  BY <1>7, Zenon DEF AllocateFile
<1>8. CASE ReadFile
  BY <1>8, Zenon DEF ReadFile, AfterRead
<1>9. CASE Dispatch
  BY <1>9, Zenon DEF Dispatch
<1>10. CASE discoverNetwork
  BY <1>10, Zenon DEF discoverNetwork, Initialize
<1>11. CASE DestroyClient
  BY <1>11, Zenon DEF DestroyClient
<1>12. CASE pxe_cleanup_network
  BY <1>12, Zenon DEF pxe_cleanup_network
<1>13. ASSUME NEW initrd \in {"", "initrd"}, bootKernel(initrd) PROVE NetInv'
  BY <1>13, Zenon DEF bootKernel
<1>14. ASSUME NEW initrd \in {"", "initrd"}, pxe_boot_kernel(initrd) PROVE NetInv'
  BY <1>14, Zenon DEF pxe_boot_kernel
<1> QED
  BY <1>1, <1>2, <1>3, <1>4, <1>5, <1>6, <1>7, <1>8, <1>9, <1>10, <1>11, <1>12,
     <1>13, <1>14, ZenonT(40) DEF NetNext, NetStep

\* More requests and claims, fewer packets and a failure disturb nothing.
LEMMA NothingAnswered ==
  ASSUME WireInv, wire' \subseteq wire, NEW kind, NEW host,
         asked_of' = asked_of \/ asked_of' = asked_of \cup {[kind |-> kind, host |-> host]},
         UNCHANGED <<arp_cache, claims>>, outcome' = outcome \/ outcome' = Failure
  PROVE  WireInv'
<1>1. AnswersClaimed'
  <2>1. CASE outcome' = outcome
    BY <2>1, Zenon DEF WireInv, AnswersClaimed
  <2>2. CASE outcome' = Failure
    BY <2>2, Zenon DEF WireInv, AnswersClaimed, Failure
  <2> QED
    BY <2>1, <2>2, Zenon
<1>2. EchoAsked'
  BY DEF WireInv, EchoAsked
<1>3. ArpClaimed'
  BY Zenon DEF WireInv, ArpClaimed
<1> QED
  BY <1>1, <1>2, <1>3, Zenon DEF WireInv

\* Neither does a packet that answers a request or makes a recorded claim.
LEMMA PacketAdded ==
  ASSUME EchoAsked, ArpClaimed, UNCHANGED <<asked_of, arp_cache>>, claims \subseteq claims',
         NEW kind, NEW host, NEW mac,
         wire' = wire \cup {[kind |-> kind, host |-> host, mac |-> mac]},
         kind = "echo" => [kind |-> "echo", host |-> host] \in asked_of,
         kind = "arp" => <<host, mac>> \in claims' /\ mac # ""
  PROVE  EchoAsked' /\ ArpClaimed'
<1> DEFINE new == [kind |-> kind, host |-> host, mac |-> mac]
<1>1. new.kind = kind /\ new.host = host /\ new.mac = mac
  BY Zenon
<1>2. \A p \in wire' : p \in wire \/ p = new
  BY Zenon
<1> HIDE DEF new
<1>3. EchoAsked'
  BY <1>1, <1>2, Zenon DEF EchoAsked
<1>4. ArpClaimed'
  BY <1>1, <1>2, Zenon DEF ArpClaimed
<1> QED
  BY <1>3, <1>4, Zenon

\* A step of the resolution, of the ping or of the wire keeps the second.
LEMMA WireStepInv ==
  ASSUME WireInv, WireNext
  PROVE  WireInv'
<1> USE DEF WireReturn
<1>1. CASE EchoReceive
  <2>1. CASE outcome' = Failure
    BY <1>1, <2>1, NothingAnswered DEF EchoReceive
  <2>2. ASSUME NEW p \in wire, wire' = wire \ {p}, EchoMatches(p),
               outcome' = Success(p.host, "")
        PROVE  WireInv'
    <3>1. EchoAsked' /\ ArpClaimed'
      BY <1>1, <2>2, Zenon DEF EchoReceive, WireInv, EchoAsked, ArpClaimed
    <3>2. AnswersClaimed'
      BY <1>1, <2>2, Zenon DEF EchoReceive, EchoMatches, Success, WireInv, EchoAsked, AnswersClaimed
    <3> QED
      BY <3>1, <3>2, Zenon DEF WireInv
  <2> QED
    BY <1>1, <2>1, <2>2 DEF EchoReceive
<1>2. CASE ArpSend
  BY <1>2, NothingAnswered, Zenon DEF ArpSend
<1>3. CASE ArpPollMiss
  BY <1>3, NothingAnswered, Zenon DEF ArpPollMiss
<1>4. CASE ArpPollHit
  <2>1. PICK p \in wire : /\ ArpAnswers(p) /\ wire' = wire \ {p}
                          /\ arp_cache' = [valid |-> TRUE, host |-> target, mac |-> p.mac]
                          /\ outcome' = Success(target, p.mac)
    BY <1>4, Zenon DEF ArpPollHit
  <2>2. <<target, p.mac>> \in claims /\ p.mac # ""
    BY <2>1, Zenon DEF ArpAnswers, WireInv, ArpClaimed
  <2>3. AnswersClaimed'
    BY <1>4, <2>1, <2>2 DEF ArpPollHit, AnswersClaimed, Success
  <2>4. EchoAsked' /\ ArpClaimed'
    BY <1>4, <2>1, <2>2 DEF ArpPollHit, WireInv, EchoAsked, ArpClaimed
  <2> QED
    BY <2>3, <2>4, Zenon DEF WireInv
<1>5. ASSUME NEW host \in Hosts, pxe_icmp_echo(host) PROVE WireInv'
  BY <1>5, NothingAnswered, Zenon DEF pxe_icmp_echo
<1>6. ASSUME NEW host \in Hosts, arp_resolve(host) PROVE WireInv'
  <2>1. CASE arp_cache.valid /\ arp_cache.host = host
    <3>1. outcome' = Success(host, arp_cache.mac)
      BY <1>6, <2>1, Zenon DEF arp_resolve
    <3>2. AnswersClaimed'
      BY <1>6, <2>1, <3>1, Zenon DEF arp_resolve, WireInv, ArpClaimed, AnswersClaimed, Success
    <3> QED
      BY <1>6, <3>2, Zenon DEF arp_resolve, WireInv, EchoAsked, ArpClaimed
  <2>2. CASE ~(arp_cache.valid /\ arp_cache.host = host)
    BY <1>6, <2>2, NothingAnswered, Zenon DEF arp_resolve
  <2> QED
    BY <2>1, <2>2, Zenon
<1>7. CASE Arrive
  <2>1. AnswersClaimed'
    BY <1>7, Zenon DEF Arrive, WireInv, AnswersClaimed
  <2>2. PICK q \in asked_of, mac \in Macs \cup {""} :
          /\ q.kind \in {"echo", "arp"} /\ (q.kind = "arp" => mac \in Macs)
          /\ wire' = wire \cup {[kind |-> q.kind, host |-> q.host, mac |-> mac]}
          /\ claims' = IF q.kind = "arp" THEN claims \cup {<<q.host, mac>>} ELSE claims
    BY <1>7, Zenon DEF Arrive
  <2>3. EchoAsked' /\ ArpClaimed'
    <3>1. UNCHANGED <<asked_of, arp_cache>> /\ claims \subseteq claims'
      BY <1>7, <2>2, Zenon DEF Arrive
    <3>2. q.kind = "echo" => [kind |-> "echo", host |-> q.host] \in asked_of
      BY Zenon DEF WireInv, EchoAsked
    <3>3. q.kind = "arp" => <<q.host, mac>> \in claims' /\ mac # ""
      BY <2>2, ArpAssumption, Zenon
    <3> QED
      BY <2>2, <3>1, <3>2, <3>3, PacketAdded, Zenon DEF WireInv
  <2> QED
    BY <2>1, <2>3, Zenon DEF WireInv
<1>8. CASE Stray
  <2>1. AnswersClaimed'
    BY <1>8, Zenon DEF Stray, WireInv, AnswersClaimed
  <2>2. EchoAsked' /\ ArpClaimed'
    <3>1. wire' = wire \cup {[kind |-> "other", host |-> "", mac |-> ""]}
      BY <1>8, Zenon DEF Stray
    <3>2. UNCHANGED <<asked_of, arp_cache>> /\ claims \subseteq claims'
      BY <1>8, Zenon DEF Stray
    <3>3. "other" # "echo" /\ "other" # "arp"
      BY Zenon
    <3> QED
      BY <3>1, <3>2, <3>3, PacketAdded, Zenon DEF WireInv
  <2> QED
    BY <2>1, <2>2, Zenon DEF WireInv
<1> QED
  BY <1>1, <1>2, <1>3, <1>4, <1>5, <1>6, <1>7, <1>8, Zenon DEF WireNext, WireStep

\* pxe_boot_kernel enters a protocol only with the stack up and every file it
\* was asked for read whole, and arp_resolve and pxe_icmp_echo report only what
\* was answered, however many calls were made and failed before and however
\* late, repeated or mixed up the packets arrive.
THEOREM NetworkCorrect == NetworkSpec => []NetworkDelivered
<1>1. NetInit /\ WireInit => NetInv /\ WireInv
  <2>1. NetInit => NetInv
    BY Zenon DEF NetInit, NetInv, Loads, Downloading
  <2>2. WireInit => WireInv
    <3> SUFFICES ASSUME WireInit PROVE WireInv
      OBVIOUS
    <3>1. ~arp_cache.valid
      BY Zenon DEF WireInit
    <3>2. EchoAsked /\ ArpClaimed
      BY <3>1, Zenon DEF WireInit, EchoAsked, ArpClaimed
    <3>3. AnswersClaimed
      BY <3>1, Zenon DEF WireInit, AnswersClaimed, Failure
    <3> QED
      BY <3>2, <3>3, Zenon DEF WireInv
  <2> QED
    BY <2>1, <2>2, Zenon
<1>2. NetInv /\ WireInv /\ [NetworkNext]_<<netVars, wireVars>> => (NetInv /\ WireInv)'
  <2> SUFFICES ASSUME NetInv, WireInv, [NetworkNext]_<<netVars, wireVars>>
               PROVE  NetInv' /\ WireInv'
    BY Zenon
  <2>1. UNCHANGED netVars => NetInv'
    BY Zenon DEF netVars, NetInv, Loads, Downloading
  <2>2. UNCHANGED wireVars => WireInv'
    BY Zenon DEF wireVars, WireInv, EchoAsked, ArpClaimed, AnswersClaimed
  <2> QED
    BY <2>1, <2>2, NetStepInv, WireStepInv DEF NetworkNext
<1>3. NetInv /\ WireInv => NetworkDelivered
  BY Zenon DEF NetInv, WireInv, NetworkDelivered, BootComplete, Loads
<1> QED
  BY <1>1, <1>2, <1>3, PTL DEF NetworkSpec

=============================================================================
