-------------------------- MODULE CorebootProofs --------------------------
(***************************************************************************)
(* Proofs about the coreboot port: what its programs hold, the table the   *)
(* payload reads and the parameters it hands over, and the file its tool   *)
(* writes.                                                                 *)
(***************************************************************************)
EXTENDS MC_Coreboot, TLAPS

-----------------------------------------------------------------------------
(* The payload.                                                            *)

\* The search stops at the first sound table, or at the last slot.
SearchInv ==
  /\ slots \in [1..SLOTS -> {"none", "bad_header", "bad_table", "valid"}]
  /\ IF pc = "scan"
     THEN /\ cb_header \in 0..(SLOTS - 1) /\ entries = << >>
          /\ \A s \in 1..cb_header : slots[s] # "valid"
     ELSE /\ cb_header \in 1..SLOTS
          /\ \A s \in 1..(cb_header - 1) : slots[s] # "valid"
          /\ \/ slots[cb_header] = "valid" /\ entries \in Tables
             \/ slots[cb_header] # "valid" /\ cb_header = SLOTS /\ entries \in Garbage

\* The map is that of the memory tag walked over last.
WalkInv ==
  /\ at \in Nat \ {0} /\ i \in Nat
  /\ cb_memory_map \in 0..Len(entries)
  /\ cb_memory_map > 0 =>
       /\ entries[cb_memory_map].tag = CB_TAG_MEMORY
       /\ cb_memory_map_entries = MapEntries(entries[cb_memory_map].size)

Kernels == [addr : KernelBuffers \cup {0}, bytes : Nat, size : Nat]

\* What BloodhornLoadKernel holds at each place, and what its result says of it.
HeldInv ==
  /\ kernel \in Kernels
  /\ pc \in {"execute", "kernel"} => kernel.size = kernel.bytes % UINT32
  /\ \/ pc \in {"scan", "parse", "initialized", "countdown", "root"} /\ held = {}
     \/ pc = "open" /\ held = {"root"}
     \/ pc = "info" /\ held = {"root", "file"}
     \/ pc = "allocate" /\ held = {"root", "file", "info"}
     \/ pc = "read" /\ held = {"root", "file", "info", "buffer"}
     \/ pc \in {"execute", "kernel"} /\ held = {"root", "buffer"}
     \/ pc \in {"failed", "reboot"} /\ result = "load_error" /\ held = {"root", "buffer"}
     \/ pc \in {"failed", "reboot"} /\ result = "not_found" /\ held \subseteq {"root"}

\* What was checked before the jump.
JumpInv ==
  pc = "kernel" =>
    /\ kernel.bytes > 0 /\ params.kernel_size = kernel.bytes % UINT32 /\ params.kernel_size > 0
    /\ \E k \in DOMAIN CorebootGetMemoryMap :
         CorebootGetMemoryMap[k].ram /\ CorebootGetMemoryMap[k].addr = params.kernel_base
    /\ params.framebuffer > 0 => entries[params.framebuffer].usable
    /\ HasTable => params.memory_size >= CorebootFindLargestMemoryRegion.size

-----------------------------------------------------------------------------
(* CorebootMain and the tool.                                              *)

MainInv ==
  /\ main_pc \notin {"start", "menu", "prompt", "reboot"} => entry # "none"
  /\ \/ main_pc \in {"start", "menu", "running", "root", "crashed"} /\ main_held = {}
     \/ main_pc = "open" /\ main_held = {"root"}
     \/ main_pc = "info" /\ main_held = {"root", "file"}
     \/ main_pc = "allocate" /\ main_held = {"root", "file", "info"}
     \/ main_pc = "read" /\ main_held = {"root", "file", "info", "buffer"}
     \/ main_pc = "load_image" /\ main_held = {"buffer"}
     \/ main_pc \in {"prompt", "reboot"} /\ main_held = {}
     \/ /\ main_pc \in {"prompt", "reboot"} /\ main_held = {"buffer"}
        /\ main_result = "error" /\ entry # "none"

\* The header that describes a binary of this size.
Described ==
  /\ header.entry_point = HEADER_SIZE + header.cmd_line_size
  /\ header.payload_uncompressed_size = input_size
  /\ header.payload_size = ((input_size + 511) \div 512) % UINT16

ImageInv ==
  /\ input_size \in Nat /\ cmdline_size \in Nat
  /\ image_pc \in {"create", "write"} \/ written => Described
  /\ \/ image_pc = "root" /\ image_held = {}
     \/ image_pc = "open" /\ image_held = {"root"}
     \/ image_pc = "info" /\ image_held = {"root", "input"}
     \/ image_pc = "allocate" /\ image_held = {"root", "input", "info"}
     \/ image_pc = "read" /\ image_held = {"root", "input", "info", "input_buffer"}
     \/ image_pc = "output_buffer" /\ image_held = {"root", "input_buffer"}
     \/ image_pc \in {"header", "create"} /\ image_held = {"root", "input_buffer", "output_buffer"}
     \/ image_pc = "write" /\ image_held = {"root", "input_buffer", "output_buffer", "output"}
     \/ image_pc \in {"return", "loaded"} /\ image_held \subseteq {"root"}
  /\ written => image_pc \in {"return", "loaded"}

-----------------------------------------------------------------------------
(* The payload: its steps.                                                 *)

\* Where BloodhornPayloadEntry starts nothing is found, walked, held or entered.
LEMMA PayloadInitInv == Init => SearchInv /\ WalkInv /\ HeldInv /\ JumpInv
<1> SUFFICES ASSUME Init PROVE SearchInv /\ WalkInv /\ HeldInv /\ JumpInv
  BY Zenon
<1> USE DEF Init, PlatformInit
<1>1. SearchInv
  BY PlatformAssumption DEF SearchInv
<1>2. WalkInv
  BY DEF WalkInv
<1>3. HeldInv
  <2>1. NoKernel \in Kernels
    BY DEF NoKernel, Kernels
  <2> QED
    BY <2>1, Zenon DEF HeldInv
<1> QED
  BY <1>1, <1>2, <1>3, Zenon DEF JumpInv

\* Past the search nothing changes what it found.
LEMMA SearchStep == SearchInv /\ [Next]_vars => SearchInv'
<1> SUFFICES ASSUME SearchInv, [Next]_vars PROVE SearchInv'
  BY Zenon
<1>1. CASE Scan
  BY <1>1, PlatformAssumption DEF SearchInv, Scan, Accepted
<1>2. CASE UNCHANGED <<slots, entries, cb_header>> /\ (pc = "scan" <=> pc' = "scan")
  BY <1>2, Zenon DEF SearchInv
<1>3. Scan \/ (UNCHANGED <<slots, entries, cb_header>> /\ (pc = "scan" <=> pc' = "scan"))
  BY Zenon DEF Next, PayloadStep, BloodhornPayloadEntry, PlatformNext, ParseEntry, ParseDone,
         platformVars, vars, BloodhornMain, PressKey, Countdown, BootDefault, LoadStep,
         GetRoot, OpenKernel, GetInfo, ReadKernel, AllocateKernel, AllocateKernelFails,
         BootFails, ExecuteKernel, KernelReturns, Reboot
<1> QED
  BY <1>1, <1>2, <1>3, Zenon

\* What the search ends at is a sequence of tags, whatever it ends at.
LEMMA TableTypes ==
  /\ << >> \in Seq(TableEntries)
  /\ \A t \in Tables : t \in Seq(TableEntries)
  /\ \A t \in Garbage : t \in Seq(TableEntries)
<1>1. Tables \cup Garbage \subseteq Seq(TableEntries)
  BY PlatformAssumption, Zenon
<1>2. << >> \in Seq(TableEntries)
  OBVIOUS
<1> QED
  BY <1>1, <1>2, Zenon

\* Every entry of a table is one a firmware wrote, or what memory holds.
LEMMA EntriesType ==
  ASSUME SearchInv
  PROVE  /\ entries \in Seq(TableEntries)
         /\ \A k \in DOMAIN entries : entries[k].tag = CB_TAG_MEMORY =>
              MapEntries(entries[k].size) <= Len(entries[k].regions)
         /\ pc # "scan" /\ HasTable => entries \in Tables
<1>1. entries = << >> \/ entries \in Tables \cup Garbage
  BY Zenon DEF SearchInv
<1>2. entries \in Seq(TableEntries)
  BY <1>1, TableTypes, Zenon
<1>3. \A k \in DOMAIN entries : entries[k].tag = CB_TAG_MEMORY =>
        MapEntries(entries[k].size) <= Len(entries[k].regions)
  BY <1>1, PlatformAssumption DEF MapEntries
<1>4. ASSUME pc # "scan", HasTable PROVE entries \in Tables
  BY <1>4, PlatformAssumption DEF SearchInv, HasTable
<1> QED
  BY <1>2, <1>3, <1>4, Zenon

\* CorebootParseTable notes the memory tag it is at with its number of regions.
LEMMA WalkStep == SearchInv /\ WalkInv /\ [Next]_vars => WalkInv'
<1> SUFFICES ASSUME SearchInv, WalkInv, [Next]_vars PROVE WalkInv'
  BY Zenon
<1>1. CASE Scan
  <2>1. entries = << >> /\ pc = "scan" /\ cb_memory_map = 0
    BY <1>1 DEF Scan, SearchInv, WalkInv
  <2>2. entries' \in Seq(TableEntries)
    <3>1. entries' = << >> \/ entries' \in Tables \/ entries' \in Garbage
      BY <1>1, <2>1, Zenon DEF Scan
    <3> QED
      BY <3>1, TableTypes, Zenon
  <2> QED
    BY <1>1, <2>1, <2>2 DEF Scan, WalkInv
<1>2. CASE ParseEntry
  <2>1. at \in 1..Len(entries) /\ at' \in Nat \ {0} /\ i' \in Nat /\ entries' = entries
    BY <1>2, EntriesType DEF ParseEntry, WalkInv
  <2>2. CASE entries[at].tag = CB_TAG_MEMORY
    BY <1>2, <2>1, <2>2 DEF ParseEntry, WalkInv
  <2>3. CASE entries[at].tag # CB_TAG_MEMORY
    BY <1>2, <2>1, <2>3 DEF ParseEntry, WalkInv
  <2> QED
    BY <2>2, <2>3, Zenon
<1>3. CASE UNCHANGED platformVars
  BY <1>3, Zenon DEF platformVars, WalkInv
<1>4. Scan \/ ParseEntry \/ UNCHANGED platformVars
  BY Zenon DEF Next, PayloadStep, BloodhornPayloadEntry, PlatformNext, ParseDone,
         vars, BloodhornMain, PressKey, Countdown, BootDefault, LoadStep,
         GetRoot, OpenKernel, GetInfo, ReadKernel, AllocateKernel, AllocateKernelFails,
         ExecuteKernel, KernelReturns, Reboot
<1> QED
  BY <1>1, <1>2, <1>3, <1>4, Zenon

\* BloodhornLoadKernel holds the same things at each place, whatever fails.
LEMMA HeldStep == HeldInv /\ [Next]_vars => HeldInv'
<1> SUFFICES ASSUME HeldInv, [Next]_vars PROVE HeldInv'
  OBVIOUS
<1> USE DEF HeldInv
<1>1. CASE BloodhornPayloadEntry
  BY <1>1, Zenon DEF BloodhornPayloadEntry, PlatformNext, Scan, ParseEntry, ParseDone, payloadVars
<1>2. CASE BloodhornMain \/ PressKey \/ Countdown \/ BootDefault
  BY <1>2, Zenon DEF BloodhornMain, PressKey, Countdown, BootDefault, payloadVars
<1>3. ASSUME NEW ok \in BOOLEAN, GetRoot(ok) \/ OpenKernel(ok) \/ GetInfo(ok)
      PROVE  HeldInv'
  BY <1>3, Zenon DEF GetRoot, OpenKernel, GetInfo, BootFails
<1>r. ASSUME NEW ok \in BOOLEAN, ReadKernel(ok)
      PROVE  HeldInv'
  <2>1. kernel.bytes \in Nat /\ kernel.bytes % UINT32 \in Nat
    BY PayloadAssumption DEF Kernels
  <2>2. PICK k \in Kernels : k = [kernel EXCEPT !.size = kernel.bytes % UINT32]
    BY <2>1, Zenon DEF Kernels
  <2>3. k.size = kernel.bytes % UINT32 /\ k.bytes = kernel.bytes
    BY <2>2 DEF Kernels
  <2>4. CASE ok
    BY <1>r, <2>2, <2>3, <2>4, Zenon DEF ReadKernel
  <2>5. CASE ~ok
    BY <1>r, <2>5, Zenon DEF ReadKernel, BootFails
  <2> QED
    BY <2>4, <2>5, Zenon
<1>4. ASSUME NEW size \in KernelSizes, NEW addr \in KernelBuffers, AllocateKernel(size, addr)
      PROVE  HeldInv'
  <2>1. [addr |-> addr, bytes |-> size, size |-> 0] \in Kernels
    BY PayloadAssumption DEF Kernels
  <2> QED
    BY <1>4, <2>1, Zenon DEF AllocateKernel
<1>5. CASE AllocateKernelFails
  BY <1>5, Zenon DEF AllocateKernelFails, BootFails
<1>6. CASE ExecuteKernel
  BY <1>6, Zenon DEF ExecuteKernel, BootFails
<1>7. CASE KernelReturns
  BY <1>7, Zenon DEF KernelReturns, BootFails
<1>8. CASE Reboot
  BY <1>8, Zenon DEF Reboot, payloadVars
<1>9. CASE UNCHANGED vars
  BY <1>9, Zenon DEF vars, payloadVars
<1> QED
  BY <1>1, <1>2, <1>3, <1>r, <1>4, <1>5, <1>6, <1>7, <1>8, <1>9, Zenon
     DEF Next, PayloadStep, LoadStep

-----------------------------------------------------------------------------
(* CorebootMain: its steps.                                                *)

\* CorebootMain starts with nothing held.
LEMMA MainInitInv == MainInit => MainInv
BY Zenon DEF MainInit, MainInv

\* CorebootMain holds the same things at each place, whatever fails.
LEMMA MainStep == MainInv /\ [MainNext]_mainVars => MainInv'
<1> SUFFICES ASSUME MainInv, [MainNext]_mainVars PROVE MainInv'
  OBVIOUS
<1> USE DEF MainInv, MainGoto, Refused
<1>1. CASE CorebootMain \/ MenuAborted \/ EntryReturns \/ Crash \/ Prompt
  BY <1>1, Zenon DEF CorebootMain, MenuAborted, EntryReturns, Crash, Prompt
<1>2. ASSUME NEW e \in Entries, NEW success \in BOOLEAN, RunEntry(e, success)
      PROVE  MainInv'
  <2>1. e # "none"
    BY Zenon DEF Entries, Sections
  <2> QED
    BY <1>2, <2>1, Zenon DEF RunEntry
<1>3. ASSUME NEW ok \in BOOLEAN,
             GetRootDirectory(ok) \/ OpenKernelFile(ok) \/ GetKernelInfo(ok)
      PROVE  MainInv'
  BY <1>3, Zenon DEF GetRootDirectory, OpenKernelFile, GetKernelInfo
<1>4. ASSUME NEW ok \in BOOLEAN, NEW n \in KernelFileSizes, AllocateBuffer(ok, n)
      PROVE  MainInv'
  BY <1>4, Zenon DEF AllocateBuffer
<1>5. ASSUME NEW ok \in BOOLEAN, ReadKernelFile(ok) \/ LoadImage(ok)
      PROVE  MainInv'
  BY <1>5, Zenon DEF ReadKernelFile, LoadImage, HasParent
<1>6. CASE UNCHANGED mainVars
  BY <1>6, Zenon DEF mainVars
<1> QED
  BY <1>1, <1>2, <1>3, <1>4, <1>5, <1>6, Zenon DEF MainNext

-----------------------------------------------------------------------------
(* The tool: its steps.                                                    *)

\* CreateBloodhornPayload starts with nothing held and nothing written.
LEMMA ImageInitInv == ImageInit => ImageInv
BY PortAssumption, Zenon DEF ImageInit, ImageInv

\* The header is complete before the file is created, and what is held is
\* known at each place.
LEMMA ImageStep == ImageInv /\ [ImageNext]_imageVars => ImageInv'
<1> SUFFICES ASSUME ImageInv, [ImageNext]_imageVars PROVE ImageInv'
  OBVIOUS
<1> USE DEF ImageInv, Described
<1>1. ASSUME NEW ok \in BOOLEAN,
             GetImageRoot(ok) \/ OpenInput(ok) \/ GetInputInfo(ok) \/ AllocateInput(ok)
      PROVE  ImageInv'
  BY <1>1 DEF GetImageRoot, OpenInput, GetInputInfo, AllocateInput, Step
<1>2. ASSUME NEW ok \in BOOLEAN,
             ReadInput(ok) \/ AllocateOutput(ok) \/ CreateOutput(ok)
      PROVE  ImageInv'
  BY <1>2 DEF ReadInput, AllocateOutput, CreateOutput, Step
<1>3. ASSUME NEW ok \in BOOLEAN, WriteOutput(ok)
      PROVE  ImageInv'
  BY <1>3, Zenon DEF WriteOutput
<1>4. CASE BuildHeader
  <2> DEFINE h == [header_version |-> PAYLOAD_HEADER_VERSION,
                   payload_size |-> ((input_size + 511) \div 512) % UINT16,
                   cmd_line_size |-> cmdline_size, checksum |-> 0,
                   entry_point |-> HEADER_SIZE + cmdline_size,
                   payload_uncompressed_size |-> input_size]
  <2>1. header' = [h EXCEPT !.checksum = HeaderSum(h)]
    BY <1>4, Zenon DEF BuildHeader
  <2>2. Described'
    BY <1>4, <2>1 DEF BuildHeader
  <2> QED
    BY <1>4, <2>2 DEF BuildHeader
<1>5. CASE LoadPayload
  BY <1>5, Zenon DEF LoadPayload
<1>6. CASE UNCHANGED imageVars
  BY <1>6 DEF imageVars
<1> QED
  BY <1>1, <1>2, <1>3, <1>4, <1>5, <1>6 DEF ImageNext

\* The number of blocks rounds up, and fits its 16 bits up to the limit.
LEMMA BlocksCover ==
  ASSUME NEW n \in Nat, n <= (UINT16 - 1) * 512
  PROVE  LET b == ((n + 511) \div 512) % UINT16
         IN  b * 512 >= n /\ b * 512 < n + 512
BY DEF UINT16

\* A header built for this binary describes the file.
LEMMA HeaderRight == ImageInv => HeaderDescribesFile
<1> SUFFICES ASSUME ImageInv, written PROVE HeaderDescribesFile
  BY DEF HeaderDescribesFile
<1>1. Described /\ input_size \in Nat
  BY Zenon DEF ImageInv
<1> QED
  BY <1>1, BlocksCover DEF Described, HeaderDescribesFile

-----------------------------------------------------------------------------
(* The payload: its memory map and the jump.                               *)

INSTANCE WellFoundedInduction

\* A set of naturals without a least element is empty.
LEMMA NoLeast ==
  ASSUME NEW S \in SUBSET Nat, \A n \in S : \E m \in S : m < n
  PROVE  S = {}
<1> DEFINE R == {p \in Nat \X Nat : p[1] < p[2]}
<1>1. IsWellFoundedOn(R, Nat)
  BY NatLessThanWellFounded, Zenon DEF OpToRel
<1>2. SUFFICES ASSUME S # {} PROVE FALSE
  BY Zenon
<1>3. PICK x \in S : \A y \in S : ~ (<<y, x>> \in R)
  <2> HIDE DEF R
  <2> QED
    BY <1>1, <1>2, WFMin, Zenon
<1>4. PICK y \in S : y < x
  BY Zenon
<1>5. <<y, x>> \in R
  BY <1>4, Zenon
<1> QED
  BY <1>3, <1>5, Zenon

\* The first of a set of naturals.
LEMMA FirstExists ==
  ASSUME NEW S \in SUBSET Nat, S # {}
  PROVE  First(S) \in S
<1>1. PICK k \in S : \A j \in S : ~(j < k)
  BY NoLeast, Zenon
<1>2. \A j \in S : k <= j
  BY <1>1
<1> QED
  BY <1>2, Zenon DEF First

Regions == [addr : Nat, size : Nat, ram : BOOLEAN]

\* The memory map is a sequence of regions, inside the tag it came from.
LEMMA MapType ==
  ASSUME SearchInv, WalkInv
  PROVE  CorebootGetMemoryMap \in Seq(Regions)
<1>1. CASE cb_memory_map = 0
  BY <1>1, SMTT(30) DEF CorebootGetMemoryMap
<1>2. CASE cb_memory_map # 0
  <2>1. /\ cb_memory_map \in 1..Len(entries) /\ entries[cb_memory_map].tag = CB_TAG_MEMORY
        /\ cb_memory_map_entries = MapEntries(entries[cb_memory_map].size)
    BY <1>2 DEF WalkInv
  <2>2. /\ entries[cb_memory_map] \in TableEntries
        /\ MapEntries(entries[cb_memory_map].size) <= Len(entries[cb_memory_map].regions)
    BY <2>1, EntriesType, SMTT(30)
  <2>3. /\ entries[cb_memory_map].regions \in Seq(Regions)
        /\ entries[cb_memory_map].size \in Nat
    BY <2>2, Zenon DEF TableEntries, Regions
  <2>4. cb_memory_map_entries \in Nat
    BY <2>1, <2>3 DEF MapEntries, MEM_ENTRY
  <2>5. CorebootGetMemoryMap = SubSeq(entries[cb_memory_map].regions, 1, cb_memory_map_entries)
    BY <1>2, Zenon DEF CorebootGetMemoryMap
  <2>6. \A k \in 1..cb_memory_map_entries :
          k \in 1..Len(entries[cb_memory_map].regions)
    BY <2>1, <2>2, <2>3, <2>4
  <2> QED
    BY <2>3, <2>4, <2>5, <2>6, SMTT(30)
<1> QED
  BY <1>1, <1>2, Zenon

\* The map that is handed out has all regions of its tag and ends with it.
LEMMA MapInside == SearchInv /\ WalkInv => MapInsideEntry
<1> SUFFICES ASSUME SearchInv, WalkInv, Initialized, HasTable, cb_memory_map > 0
             PROVE  /\ cb_memory_map_entries = Len(entries[cb_memory_map].regions)
                    /\ ENTRY_HEADER + MEM_ENTRY * cb_memory_map_entries
                         <= entries[cb_memory_map].size
  BY Zenon DEF MapInsideEntry
<1> DEFINE e == entries[cb_memory_map]
<1>1. entries \in Tables /\ entries \in Seq(TableEntries)
  BY EntriesType, Zenon DEF Initialized
<1>2. /\ cb_memory_map \in 1..Len(entries) /\ e.tag = CB_TAG_MEMORY
      /\ cb_memory_map_entries = MapEntries(e.size)
  BY SMTT(30) DEF WalkInv
<1>3. e \in TableEntries /\ e.size = ENTRY_HEADER + MEM_ENTRY * Len(e.regions)
  BY <1>1, <1>2, PlatformAssumption, SMTT(30)
<1>4. Len(e.regions) \in Nat
  BY <1>3 DEF TableEntries
<1> HIDE DEF e
<1>5. (8 + 24 * Len(e.regions)) \div 24 = Len(e.regions)
  <2>1. \A n \in Nat : (8 + 24 * n) \div 24 = n
    OBVIOUS
  <2> QED
    BY <1>4, <2>1, Zenon
<1>6. cb_memory_map_entries = Len(e.regions)
  BY <1>2, <1>3, <1>5, Zenon DEF MapEntries, ENTRY_HEADER, MEM_ENTRY
<1> QED
  BY <1>3, <1>4, <1>6, SMTT(30) DEF e, ENTRY_HEADER, MEM_ENTRY

\* The sum of the first n regions' RAM exists for every n up to the last.
LEMMA SumExists ==
  ASSUME NEW L \in Nat, NEW gain \in [1..L -> Nat]
  PROVE  \E g \in [0..L -> Nat] :
           g[0] = 0 /\ \A k \in 1..L : g[k] = g[k - 1] + gain[k]
<1> DEFINE Sums(n) == {g \in [0..n -> Nat] :
                         g[0] = 0 /\ \A k \in 1..n : g[k] = g[k - 1] + gain[k]}
           bad == {n \in 0..L : Sums(n) = {}}
<1>1. ASSUME NEW n \in bad PROVE n - 1 \in bad
  <2> SUFFICES ASSUME n - 1 \notin bad PROVE FALSE
    BY Zenon
  <2>1. n \in 0..L /\ Sums(n) = {}
    BY Zenon
  <2>2. CASE n = 0
    <3>1. [k \in 0..0 |-> 0] \in Sums(0)
      OBVIOUS
    <3> QED
      BY <2>1, <2>2, <3>1, Zenon
  <2>3. CASE n # 0
    <3>1. n - 1 \in 0..L
      BY <2>1, <2>3
    <3>2. PICK g : g \in Sums(n - 1)
      BY <3>1, Zenon
    <3>3. /\ g \in [0..(n - 1) -> Nat] /\ g[0] = 0
          /\ \A k \in 1..(n - 1) : g[k] = g[k - 1] + gain[k]
      BY <3>2, Zenon
    <3> DEFINE h == [k \in 0..n |-> IF k = n THEN g[n - 1] + gain[n] ELSE g[k]]
    <3>4. n \in 1..L /\ n - 1 \in 0..(n - 1) /\ n \in Nat
      BY <2>1, <2>3, SMTT(30)
    <3>5. g[n - 1] + gain[n] \in Nat
      BY <3>3, <3>4, SMTT(30)
    <3>6. h \in [0..n -> Nat]
      BY <3>3, <3>4, <3>5, SMTT(30)
    <3>7. h[0] = 0
      BY <2>3, <3>3, <3>4, SMTT(30)
    <3>8. ASSUME NEW k \in 1..n PROVE h[k] = h[k - 1] + gain[k]
      <4>1. k - 1 \in 0..n /\ k - 1 # n /\ h[k - 1] = g[k - 1]
        BY <3>4, SMTT(30)
      <4>2. CASE k = n
        BY <3>4, <4>1, <4>2, SMTT(30)
      <4>3. CASE k # n
        BY <3>3, <3>4, <4>1, <4>3, SMTT(30)
      <4> QED
        BY <4>2, <4>3, Zenon
    <3> HIDE DEF h
    <3>9. h \in Sums(n)
      BY <3>6, <3>7, <3>8, Zenon
    <3> QED
      BY <2>1, <3>9, Zenon
  <2> QED
    BY <2>2, <2>3, Zenon
<1>2. bad \in SUBSET Nat /\ (\A n \in bad : n - 1 < n) /\ L \in 0..L
  OBVIOUS
<1> HIDE DEF bad
<1>3. bad = {}
  BY <1>1, <1>2, NoLeast, Zenon
<1>4. Sums(L) # {}
  <2> HIDE DEF Sums
  <2> QED
    BY <1>2, <1>3, ZenonT(30) DEF bad
<1> QED
  BY <1>4, Zenon

\* The RAM of a map adds up to at least each of its regions of RAM.
LEMMA TotalCovers ==
  ASSUME NEW M \in Seq(Regions)
  PROVE  /\ MemoryUpTo(M)[Len(M)] \in Nat
         /\ \A j \in DOMAIN M : M[j].ram => MemoryUpTo(M)[Len(M)] >= M[j].size
<1> DEFINE L == Len(M)
           gain == [k \in 1..L |-> IF M[k].ram THEN M[k].size ELSE 0]
           total == MemoryUpTo(M)
<1>1. L \in Nat /\ DOMAIN M = 1..L /\ \A k \in 1..L : M[k] \in Regions
  OBVIOUS
<1>2. gain \in [1..L -> Nat]
  BY <1>1, Zenon DEF Regions
<1>3. PICK g \in [0..L -> Nat] : g[0] = 0 /\ \A k \in 1..L : g[k] = g[k - 1] + gain[k]
  <2> HIDE DEF L, gain
  <2> QED
    BY <1>1, <1>2, SumExists, Zenon
<1>4. g = [k \in 0..L |-> IF k = 0 THEN 0
                          ELSE g[k - 1] + (IF M[k].ram THEN M[k].size ELSE 0)]
  BY <1>1, <1>3
<1>5. total = [k \in 0..L |-> IF k = 0 THEN 0
                          ELSE total[k - 1] + (IF M[k].ram THEN M[k].size ELSE 0)]
  BY <1>4, Zenon DEF MemoryUpTo
<1> HIDE DEF total
<1> DEFINE bad == {k \in 0..L : ~ /\ total[k] \in Nat
                                  /\ \A j \in 1..k : gain[j] <= total[k]}
<1>6. ASSUME NEW k \in 1..L PROVE total[k] = total[k - 1] + gain[k]
  <2>1. k \in 0..L /\ k # 0
    BY <1>1, SMTT(30)
  <2>2. gain[k] = IF M[k].ram THEN M[k].size ELSE 0
    BY Zenon
  <2> HIDE DEF gain, L
  <2>3. total[k] = total[k - 1] + (IF M[k].ram THEN M[k].size ELSE 0)
    BY <1>5, <2>1, ZenonT(30)
  <2> QED
    BY <2>2, <2>3, Zenon
<1>7. total[0] = 0
  BY <1>1, <1>5, SMTT(30)
<1> HIDE DEF gain, L
<1>8. ASSUME NEW n \in bad PROVE n - 1 \in bad
  <2>1. n \in 0..L
    BY Zenon
  <2>2. CASE n = 0
    BY <1>7, <2>2, SMTT(30)
  <2>3. CASE n # 0
    <3>1. n \in 1..L /\ n - 1 \in 0..L /\ gain[n] \in Nat /\ \A j \in 1..L : gain[j] \in Nat
      BY <1>1, <1>2, <2>1, <2>3, SMTT(30)
    <3>2. SUFFICES ASSUME total[n - 1] \in Nat,
                          \A j \in 1..(n - 1) : gain[j] <= total[n - 1]
                   PROVE  /\ total[n] \in Nat
                          /\ \A j \in 1..n : gain[j] <= total[n]
      BY <3>1, Zenon
    <3>3. total[n] = total[n - 1] + gain[n]
      BY <1>6, <3>1, Zenon
    <3>4. ASSUME NEW j \in 1..n PROVE gain[j] <= total[n]
      <4>1. j \in 1..L /\ (j = n \/ j \in 1..(n - 1))
        BY <1>1, <3>1
      <4>2. gain[j] \in Nat /\ (j = n \/ gain[j] <= total[n - 1])
        BY <3>1, <3>2, <4>1, ZenonT(30)
      <4> QED
        BY <3>1, <3>2, <3>3, <4>2, SMTT(30)
    <3> QED
      BY <3>1, <3>2, <3>3, <3>4, SMTT(30)
  <2> QED
    BY <2>2, <2>3, Zenon
<1>9. bad \in SUBSET Nat /\ \A n \in bad : n - 1 < n
  BY <1>1
<1> HIDE DEF bad
<1>10. bad = {}
  BY <1>8, <1>9, NoLeast, ZenonT(30)
<1>11. L \in 0..L
  BY <1>1
<1>12. total[L] \in Nat /\ \A j \in 1..L : gain[j] <= total[L]
  BY <1>10, <1>11, Zenon DEF bad
<1> QED
  BY <1>1, <1>2, <1>12, Zenon DEF gain, L, total

\* The region the kernel is said to lie in is RAM of the map, and if the map is
\* a firmware's no more than the total.
LEMMA BaseInRam ==
  ASSUME SearchInv, WalkInv, Base # 0
  PROVE  /\ \E k \in DOMAIN CorebootGetMemoryMap :
              CorebootGetMemoryMap[k].ram /\ CorebootGetMemoryMap[k].addr = Base
         /\ Initialized /\ HasTable =>
              CorebootGetTotalMemory >= CorebootFindLargestMemoryRegion.size
<1> DEFINE k == First(Largest)
           M == CorebootGetMemoryMap
<1>1. Largest # {} /\ CorebootFindLargestMemoryRegion = M[k]
  BY Zenon DEF Base, CorebootFindLargestMemoryRegion, NoRegion
<1>2. M \in Seq(Regions)
  BY MapType, Zenon
<1>3. Largest \in SUBSET Nat
  BY <1>2 DEF Largest
<1>4. k \in Largest
  BY <1>1, <1>3, FirstExists, Zenon
<1> HIDE DEF k
<1>5. k \in DOMAIN M /\ M[k].ram
  BY <1>4, Zenon DEF Largest
<1>6. /\ MemoryUpTo(M)[Len(M)] >= M[k].size /\ MemoryUpTo(M)[Len(M)] \in Nat
  BY <1>2, <1>5, TotalCovers, Zenon
<1>7. ASSUME Initialized, HasTable
      PROVE  CorebootGetTotalMemory >= M[k].size
  <2> DEFINE e == entries[cb_memory_map]
  <2>1. cb_memory_map \in 1..Len(entries) /\ e.tag = CB_TAG_MEMORY
    <3>1. cb_memory_map # 0
      BY <1>5 DEF CorebootGetMemoryMap
    <3> QED
      BY <3>1 DEF WalkInv
  <2>2. entries \in Tables /\ entries \in Seq(TableEntries)
    BY <1>7, EntriesType, Zenon DEF Initialized
  <2>3. e \in TableEntries /\ MemoryUpTo(e.regions)[Len(e.regions)] < UINT64
    BY <2>1, <2>2, PlatformAssumption
  <2>4. e.regions \in Seq(Regions)
    BY <2>3, Zenon DEF TableEntries, Regions
  <2>5. cb_memory_map # 0 /\ cb_memory_map_entries = Len(e.regions)
    BY <1>7, <2>1, MapInside DEF MapInsideEntry
  <2>6. M = SubSeq(e.regions, 1, Len(e.regions))
    BY <2>5, Zenon DEF CorebootGetMemoryMap
  <2> HIDE DEF e, M
  <2>7. M = e.regions
    BY <2>4, <2>6
  <2>8. MemoryUpTo(M)[Len(M)] < UINT64
    BY <2>3, <2>7, Zenon
  <2>9. MemoryUpTo(M)[Len(M)] % UINT64 = MemoryUpTo(M)[Len(M)]
    BY <1>6, <2>8, PlatformAssumption
  <2> QED
    BY <1>6, <2>9, Zenon DEF CorebootGetTotalMemory, M
<1> QED
  BY <1>1, <1>5, <1>7, Zenon DEF Base

\* The kernel is entered with parameters that were checked, and they stay.
LEMMA JumpStep ==
  ASSUME SearchInv, WalkInv, HeldInv, JumpInv, [Next]_vars
  PROVE  JumpInv'
<1> SUFFICES ASSUME pc' = "kernel"
             PROVE  /\ kernel'.bytes > 0
                    /\ params'.kernel_size = kernel'.bytes % UINT32 /\ params'.kernel_size > 0
                    /\ \E k \in DOMAIN CorebootGetMemoryMap' :
                         /\ CorebootGetMemoryMap'[k].ram
                         /\ CorebootGetMemoryMap'[k].addr = params'.kernel_base
                    /\ params'.framebuffer > 0 => entries'[params'.framebuffer].usable
                    /\ HasTable' =>
                         params'.memory_size >= CorebootFindLargestMemoryRegion'.size
  BY Zenon DEF JumpInv
<1>1. UNCHANGED platformVars /\ kernel' = kernel
      /\ \/ pc = "execute" /\ ExecuteKernel
         \/ pc = "kernel" /\ params' = params
  <2>1. ~PlatformNext
    BY Zenon DEF PlatformNext, Scan, ParseEntry, ParseDone
  <2>2. ~LoadStep
    BY Zenon DEF LoadStep, GetRoot, OpenKernel, GetInfo, ReadKernel, AllocateKernel,
           AllocateKernelFails, BootFails
  <2>3. ~BloodhornMain /\ ~Countdown /\ ~BootDefault /\ ~Reboot /\ ~PressKey /\ ~KernelReturns
    BY Zenon DEF BloodhornMain, PressKey, Countdown, BootDefault, KernelReturns, BootFails, Reboot
  <2>4. ExecuteKernel \/ UNCHANGED vars
    BY <2>1, <2>2, <2>3, Zenon DEF Next, PayloadStep, BloodhornPayloadEntry
  <2>5. CASE ExecuteKernel
    <3>1. pc = "execute" /\ UNCHANGED platformVars /\ kernel' = kernel
      BY <2>5, Zenon DEF ExecuteKernel
    <3> QED
      BY <2>5, <3>1, Zenon
  <2>6. CASE UNCHANGED vars
    BY <2>6, Zenon DEF vars, payloadVars
  <2> QED
    BY <2>4, <2>5, <2>6, Zenon
<1>2. /\ entries' = entries /\ cb_memory_map' = cb_memory_map
      /\ cb_memory_map_entries' = cb_memory_map_entries /\ HasTable' = HasTable
  BY <1>1, Zenon DEF platformVars, HasTable
<1>3. CorebootGetMemoryMap' = CorebootGetMemoryMap
  BY <1>2, Zenon DEF CorebootGetMemoryMap
<1>4. CorebootFindLargestMemoryRegion' = CorebootFindLargestMemoryRegion
  <2>1. Largest' = Largest
    BY <1>3, Zenon DEF Largest
  <2> QED
    BY <1>3, <2>1, Zenon DEF CorebootFindLargestMemoryRegion
<1>5. CASE pc = "kernel" /\ params' = params
  BY <1>1, <1>2, <1>3, <1>4, <1>5, Zenon DEF JumpInv
<1>6. CASE pc = "execute" /\ ExecuteKernel
  <2>1. Base # 0 /\ params' = Params /\ ValidateBootParameters(Params)
    BY <1>6, Zenon DEF ExecuteKernel, BootFails
  <2>2. /\ params'.kernel_base = Base /\ params'.kernel_size = kernel.size
        /\ params'.memory_size = CorebootGetTotalMemory
    BY <2>1, Zenon DEF Params
  <2>3. /\ params'.kernel_size # 0
        /\ params'.framebuffer > 0 => entries[params'.framebuffer].usable
    BY <2>1, Zenon DEF ValidateBootParameters
  <2>4. Initialized
    BY <1>6, Zenon DEF Initialized
  <2>5. kernel.bytes > 0 /\ params'.kernel_size = kernel.bytes % UINT32 /\ params'.kernel_size > 0
    <3>1. kernel.bytes \in Nat /\ kernel.size \in Nat /\ kernel.size = kernel.bytes % UINT32
      BY <1>6, Zenon DEF HeldInv, Kernels
    <3>2. kernel.bytes = 0 => kernel.bytes % UINT32 = 0
      BY PayloadAssumption
    <3> QED
      BY <2>2, <2>3, <3>1, <3>2
  <2> QED
    BY <1>1, <1>2, <1>3, <1>4, <2>1, <2>2, <2>3, <2>4, <2>5, BaseInRam, ZenonT(30)
<1> QED
  BY <1>1, <1>5, <1>6, Zenon

\* The invariant gives what the payload is asked for.
LEMMA JumpRight == SearchInv /\ HeldInv /\ JumpInv => JumpJustified
<1> SUFFICES ASSUME SearchInv, HeldInv, JumpInv, pc = "kernel" PROVE JumpJustified
  BY Zenon DEF JumpJustified
<1>1. "buffer" \in held
  BY Zenon DEF HeldInv
<1>2. HasTable => slots[cb_header] = "valid" /\ \A s \in 1..cb_header - 1 : slots[s] # "valid"
  BY PlatformAssumption DEF HasTable, SearchInv
<1> QED
  BY <1>1, <1>2, ZenonT(30) DEF JumpInv, JumpJustified

-----------------------------------------------------------------------------
(* The port.                                                               *)

PortInv ==
  /\ SearchInv /\ WalkInv /\ HeldInv /\ JumpInv
  /\ MainInv /\ ImageInv

portVars == <<program, vars, mainVars, imageVars, libVars>>

\* Whichever program is entered, all start in their initial state.
LEMMA PortInitInv == PortInit => PortInv
BY PayloadInitInv, MainInitInv, ImageInitInv, ZenonT(30) DEF PortInit, PortInv

\* A step of the port is one of its programs, or none, for each of them.
LEMMA PortParts ==
  ASSUME [PortNext]_portVars
  PROVE  /\ [Next]_vars /\ [MainNext]_mainVars /\ [ImageNext]_imageVars
<1>1. UNCHANGED portVars => UNCHANGED vars /\ UNCHANGED mainVars /\ UNCHANGED imageVars
  BY Zenon DEF portVars
<1>2. PortNext =>
        /\ Next \/ UNCHANGED vars
        /\ MainNext \/ UNCHANGED mainVars
        /\ ImageNext \/ UNCHANGED imageVars
  BY Zenon DEF PortNext
<1> QED
  BY <1>1, <1>2, Zenon

\* The program that runs keeps its part, and the others stay where they are.
LEMMA PortStep == PortInv /\ [PortNext]_portVars => PortInv'
<1> SUFFICES ASSUME PortInv, [PortNext]_portVars PROVE PortInv'
  BY Zenon
<1>1. SearchInv' /\ WalkInv' /\ HeldInv' /\ JumpInv'
  BY PortParts, SearchStep, WalkStep, HeldStep, JumpStep, ZenonT(30) DEF PortInv
<1>2. MainInv' /\ ImageInv'
  BY PortParts, MainStep, ImageStep, Zenon DEF PortInv
<1> QED
  BY <1>1, <1>2, Zenon DEF PortInv

\* The invariant of the port holds in every state of a run.
THEOREM PortCorrect == PortSpec => []PortInv
<1>1. PortInit /\ [][PortNext]_portVars => []PortInv
  BY PortInitInv, PortStep, PTL
<1> QED
  BY <1>1, PTL DEF PortSpec, portVars

\* Whatever the firmware answers, the three functions that read a file close
\* it and free its information on every way out, and keep the buffer only for
\* a caller that uses it.
THEOREM PortReleasesCorrect == PortSpec => []PortReleases
<1>1. PortInv => PortReleases
  BY Zenon DEF PortInv, HeldInv, MainInv, ImageInv, PortReleases, LoadReleases,
         PromptReleased, CreateReleases
<1> QED
  BY <1>1, PortCorrect, PTL

\* For every table a firmware may have built, and every content of memory,
\* the map handed out has all regions of the last memory tag and ends with it.
THEOREM MapInsideEntryCorrect == PortSpec => []MapInsideEntry
<1>1. PortInv => MapInsideEntry
  BY MapInside, Zenon DEF PortInv
<1> QED
  BY <1>1, PortCorrect, PTL

\* The payload enters the kernel only once a file that is not empty was read,
\* with parameters that give its size modulo 2^32, not 0, a RAM region of the
\* first sound table and a total no smaller than the largest region.
THEOREM JumpJustifiedCorrect == PortSpec => []JumpJustified
<1>1. PortInv => JumpJustified
  BY JumpRight, Zenon DEF PortInv
<1> QED
  BY <1>1, PortCorrect, PTL

\* The header the tool writes describes the file, for every size of the binary
\* and of the command line.
THEOREM HeaderCorrect == PortSpec => []HeaderDescribesFile
<1>1. PortInv => HeaderDescribesFile
  BY HeaderRight, ZenonT(30) DEF PortInv
<1> QED
  BY <1>1, PortCorrect, PTL

=============================================================================
