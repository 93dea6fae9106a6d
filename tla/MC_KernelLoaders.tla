-------------------------- MODULE MC_KernelLoaders --------------------------
(***************************************************************************)
(* What is loaded and how it gets here: the loaders of boot/Arch32, the    *)
(* BloodChain boot information, the PXE boot and address resolution.  One  *)
(* part runs and the others stay at an initial state.                      *)
(*                                                                         *)
(* Requests for each loader: kernels around the limits of the fixed        *)
(* addresses, command lines around the offsets of the fields written after *)
(* them, ELF files in the lower half.  Up to three modules, with strings   *)
(* shorter and longer than a module structure.  Files that fit the buffer  *)
(* for an unknown size, that do not, and of the very size that stands for  *)
(* unknown.                                                                *)
(***************************************************************************)
EXTENDS KernelLoaders, Pxe

CONSTANTS
  BOOT_SECTOR_FILES,           \* sizes of files given to chainload_file
  HEADER, HEADER_SIZE, REGION, Offered, MODTYPE_DRIVER, MAX_NAME, MAX_CMDLINE, MAX_ADDED

VARIABLES
  part,                        \* the one that runs
  bytes, module_total, tables, given

Chain == INSTANCE BloodChain

chainVars == <<bytes, module_total, tables, given>>

Request(kernel, setup, initrd, cmdline, load, end, bss, at, segments) ==
  [kernel |-> kernel, setup |-> setup, initrd |-> initrd, cmdline |-> cmdline,
   load |-> load, end |-> end, bss |-> bss, entry |-> at, segments |-> segments]

Cmdlines == {0, 11, 12, 17, 27, 28, 300}

LinuxRequests ==
  {Request(k, s, i, c, 0, 0, 0, 0, << >>) :
     k \in {\h40000, \h800000}, s \in {512, \h20000}, i \in {0, \h1000000}, c \in Cmdlines}

\* Header addresses: none; an image with BSS at 1 MiB; one longer than the file.
MultibootRequests ==
  UNION {{Request(\h80000, 0, 0, c, 0, 0, 0, 0, << >>),
          Request(\h80000, 0, 0, c, \h100000, \h140000, \h180000, \h100010, << >>),
          Request(\h80000, 0, 0, c, \h400000, \h500000, \h500000, 0, << >>)} :
         c \in Cmdlines}

PlainRequests ==
  {Request(k, 0, 0, c, 0, 0, 0, 0, << >>) : k \in {\h80000, \h800000}, c \in Cmdlines}

PortRequests(sizes) ==
  {Request(k, 0, i, c, 0, 0, 0, at, << >>) :
     k \in sizes, i \in {0, \h100000}, c \in Cmdlines, at \in {0, \h8000}}

Segment(vaddr, filesz, memsz) == [vaddr |-> vaddr, filesz |-> filesz, memsz |-> memsz]

LowElf(c) ==
  Request(\h3000, 0, 0, c, 0, 0, 0, \h200010,
          <<Segment(\h200000, \h1000, \h1000), Segment(\h201000, \h800, \h2000)>>)

HighElf(c) ==
  Request(\h3000, 0, 0, c, 0, 0, 0, HIGHER_HALF + \h10,
          <<Segment(HIGHER_HALF, \h1000, \h1000),
            Segment(HIGHER_HALF + \h1000, \h800, \h2000)>>)

RequestsFor(l) ==
  CASE l \in LinuxLoaders -> LinuxRequests
    [] l \in {"multiboot1_load_kernel", "multiboot2_load_kernel"} -> MultibootRequests
    [] l \in {"aarch64_boot_linux", "aarch64_boot_uefi"} -> PortRequests({\h80000, \h800000})
    [] l \in {"riscv64_boot_linux", "riscv64_boot_opensbi"} ->
         PortRequests({\h80000, \h1F00000, \h1F00001})
    [] l \in {"loongarch64_boot_linux", "loongarch64_boot_uefi"} ->
         PortRequests({\h80000, \h200000, \h200001})
    [] l = "limine_load_kernel" -> {LowElf(c) : c \in Cmdlines} \cup {HighElf(17)}
    [] l = "boot_limine_kernel" -> {LowElf(c) : c \in Cmdlines}
    [] l \in Chainloaders ->
         {Request(k, 0, 0, 0, 0, 0, 0, 0, << >>) : k \in BOOT_SECTOR_FILES}
    [] OTHER -> PlainRequests

MCRequests == [l \in Loaders |-> RequestsFor(l)]

\* The length of "root=/dev/sda1 ro", the line of stage2.asm:174, and a ramdisk.
MCDefaultLine ==
  [l \in Loaders |-> {r \in RequestsFor(l) : r.cmdline = 17 /\ r.initrd > 0}]

AllLoaders ==
  LinuxLoaders \cup Ports \cup InMemory \cup Chainloaders \cup
    {"multiboot1_load_kernel", "multiboot2_load_kernel", "limine_load_kernel",
     "ia32_boot_multiboot1", "x86_64_boot_multiboot1", "ia32_boot_multiboot2",
     "x86_64_boot_multiboot2"}

\* The sizes of chainloaded files for which the rest ends below the boot
\* sector, and one that reaches into it.
SmallBootFiles == {512, 513, 28160}

GrubImage == {32768}

MCModuleSizes == {\h1000, \h2000}

\* A string of n equal characters.
Text(c, n) == [k \in 1..n |-> c]

Module(start, type, name, cmdline) ==
  [start |-> start, size |-> 300000, type |-> type, name |-> name, cmdline |-> cmdline]

\* The kernel with the default command line and with a long one, an initrd
\* without one, and a driver whose name is longer than a structure.
MCOffered ==
  {Module(\h100000, 1, Text(75, 6), Text(99, 17)), Module(\h100000, 1, Text(75, 6), Text(99, 100)),
   Module(\h200000, 2, Text(73, 6), << >>), Module(\h300000, 8, Text(68, 50), Text(100, 1))}

-----------------------------------------------------------------------------

LoadInit ==
  /\ part \in {"loader", "bloodchain", "pxe", "arp"}
  /\ Init /\ NetInit /\ WireInit
  /\ IF part = "bloodchain" THEN Chain!ChainInit
     ELSE bytes = << >> /\ module_total = 0 /\ tables = {} /\ given = << >>
  /\ part # "loader" =>
       loader = "linux_load_kernel" /\ request = CHOOSE r \in Requests[loader] : TRUE

LoaderStep ==
  part = "loader" /\ Next /\ UNCHANGED <<part, chainVars, netVars, wireVars>>

ChainStep ==
  part = "bloodchain" /\ Chain!ChainNext /\ UNCHANGED <<part, vars, netVars, wireVars>>

NetworkStep ==
  part = "pxe" /\ NetNext /\ UNCHANGED <<part, vars, chainVars, wireVars>>

ResolverStep ==
  part = "arp" /\ WireNext /\ UNCHANGED <<part, vars, chainVars, netVars>>

LoadNext == LoaderStep \/ ChainStep \/ NetworkStep \/ ResolverStep

\* The processor goes on with a network call once it is made; nothing is
\* assumed of the server, of the stations and of the wire.
LoadSpec ==
  /\ LoadInit
  /\ [][LoadNext]_<<part, vars, chainVars, netVars, wireVars>>
  /\ WF_netVars(part = "pxe" /\ NetStep)
  /\ WF_wireVars(part = "arp" /\ WireStep)

\* No module structure is damaged by the strings of another (see BloodChain).
ModulesIntact == Chain!ModulesIntact

\* Every call of the network code returns or enters a kernel, though no packet
\* may ever arrive: the loops of arp_resolve and the steps of pxe_boot_kernel
\* are bounded.
NetworkReturns ==
  /\ net_step \notin {"idle", "booted"} ~> net_step \in {"idle", "booted"}
  /\ wire_step # "idle" ~> wire_step = "idle"
=============================================================================
