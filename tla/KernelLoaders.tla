--------------------------- MODULE KernelLoaders ---------------------------
(***************************************************************************)
(* The kernel loaders of boot/Arch32: where each of them puts the kernel,  *)
(* the initial ramdisk, the command line and the boot information, and in  *)
(* which order, before it jumps.  All of them copy to fixed addresses or   *)
(* to addresses computed from file sizes, so a later copy can land on an   *)
(* earlier one.                                                            *)
(*                                                                         *)
(* A copy, fill or field assignment is a write [what, from, size]; memory  *)
(* is the sequence of the writes made.  Fields of the information          *)
(* structures sit at the offsets the C compiler gives them.  The 64-bit    *)
(* ports have their memory at RAM_BASE, and the upper half of the address  *)
(* space starts at HIGHER_HALF: both are scaled down.                      *)
(***************************************************************************)
EXTENDS Integers, SequencesExt

CONSTANTS
  Loaders,          \* the entry points modelled in a run
  Requests,         \* what a loader may be asked to load
  ModuleSizes,      \* sizes of the files given to multiboot1_load_module
  MAX_MODULES       \* bound: calls of it

RAM_BASE == \h40000000

HIGHER_HALF == \h60000000

VARIABLES
  loader, request,
  stage,            \* "start", "check", "initrd", "write", "running", "return"
  plan,             \* the writes still to come
  memory,           \* the writes made
  entry,            \* where the kernel was entered
  module_count,     \* the static counter of multiboot1_load_module
  rc

vars == <<loader, request, stage, plan, memory, entry, module_count, rc>>

W(what, from, size) == <<[what |-> what, from |-> from, size |-> size]>>

When(condition, writes) == IF condition THEN writes ELSE << >>

-----------------------------------------------------------------------------
(* The Linux protocol on x86: kernel at 1 MiB, the ramdisk behind it, the  *)
(* boot parameters at 0x90000 with the command line inside them.           *)

LinuxWrites(r) ==
  LET kernel == r.kernel - r.setup
  IN  W("kernel", \h100000, kernel)
      \o When(r.initrd > 0, W("initrd", \h100000 + kernel, r.initrd))
      \o W("zero", \h90000, 136) \o W("setup", \h90000, r.setup)
      \o When(r.cmdline > 0,
              W("cmdline", \h90020, r.cmdline + 1) \o W("cmd_line_ptr", \h9003C, 4))
      \o When(r.initrd > 0,
              W("ramdisk_image", \h9002C, 4) \o W("ramdisk_size", \h90030, 4))
      \o W("mem_upper", \h90080, 4) \o W("ext_mem_k", \h90084, 4)

linux_load_kernel(r) == LinuxWrites(r)

boot_linux_kernel(r) == LinuxWrites(r)

x86_64_boot_linux(r) == LinuxWrites(r)

ia32_boot_linux(r) == LinuxWrites(r)

-----------------------------------------------------------------------------
(* Multiboot.  r.load, r.end and r.bss come from the header, 0 if absent.  *)

\* The image and its BSS.  Without addresses in the header, the end minus the
\* start wraps around to a size no file reaches, and the file's size is used.
MultibootImage(r) ==
  LET load == IF r.load = 0 THEN \h100000 ELSE r.load
      size == IF r.end >= load /\ r.end - load < r.kernel
              THEN r.end - load ELSE r.kernel
  IN  W("kernel", load, size)
      \o When(r.bss > r.end, W("bss", r.end, r.bss - r.end))

multiboot1_load_kernel(r) ==
  MultibootImage(r)
    \o W("zero", \h90000, 88) \o W("flags", \h90000, 4)
    \o W("mem_lower", \h90004, 4) \o W("mem_upper", \h90008, 4)
    \o When(r.cmdline > 0,
            W("cmdline", \h90020, r.cmdline + 1) \o W("cmdline_ptr", \h90010, 4))
    \o W("boot_device", \h9000C, 4) \o W("mmap", \h90100, 64)
    \o W("mmap_length", \h9002C, 4) \o W("mmap_addr", \h90030, 4)

\* Mutant: rounds down.
PaddedDown(n) == 8 * (n \div 8)

\* Tags are padded to eight bytes.
Padded(n) == 8 * ((n + 7) \div 8)

multiboot2_load_kernel(r) ==
  LET meminfo == \h90008 + IF r.cmdline > 0 THEN Padded(9 + r.cmdline) ELSE 0
      bootdev == meminfo + 16
      mmap    == bootdev + Padded(20)
      end     == mmap + 64
  IN  MultibootImage(r)
      \o W("zero", \h90000, 8)
      \o When(r.cmdline > 0,
              W("cmdline_tag", \h90008, 8) \o W("cmdline", \h90010, r.cmdline + 1))
      \o W("meminfo", meminfo, 16) \o W("bootdev", bootdev, 20)
      \o W("mmap", mmap, 64) \o W("end", end, 8) \o W("total_size", \h90000, 8)

\* The kernel handed over by the network loader, and by the x86 ports: the
\* information at 0x1000, the whole file at 1 MiB.  "field" is the size of a
\* field of the structure.
Multiboot1Writes(r, field) ==
  W("zero", \h1000, 20 * field + 8)
    \o W("mem_lower", \h1000 + field, field) \o W("mem_upper", \h1000 + 2 * field, field)
    \o W("flags", \h1000, field)
    \o When(r.cmdline > 0,
            W("cmdline", \h2000, r.cmdline + 1)
              \o W("cmdline_ptr", \h1000 + 4 * field, field))
    \o W("kernel", \h100000, r.kernel)

boot_multiboot1_kernel(r) == Multiboot1Writes(r, 4)

ia32_boot_multiboot1(r) == Multiboot1Writes(r, 4)

x86_64_boot_multiboot1(r) == Multiboot1Writes(r, 8)

\* Mutant: the string's terminator is not counted.
Multiboot2WritesShort(r) ==
  LET end == \h1018 + IF r.cmdline > 0 THEN 8 + r.cmdline ELSE 0
  IN  When(r.cmdline > 0, W("cmdline", \h1020, r.cmdline + 1))
      \o W("end", end, 8)
      \o W("kernel", \h100000, r.kernel)

\* These tags are not padded.
Multiboot2Writes(r) ==
  LET end == \h1018 + IF r.cmdline > 0 THEN 9 + r.cmdline ELSE 0
  IN  W("info", \h1000, 8) \o W("meminfo", \h1008, 16)
      \o When(r.cmdline > 0,
              W("cmdline", \h1020, r.cmdline + 1) \o W("cmdline_tag", \h1018, 8))
      \o W("end", end, 8)
      \o W("kernel", \h100000, r.kernel)

boot_multiboot2_kernel(r) == Multiboot2Writes(r)

ia32_boot_multiboot2(r) == Multiboot2Writes(r)

x86_64_boot_multiboot2(r) == Multiboot2Writes(r)

-----------------------------------------------------------------------------
(* The 64-bit ports: ramdisk and command line first, the kernel on top.    *)

PortWrites(r, kernel, initrd, cmdline, params, size) ==
  When(r.initrd > 0, W("initrd", initrd, r.initrd))
    \o When(r.cmdline > 0, W("cmdline", cmdline, r.cmdline + 1))
    \o W("kernel", kernel, r.kernel)
    \o W("params", params, size)

\* With a ramdisk the command line goes a page behind it; without one the
\* sum starts from 0 and gives an address below the RAM of these machines.
PortCmdline(r, initrd) ==
  IF r.initrd > 0 THEN initrd + r.initrd + \h1000 ELSE \h1000

\* The parameters lie 0x1000 structures, not bytes, below the kernel.
aarch64_boot_linux(r) ==
  LET initrd == RAM_BASE + r.kernel + \h10000
  IN  PortWrites(r, RAM_BASE, initrd, PortCmdline(r, initrd),
                 RAM_BASE - \h1000 * 72, 72)

riscv64_boot_linux(r) ==
  LET initrd == RAM_BASE + \h2100000
  IN  PortWrites(r, RAM_BASE + \h200000, initrd, PortCmdline(r, initrd),
                 RAM_BASE, 88)

loongarch64_boot_linux(r) ==
  LET initrd == RAM_BASE + \h400000
  IN  PortWrites(r, RAM_BASE + \h200000, initrd, PortCmdline(r, initrd),
                 RAM_BASE + \h100000, 88)

\* No ramdisk, and the command line behind the place of the device tree.
aarch64_boot_uefi(r) ==
  PortWrites([r EXCEPT !.initrd = 0], RAM_BASE, 0, RAM_BASE + r.kernel + \h10000,
             RAM_BASE - \h1000 * 72, 72)

riscv64_boot_opensbi(r) ==
  PortWrites([r EXCEPT !.initrd = 0], RAM_BASE + \h200000, 0,
             RAM_BASE + \h2100000, RAM_BASE, 88)

loongarch64_boot_uefi(r) ==
  PortWrites([r EXCEPT !.initrd = 0], RAM_BASE + \h200000, 0,
             RAM_BASE + \h400000, RAM_BASE + \h100000, 88)

-----------------------------------------------------------------------------
(* Limine: the loadable segments of an ELF file, each with its BSS.        *)

SegmentWrites(segment, at) ==
  W("kernel", at, segment.filesz)
    \o When(segment.memsz > segment.filesz,
            W("bss", at + segment.filesz, segment.memsz - segment.filesz))

\* Where limine_load_kernel puts an address: the upper half moves to load_addr,
\* which is the entry point itself when that lies in the upper half.
Relocated(r, vaddr) ==
  LET load_addr == IF r.entry >= HIGHER_HALF THEN r.entry ELSE \h200000
  IN  IF vaddr >= HIGHER_HALF THEN vaddr - HIGHER_HALF + load_addr ELSE vaddr

\* The command line is not used, and the responses are not handed over.
limine_load_kernel(r) ==
  FlattenSeq([i \in DOMAIN r.segments |->
                SegmentWrites(r.segments[i], Relocated(r, r.segments[i].vaddr))])

boot_limine_kernel(r) ==
  FlattenSeq([i \in DOMAIN r.segments |->
                SegmentWrites(r.segments[i], r.segments[i].vaddr)])
    \o W("response", \h1000, 16) \o W("file", \h1100, 40)
    \o When(r.cmdline > 0, W("cmdline", \h1300, r.cmdline + 1))

-----------------------------------------------------------------------------
(* Chainloading: a boot sector at 0x7C00.                                  *)

chainload_mbr(r) == W("kernel", \h7C00, 512)

chainload_gpt(r) == W("kernel", \h7C00, 512)

chainload_iso(r) == W("kernel", \h7C00, 2048)

chainload_file(r) ==
  W("kernel", \h7C00, 512)
    \o When(r.kernel > 512, W("rest", \h1000, r.kernel - 512))

boot_chainload_kernel(r) == W("kernel", \h7C00, r.kernel)

-----------------------------------------------------------------------------
LinuxLoaders ==
  {"linux_load_kernel", "boot_linux_kernel", "x86_64_boot_linux", "ia32_boot_linux"}

Ports == {"aarch64_boot_linux", "riscv64_boot_linux", "loongarch64_boot_linux"}

\* The loaders that are handed the kernel, and those that do not look at it.
InMemory ==
  {"boot_linux_kernel", "boot_multiboot1_kernel", "boot_multiboot2_kernel",
   "boot_limine_kernel", "boot_chainload_kernel", "aarch64_boot_uefi",
   "riscv64_boot_opensbi", "loongarch64_boot_uefi"}

Unchecked == InMemory \ {"boot_linux_kernel", "boot_limine_kernel"}

Chainloaders ==
  {"chainload_mbr", "chainload_gpt", "chainload_iso", "chainload_file",
   "boot_chainload_kernel"}

Writes(l, r) ==
  CASE l = "linux_load_kernel"        -> linux_load_kernel(r)
    [] l = "boot_linux_kernel"        -> boot_linux_kernel(r)
    [] l = "x86_64_boot_linux"        -> x86_64_boot_linux(r)
    [] l = "ia32_boot_linux"          -> ia32_boot_linux(r)
    [] l = "multiboot1_load_kernel"   -> multiboot1_load_kernel(r)
    [] l = "multiboot2_load_kernel"   -> multiboot2_load_kernel(r)
    [] l = "boot_multiboot1_kernel"   -> boot_multiboot1_kernel(r)
    [] l = "ia32_boot_multiboot1"     -> ia32_boot_multiboot1(r)
    [] l = "x86_64_boot_multiboot1"   -> x86_64_boot_multiboot1(r)
    [] l = "boot_multiboot2_kernel"   -> boot_multiboot2_kernel(r)
    [] l = "ia32_boot_multiboot2"     -> ia32_boot_multiboot2(r)
    [] l = "x86_64_boot_multiboot2"   -> x86_64_boot_multiboot2(r)
    [] l = "aarch64_boot_linux"       -> aarch64_boot_linux(r)
    [] l = "riscv64_boot_linux"       -> riscv64_boot_linux(r)
    [] l = "loongarch64_boot_linux"   -> loongarch64_boot_linux(r)
    [] l = "aarch64_boot_uefi"        -> aarch64_boot_uefi(r)
    [] l = "riscv64_boot_opensbi"     -> riscv64_boot_opensbi(r)
    [] l = "loongarch64_boot_uefi"    -> loongarch64_boot_uefi(r)
    [] l = "limine_load_kernel"       -> limine_load_kernel(r)
    [] l = "boot_limine_kernel"       -> boot_limine_kernel(r)
    [] l = "chainload_mbr"            -> chainload_mbr(r)
    [] l = "chainload_gpt"            -> chainload_gpt(r)
    [] l = "chainload_iso"            -> chainload_iso(r)
    [] l = "chainload_file"           -> chainload_file(r)
    [] l = "boot_chainload_kernel"    -> boot_chainload_kernel(r)

\* Where the loader jumps.
EntryOf(l, r) ==
  CASE l \in {"multiboot1_load_kernel", "multiboot2_load_kernel"} ->
         IF r.entry > 0 THEN r.entry ELSE IF r.load > 0 THEN r.load ELSE \h100000
    [] l = "aarch64_boot_linux" -> RAM_BASE + r.entry
    [] l \in {"riscv64_boot_linux", "loongarch64_boot_linux"} ->
         RAM_BASE + \h200000 + r.entry
    [] l = "aarch64_boot_uefi" -> RAM_BASE
    [] l \in {"riscv64_boot_opensbi", "loongarch64_boot_uefi"} ->
         RAM_BASE + \h200000
    [] l \in {"limine_load_kernel", "boot_limine_kernel"} -> r.entry
    [] l \in Chainloaders -> \h7C00
    [] OTHER -> \h100000

Init ==
  /\ loader \in Loaders
  /\ request \in Requests[loader]
  /\ stage = "start"
  /\ plan = << >>
  /\ memory = << >>
  /\ entry = 0
  /\ module_count = 0
  /\ rc = 0

Fail ==
  /\ stage' = "return"
  /\ rc' = 1
  /\ UNCHANGED <<loader, request, plan, memory, entry, module_count>>

\* multiboot1_load_module, called before the kernel is loaded.  Every module
\* goes to the same address.
multiboot1_load_module(size) ==
  /\ stage = "start" /\ loader = "multiboot1_load_kernel"
  /\ module_count < MAX_MODULES
  /\ memory' = memory \o W("module", \h200000, size)
                      \o W("module_entry", \h90200 + 16 * module_count, 12)
                      \o W("module_cmdline", \h90300 + 64 * module_count, 10)
  /\ module_count' = module_count + 1
  /\ UNCHANGED <<loader, request, stage, plan, entry, rc>>

\* The file is read into memory the loader does not choose.
LoadFile ==
  /\ stage = "start"
  /\ stage' = "check"
  /\ UNCHANGED <<loader, request, plan, memory, entry, module_count, rc>>

LoadFileFails ==
  /\ stage = "start" /\ loader \notin InMemory
  /\ Fail

\* The magic numbers, signatures and minimal sizes each loader asks for.
CheckImage ==
  /\ stage = "check"
  /\ IF loader \in (LinuxLoaders \cup Ports) \ InMemory /\ request.initrd > 0
     THEN stage' = "initrd" /\ UNCHANGED plan
     ELSE stage' = "write" /\ plan' = Writes(loader, request)
  /\ UNCHANGED <<loader, request, memory, entry, module_count, rc>>

CheckImageFails ==
  /\ stage = "check" /\ loader \notin Unchecked
  /\ Fail

\* A ramdisk that cannot be loaded is left out.
LoadInitrd(loaded) ==
  /\ stage = "initrd"
  /\ LET r == IF loaded THEN request ELSE [request EXCEPT !.initrd = 0]
     IN  /\ request' = r
         /\ plan' = Writes(loader, r)
  /\ stage' = "write"
  /\ UNCHANGED <<loader, memory, entry, module_count, rc>>

WriteNext ==
  /\ stage = "write" /\ plan # << >>
  /\ memory' = Append(memory, Head(plan))
  /\ plan' = Tail(plan)
  /\ UNCHANGED <<loader, request, stage, entry, module_count, rc>>

Jump ==
  /\ stage = "write" /\ plan = << >>
  /\ stage' = "running"
  /\ entry' = EntryOf(loader, request)
  /\ UNCHANGED <<loader, request, plan, memory, module_count, rc>>

KernelReturns ==
  /\ stage = "running"
  /\ stage' = "return"
  /\ UNCHANGED <<loader, request, plan, memory, entry, module_count, rc>>

Next ==
  \/ \E size \in ModuleSizes : multiboot1_load_module(size)
  \/ LoadFile \/ LoadFileFails
  \/ CheckImage \/ CheckImageFails
  \/ \E loaded \in BOOLEAN : LoadInitrd(loaded)
  \/ WriteNext
  \/ Jump
  \/ KernelReturns

Spec == Init /\ [][Next]_vars

-----------------------------------------------------------------------------
(* Properties.                                                             *)

End(w) == w.from + w.size

Overlap(v, w) == v.from < End(w) /\ w.from < End(v)

\* Nothing was written over the i-th write.
Intact(i) == \A j \in i+1..Len(memory) : ~Overlap(memory[i], memory[j])

Delivered(kinds) ==
  \A i \in DOMAIN memory : memory[i].what \in kinds => Intact(i)

Entered == stage = "running"

\* When a loader jumps, no part of the kernel has been written over since it
\* was copied, and the jump lands inside a copied part.
KernelIntact ==
  Entered =>
    /\ Delivered({"kernel"})
    /\ \E i \in DOMAIN memory :
         memory[i].what = "kernel" /\ entry >= memory[i].from /\ entry < End(memory[i])

\* The kernel fits below what was copied before it: the two ports with fixed
\* addresses leave 31 MiB and 2 MiB, the other loaders compute the place.
KernelFits ==
  CASE loader \in {"riscv64_boot_linux", "riscv64_boot_opensbi"} ->
         request.kernel <= \h1F00000
    [] loader \in {"loongarch64_boot_linux", "loongarch64_boot_uefi"} ->
         request.kernel <= \h200000
    [] OTHER -> TRUE

\* Every field, tag and table the kernel is given still holds what the loader
\* put there, and so does the ramdisk as long as the kernel keeps to the space
\* left for it: the structures are laid out so that no assignment undoes an
\* earlier one.
InfoIntact ==
  Entered =>
    /\ Delivered({"cmd_line_ptr", "ramdisk_image", "ramdisk_size", "mem_upper",
                  "ext_mem_k", "flags", "mem_lower", "cmdline_ptr", "boot_device",
                  "mmap", "mmap_length", "mmap_addr", "cmdline_tag", "meminfo",
                  "bootdev", "end", "total_size", "info", "params", "response", "file"})
    /\ KernelFits => Delivered({"initrd"})

\* What the kernel starts from is what the loader put there: its own image and
\* everything it is given, at the addresses every protocol and port computes.
HandoverIntact == KernelIntact /\ InfoIntact

\* The longest command line that survives: the loaders that put it inside the
\* parameter block write fields over it from its 12th or 28th byte on.
CmdlineLimit ==
  CASE loader \in LinuxLoaders ->
         IF request.initrd > 0 THEN 11 ELSE 27
    [] loader = "multiboot1_load_kernel" -> 11
    [] OTHER -> request.cmdline

\* A command line within that limit reaches the kernel unchanged; the limit is
\* exact for the loaders that have one.
CmdlineIntact ==
  Entered /\ KernelFits =>
    (Delivered({"cmdline"}) <=> request.cmdline <= CmdlineLimit)

\* docs/Boot-Protocols.md promises "Command line parameter passing" for the
\* Linux protocol.
CommandLineDelivered ==
  Entered => Delivered({"cmdline"})

\* docs/Boot-Protocols.md promises "initrd/initramfs support".
InitrdDelivered ==
  Entered => Delivered({"initrd"})

\* docs/Boot-Protocols.md promises "Module loading and enumeration" for the
\* Multiboot protocol: each listed module must still be there.
ModulesDelivered ==
  Entered => Delivered({"module"})

\* chainload_file says it loads the rest of a boot loader "to high memory",
\* which at least means above the boot sector it is about to enter.
RestInHighMemory ==
  \A i \in DOMAIN memory : memory[i].what = "rest" => memory[i].from >= \h7C00 + 512

\* limine_load_kernel says "Load kernel to preferred address": the byte it
\* enters is the one the ELF file puts at the entry point.
EntersElfEntry ==
  Entered /\ loader = "limine_load_kernel" =>
    \E i \in DOMAIN request.segments :
      LET s == request.segments[i]
      IN  /\ entry \in s.vaddr .. s.vaddr + s.memsz - 1
          /\ Relocated(request, s.vaddr) = s.vaddr

=============================================================================
