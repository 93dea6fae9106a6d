# A TLA+ model of the BloodHorn boot loader

BloodHorn is a UEFI boot loader in C with a coreboot port, loaders for several
kernel protocols, a small file system layer, network boot and measured boot.
These modules model its control flow, TLC checks them on small instances, and
TLAPS proves most of their safety properties for every value of the constants.

Paths such as `main.c:614` are relative to `src/`.

    tlasany M.tla                         parse a module
    tlc -workers 2 -config X.cfg MC_M     model-check (the cfg names the run)
    tlapm MProofs.tla                     check the proofs

## 1. The system and its parts

Two programs share most of the code.  On UEFI, `UefiMain` (main.c) reads the
configuration, counts down, shows the menu and calls the boot function of the
chosen entry.  A boot function loads and enters a kernel itself, or returns;
when it returns `EFI_SUCCESS`, `kernel.efi` is loaded, checked and entered.  On
coreboot the firmware enters `BloodhornPayloadEntry` (coreboot_payload.c) or
`CorebootMain` (coreboot_main.c), which find the coreboot table first.

| Part | Source | State | Operations | What makes it hard | Module |
|---|---|---|---|---|---|
| Boot menu | boot/menu.c | entry table, hotkeys, selection, window | AddBootEntry, AssignHotkeys, keys, mouse | indices moved by four inputs, wrap-around | BootMenu |
| Configuration | main.c 85-417 | BOOT_CONFIG, open files, pool | LoadBootConfig and the three sources | every call may fail, sources override each other, casts | BootConfig |
| Kernel handoff | main.c 963-1506 | kernel buffer, maps, parameters, boot services | load, verify, choose place, exit, jump | the firmware's map changes; half of the work is after the exit | KernelHandoff |
| Boot flow | main.c 422-958 | countdown, showMenu, result of the menu | UefiMain | boot functions that return in any state | BootFlow |
| Measured boot | security/tpm2.c | device registers, event log, context | measured_boot_*, diagnostics, cleanup | timeouts racing late answers, partial failure | MeasuredBoot |
| Kernel loaders | boot/Arch32/*.c | physical memory | 25 entry points, module loading | copies to fixed addresses land on each other | KernelLoaders |
| Coreboot platform | coreboot/coreboot_platform.c | table, map, framebuffer | search and walk of the table | damaged tables, entries of size 0 | CorebootPlatform |
| Coreboot payload | coreboot/coreboot_payload.c | kernel, parameters, handles | countdown, load, execute, make a payload | failing paths, 16-bit sizes | CorebootPayload, PayloadImage |
| Coreboot main | coreboot/coreboot_main.c | system table, handles | menu, boot functions, load and start an image | may run without a system table | CorebootMain |
| Mount tables | fs/fs_mount.c, fs/fs_common.c | registered types, mounts, volumes | register, mount, unmount, lookup | equal and nested paths, memory running out | FsMount, FsCommon, MountLookup |
| Paths | fs/fs_common.c 68-139 | component array, output buffer | fs_normalize_path | two buffers, `..` at the root | PathNormalize |
| File system drivers | fs/fat32.c, fs/ext2.c, fs/iso9660.c | volume, walk over chains, records or extents, heap | detect, mount, find, read, list, info, unmount | every read and allocation may fail; loops driven by what is on the disk | Fat32, Ext2, Iso9660 |
| BloodChain | boot/Arch32/BloodChain/bloodchain.c | one region of memory | bcbp_init, add_module, set_*, find_module, validate | an array that grows into the strings behind it | BloodChain |
| Network boot | net/pxe.c, net/uefi_network.cpp, net/arp.c | PXE stack, client, buffers, ARP cache | discover, download, boot, ping, resolve | failing transfers, late and repeated answers | Pxe, Arp |
| Cryptography | security/crypto.c, security/aes.c | hash context, derived key, message buffers | init, update, final; PBKDF2; CBC and GCM | blocks filled across calls, padding, the last partial block, buffers that are one and the same | Sha256, Pbkdf2, AesModes |
| Signature check | boot/secure.c, uefi/uefi.c | file handles, buffers, image | read, verify, load, start | a buffer passed through three functions, each of which may fail | SecureLoad |
| BloodHorn library | boot/libb/bloodhorn.c | system table, count of users | initialize, shutdown, calls, copies | several users, a table lent by one of them | LibB |
| Strings | boot/localization.c | table of translations | SetLanguage, GetLocalizedString | counted in one pass, filled in another, allocations failing | Localization |
| Fonts | boot/font.c | cache, default font, heap | init, load, set default, unload, clear, shut down | pointers to one font in several places, loops over a cache that shrinks | Font |

PROJECT.json lists all parts, the ones left out with their reason, and for
every definition the lines it stands for.  `src/Edk2BHModules` is a vendored copy
of EDK2, far larger than the boot loader; it is outside this project.

## 2. Modules and how they correspond to the code

Every action is a handler, or the piece of one between two points at which the
outside world can act or a call can fail.  A parameter of an action
(`ok`, `allocated`, `loaded`) is the outcome of an external call.  Program
positions are strings in `pc`, `kpc`, `upc` or `stage`.

**BootMenu.**  `AddBootEntry` and `AssignHotkey` build the table.  The loop of
`ShowBootMenu` is `DrawBootMenu`, then `MouseAway` or `MouseOver`, then a key:
`KeyHotkey`, `KeyEnter`, `KeyUp`, `KeyDown`, `KeyEsc`, `KeyOther`, or
`KeyError`.  A name is a sequence of character codes because the choice of
hotkeys depends on them; `screen` is what was drawn last.

**BootConfig.**  One action per step of `ReadWholeFileAscii` and per INI line,
JSON file and firmware variable.  A text is a record of its origin and its
length, which is all `AsciiStrCpyS` and the buffer sizes tell apart.  Widths of
`int` and `UINTN` are constants, so that the cast of the timeout wraps.  The
reference definition `Effective` looks back over the sources instead of running
through them.

**HandoffContract** says with a phase and a flag for boot services what a
handoff promises: load, check, leave the firmware at most once, run, or give up.
**KernelHandoff** is the code from `LoadAndVerifyKernel` to the jump.  The
firmware is a process beside it: `FirmwareChangesMap` makes the map key stale at
any moment before the exit.  Addresses are counted in pages.  A file is
`genuine` when its digest equals the enrolled one.  `ImplementsContract` maps
`kpc` to the phases of the contract.

**BootFlow** extends KernelHandoff with `UefiMain` around it: `HandoffStep` runs
the handoff while `UefiMain` waits for it.  The menu entries
are grouped by what their boot function can do.

**MeasuredBoot** has two processes, the driver and the TPM.  The TPM becomes
ready, executes and answers when it likes, or never.  Each poll of a register is
a step.  A digest is the number of the call that made it, so a PCR is the
sequence of digests extended into it.  `EVENT_SIZE` and the sizes of data and
description are all that is left of an event, and the tests of the capacity are
computed modulo `UINT32`, as in the code; a copy past the end of a buffer ends the
behaviour (`Overruns`, `LogOverrun`).  tpm2.c spells a few identifiers in two
ways (`g_tmp_initialized`, `tmp_read8`, `tmp2_measure_file`); they are taken for
the declared ones.

**KernelLoaders** turns each loader into the sequence of its writes
`[what, from, size]`, in the order of the code and with the offsets the
structures have.  `LoadFile`, `CheckImage`, `LoadInitrd`, `WriteNext`, `Jump`
and `KernelReturns` execute it.

**CorebootPlatform** searches and walks the table; **CorebootPayload** extends
it with the payload proper; **CorebootMain** is the other coreboot program and
**PayloadImage** the tool that makes a payload file.  The size of a kernel file is
cut to 32 bits where the code does it (`UINT32`).  The eighth entry of the menu of
coreboot_main.c is left out, since no file defines its boot function
(`ExitToCorebootWrapper`, coreboot_main.c:48).  **MC_Coreboot** extends the modules
of the port and puts its programs side by side: the firmware enters one of them.

**LibB** counts initializations by several users.  A system table is lent by the
scope that declares it and dies with it (`ScopeEnds`); a call goes through
whatever table is kept.  The copies run byte by byte over a few cells.

**MountLookup** is the longest-prefix lookup that both mount tables use;
**FsMount** appends to its table, **FsCommon** prepends and keeps registrations
in the same list.  `fs_unmount` of fs_common.c may pass the literal `"/"` of a
registration to `kfree`; in the model that call returns or never does.
**FsLayer** puts the tables and the normalization together, the state of the two
tables kept apart.  **PathNormalize** is `fs_normalize_path`, with `walked`, the
place the path leads to, as the reference.

**Fat32**, **Ext2** and **Iso9660** are the drivers, with the variables of
**FsDriver**: a volume is detected and
mounted, one operation runs, and the volume is unmounted.  A disk is a record of
what the driver reads from it, a byte of a file is its place on the disk, so that
`buf` shows where each byte the caller received comes from.  Every disk read and
every allocation may fail.  The recursion of `iso9660_find_entry` is a stack of
directory buffers.  32-bit sums wrap (`UINT32`).  Sector, cluster and block sizes
come from the disk as in the code.  A division by zero ends at `crashed`, a copy
past a buffer at `overrun`; what a buffer holds that was not filled, or lies behind
the sector on the stack (`Stack`), is a choice.  fat32.c reads 512 bytes per sector
whatever `bytes_per_sector` says.  iso9660.c counts extents from sector 16 of the
volume, cuts the extent of the root directory to a byte, and rounds the path table
up to whole blocks after allocating its bytes.  Its structure for the descriptor
has one field where ISO 9660 stores a number in both byte orders, so the fields lie
elsewhere than on a standard volume: a disk of the model is what that structure
reads.  Path components are taken to be shorter than its 256 bytes.
**MC_Filesystem** puts FsLayer and the three drivers side by side.

**BloodChain** keeps the region behind the header as bytes, because that is where
structures and strings meet; fields and strings are read back from them.

**Pxe** is `pxe_boot_kernel` and the C++ client that calls it; **Arp** is
`arp_resolve` with its one-entry cache, and the ping.  `wire` holds the packets
on their way: a request may be answered at any time, never, or again.  Pxe extends
Arp, and `NetworkSpec` runs one or the other.
**MC_KernelLoaders** puts the loaders, BloodChain and the network side by side.

**Sha256** tracks which bytes the buffer holds and which blocks were compressed;
the compression function is a symbol, so the hash state is the sequence of blocks
that entered it.  `crypto_sha256_final` calls the update on its own buffer, as
the code does.  **Pbkdf2** treats a MAC as the term that was computed.
**AesModes** does the same for the block cipher, its inverse and GHASH: a byte is
the set of terms it is the exclusive or of, in buffers that may coincide.
**SecureLoad** is the way from `ReadFile` through the signature check to
`StartImage`.  **MC_Security** puts them beside MeasuredBoot.

**Localization** is the count and the fill of the string table, line by line.  A
line is a pair, a comment, or a comment that contains an equals sign.
**Font** keeps every font ever allocated, the set of those not freed, and all the
pointers to them; the loops of `ShutdownFontSystem` and `ClearFontCache` take one
step per index, because `UnloadFont` moves the entries under them.
**MC_BootMenu** puts both beside the menu.

In the side-by-side modules one part runs and the others stay at an initial
state; the parts share no state in the code, so nothing is lost.

## 3. What the runs check

| Run | Result | What it shows |
|---|---|---|
| boot_menu | pass | `MenuIndicesValid`, `HotkeysDistinct`, `ArrowKeepsVisible`; `LocaleSound`; `FontsSound` |
| boot_config | pass | `FinalConfigCorrect` against the reference definition, `ReleasedAtEnd` |
| kernel_handoff | pass | `JumpReady`, `CorebootFailsBeforeExit`, `HandoffReleased`, refinement `ImplementsContract` |
| boot_flow | pass | `AutobootAfterFullCountdown`, `HandoffHasBootServices`, `PromptUsable` |
| security | pass | TPM: `LogFollowsExtends`, `ReportsBacked`, liveness `CallReturns`; SHA-256: `StreamIntact`, `DigestDetermined`; PBKDF2: `KeyDerived`; AES: `RoundTrip`; `SecureLoadSound` |
| kernel_loaders | pass | `HandoverIntact`, `CmdlineIntact`; BloodChain: `ModulesIntact`; network: `NetworkDelivered`, liveness `NetworkReturns` |
| filesystem | pass | `BufferRespected`, `AbsoluteCorrect`, `VolumesLive`, `NeverShadowed`; drivers: `DriverReads`, `DriverReleases`, liveness `DriverReturns` |
| coreboot | pass | `MapInsideEntry`, `JumpJustified`, `PortReleases`, `HeaderDescribesFile`, liveness `PayloadRunEnds`; library: `LibrarySound` |
| boot_config_priority | violation | CONFIG.md:94 gives INI the highest priority; the code gives it the lowest: the kernel of the INI file is replaced by that of a firmware variable |
| loader_cmdline | violation | docs/Boot-Protocols.md:39 promises the command line; linux.c writes `ramdisk_image` and `ramdisk_size` over a line of 17 characters (the length of `root=/dev/sda1 ro`, stage2.asm:174) |
| filesystem_root | violation | fs_mount.h gives `/` as a mount path; the lookup serves only `/` itself |
| sha256_digest | violation | crypto.c:363 quotes the SHA-256 of "abc"; the last padded block is compressed twice |

Every property has a mutant: a plausible slip in one definition (an off-by-one, a
dropped guard, a missing release) that makes TLC find the property violated.

What some of the properties say:

- `LogFollowsExtends`: each entry of the event log stands for an extend the TPM
  executed, in the order of the extends, and a copy leaves its buffer only for an
  event that takes the size of the log past 2^32.  It says nothing of digests, and
  the log does not replay to the PCRs: `tpm2_measure_data` extends SHA-256 of the
  data and logs the first 20 bytes of SHA-256 of the data and its description.
- `JumpJustified`: the kernel's file was read and is not empty, and its size modulo
  2^32, which is what the parameters say, is not 0; a file whose size is a multiple
  of 2^32 is refused.
- `DriverReads`: on a sound volume a read delivers exactly the bytes of the file
  from the offset on, as many as asked for or as there are, a list the live
  names, never more than the caller's array holds.  Sound means for FAT32 sectors of
  512 bytes and chains that hold what the entries say; for ISO 9660 blocks that are
  whole sectors, extents counted from sector 16 and a root directory below block
  256; and the request, rounded up to whole blocks, fits 32 bits and is not empty.
  On other volumes the property says when a buffer can be left and when the driver
  divides by zero.  ext2 is held only to the
  bytes up to the end of the first block from offset 0, since it does not look at
  the offset and repeats that block (`ReadHonoursOffset` and `ReadStaysInBuffer`
  in section 7).
- `DriverReleases`, `DriverReturns`: every way out frees what the operation
  allocated; every operation returns on FAT chains that end, on ext2 directories
  whose unused records have a length, and on ISO images with blocks of whole
  sectors and extents that the 32-bit offset can step through.
- `ModulesIntact`: adding modules never damages a module structure.
- `NetworkDelivered`: a protocol is entered only with every file asked for read
  whole by this very call; the ARP cache and every resolution hold an address
  that was claimed for that host.
- `StreamIntact`: the compressed blocks and the buffered bytes are the message,
  however it was cut.  `DigestDetermined`: the digest depends on the message
  alone.  (It is not SHA-256 of it: run sha256_digest.)
- `SecureLoadSound`: with secure boot on, an image is started only from the
  buffer whose signature was accepted, and a refused buffer is freed once.
- `LibrarySound`: the library stays initialized until its last user shuts it
  down, and overlapping copies come out as if made through a second buffer.
- `PromptUsable`: the final prompt is reached without boot services only after a
  BloodChain kernel that returned, a kernel that ran, or a refusal on the UEFI
  path after the exit.
- `LocaleSound`: the table never holds more pairs than were counted for it, and
  no lookup reaches a freed string.
- `FontsSound`: fonts loaded past the limit of the cache, made the default and
  unloaded in any order are never used or freed again once they are gone.  It
  excludes three steps, each of which alone makes TLC find memory freed twice or
  a static table freed: unloading the font in use or a built-in one (which
  `LoadFontFile` returns when it falls back), shutting down with a replaced
  default font, and `ClearFontCache`.
- `RoundTrip`: what CBC and GCM encrypt is decrypted again, partial last blocks
  and shared buffers included, and a refused tag leaves the output alone.  It
  excludes CBC decryption in place and GCM vectors of other than twelve bytes.
- `ReportsBacked`: the event log holds a measurement exactly when the call that
  made it returned 0, and the context counts no measurement that the TPM did not
  execute.  `HandoverIntact`: the kernel and all it is given are intact.

Some properties describe the code with its limits rather than an ideal.
`CmdlineIntact` says up to which length a command line survives (27 characters,
11 with a ramdisk or Multiboot 1), and that the limit is exact.
`HandoverIntact` promises the ramdisk only to kernels that fit the gap left for them
(`KernelFits`).  `ReleasedAtEnd`, `HandoffReleased` and `PortReleases` name what
the code does leave behind: the volume handle, the buffer of an empty
configuration file, the map of a failed second `GetMemoryMap`, the buffer of a
kernel that could not be started.

## 4. Bounds, and why they are enough

- *BootMenu*: four entries, a window of two, so there is scrolling at both ends
  and an entry outside the window on either side; names that share letters, and
  one without an ASCII letter.
- *BootConfig*: the real buffer sizes; INI files of three lines, enough for a
  header, a value and a second value or header that changes its meaning; values
  that fit exactly and that are one too long.  `INT_BITS = 10` and
  `UINTN_BITS = 12` keep the proportion that makes the cast wrap.
- *KernelHandoff*: files of 0, 1 and 3 pages; maps with no region, a region at
  address 0, a tie, one too small before one that fits.  Nothing in the code
  depends on more than two regions.
- *BootFlow*: timeouts of 0, 1 and 3 seconds with the real ten polls.
- *MeasuredBoot*: two polls per loop (success in the last poll, and before it),
  two separators instead of eight, a log whose two capacities are both hit, files
  whose size wraps the 32-bit sum (`UINT32` is scaled down), and three API calls,
  enough to initialize, fail, initialize again and measure.
- *KernelLoaders*: the real addresses for x86; those of the 64-bit ports are
  moved down to `RAM_BASE` and `HIGHER_HALF` with their distances kept.  Command
  lines of 11, 12, 17, 27, 28 and 300 characters and kernels at and one byte
  above the limits.  Chainloaded files end below the boot sector.
- *Coreboot*: three places for a table, each absent, damaged in one of two ways
  or sound; tables with the largest region reserved, at 0, and none; a walk of at
  most four entries instead of 128; binaries around a block and around 16 bits
  of blocks; kernels of 0 bytes, and below, at and above `UINT32` = 1024.
- *Library*: two users, three initializations, five cells of memory, so that copies
  overlap in both directions and miss each other.
- *Drivers*: volumes of a few clusters or blocks with files of one to three of
  them, a directory that continues in a second cluster, deleted, long-name and
  unused records, chains that are cut, leave the volume or form a ring, images
  without a primary descriptor; sizes of 0, 1, just a block, past the end, and the
  largest 32-bit number.  Twelve FAT32 disks, with sectors twice as long or one
  byte shorter than what is read, and with no sectors per cluster; thirteen ISO
  images, with blocks of 0 bytes, of less than a sector, of one and of two, extents
  counted from the volume's start and from where the driver counts them, a root past
  block `BYTE`, a path table shorter than a block and an extent of the largest
  32-bit size.  A sector has 2 bytes for FAT32 and `ISO_SECTOR` = 4 for ISO 9660,
  where half a sector matters; an entry of the table `ENTRY_SIZE` = 1, and the stack
  behind the sector holds a cluster of a file, one past the volume, or an end mark.
- *BloodChain*: three modules, with and without command lines, in memory that was
  zero or full of ones; names short enough to be overwritten whole and long enough
  to be cut.
- *Network*: files that fit the default buffer or do not; two hosts with two
  hardware addresses, two retries and two polls, two packets on the wire.
- *SHA-256*: blocks of 4 bytes with a length of 2, messages of up to 9 bytes in
  every division, so that the padding fits the last block, fills it, or needs one
  more.  *PBKDF2*: hashes of 2 bytes, keys from 0 to over two blocks.
- *SecureLoad*: files shorter than, equal to and longer than a signature.
- *AesModes*: blocks of 2 bytes, messages of 0 to 3 blocks with and without rest,
  encryption and decryption in place and not.
- *Font*: a cache of three, seven calls, up to seven fonts, so that the cache
  overflows, or the system is set up twice, or every font is loaded, set, unloaded
  and shut down.
- *Localization*: two languages, three changes of language, six files.
- *File system*: paths of at most five components over two names, `.` and `..`;
  an array of two components; buffers that just hold or just miss; three nested
  mount paths, three mounts, room for three types.

In distinct states: boot_menu 666,865; boot_config 1,074,760; kernel_handoff
6,024; boot_flow 418,384; security 87,887; kernel_loaders 195,953; filesystem
59,434; coreboot 41,882.  Deadlock is not checked where a program really ends: in
a kernel, a reset, or by returning.

## 5. Fairness

`CallReturns` (security) assumes weak fairness of the driver's steps only: the
processor goes on executing a function that was called.  Nothing is assumed of
the TPM, which may never become ready.  `PayloadRunEnds` (coreboot),
`NetworkReturns` (kernel_loaders) and `DriverReturns` (filesystem) assume the same
of the steps of the called function, with nothing assumed of keys, of packets
arriving, of disk reads succeeding, or of a kernel that was entered.  All other
properties are safety properties.

## 6. What is proved

TLAPS checks these for every value of the constants that meets the `ASSUME` of
the module.  The assumptions say what the types of the code say (sizes and counts
are natural numbers, a buffer is not empty, a length field fits a block), that
the default timeout is within its limit, that English is one of the languages,
that the cache has room for the three built-in fonts, that `.` and `..` are no
names, that a hardware address is not empty, that the separators are for PCRs
below the two the loader measures into, and that a memory tag of a coreboot table
has the regions its size says.

**ConfigMenuProofs**, on BootConfig (any buffer sizes, widths, files and
failures): `ReleaseCorrect` and `ConfigCorrect`.  `Held` says at which position a
file can be open and a block allocated.  `Progress` relates the configuration to
the sources that are done: before a source it is what the reference definition
says of the earlier ones, and inside a file what it says of the lines so far; one
lemma per source (`IniLineStep`, `JsonStep`, `EnvStep`, `ClampStep`) moves it on.
On BootMenu (any table and window size, any names): `TypeCorrect`,
`IndicesCorrect`, `ArrowsCorrect`, `HotkeysCorrect`.  Validity of the indices is
strengthened (`IndexInv`) with the selection and the window being at the top
until the menu opens, which the opening step needs.  `ArrowsCorrect` follows from
it one step at a time.  Distinctness of the hotkeys is inductive given the
types; it rests on the lemma `FirstUnusedFresh`, that the key found for a name is
zero or one no earlier entry has.  On Localization (any languages and files):
`LocaleCorrect`.  `LocInv` says that the table holds the pairs of the lines read
so far in their order; `RoomOK` that it has as many entries as there were such
lines, which the count made before (`KeptCounted`) bounds.

**BootFlowProofs**, on KernelHandoff (any files, maps and framebuffers):
`TypeCorrect`, `JumpCorrect`, `CorebootCorrect`, `ReleaseCorrect` and the
refinement `HandoffImplementsContract`.  `JumpReady` is not inductive: what it
asks for at the jump was established in earlier functions.  `Resources` records
which buffers and handles live at which position and whether boot services do;
`Knowledge` records what has been checked by then: the hash after verification,
on coreboot the size and the framebuffer after the first validation, and that the
parameters rebuilt after the exit repeat them.  The refinement proof takes one
action at a time and needs the invariant only to know that services exist before
the exit.  On BootFlow (any timeout and polling rate as well): `AutobootCorrect`,
`HandoffServicesCorrect`, `PromptCorrect`, `FlowJumpCorrect`.  `Countdown` counts
the silent polls by the seconds that passed.  `Embedding` carries the invariant of
the handoff through the whole of `UefiMain`, except after a BloodChain kernel was
entered, and from there no path leads to the handoff.  So what was proved of the
handoff alone is true of the composition.  On Font (any size of the cache, any
files, fonts and calls): `FontsCorrect`.  `FontsSound` is strengthened (`Careful`
in `FontInv`) with what the end of a shutdown relies on from its start: no caller
holds a font, the default font is the built-in one, and the two other pointers
never name a loaded font.  `Removed` is the lemma about the cache: since it holds
a font at most once, the entry `UnloadFont` finds is the only one, and moving the
rest up keeps them distinct.  `Appended` carries the arithmetic of the glyph table.

**MeasuredBootProofs** (any number of polls, calls, events, any sizes):
`TpmInvariant`, `LogCorrect`, `ReportsCorrect`.  The heart is `Serial`: a command
is sent only to a TPM that is ready, so an extend that the driver gave up on is
executed before the next is sent, extends are executed in the order they were
issued, and of a command still under way there is at most one.  `Answered` adds
that a successful answer belongs to the command at hand.  From these the log is an
order-preserving part of the executed extends.  `Backed` needs them for the
counts: a late execution may add an extend nobody reported, never the other way
round.

**FilesystemProofs**, on PathNormalize (any array size, buffer size and name
lengths): `BufferCorrect`, `AbsoluteNormalized`.  The inductive invariant `IInv`
says that until the first failure the components of an absolute path equal the
place walked to, that `out` is a prefix of them, and that a byte remains for the
terminator.  Without the prefix part the copy loop does not preserve the result.
On the two tables (any types, paths, table sizes and number of mounts):
`VolumesLiveCorrect`, `NeverShadowedCorrect`.  `TableInv` and `ListInv` number the
volumes, so that a new one is none of those alive, and give registrations the
number 0.  That a mount takes over only what it is deeper for rests on lemmas
about the lookup: it returns the longest match, of equal ones the first, whatever
is added in front or behind or taken away.

**DriverProofs**, on the three drivers (any disks and calls): `DriversRelease`,
with one set of allocations per position (`FatHeap`, `ExtHeap`, `IsoHeap`; for
ISO 9660 as many directory buffers as calls of the search have not returned), and
`LayerParts`, by which the theorems of FilesystemProofs hold in the specification
the run checks.  A call that crashes or leaves a buffer has no way out, and nothing
is said of it.  On the network (any hosts, files, number of calls and packets):
`NetworkCorrect`.  `NetInv` says which files this call has read at each
position; `WireInv` that every packet on the wire was asked for or makes a claim
that is recorded, which is what makes a late answer harmless.

**SecurityProofs**: `SecureLoadCorrect` (`LoadInv`: what may be held at each
position, and that after the check the verified bytes are the ones in the
buffer); `KeyCorrect` (any hash size, key length and number of iterations; the
lemmas `BlocksNeeded` and `CopyLenIs` are about the rounding up to blocks);
`StreamTheorem` (any block size, any division of any message: the update loses,
repeats and reorders nothing; `ChunkFits` says that no chunk passes the end of the
buffer, `CompressedBytes` that compressing moves the buffer's bytes to the
stream); `DigestCorrect` (`PadInv` follows `crypto_sha256_final` through one or
two blocks of padding, including the block that is compressed twice).

**CorebootProofs** (any memory, tables, files and sizes): `PortCorrect`,
`PortReleasesCorrect`, `MapInsideEntryCorrect`, `JumpJustifiedCorrect`,
`HeaderCorrect`.  The invariant `PortInv` has a part for each piece of work:
`SearchInv` (no sound table before the place the search has reached), `WalkInv`
(the map is that of the memory tag passed last), `HeldInv` and `MainInv` (what is
held at each position, and what the result says of it), `JumpInv` (what the
checks before the jump have established), `ImageInv`.  `MapInsideEntry` needs the
fact that dividing the size of a tag, its header included, by the size of a region
gives the number of regions.

**LibraryProofs**, on AesModes (any block size, length and choice of buffers):
`RoundTripCorrect`.  `CbcInv` and `GcmInv` say up to where the ciphertext or the
plaintext has come, that nothing still to be read has been overwritten, and what
the chaining value is; `DecryptsBlock` and `XorTwice` are the two facts about
blocks.  On LibB (any users, memory and sizes): `LibraryCorrect`.  `CountInv`
counts the users, and `MoveInv` says which cells a copy from below, a copy from
above, a fill or a string copy has written and that the others are as they were,
which for overlapping memory depends on the direction.

The type invariants of BootMenu, KernelHandoff, PathNormalize and Sha256 are
proved and therefore not checked by the runs.

Only model-checked:

- the liveness properties `CallReturns`, `NetworkReturns`, `PayloadRunEnds` and
  `DriverReturns`: liveness under fairness is out of the prover's reach;
- `HandoverIntact`, `CmdlineIntact` and `ModulesIntact`: what a sequence of writes
  leaves in memory is a fold over the sequence, and what a fold computes for every
  input needs an induction that the installed provers cannot instantiate;
- `DriverReads`: the same for chains of clusters and for directories that are
  joined from blocks;
- the four refuted properties of the runs that expect a violation, and the
  statements of section 7.

## 7. Statements of comments and documents that the code does not meet

Besides the four runs above, the modules keep the following statements.  TLC
refutes each of them: replace the properties of the cfg by the one named (with a
one-line definition in the MC module where it belongs to an instance).

| Statement | Says | Code |
|---|---|---|
| BootMenu!EnterBootsHighlighted | USAGE.md:27 "Enter to boot the selected entry" | boot/menu.c:206, the mouse moves the selection after the drawing |
| KernelHandoff!ParamsFollowKernel | main.c:1133 "4KB after kernel" | parameters follow a region that the kernel is not copied to |
| BootFlow!RebootPromptUsable | main.c:625 "Press any key to reboot..." | main.c:1359, a refusal after the exit leads to a prompt without boot services |
| MeasuredBoot!MaskedPcrUsed | security/tpm2.h:230 "Bitmask of used PCRs" | security/tpm2.c:405, results of separators ignored |
| MeasuredBoot!TimeoutMeansNoLocality | security/tpm2.c:105 "Failed to acquire locality" | success in the last poll counts as a timeout |
| KernelLoaders!InitrdDelivered | docs/Boot-Protocols.md:40 "initrd/initramfs support" | boot/Arch32/loongarch64.c:103, a kernel above 2 MiB runs into it |
| KernelLoaders!ModulesDelivered | docs/Boot-Protocols.md:57 "Module loading and enumeration" | boot/Arch32/multiboot1.c:182, all modules go to one address |
| KernelLoaders!RestInHighMemory | boot/Arch32/chainload.c:136 "load the rest to high memory" | copied to 0x1000 (`BOOT_SECTOR_FILES <- GrubImage`) |
| KernelLoaders!EntersElfEntry | boot/Arch32/limine.c:142 "Load kernel to preferred address" | boot/Arch32/limine.c:144, relocated segments |
| BootFlow!KernelFailureEntersRecovery | USAGE.md:626 "BloodHorn enters recovery if kernel fails to load" | main.c:622, a prompt and a reset |
| CorebootPlatform!AbsentTableReported | coreboot/coreboot_platform.c:170 "Coreboot table not found" | the search pointer is never NULL |
| CorebootPayload!KeyCancelsCountdown | coreboot/coreboot_payload.c:181 "(press key to cancel)" | no key is read |
| CorebootPayload!ParamsDescribeKernel | coreboot/coreboot_payload.c:414 "Kernel base address" | the kernel is entered in its pool buffer |
| CorebootMain!MinimalEnvironmentUsable | coreboot/coreboot_main.c:62 "assume we're running in a minimal environment" | coreboot/coreboot_main.c:293 calls through `gBS` |
| CorebootMain!PromptMeansFailure | coreboot/coreboot_main.c:169 "No bootable device found or kernel failed." | `gImageHandle` is never assigned, LoadImage refuses a sound kernel |
| PayloadImage!CreatedPayloadValidates | coreboot/coreboot_payload.c:430 "Create payload binary with proper header" | the checksum is computed before and checked after it is part of the header |
| PathNormalize!RelativeKeepsParents | fs/fs_common.c:92 "For relative paths, keep the .. at the beginning" | fs/fs_common.c:89, a second `..` removes the first |
| FsCommon!RegistrationServesNothing | fs/fs_common.c:156 "Dummy path for registration" | the lookup finds registrations |
| Fat32!NestedFound | fs/fat32.c:295 "Otherwise, continue with next component" | the search starts again at the root directory |
| Ext2!ListAlwaysReturns | fs/ext2.c:294 "Prevent infinite loop" | fs/ext2.c:275, an unused record of length 0 is skipped before the test |
| Ext2!DescriptorsAfterSuperblock | fs/ext2.c:57 "starts at first block after superblock" | fs/ext2.c:58, wrong for both 1 KiB and larger blocks |
| Ext2!ReadHonoursOffset | fs/fs_common.h:48, the offset parameter of read_file | fs/ext2.c:343, the offset is not used, each block is the first one |
| Ext2!ReadStaysInBuffer | fs/ext2.c:190, the size of a chunk | fs/ext2.c:191 reads a whole block for it |
| Iso9660!DetectedMounts | fs/iso9660.c:50 "starting at sector 16" | fs/iso9660.c:123 has added 16 already |
| Iso9660!EmptyReadInside | fs/iso9660.c:249 "Adjust size to not read beyond file" | fs/iso9660.c:254, a read of size 0 computes the block before |
| Iso9660!StandardReads | fs/iso9660.c:123 "Skip the first 16 sectors (system area)" | fs/iso9660.c:30 counts extents from there, a volume counts them from its start |
| Iso9660!AnyRootReads | (the root directory may lie in any block) | fs/iso9660.c:237, its extent is cut to the first byte |
| Iso9660!PathTableFits | fs/iso9660.c:80 "Allocate memory for path table" | fs/iso9660.c:88, whole blocks are read into a buffer of path_table_size bytes |
| FsCommon!FreesAllocated | fs/fs_common.c:224 "Free mount point resources" | fs/fs_common.c:226, the path of a registration is a literal (:156) |
| SecureLoad!SuccessHasBuffer | uefi/uefi.c:69 "The file was read successfully" | uefi/uefi.c:105, InfoSize is not initialized, and GetInfo may succeed at once |
| BloodChain!NamesFound, CmdlinesKept | bloodchain.h:69 "will be copied", :71 "Command line string for the module" | bloodchain.c:78, the array grows over the strings of earlier modules |
| BloodChain!BuiltIsValid | bloodchain.h:89 "0 if valid" | bloodchain.c:148, the memory counted leaves out the gaps between strings |
| Pxe!BuffersReturned | (every other failing path frees its buffers) | net/pxe.c:96, a failed transfer keeps them |
| Pxe!DefaultOnlyIfUnknown | net/pxe.c:87 "Default 1MB if size unknown" | a file of 65535 bytes is taken for one of unknown size |
| Arp!ReplyFromHost | recovery/shell_net.c:16 "Reply from %s" | net/pxe.c:201, a late answer of another host is accepted |
| LibB!CallsReachLiveTable | docs/Library-API.md:15 | coreboot/coreboot_main.c:118, the table is a local of an inner block |
| LibB!LentTableUsed | docs/Library-API.md:16 | boot/libb/bloodhorn.c:237, the first table is kept after the last shutdown |
| Font!NeverFault | boot/font.h:83, UnloadFont of what LoadFontFile returned | boot/font.c:412 frees the static table of a built-in font; boot/font.c:128 frees a replaced default font again |
| Font!ShutdownFreesAll | (every cached font is to be unloaded) | boot/font.c:121, the index passes over every second font |
| Font!ClearKeepsBuiltins | boot/font.c:429 "Keep the three built-in fonts" | the cache holds no built-in font; the count covers stale pointers |
| Font!BuiltinGlyphsInTable | boot/font.c:20 "(ASCII 32-126)" | the table has six glyphs, glyphs are read up to the 95th |
| AesModes!EveryVectorOpens | security/aes.c:363 "For IV lengths != 12, use GHASH" | security/aes.c:464, the decryption does not |
| AesModes!CiphertextKept | security/aes.c:451, `const uint8_t* ciphertext` | security/aes.c:488 writes to it, other bytes unless the vector has twelve |
| AesModes!InPlaceDecrypts | (CBC encrypts in place) | security/aes.c:287 reads the chain after the output was written over it |
| Localization!CountsPairs | boot/localization.c:82 "Count lines with '='" | every line before the last pair is counted |
| Localization!KeysReturned | (the values of a table are freed) | boot/localization.c:38, the keys are not |
| Localization!FallsBack | boot/localization.c:140 "Fallback to built-ins" | boot/localization.c:107, a table that could not be allocated is written to |

## 8. What could be added

- The overlap of the boot parameters with the kernel buffer (main.c:1133), by
  giving the buffers of KernelHandoff an extent.
- The digests of the event log, which would make the difference between what is
  extended and what is logged (section 3) a property.
- ext2 reads of more than one block, once the driver looks at the offset.

## 9. Not modelled

- Vendored EDK2 (`src/Edk2BHModules`): third-party code, and by far most of the
  lines under `src/`.  What the boot loader uses of it is external: allocations,
  file operations, the memory map, keys, string functions.
- Assembly and BIOS code: straight-line mode switches below the C code.
- Drawing, themes, the mouse pointer: output only.
- Plugins: written against `dlopen`, which the firmware does not have.  Scripting:
  a small stack machine (lua.c) and two tables of 16 entries, each with a single
  user; nothing in main.c runs a script.
- The recovery shell beyond its entry: reads, dispatches and prints.
- The helpers under config/: main.c reads its configuration itself.
- net/dhcp.c, net/tftp.c and net/net_utils.c: build and parse single packets.
- The arithmetic of digests, ciphers and signatures, SHA-512 and entropy.
- The number formatting and the comparisons of the BloodHorn library.

`strdup` in fs_mount.c:67 is taken to succeed.  Memory consumption of leaked
buffers over many boots is not tracked, since a boot ends in a kernel or a reset.
