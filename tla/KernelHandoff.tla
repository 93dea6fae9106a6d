---------------------------- MODULE KernelHandoff ---------------------------
(***************************************************************************)
(* The default boot path of main.c: LoadAndVerifyKernel reads kernel.efi   *)
(* and checks its hash when one is enrolled; ExecuteKernel chooses where   *)
(* the boot parameters go (from the coreboot tables or from the UEFI       *)
(* memory map), leaves boot services, builds and validates the parameters  *)
(* and jumps.                                                              *)
(*                                                                         *)
(* Addresses and sizes are counted in pages.  The firmware is external: it *)
(* may refuse any allocation or read, it may change its memory map between *)
(* GetMemoryMap and ExitBootServices, and it refuses ExitBootServices with *)
(* a stale map key.                                                        *)
(***************************************************************************)
EXTENDS Integers, Sequences, FiniteSets

CONSTANTS
  KernelFiles,    \* what kernel.efi may be: [size, genuine]
  BufferAddrs,    \* where the pool may place the kernel buffer
  CorebootMaps,   \* coreboot memory maps: sequences of [ram, addr, size]
  UefiMaps,       \* UEFI memory maps: sequences of [conventional, start, pages]
  Framebuffers,   \* framebuffers: [addr, width, height]
  DEFAULT_BASE,   \* 0x100000, used when no conventional region fits
  PARAMS_OFFSET   \* 0x1000, distance of the parameters from the chosen base

NoFramebuffer == [addr |-> 0, width |-> 0, height |-> 0, absent |-> TRUE]

ASSUME HandoffAssumption ==
  /\ KernelFiles \subseteq [size : Nat, genuine : BOOLEAN]
  /\ BufferAddrs \subseteq Nat \ {0}
  /\ CorebootMaps \subseteq Seq([ram : BOOLEAN, addr : Nat, size : Nat])
  /\ UefiMaps \subseteq Seq([conventional : BOOLEAN, start : Nat, pages : Nat])
  /\ \A fb \in Framebuffers :
       fb \in [addr : Nat, width : Nat, height : Nat, absent : {FALSE}]
  /\ DEFAULT_BASE \in Nat \ {0}
  /\ PARAMS_OFFSET \in Nat

VARIABLES
  kpc,           \* where the handoff is
  gCorebootAvailable,
  enrolled,      \* is a kernel hash enrolled in g_known_hashes
  file,          \* the file on disk
  map,           \* the memory map of the firmware in charge
  fb,            \* the framebuffer the firmware reports
  handles,       \* open file handles
  pool,          \* live pool buffers
  KernelBuffer,  \* address of the kernel, 0 before it is loaded
  BootParamsAddr,\* where the boot parameters go, 0 before it is chosen
  boot_params,   \* the COREBOOT_BOOT_PARAMS in memory
  keyFresh,      \* does MapKey still describe the memory map
  bootServices,  \* are boot services available
  ran            \* history: was the kernel entered

platform == <<gCorebootAvailable, enrolled, file, map, fb>>
handoffVars == <<kpc, platform, handles, pool, KernelBuffer, BootParamsAddr,
                 boot_params, keyFresh, bootServices, ran>>

NoParams == [kernel_base |-> 0, kernel_size |-> 0, framebuffer |-> NoFramebuffer]

Loading == {"root", "open", "info", "buffer", "read", "verify"}
Executing == {"execute", "exit_map", "exit", "params", "validate", "jump"}
KPCs == {"idle", "kernel", "failed"} \cup Loading \cup Executing

Init ==
  /\ kpc = "idle"
  /\ gCorebootAvailable \in BOOLEAN
  /\ enrolled \in BOOLEAN
  /\ file \in KernelFiles
  /\ map \in IF gCorebootAvailable THEN CorebootMaps ELSE UefiMaps
  /\ fb \in Framebuffers \cup {NoFramebuffer}
  /\ handles = {}
  /\ pool = {}
  /\ KernelBuffer = 0
  /\ BootParamsAddr = 0
  /\ boot_params = NoParams
  /\ keyFresh = FALSE
  /\ bootServices = TRUE
  /\ ran = FALSE
-----------------------------------------------------------------------------
(* LoadAndVerifyKernel *)

LoadStep ==
  UNCHANGED <<platform, BootParamsAddr, boot_params, keyFresh, bootServices, ran>>

LoadAndVerifyKernel ==
  /\ kpc = "idle"
  /\ kpc' = "root"
  /\ UNCHANGED <<handles, pool, KernelBuffer>>
  /\ LoadStep

\* get_root_dir; the volume handle is never closed.
GetRootDir(ok) ==
  /\ kpc = "root"
  /\ kpc' = IF ok THEN "open" ELSE "failed"
  /\ handles' = IF ok THEN handles \cup {"root"} ELSE handles
  /\ UNCHANGED <<pool, KernelBuffer>>
  /\ LoadStep

OpenKernel(ok) ==
  /\ kpc = "open"
  /\ kpc' = IF ok THEN "info" ELSE "failed"
  /\ handles' = IF ok THEN handles \cup {"file"} ELSE handles
  /\ UNCHANGED <<pool, KernelBuffer>>
  /\ LoadStep

\* Both GetInfo calls and the allocation of the info block between them.
GetKernelInfo(ok) ==
  /\ kpc = "info"
  /\ kpc' = IF ok THEN "buffer" ELSE "failed"
  /\ IF ok THEN pool' = pool \cup {"info"} /\ UNCHANGED handles
     ELSE handles' = handles \ {"file"} /\ UNCHANGED pool
  /\ UNCHANGED KernelBuffer
  /\ LoadStep

AllocateKernel(addr) ==
  /\ kpc = "buffer"
  /\ kpc' = "read"
  /\ pool' = pool \cup {"kernel"}
  /\ KernelBuffer' = addr
  /\ UNCHANGED handles
  /\ LoadStep

AllocateKernelFails ==
  /\ kpc = "buffer"
  /\ kpc' = "failed"
  /\ pool' = pool \ {"info"}
  /\ handles' = handles \ {"file"}
  /\ UNCHANGED KernelBuffer
  /\ LoadStep

ReadKernel(ok) ==
  /\ kpc = "read"
  /\ kpc' = IF ok THEN "verify" ELSE "failed"
  /\ pool' = pool \ ({"info"} \cup IF ok THEN {} ELSE {"kernel"})
  /\ handles' = handles \ {"file"}
  /\ UNCHANGED KernelBuffer
  /\ LoadStep

\* Mutant: a mismatch is reported but the boot goes on.
VerifyKernelWarns ==
  /\ kpc = "verify"
  /\ kpc' = "execute"
  /\ UNCHANGED <<handles, pool, KernelBuffer>>
  /\ LoadStep

\* The SHA-512 comparison, skipped when no hash is enrolled.
VerifyKernel ==
  /\ kpc = "verify"
  /\ IF enrolled /\ ~file.genuine
       THEN kpc' = "failed" /\ pool' = pool \ {"kernel"}
       ELSE kpc' = "execute" /\ UNCHANGED pool
  /\ UNCHANGED <<handles, KernelBuffer>>
  /\ LoadStep
-----------------------------------------------------------------------------
(* ExecuteKernel *)

Params(base, framebuffer) ==
  [kernel_base |-> base, kernel_size |-> file.size, framebuffer |-> framebuffer]

\* The signature, version and kernel flag are set by both builders, and neither
\* ever gets an initrd; what can fail is the kernel or the framebuffer.
ValidateBootParameters(p) ==
  /\ p.kernel_base # 0
  /\ p.kernel_size # 0
  /\ ~p.framebuffer.absent => /\ p.framebuffer.addr # 0
                              /\ p.framebuffer.width # 0
                              /\ p.framebuffer.height # 0

\* The address of the first largest RAM region; 0 when there is none.
LargestRam ==
  LET ram == {i \in 1..Len(map) : map[i].ram /\ map[i].size > 0}
      largest == {i \in ram : \A j \in ram : map[j].size <= map[i].size}
  IN IF ram = {} THEN 0
     ELSE map[CHOOSE i \in largest : \A j \in largest : i <= j].addr

ExecuteStep == UNCHANGED <<platform, handles, KernelBuffer, ran>>

\* Mutant: the parameters are not checked before boot services are left.
ExecuteWithCorebootUnchecked ==
  /\ kpc = "execute"
  /\ gCorebootAvailable
  /\ IF LargestRam = 0
       THEN kpc' = "failed" /\ UNCHANGED <<BootParamsAddr, boot_params>>
       ELSE /\ BootParamsAddr' = LargestRam + PARAMS_OFFSET
            /\ boot_params' = Params(LargestRam, fb)
            /\ kpc' = "exit_map"
  /\ UNCHANGED <<pool, keyFresh, bootServices>>
  /\ ExecuteStep

\* ExecuteKernelWithCoreboot: the parameters are built and validated a first
\* time while boot services are still there.  A RAM region at address 0 counts
\* as none, and so does an empty map.
ExecuteWithCoreboot ==
  /\ kpc = "execute"
  /\ gCorebootAvailable
  /\ IF LargestRam = 0
       THEN kpc' = "failed" /\ UNCHANGED <<BootParamsAddr, boot_params>>
       ELSE /\ BootParamsAddr' = LargestRam + PARAMS_OFFSET
            /\ boot_params' = Params(LargestRam, fb)
            /\ kpc' = IF ValidateBootParameters(boot_params') THEN "exit_map" ELSE "failed"
  /\ UNCHANGED <<pool, keyFresh, bootServices>>
  /\ ExecuteStep

\* The first conventional region above the default base that holds the kernel.
UefiBase ==
  LET fit == {i \in 1..Len(map) : /\ map[i].conventional
                                  /\ map[i].start >= DEFAULT_BASE
                                  /\ map[i].pages >= file.size}
  IN IF fit = {} THEN DEFAULT_BASE
     ELSE map[CHOOSE i \in fit : \A j \in fit : i <= j].start

\* Outcomes of the GetMemoryMap, AllocatePool, GetMemoryMap sequence.
MapOutcomes == {"ok", "no_memory", "error"}

\* ExecuteKernelWithUefi up to the call that leaves boot services.  When the
\* second GetMemoryMap fails the buffer is not freed.
ExecuteWithUefi(outcome) ==
  /\ kpc = "execute"
  /\ ~gCorebootAvailable
  /\ kpc' = IF outcome = "ok" THEN "exit_map" ELSE "failed"
  /\ pool' = IF outcome = "no_memory" THEN pool ELSE pool \cup {"MemMap"}
  /\ BootParamsAddr' = IF outcome = "ok" THEN UefiBase + PARAMS_OFFSET ELSE BootParamsAddr
  /\ UNCHANGED <<boot_params, keyFresh, bootServices>>
  /\ ExecuteStep

\* Return from ExitBootServicesAndExecuteKernel with an error: its own map
\* buffer is freed, then that of ExecuteKernelWithUefi.
Unwind ==
  /\ kpc' = "failed"
  /\ pool' = pool \ {"ExitMap", "MemMap"}

\* Mutant: an error of the second GetMemoryMap keeps the buffer.
GetExitMapLeaky(outcome) ==
  /\ kpc = "exit_map"
  /\ IF outcome = "ok"
       THEN kpc' = "exit" /\ pool' = pool \cup {"ExitMap"} /\ keyFresh' = TRUE
       ELSE /\ kpc' = "failed"
            /\ pool' = (pool \ {"MemMap"}) \cup IF outcome = "error" THEN {"ExitMap"} ELSE {}
            /\ UNCHANGED keyFresh
  /\ UNCHANGED <<BootParamsAddr, boot_params, bootServices>>
  /\ ExecuteStep

GetExitMap(outcome) ==
  /\ kpc = "exit_map"
  /\ IF outcome = "ok"
       THEN kpc' = "exit" /\ pool' = pool \cup {"ExitMap"} /\ keyFresh' = TRUE
       ELSE Unwind /\ UNCHANGED keyFresh
  /\ UNCHANGED <<BootParamsAddr, boot_params, bootServices>>
  /\ ExecuteStep

\* A timer or driver callback of the firmware allocates or frees memory.
FirmwareChangesMap ==
  /\ kpc = "exit"
  /\ keyFresh
  /\ keyFresh' = FALSE
  /\ UNCHANGED <<kpc, pool, BootParamsAddr, boot_params, bootServices>>
  /\ ExecuteStep

\* Mutant: the result of the call is not looked at.
ExitBootServicesIgnored ==
  /\ kpc = "exit"
  /\ bootServices' = ~keyFresh
  /\ kpc' = "params"
  /\ UNCHANGED <<pool, BootParamsAddr, boot_params, keyFresh>>
  /\ ExecuteStep

\* A stale key is refused and not retried.
ExitBootServices ==
  /\ kpc = "exit"
  /\ IF keyFresh
       THEN bootServices' = FALSE /\ kpc' = "params" /\ UNCHANGED pool
       ELSE Unwind /\ UNCHANGED bootServices
  /\ UNCHANGED <<BootParamsAddr, boot_params, keyFresh>>
  /\ ExecuteStep

\* The parameters are built (again).  Without coreboot the framebuffer comes from
\* LocateProtocol, called after boot services are gone: it may find it or not.
BuildParams(found) ==
  /\ kpc = "params"
  /\ boot_params' = Params(KernelBuffer,
                           IF gCorebootAvailable \/ found THEN fb ELSE NoFramebuffer)
  /\ kpc' = "validate"
  /\ UNCHANGED <<pool, BootParamsAddr, keyFresh, bootServices>>
  /\ ExecuteStep

Validate ==
  /\ kpc = "validate"
  /\ IF ValidateBootParameters(boot_params)
       THEN kpc' = "jump" /\ UNCHANGED pool
       ELSE Unwind
  /\ UNCHANGED <<BootParamsAddr, boot_params, keyFresh, bootServices>>
  /\ ExecuteStep

JumpToKernel ==
  /\ kpc = "jump"
  /\ kpc' = "kernel"
  /\ ran' = TRUE
  /\ UNCHANGED <<platform, handles, pool, KernelBuffer, BootParamsAddr, boot_params,
                 keyFresh, bootServices>>

\* "This should not return"; if it does the result is EFI_LOAD_ERROR.
KernelReturns ==
  /\ kpc = "kernel"
  /\ Unwind
  /\ UNCHANGED <<BootParamsAddr, boot_params, keyFresh, bootServices>>
  /\ ExecuteStep

LoadNext ==
  \/ LoadAndVerifyKernel
  \/ \E ok \in BOOLEAN : GetRootDir(ok) \/ OpenKernel(ok) \/ GetKernelInfo(ok) \/ ReadKernel(ok)
  \/ \E addr \in BufferAddrs : AllocateKernel(addr)
  \/ AllocateKernelFails
  \/ VerifyKernel

ExecuteNext ==
  \/ ExecuteWithCoreboot
  \/ \E outcome \in MapOutcomes : ExecuteWithUefi(outcome) \/ GetExitMap(outcome)
  \/ FirmwareChangesMap
  \/ ExitBootServices
  \/ \E found \in BOOLEAN : BuildParams(found)
  \/ Validate
  \/ JumpToKernel
  \/ KernelReturns

Next == LoadNext \/ ExecuteNext

Spec == Init /\ [][Next]_handoffVars
-----------------------------------------------------------------------------
(* Properties *)

TypeOK ==
  /\ kpc \in KPCs
  /\ gCorebootAvailable \in BOOLEAN
  /\ enrolled \in BOOLEAN
  /\ file \in KernelFiles
  /\ handles \subseteq {"root", "file"}
  /\ pool \subseteq {"info", "kernel", "MemMap", "ExitMap"}
  /\ KernelBuffer \in BufferAddrs \cup {0}
  /\ keyFresh \in BOOLEAN
  /\ bootServices \in BOOLEAN
  /\ ran \in BOOLEAN

\* The kernel is entered only when everything it needs is true at once, although
\* each part was established at another time: boot services are left, the
\* buffer still holds the file, the file matched its hash if one is enrolled,
\* and the parameters in memory describe that buffer and pass validation
\* (main.c:1378).
JumpReady ==
  kpc \in {"jump", "kernel"} =>
    /\ ~bootServices
    /\ "kernel" \in pool
    /\ enrolled => file.genuine
    /\ boot_params.kernel_base = KernelBuffer
    /\ boot_params.kernel_size = file.size
    /\ file.size # 0
    /\ ~boot_params.framebuffer.absent => boot_params.framebuffer.addr # 0

\* On coreboot the first validation (main.c:1169) makes the second one, after
\* boot services are gone, a formality: a kernel that is refused is refused while
\* the caller can still talk to the user.  Only a kernel that ran and returned
\* fails after the exit.
CorebootFailsBeforeExit ==
  gCorebootAvailable /\ kpc = "failed" /\ ~bootServices => ran

\* Every failing path closes the kernel file and frees the info block and the
\* map of ExitBootServicesAndExecuteKernel; the map of ExecuteKernelWithUefi
\* survives only when that function itself failed, before any exit
\* (main.c:1213).
HandoffReleased ==
  kpc = "failed" =>
    /\ "file" \notin handles
    /\ pool \cap {"info", "ExitMap"} = {}
    /\ "MemMap" \in pool => BootParamsAddr = 0 /\ bootServices

Phase ==
  CASE kpc \in Loading -> "loading"
    [] kpc \in {"execute", "exit_map", "exit"} -> "checked"
    [] kpc \in {"params", "validate", "jump"} -> "left"
    [] kpc = "kernel" -> "running"
    [] OTHER -> kpc

Contract == INSTANCE HandoffContract WITH phase <- Phase, services <- bootServices

\* The whole path from LoadAndVerifyKernel to the jump implements the contract:
\* load, check, leave the firmware once, run; or give up.
ImplementsContract == Contract!Spec

\* main.c:1133 places the boot parameters "4KB after kernel".
ParamsFollowKernel ==
  kpc = "jump" => BootParamsAddr = boot_params.kernel_base + PARAMS_OFFSET
=============================================================================
