-------------------------- MODULE CorebootPayload --------------------------
(***************************************************************************)
(* The coreboot payload (coreboot/coreboot_payload.c) on top of the        *)
(* platform: BloodhornPayloadEntry, BloodhornMain, the boot menu with its  *)
(* countdown, the loading of the default entry's kernel and the jump.      *)
(*                                                                         *)
(* The menu only ever runs its default entry, the first, so the kernel is  *)
(* kernel.efi.  The Init* calls of BloodhornMain change no state.          *)
(***************************************************************************)
EXTENDS CorebootPlatform

CONSTANTS
  TIMEOUT,          \* rounds of the countdown, 10 in the code
  KernelSizes,      \* sizes the kernel file may have
  KernelBuffers,    \* where the pool may put it
  UINT32            \* the size handed on is that of the file modulo this

ASSUME PayloadAssumption ==
  TIMEOUT \in Nat /\ KernelSizes \subseteq Nat /\ UINT32 \in Nat \ {0}

VARIABLES
  timeout, key,             \* the countdown, and whether a key was pressed
  held,                     \* what BloodhornLoadKernel holds
  kernel,                   \* its address, the bytes read, and the size handed on
  params,                   \* COREBOOT_BOOT_PARAMS
  result                    \* of the boot function

payloadVars == <<timeout, key, held, kernel, params, result>>

vars == <<platformVars, pc, payloadVars>>

NoKernel == [addr |-> 0, bytes |-> 0, size |-> 0]

NoParams ==
  [kernel_base |-> 0, kernel_size |-> 0, framebuffer |-> 0, memory_size |-> 0]

Init ==
  /\ PlatformInit
  /\ timeout = TIMEOUT
  /\ key = FALSE
  /\ held = {}
  /\ kernel = NoKernel
  /\ params = NoParams
  /\ result = "none"

BloodhornPayloadEntry ==
  /\ PlatformNext
  /\ UNCHANGED payloadVars

\* BloodhornMain, up to the menu.
BloodhornMain ==
  /\ pc = "initialized"
  /\ pc' = "countdown"
  /\ UNCHANGED <<platformVars, payloadVars>>

\* The user may press a key while the countdown runs.
PressKey ==
  /\ pc = "countdown" /\ timeout > 0 /\ ~key
  /\ key' = TRUE
  /\ UNCHANGED <<platformVars, pc, timeout, held, kernel, params, result>>

Countdown ==
  /\ pc = "countdown" /\ timeout > 0
  /\ timeout' = timeout - 1
  /\ UNCHANGED <<platformVars, pc, key, held, kernel, params, result>>

BootDefault ==
  /\ pc = "countdown" /\ timeout = 0
  /\ pc' = "root"
  /\ UNCHANGED <<platformVars, payloadVars>>

-----------------------------------------------------------------------------
(* BloodhornLoadKernel.                                                    *)

BootFails(why) ==
  /\ pc' = "failed"
  /\ result' = why

GetRoot(ok) ==
  /\ pc = "root"
  /\ IF ok
     THEN pc' = "open" /\ held' = {"root"} /\ UNCHANGED result
     ELSE BootFails("not_found") /\ UNCHANGED held
  /\ UNCHANGED <<platformVars, timeout, key, kernel, params>>

\* The root directory is left open, here and below.
OpenKernel(ok) ==
  /\ pc = "open"
  /\ IF ok
     THEN pc' = "info" /\ held' = held \cup {"file"} /\ UNCHANGED result
     ELSE BootFails("not_found") /\ UNCHANGED held
  /\ UNCHANGED <<platformVars, timeout, key, kernel, params>>

\* Both GetInfo calls and the allocation between them.
GetInfo(ok) ==
  /\ pc = "info"
  /\ IF ok
     THEN pc' = "allocate" /\ held' = held \cup {"info"} /\ UNCHANGED result
     ELSE BootFails("not_found") /\ held' = held \ {"file"}
  /\ UNCHANGED <<platformVars, timeout, key, kernel, params>>

AllocateKernel(size, addr) ==
  /\ pc = "allocate"
  /\ pc' = "read"
  /\ held' = held \cup {"buffer"}
  /\ kernel' = [addr |-> addr, bytes |-> size, size |-> 0]
  /\ UNCHANGED <<platformVars, timeout, key, params, result>>

AllocateKernelFails ==
  /\ pc = "allocate"
  /\ held' = held \ {"file", "info"}
  /\ BootFails("not_found")
  /\ UNCHANGED <<platformVars, timeout, key, kernel, params>>

\* *kernel_size is a UINT32, the size of the file is not.
ReadKernel(ok) ==
  /\ pc = "read"
  /\ IF ok
     THEN /\ pc' = "execute"
          /\ held' = held \ {"file", "info"}
          /\ kernel' = [kernel EXCEPT !.size = kernel.bytes % UINT32]
          /\ UNCHANGED result
     ELSE /\ BootFails("not_found")
          /\ held' = held \ {"file", "info", "buffer"}
          /\ UNCHANGED kernel
  /\ UNCHANGED <<platformVars, timeout, key, params>>

-----------------------------------------------------------------------------
(* BloodhornExecuteKernel.                                                 *)

\* A region that starts at address 0 counts as none.
Base == CorebootFindLargestMemoryRegion.addr

Params ==
  [kernel_base |-> Base, kernel_size |-> kernel.size,
   framebuffer |-> cb_framebuffer, memory_size |-> CorebootGetTotalMemory]

\* Mutant: the kernel's size is not looked at.
ValidateBootParametersLax(p) ==
  p.framebuffer > 0 => entries[p.framebuffer].usable

\* Signature, version and kernel flag have just been set.
ValidateBootParameters(p) ==
  /\ p.kernel_base # 0 /\ p.kernel_size # 0
  /\ p.framebuffer > 0 => entries[p.framebuffer].usable

\* The kernel buffer is kept whatever happens from here on.
ExecuteKernel ==
  /\ pc = "execute"
  /\ IF CorebootGetMemoryMap = << >> \/ Base = 0
     THEN BootFails("load_error") /\ UNCHANGED params
     ELSE /\ params' = Params
          /\ IF ValidateBootParameters(Params)
             THEN pc' = "kernel" /\ UNCHANGED result
             ELSE BootFails("load_error")
  /\ UNCHANGED <<platformVars, timeout, key, held, kernel>>

KernelReturns ==
  /\ pc = "kernel"
  /\ BootFails("load_error")
  /\ UNCHANGED <<platformVars, timeout, key, held, kernel, params>>

\* The message, the wait and CorebootReboot.
Reboot ==
  /\ pc = "failed"
  /\ pc' = "reboot"
  /\ UNCHANGED <<platformVars, payloadVars>>

LoadStep ==
  \/ \E ok \in BOOLEAN : GetRoot(ok) \/ OpenKernel(ok) \/ GetInfo(ok) \/ ReadKernel(ok)
  \/ \E size \in KernelSizes, addr \in KernelBuffers : AllocateKernel(size, addr)
  \/ AllocateKernelFails

PayloadStep ==
  \/ BloodhornPayloadEntry
  \/ BloodhornMain
  \/ Countdown
  \/ BootDefault
  \/ LoadStep
  \/ ExecuteKernel
  \/ Reboot

Next == PayloadStep \/ PressKey \/ KernelReturns

\* The payload is one sequential program whose firmware calls return; the
\* kernel need not.
Spec == Init /\ [][Next]_vars /\ WF_vars(PayloadStep)

-----------------------------------------------------------------------------
(* Properties.                                                             *)

\* Every way out of BloodhornLoadKernel closes the file and frees its
\* information, and keeps the buffer exactly when the kernel was read.  Only
\* the root directory stays open.
LoadReleases ==
  pc \in {"execute", "kernel", "failed", "reboot"} =>
    /\ held \cap {"file", "info"} = {}
    /\ "buffer" \in held <=> (pc \in {"execute", "kernel"} \/ result = "load_error")

\* The kernel is entered only once a file that is not empty was read, with
\* parameters that name a RAM region of the table, the size of the file modulo
\* 2^32, which is not 0, and a usable framebuffer if any.  If there is a sound
\* table in memory, the one used is the first, whatever tables with a wrong
\* checksum the search passed over, and the memory it adds up to is at least its
\* largest region.
JumpJustified ==
  pc = "kernel" =>
    /\ "buffer" \in held /\ kernel.bytes > 0
    /\ params.kernel_size = kernel.bytes % UINT32 /\ params.kernel_size > 0
    /\ \E k \in DOMAIN CorebootGetMemoryMap :
         CorebootGetMemoryMap[k].ram /\ CorebootGetMemoryMap[k].addr = params.kernel_base
    /\ params.framebuffer > 0 => entries[params.framebuffer].usable
    /\ HasTable => /\ slots[cb_header] = "valid"
                   /\ \A s \in 1..cb_header - 1 : slots[s] # "valid"
                   /\ params.memory_size >= CorebootFindLargestMemoryRegion.size

\* Whatever the firmware answers, and also when a table entry of size 0 keeps
\* the walk in place, the payload ends in a running kernel or in a reboot.
PayloadEnds == <>(pc \in {"kernel", "reboot"})

\* The countdown says "(press key to cancel)": after a key the default entry
\* is not booted.
KeyCancelsCountdown ==
  key => pc = "countdown"

\* COREBOOT_BOOT_PARAMS calls kernel_base the "Kernel base address": it is
\* where the kernel entered lies.
ParamsDescribeKernel ==
  pc = "kernel" => params.kernel_base = kernel.addr

=============================================================================
