------------------------------ MODULE BootFlow ------------------------------
(***************************************************************************)
(* UefiMain of main.c, composed with the kernel handoff: start-up, the     *)
(* auto-boot countdown, the menu and the boot functions of its entries, the *)
(* fallback to kernel.efi, and the prompt that ends in a reset.            *)
(*                                                                         *)
(* The menu is represented by its result (module BootMenu has its inside), *)
(* the loaders of boot/Arch32 and net by theirs.                           *)
(***************************************************************************)
EXTENDS KernelHandoff

CONSTANTS
  POLLS,         \* key polls per second of countdown
  Timeouts       \* values config.menu_timeout may have

VARIABLES
  upc,       \* where UefiMain is
  config,    \* what the flow reads of it: [timeout, linux, kernel]
  secs,      \* seconds left
  poll,      \* polls done in this second
  silent,    \* history: polls that found no key
  showMenu,
  entry,     \* the menu entry whose boot function runs
  Status     \* result of the menu: "none", "success" or "error"

ASSUME FlowAssumption ==
  /\ POLLS \in Nat \ {0}
  /\ Timeouts \subseteq Nat

flow == <<config, secs, poll, silent, showMenu, entry, Status>>
flowVars == <<handoffVars, upc, flow>>

\* The entries main.c registers, by what their boot function can do.  The
\* loaders are linux, multiboot2, limine, chainload, pxe and the five
\* architecture loaders.
Entries == {"bloodchain", "loader", "recovery", "uefi_shell", "firmware"}

FlowInit ==
  /\ Init
  /\ upc = "start"
  /\ config \in [timeout : Timeouts, linux : BOOLEAN, kernel : BOOLEAN]
  /\ secs = 0
  /\ poll = 0
  /\ silent = 0
  /\ showMenu = TRUE
  /\ entry = "none"
  /\ Status = "none"
-----------------------------------------------------------------------------
\* Up to the loaded configuration.  A failed library initialisation is only a
\* warning; without the loaded-image protocol UefiMain returns.
StartUp(ok) ==
  /\ upc = "start"
  /\ upc' = IF ~ok THEN "returned" ELSE IF config.timeout > 0 THEN "countdown" ELSE "entries"
  /\ secs' = config.timeout
  /\ UNCHANGED <<handoffVars, config, poll, silent, showMenu, entry, Status>>

\* A key during the countdown opens the menu.
KeyPressed ==
  /\ upc = "countdown"
  /\ showMenu' = TRUE
  /\ upc' = "entries"
  /\ UNCHANGED <<handoffVars, config, secs, poll, silent, entry, Status>>

\* Mutant: the countdown ends one second early.
NoKeyEarly ==
  /\ upc = "countdown"
  /\ silent' = silent + 1
  /\ poll' = (poll + 1) % POLLS
  /\ secs' = IF poll' = 0 THEN secs - 1 ELSE secs
  /\ showMenu' = (secs' > 1)
  /\ upc' = IF secs' <= 1 THEN "autoboot" ELSE "countdown"
  /\ UNCHANGED <<handoffVars, config, entry, Status>>

\* A poll without a key, with its 100 ms; the last one of the last second starts
\* the auto-boot.
NoKey ==
  /\ upc = "countdown"
  /\ silent' = silent + 1
  /\ poll' = (poll + 1) % POLLS
  /\ secs' = IF poll' = 0 THEN secs - 1 ELSE secs
  /\ showMenu' = (secs' # 0)
  /\ upc' = IF secs' = 0 THEN "autoboot" ELSE "countdown"
  /\ UNCHANGED <<handoffVars, config, entry, Status>>

\* linux_load_kernel with the configured kernel: it fails before the jump, or it
\* runs the kernel.
Autoboot(loaded) ==
  /\ upc = "autoboot"
  /\ config.linux /\ config.kernel
  /\ upc' = IF loaded THEN "running" ELSE "entries"
  /\ showMenu' = ~loaded
  /\ entry' = IF loaded THEN "autoboot" ELSE entry
  /\ UNCHANGED <<handoffVars, config, secs, poll, silent, Status>>

\* Any other default entry, or no kernel.
AutobootUnsupported ==
  /\ upc = "autoboot"
  /\ ~(config.linux /\ config.kernel)
  /\ showMenu' = TRUE
  /\ upc' = "entries"
  /\ UNCHANGED <<handoffVars, config, secs, poll, silent, entry, Status>>

\* The entries are registered and the menu is shown; EFI_NOT_READY otherwise.
ShowMenu ==
  /\ upc = "entries"
  /\ upc' = IF showMenu THEN "menu" ELSE "prompt"
  /\ Status' = IF showMenu THEN Status ELSE "error"
  /\ UNCHANGED <<handoffVars, config, secs, poll, silent, showMenu, entry>>

\* ESC: the menu returns EFI_ABORTED.
MenuAborted ==
  /\ upc = "menu"
  /\ Status' = "error"
  /\ upc' = "prompt"
  /\ UNCHANGED <<handoffVars, config, secs, poll, silent, showMenu, entry>>

MenuBoots(e) ==
  /\ upc = "menu"
  /\ entry' = e
  /\ upc' = CASE e = "firmware" -> "reset"
              [] e = "recovery" -> "recovery"
              [] OTHER -> "entry"
  /\ UNCHANGED <<handoffVars, config, secs, poll, silent, showMenu, Status>>

\* What the menu returns decides between kernel.efi and the prompt.
MenuReturns(status) ==
  /\ Status' = status
  /\ upc' = IF status = "success" THEN "handoff" ELSE "prompt"
  /\ UNCHANGED <<config, secs, poll, silent, showMenu, entry>>

\* A loader fails and reports it, or runs its kernel; a kernel or a network boot
\* that comes back counts as success.
EntryFails ==
  /\ upc = "entry"
  /\ MenuReturns("error")
  /\ UNCHANGED handoffVars

LoaderRuns ==
  /\ upc = "entry"
  /\ entry = "loader"
  /\ upc' = "running"
  /\ UNCHANGED <<handoffVars, flow>>

LoadedKernelReturns ==
  /\ upc = "running"
  /\ entry = "loader"
  /\ MenuReturns("success")
  /\ UNCHANGED handoffVars

\* UefiMain returns EFI_SUCCESS when the auto-booted kernel comes back.
AutobootedKernelReturns ==
  /\ upc = "running"
  /\ entry = "autoboot"
  /\ upc' = "returned"
  /\ UNCHANGED <<handoffVars, flow>>

\* One of the candidates for the UEFI shell was started and has ended.
ShellEnds ==
  /\ upc = "entry"
  /\ entry = "uefi_shell"
  /\ MenuReturns("success")
  /\ UNCHANGED handoffVars

\* BootBloodchainWrapper enters its kernel whether or not it got the memory map
\* and whether or not ExitBootServices accepted it.
BloodchainRuns(exited) ==
  /\ upc = "entry"
  /\ entry = "bloodchain"
  /\ bootServices' = ~exited
  /\ upc' = "running"
  /\ UNCHANGED <<kpc, platform, handles, pool, KernelBuffer, BootParamsAddr,
                 boot_params, keyFresh, ran, flow>>

\* Mutant: a BloodChain kernel that returns is reported as a success.
BloodchainReturnsSuccess ==
  /\ upc = "running"
  /\ entry = "bloodchain"
  /\ MenuReturns("success")
  /\ UNCHANGED handoffVars

BloodchainReturns ==
  /\ upc = "running"
  /\ entry = "bloodchain"
  /\ MenuReturns("error")
  /\ UNCHANGED handoffVars

HandoffStep ==
  /\ upc = "handoff"
  /\ Next
  /\ UNCHANGED <<upc, flow>>

HandoffFails ==
  /\ upc = "handoff"
  /\ kpc = "failed"
  /\ upc' = "prompt"
  /\ UNCHANGED <<handoffVars, flow>>

\* Any key resets the machine.
Reboot ==
  /\ upc = "prompt"
  /\ upc' = "reset"
  /\ UNCHANGED <<handoffVars, flow>>

FlowNext ==
  \/ \E ok \in BOOLEAN : StartUp(ok)
  \/ KeyPressed
  \/ NoKey
  \/ \E loaded \in BOOLEAN : Autoboot(loaded)
  \/ AutobootUnsupported
  \/ ShowMenu
  \/ MenuAborted
  \/ \E e \in Entries : MenuBoots(e)
  \/ EntryFails
  \/ LoaderRuns
  \/ LoadedKernelReturns
  \/ AutobootedKernelReturns
  \/ ShellEnds
  \/ \E exited \in BOOLEAN : BloodchainRuns(exited)
  \/ BloodchainReturns
  \/ HandoffStep
  \/ HandoffFails
  \/ Reboot

FlowSpec == FlowInit /\ [][FlowNext]_flowVars
-----------------------------------------------------------------------------
(* Properties *)

\* The default entry is booted unattended only after the whole configured time
\* has passed without a key: every poll of every second came back empty, and a
\* timeout of 0 never auto-boots (main.c:558-577).
AutobootAfterFullCountdown ==
  upc = "autoboot" => config.timeout > 0 /\ silent = config.timeout * POLLS

\* kernel.efi is loaded, which takes boot services, only when they are still
\* available, whichever boot function ran before it (main.c:614).
HandoffHasBootServices == kpc \in Loading => bootServices

\* The prompt waits for its key with a boot service (main.c:628).  It is reached
\* without boot services only after a kernel was entered and came back, or when
\* the UEFI handoff refused its parameters after the exit: every other failure
\* of the menu, of a boot function or of the handoff leaves it usable, and so
\* does a coreboot handoff whose parameters are refused.
PromptUsable ==
  upc = "prompt" /\ ~bootServices =>
    \/ entry = "bloodchain" /\ kpc = "idle"
    \/ ran
    \/ ~gCorebootAvailable /\ ~ValidateBootParameters(boot_params)

\* The prompt says "Press any key to reboot..." (main.c:625); waiting for that
\* key takes boot services.
RebootPromptUsable == upc = "prompt" => bootServices

\* USAGE.md:626 says "BloodHorn enters recovery if kernel fails to load".
KernelFailureEntersRecovery ==
  [][HandoffFails /\ ~ran => upc' = "recovery"]_flowVars
=============================================================================
