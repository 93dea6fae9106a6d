---------------------------- MODULE CorebootMain ----------------------------
(***************************************************************************)
(* BloodHorn as the main program of a coreboot payload                     *)
(* (coreboot/coreboot_main.c): CorebootMain, the boot menu and its         *)
(* wrappers, the loading of kernel.efi and its start as a UEFI image.      *)
(*                                                                         *)
(* gST is NULL when the system table was not found; the globals gBS and    *)
(* gRT are NULL with it.  gImageHandle is set nowhere.  A call through a   *)
(* NULL pointer is the step "Crash", after which nothing is known.         *)
(***************************************************************************)
EXTENDS Naturals, FiniteSets

CONSTANTS
  KernelFileSizes       \* sizes kernel.efi may have

\* The sections whose file or kernel the boot wrappers look up.  The eighth
\* entry, ExitToCorebootWrapper, is declared and has no body: it is not here.
Sections == {"linux", "multiboot2", "limine", "chainload", "pxe", "bloodchain"}

Entries == Sections \cup {"recovery"}

VARIABLES
  gST,              \* is the system table known
  library,          \* has bh_initialize been called with a table
  configured,       \* the section that names a file, or "none"
  entry,            \* the entry run last
  main_pc,
  main_held,        \* handles and buffers held
  kernel_size,      \* of the kernel read
  main_result,      \* of the last call that can fail
  failed            \* history: did the firmware or the menu refuse anything

mainVars ==
  <<gST, library, configured, entry, main_pc, main_held, kernel_size, main_result, failed>>

MainInit ==
  /\ gST \in BOOLEAN
  /\ library = FALSE
  /\ configured \in Sections \cup {"none"}
  /\ entry = "none"
  /\ main_pc = "start"
  /\ main_held = {}
  /\ kernel_size = 0
  /\ main_result = "success"
  /\ failed = FALSE

MainGoto(label) == main_pc' = label /\ UNCHANGED <<main_result, failed>>

Refused ==
  /\ main_pc' = "prompt"
  /\ main_result' = "error"
  /\ failed' = TRUE

\* CorebootPlatformInit always succeeds; bh_initialize is called only with a
\* system table.
CorebootMain ==
  /\ main_pc = "start"
  /\ library' = gST
  /\ MainGoto("menu")
  /\ UNCHANGED <<gST, configured, entry, main_held, kernel_size>>

\* ShowBootMenu is left with Escape.
MenuAborted ==
  /\ main_pc = "menu"
  /\ Refused
  /\ UNCHANGED <<gST, library, configured, entry, main_held, kernel_size>>

\* A boot wrapper: nothing configured, or what the loader returns.  A kernel
\* that comes back counts as success.
RunEntry(e, success) ==
  /\ main_pc = "menu"
  /\ entry' = e
  /\ IF (e = "recovery" \/ e = configured) /\ success
     THEN MainGoto("running")
     ELSE Refused
  /\ UNCHANGED <<gST, library, configured, main_held, kernel_size>>

\* After success of the menu kernel.efi is loaded.
EntryReturns ==
  /\ main_pc = "running"
  /\ MainGoto("root")
  /\ UNCHANGED <<gST, library, configured, entry, main_held, kernel_size>>

-----------------------------------------------------------------------------
(* LoadAndVerifyKernelCoreboot with GetRootDirectory.                      *)

\* GetRootDirectory calls boot services without a look at gBS.
Crash ==
  /\ main_pc = "root" /\ ~gST
  /\ MainGoto("crashed")
  /\ UNCHANGED <<gST, library, configured, entry, main_held, kernel_size>>

GetRootDirectory(ok) ==
  /\ main_pc = "root" /\ gST
  /\ IF ok THEN MainGoto("open") /\ main_held' = {"root"} ELSE Refused /\ UNCHANGED main_held
  /\ UNCHANGED <<gST, library, configured, entry, kernel_size>>

OpenKernelFile(ok) ==
  /\ main_pc = "open"
  /\ IF ok
     THEN MainGoto("info") /\ main_held' = main_held \cup {"file"}
     ELSE Refused /\ main_held' = main_held \ {"root"}
  /\ UNCHANGED <<gST, library, configured, entry, kernel_size>>

\* Both GetInfo calls and the allocation between them.
GetKernelInfo(ok) ==
  /\ main_pc = "info"
  /\ IF ok
     THEN MainGoto("allocate") /\ main_held' = main_held \cup {"info"}
     ELSE Refused /\ main_held' = main_held \ {"file", "root"}
  /\ UNCHANGED <<gST, library, configured, entry, kernel_size>>

AllocateBuffer(ok, n) ==
  /\ main_pc = "allocate"
  /\ kernel_size' = n
  /\ IF ok
     THEN MainGoto("read") /\ main_held' = main_held \cup {"buffer"}
     ELSE Refused /\ main_held' = main_held \ {"file", "root", "info"}
  /\ UNCHANGED <<gST, library, configured, entry>>

\* Mutant: the handles are closed only after a successful read.
ReadKernelFileLeaky(ok) ==
  /\ main_pc = "read"
  /\ IF ok
     THEN MainGoto("load_image") /\ main_held' = {"buffer"}
     ELSE Refused /\ main_held' = main_held \ {"buffer"}
  /\ UNCHANGED <<gST, library, configured, entry, kernel_size>>

\* The hash is computed and compared with nothing.
ReadKernelFile(ok) ==
  /\ main_pc = "read"
  /\ IF ok
     THEN MainGoto("load_image") /\ main_held' = {"buffer"}
     ELSE Refused /\ main_held' = {}
  /\ UNCHANGED <<gST, library, configured, entry, kernel_size>>

-----------------------------------------------------------------------------
(* ExecuteKernelImage.                                                     *)

\* LoadImage of the firmware wants the handle of the calling image:
\* gImageHandle is NULL and nothing assigns it.
HasParent == FALSE

\* ExecuteKernelImage up to LoadImage.  An empty kernel is refused, and so is
\* every image, since gImageHandle is NULL; StartImage is never reached.
LoadImage(ok) ==
  /\ main_pc = "load_image"
  /\ IF kernel_size > 0 /\ ok /\ HasParent
     THEN MainGoto("start_image") /\ main_held' = main_held \cup {"image"}
     ELSE /\ main_pc' = "prompt"
          /\ main_result' = "error"
          /\ failed' = (failed \/ ~ok \/ kernel_size = 0)
          /\ UNCHANGED main_held
  /\ UNCHANGED <<gST, library, configured, entry, kernel_size>>

\* The failure prompt waits for a key if there are boot services, then
\* CorebootReboot.
Prompt ==
  /\ main_pc = "prompt"
  /\ MainGoto("reboot")
  /\ UNCHANGED <<gST, library, configured, entry, main_held, kernel_size>>

MainNext ==
  \/ CorebootMain
  \/ MenuAborted
  \/ \E e \in Entries, success \in BOOLEAN : RunEntry(e, success)
  \/ EntryReturns
  \/ Crash
  \/ \E ok \in BOOLEAN :
       \/ GetRootDirectory(ok) \/ OpenKernelFile(ok) \/ GetKernelInfo(ok)
       \/ \E n \in KernelFileSizes : AllocateBuffer(ok, n)
       \/ ReadKernelFile(ok) \/ LoadImage(ok)
  \/ Prompt

MainSpec == MainInit /\ [][MainNext]_mainVars

-----------------------------------------------------------------------------
(* Properties.                                                             *)

\* Whatever step of LoadAndVerifyKernelCoreboot fails, the prompt is reached
\* with both directory and file closed and the file information freed; only
\* the kernel that could not be started is still in memory.
PromptReleased ==
  main_pc \in {"prompt", "reboot"} =>
    /\ main_held \subseteq {"buffer"}
    /\ main_held # {} => main_result = "error" /\ entry # "none"

\* CorebootMain says "Fallback: assume we're running in a minimal environment"
\* when there is no system table: it must not call through it afterwards.
MinimalEnvironmentUsable == main_pc # "crashed"

\* "No bootable device found or kernel failed." is printed only if the menu,
\* the file system or the kernel image gave a reason.
PromptMeansFailure == main_pc = "prompt" => failed

=============================================================================
