--------------------------- MODULE BootFlowProofs ---------------------------
(***************************************************************************)
(* Proofs about the handoff to kernel.efi and about UefiMain around it,    *)
(* for every file, buffer address, memory map, framebuffer, timeout and    *)
(* number of polls.  First the handoff on its own: what holds when the     *)
(* kernel is entered, that coreboot boots fail before boot services are    *)
(* left, what is released, and that the path implements HandoffContract.   *)
(* Then UefiMain, which keeps the invariant of the handoff: when the       *)
(* default entry is booted unattended, that kernel.efi is loaded with boot *)
(* services, and when the prompt can lack them.  Last the cache of fonts   *)
(* its screens are drawn with, for every capacity and every set of files.  *)
(***************************************************************************)
EXTENDS BootFlow, Font, TLAPS

Left == {"params", "validate", "jump", "kernel"}

\* Boot services end with ExitBootServices; the kernel's buffer lives from its
\* allocation on; each of the other resources lives between two known points.
Resources ==
  /\ kpc \in {"idle", "execute", "exit_map", "exit"} \cup Loading => bootServices
  /\ kpc \in Left => ~bootServices
  /\ kpc \in {"read", "verify", "kernel"} \cup Executing =>
       "kernel" \in pool /\ KernelBuffer \in BufferAddrs
  /\ "file" \in handles => kpc \in {"info", "buffer", "read"}
  /\ "info" \in pool => kpc \in {"buffer", "read"}
  /\ "ExitMap" \in pool => kpc \in {"exit"} \cup Left
  /\ "MemMap" \in pool =>
       \/ kpc \in {"exit_map", "exit"} \cup Left
       \/ kpc = "failed" /\ BootParamsAddr = 0 /\ bootServices
  /\ kpc \in {"idle", "execute"} \cup Loading => BootParamsAddr = 0

\* What is known of the kernel and of its parameters.  On coreboot the first
\* validation already established what the second one tests.
Knowledge ==
  /\ kpc \in {"kernel"} \cup Executing => (enrolled => file.genuine)
  /\ gCorebootAvailable /\ kpc \in {"exit_map", "exit"} \cup Left =>
       /\ file.size # 0
       /\ ~fb.absent => fb.addr # 0 /\ fb.width # 0 /\ fb.height # 0
  /\ kpc \in {"validate", "jump", "kernel"} =>
       /\ boot_params.kernel_base = KernelBuffer
       /\ boot_params.kernel_size = file.size
       /\ gCorebootAvailable => boot_params.framebuffer = fb
  /\ kpc \in {"jump", "kernel"} => ValidateBootParameters(boot_params)
  /\ kpc = "kernel" => ran
  /\ kpc = "failed" /\ ~bootServices =>
       ran \/ (~gCorebootAvailable /\ ~ValidateBootParameters(boot_params))

IInv == TypeOK /\ Resources /\ Knowledge /\ CorebootFailsBeforeExit

\* Before the handoff begins, nothing is held.
LEMMA InitIInv == Init => IInv
BY ZenonT(30) DEF Init, IInv, TypeOK, Resources, Knowledge, CorebootFailsBeforeExit, KPCs,
       Loading, Executing, Left

\* The steps of LoadAndVerifyKernel keep the invariant.
LEMMA LoadIInv ==
  ASSUME IInv, LoadNext
  PROVE  IInv'
<1> USE DEF IInv, LoadStep, platform, TypeOK, Resources, Knowledge,
            CorebootFailsBeforeExit, KPCs, Loading, Executing, Left
<1>1. CASE LoadAndVerifyKernel
  BY <1>1, Zenon DEF LoadAndVerifyKernel
<1>2. ASSUME NEW ok \in BOOLEAN, GetRootDir(ok) PROVE IInv'
  BY <1>2, Zenon DEF GetRootDir
<1>3. ASSUME NEW ok \in BOOLEAN, OpenKernel(ok) PROVE IInv'
  BY <1>3, Zenon DEF OpenKernel
<1>4. ASSUME NEW ok \in BOOLEAN, GetKernelInfo(ok) PROVE IInv'
  <2>1. CASE ok
    BY <1>4, <2>1, ZenonT(30) DEF GetKernelInfo
  <2>2. CASE ~ok
    BY <1>4, <2>2, ZenonT(30) DEF GetKernelInfo
  <2> QED
    BY <2>1, <2>2, Zenon
<1>5. ASSUME NEW ok \in BOOLEAN, ReadKernel(ok) PROVE IInv'
  <2>1. CASE ok
    BY <1>5, <2>1, Zenon DEF ReadKernel
  <2>2. CASE ~ok
    BY <1>5, <2>2, Zenon DEF ReadKernel
  <2> QED
    BY <2>1, <2>2
<1>6. ASSUME NEW addr \in BufferAddrs, AllocateKernel(addr) PROVE IInv'
  BY <1>6, Zenon DEF AllocateKernel
<1>7. CASE AllocateKernelFails
  BY <1>7, Zenon DEF AllocateKernelFails
<1>8. CASE VerifyKernel
  BY <1>8, ZenonT(30) DEF VerifyKernel
<1> QED
  BY <1>1, <1>2, <1>3, <1>4, <1>5, <1>6, <1>7, <1>8, ZenonT(30) DEF LoadNext

\* The steps of ExecuteKernel keep the invariant.
LEMMA ExecuteIInv ==
  ASSUME IInv, ExecuteNext
  PROVE  IInv'
<1> USE DEF IInv, ExecuteStep, platform, TypeOK, Resources, Knowledge, Unwind,
            CorebootFailsBeforeExit, KPCs, Loading, Executing, Left
<1>1. CASE ExecuteWithCoreboot
  <2>1. CASE LargestRam = 0
    BY <1>1, <2>1, Zenon DEF ExecuteWithCoreboot
  <2>2. CASE LargestRam # 0
    <3>1. /\ boot_params' = Params(LargestRam, fb)
          /\ kpc' = IF ValidateBootParameters(boot_params') THEN "exit_map" ELSE "failed"
      BY <1>1, <2>2, Zenon DEF ExecuteWithCoreboot
    <3>2. kpc' = "exit_map" =>
            /\ file.size # 0
            /\ ~fb.absent => fb.addr # 0 /\ fb.width # 0 /\ fb.height # 0
      BY <3>1, Zenon DEF ValidateBootParameters, Params
    <3>3. kpc' \in {"exit_map", "failed"}
      BY <3>1, Zenon
    <3> HIDE DEF ValidateBootParameters
    <3> QED
      BY <1>1, <3>2, <3>3, Zenon DEF ExecuteWithCoreboot
  <2> QED
    BY <2>1, <2>2, Zenon
<1>2. ASSUME NEW outcome \in MapOutcomes, ExecuteWithUefi(outcome) PROVE IInv'
  BY <1>2, Zenon DEF ExecuteWithUefi, MapOutcomes
<1>3. ASSUME NEW outcome \in MapOutcomes, GetExitMap(outcome) PROVE IInv'
  <2>1. CASE outcome = "ok"
    <3>1. /\ kpc = "exit_map" /\ kpc' = "exit"
          /\ pool' = pool \cup {"ExitMap"} /\ keyFresh' = TRUE
          /\ UNCHANGED <<platform, handles, KernelBuffer, ran, BootParamsAddr,
                         boot_params, bootServices>>
      BY <1>3, <2>1, Zenon DEF GetExitMap
    <3>2. TypeOK'
      BY <3>1, Zenon
    <3>3. Resources'
      BY <3>1, Zenon
    <3>4. Knowledge' /\ CorebootFailsBeforeExit'
      BY <3>1, Zenon
    <3> QED
      BY <3>2, <3>3, <3>4, Zenon
  <2>2. CASE outcome # "ok"
    BY <1>3, <2>2, ZenonT(30) DEF GetExitMap
  <2> QED
    BY <2>1, <2>2, Zenon
<1>4. CASE FirmwareChangesMap
  BY <1>4, ZenonT(30) DEF FirmwareChangesMap
<1>5. CASE ExitBootServices
  BY <1>5, ZenonT(30) DEF ExitBootServices
<1>6. ASSUME NEW found \in BOOLEAN, BuildParams(found) PROVE IInv'
  BY <1>6, Zenon DEF BuildParams, Params
<1>7. CASE Validate
  <2>1. CASE ValidateBootParameters(boot_params)
    BY <1>7, <2>1, ZenonT(30) DEF Validate
  <2>2. CASE ~ValidateBootParameters(boot_params)
    <3>1. ~gCorebootAvailable
      <4>1. KernelBuffer # 0
        BY <1>7, HandoffAssumption, Zenon DEF Validate
      <4> QED
        BY <1>7, <2>2, <4>1, Zenon DEF Validate, ValidateBootParameters
    <3> QED
      BY <1>7, <2>2, <3>1, ZenonT(30) DEF Validate
  <2> QED
    BY <2>1, <2>2, Zenon
<1>8. CASE JumpToKernel
  BY <1>8, Zenon DEF JumpToKernel
<1>9. CASE KernelReturns
  <2>1. TypeOK' /\ Resources'
    BY <1>9, Zenon DEF KernelReturns
  <2>2. ran' /\ kpc' = "failed"
    BY <1>9, Zenon DEF KernelReturns
  <2> QED
    BY <2>1, <2>2, Zenon
<1> QED
  BY <1>1, <1>2, <1>3, <1>4, <1>5, <1>6, <1>7, <1>8, <1>9, ZenonT(30) DEF ExecuteNext

\* Every step of the handoff keeps the invariant.
LEMMA NextIInv == IInv /\ [Next]_handoffVars => IInv'
<1>1. ASSUME IInv, UNCHANGED handoffVars PROVE IInv'
  BY <1>1 DEF handoffVars, platform, IInv, TypeOK, Resources, Knowledge,
              CorebootFailsBeforeExit, ValidateBootParameters
<1> QED
  BY <1>1, LoadIInv, ExecuteIInv, Zenon DEF Next

\* The handoff keeps the invariant in every behaviour.
LEMMA InvariantCorrect == Spec => []IInv
BY InitIInv, NextIInv, PTL DEF Spec

\* The variables of the handoff keep their types.
THEOREM TypeCorrect == Spec => []TypeOK
BY InvariantCorrect, PTL DEF IInv

\* Whenever the kernel is entered (main.c:1378) boot services are left, the
\* buffer is alive, the file is the enrolled one, and the parameters describe
\* it.
THEOREM JumpCorrect == Spec => []JumpReady
<1>1. IInv => JumpReady
  BY Zenon DEF IInv, Resources, Knowledge, JumpReady, ValidateBootParameters, Left, Executing
<1> QED
  BY <1>1, InvariantCorrect, PTL

\* On coreboot no boot that did not run a kernel fails after boot services were
\* left.
THEOREM CorebootCorrect == Spec => []CorebootFailsBeforeExit
BY InvariantCorrect, PTL DEF IInv

\* Every failing path releases the file, the info block and the exit map.
THEOREM ReleaseCorrect == Spec => []HandoffReleased
<1>1. IInv => HandoffReleased
  BY Zenon DEF IInv, TypeOK, Resources, HandoffReleased, Left
<1> QED
  BY <1>1, InvariantCorrect, PTL

\* Each step of the handoff is a step of the contract or leaves it unchanged.
LEMMA StepImplements ==
  IInv /\ [Next]_handoffVars => [Contract!Next]_(Contract!contractVars)
<1> SUFFICES ASSUME IInv, [Next]_handoffVars
             PROVE  [Contract!Next]_(Contract!contractVars)
  BY Zenon
<1> USE DEF Phase, Contract!Next, Contract!contractVars, Contract!Begin, Contract!Check,
            Contract!LeaveFirmware, Contract!Run, Contract!GiveUp, Loading
<1>1. CASE LoadNext
  BY <1>1, Zenon DEF LoadNext, LoadStep, LoadAndVerifyKernel, GetRootDir, OpenKernel,
              GetKernelInfo, ReadKernel, AllocateKernel, AllocateKernelFails, VerifyKernel
<1>2. CASE ExecuteNext
  <2> USE DEF ExecuteStep, Unwind
  <2>1. CASE ExecuteWithCoreboot
    BY <2>1, Zenon DEF ExecuteWithCoreboot
  <2>2. ASSUME NEW outcome \in MapOutcomes, ExecuteWithUefi(outcome) \/ GetExitMap(outcome)
        PROVE  [Contract!Next]_(Contract!contractVars)
    BY <2>2, Zenon DEF ExecuteWithUefi, GetExitMap
  <2>3. CASE FirmwareChangesMap
    BY <2>3, Zenon DEF FirmwareChangesMap
  <2>4. CASE ExitBootServices
    BY <2>4, Zenon DEF ExitBootServices, IInv, Resources
  <2>5. ASSUME NEW found \in BOOLEAN, BuildParams(found)
        PROVE  [Contract!Next]_(Contract!contractVars)
    BY <2>5, Zenon DEF BuildParams
  <2>6. CASE Validate
    BY <2>6, Zenon DEF Validate
  <2>7. CASE JumpToKernel
    BY <2>7, Zenon DEF JumpToKernel
  <2>8. CASE KernelReturns
    BY <2>8, Zenon DEF KernelReturns
  <2> QED
    BY <1>2, <2>1, <2>2, <2>3, <2>4, <2>5, <2>6, <2>7, <2>8, Zenon DEF ExecuteNext
<1>3. CASE UNCHANGED handoffVars
  BY <1>3, Zenon DEF handoffVars
<1> QED
  BY <1>1, <1>2, <1>3, Zenon DEF Next

\* The path from LoadAndVerifyKernel to the jump implements the contract: the
\* kernel runs only after it was loaded and checked and after boot services
\* were left, which happens at most once.
THEOREM HandoffImplementsContract == Spec => ImplementsContract
<1>1. Init => Contract!Init
  BY Zenon DEF Init, Contract!Init, Phase, Loading
<1> QED
  BY <1>1, StepImplements, InvariantCorrect, PTL DEF Spec, ImplementsContract, Contract!Spec
-----------------------------------------------------------------------------
(* UefiMain *)

\* The polls of n seconds of countdown.
Polls(n) == n * POLLS

\* What the countdown has found so far.
Countdown ==
  /\ config \in [timeout : Timeouts, linux : BOOLEAN, kernel : BOOLEAN]
  /\ upc = "start" => poll = 0 /\ silent = 0
  /\ upc = "countdown" =>
       /\ secs \in 1..config.timeout
       /\ poll \in 0..(POLLS - 1)
       /\ silent = Polls(config.timeout - secs) + poll
  /\ upc = "autoboot" => config.timeout > 0 /\ silent = Polls(config.timeout)

\* The handoff starts when the menu has returned with success, and the prompt
\* follows it only when it failed.  Its invariant holds all along, except after
\* a BloodChain kernel was entered, which never leads to the handoff.
Embedding ==
  /\ kpc # "idle" => upc \in {"handoff", "prompt", "reset"}
  /\ upc \in {"prompt", "reset"} => kpc \in {"idle", "failed"}
  /\ \/ IInv
     \/ entry = "bloodchain" /\ kpc = "idle" /\ upc \in {"running", "prompt", "reset"}

\* At the start nothing was polled and the handoff is idle.
LEMMA InitFlow == FlowInit => Countdown /\ Embedding
<1> SUFFICES ASSUME FlowInit PROVE Countdown /\ Embedding
  BY Zenon
<1>1. Countdown
  BY Zenon DEF FlowInit, Countdown
<1>2. kpc = "idle"
  BY Zenon DEF FlowInit, Init
<1> QED
  BY <1>1, <1>2, InitIInv, Zenon DEF FlowInit, Embedding

\* Another second is POLLS more polls.
LEMMA Seconds ==
  /\ Polls(0) = 0
  /\ \A n \in Nat : Polls(n) \in Nat /\ Polls(n + 1) = Polls(n) + POLLS
BY FlowAssumption DEF Polls

\* The polls counted without a key are the seconds gone and the polls of this
\* one.
LEMMA CountdownStep == Countdown /\ [FlowNext]_flowVars => Countdown'
<1> SUFFICES ASSUME Countdown, [FlowNext]_flowVars
             PROVE  Countdown'
  BY Zenon
<1> USE DEF Countdown
<1>0. config.timeout \in Nat
  BY FlowAssumption, Zenon
<1>1. ASSUME NEW ok \in BOOLEAN, StartUp(ok) PROVE Countdown'
  <2>1. CASE ok /\ config.timeout > 0
    <3>1. upc' = "countdown" /\ secs' = config.timeout /\ poll' = 0 /\ silent' = 0
          /\ config' = config
      BY <1>1, <2>1, Zenon DEF StartUp
    <3>2. Polls(config.timeout - config.timeout) = 0
      BY <1>0, Seconds
    <3>3. silent' = Polls(config'.timeout - secs') + poll'
      BY <3>1, <3>2
    <3> QED
      BY <3>1, <3>3, <1>0, <2>1, FlowAssumption
  <2>2. CASE ~(ok /\ config.timeout > 0)
    BY <1>1, <2>2, Zenon DEF StartUp
  <2> QED
    BY <2>1, <2>2, Zenon
<1>2. CASE NoKey
  <2>0. /\ upc = "countdown" /\ config' = config /\ silent' = silent + 1
        /\ poll' = (poll + 1) % POLLS
        /\ secs' = IF poll' = 0 THEN secs - 1 ELSE secs
        /\ upc' = IF secs' = 0 THEN "autoboot" ELSE "countdown"
    BY <1>2, Zenon DEF NoKey
  <2>1. Polls(config.timeout - secs) \in Nat
    BY <2>0, <1>0, Seconds
  <2>2. CASE poll + 1 < POLLS
    <3>1. poll' = poll + 1
      BY <2>0, <2>2, FlowAssumption
    <3>2. secs' = secs /\ upc' = "countdown"
      BY <2>0, <3>1, <1>0
    <3>3. silent' = Polls(config'.timeout - secs') + poll'
      BY <2>0, <2>1, <3>1, <3>2, FlowAssumption
    <3>4. poll' \in 0..(POLLS - 1) /\ secs' \in 1..config.timeout /\ upc = "countdown"
      BY <2>0, <2>2, <3>1, <3>2, FlowAssumption, SMTT(30)
    <3> QED
      BY <2>0, <3>2, <3>3, <3>4, Zenon
  <2>3. CASE poll + 1 = POLLS
    <3>1. poll' = 0 /\ secs' = secs - 1
      BY <2>0, <2>3, FlowAssumption
    <3>2. silent' = Polls(config.timeout - secs) + POLLS
      BY <2>0, <2>1, <2>3, <1>0, FlowAssumption
    <3>3. silent' = Polls(config.timeout - secs') /\ Polls(config.timeout - secs') \in Nat
      <4>1. config.timeout - secs \in Nat /\ config.timeout - secs' = (config.timeout - secs) + 1
        BY <3>1, <2>0, <1>0
      <4> QED
        BY <3>2, <4>1, Seconds
    <3>4. CASE secs' = 0
      <4>1. config.timeout - secs' = config.timeout
        BY <3>4, <1>0
      <4> QED
        BY <3>1, <3>3, <3>4, <4>1, <2>0, <1>0
    <3>5. CASE secs' # 0
      BY <3>1, <3>3, <3>5, <2>0, <1>0, FlowAssumption, SMTT(30)
    <3> QED
      BY <3>4, <3>5, Zenon
  <2> QED
    BY <2>0, <2>2, <2>3, FlowAssumption
<1>3. CASE UNCHANGED <<upc, config, secs, poll, silent>>
  BY <1>3, Zenon
<1>4. CASE config' = config /\ upc' \notin {"start", "countdown", "autoboot"}
  BY <1>4, Zenon
<1>5. CASE KeyPressed \/ AutobootUnsupported \/ ShowMenu \/ MenuAborted
  BY <1>5, <1>4, Zenon DEF KeyPressed, AutobootUnsupported, ShowMenu, MenuAborted
<1>6. ASSUME NEW loaded \in BOOLEAN, Autoboot(loaded) PROVE Countdown'
  BY <1>6, <1>4, Zenon DEF Autoboot
<1>7. ASSUME NEW e \in Entries, MenuBoots(e) PROVE Countdown'
  BY <1>7, <1>4, Zenon DEF MenuBoots
<1>8. CASE EntryFails \/ LoadedKernelReturns \/ ShellEnds \/ BloodchainReturns
  BY <1>8, <1>4, Zenon DEF EntryFails, LoadedKernelReturns, ShellEnds, BloodchainReturns, MenuReturns
<1>9. ASSUME NEW exited \in BOOLEAN, BloodchainRuns(exited) PROVE Countdown'
  BY <1>9, <1>4, Zenon DEF BloodchainRuns, flow
<1>10. CASE LoaderRuns \/ AutobootedKernelReturns \/ HandoffFails \/ Reboot
  BY <1>10, <1>4, Zenon DEF LoaderRuns, AutobootedKernelReturns, HandoffFails, Reboot, flow
<1>11. CASE HandoffStep \/ UNCHANGED flowVars
  BY <1>11, <1>3, Zenon DEF HandoffStep, flowVars, flow
<1> HIDE DEF Countdown
<1> QED
  BY <1>1, <1>2, <1>5, <1>6, <1>7, <1>8, <1>9, <1>10, <1>11, Zenon DEF FlowNext

\* Whatever UefiMain does, the handoff starts from its own initial state and
\* only after it the prompt or the reset follow.
LEMMA EmbeddingStep == Embedding /\ [FlowNext]_flowVars => Embedding'
<1> SUFFICES ASSUME Embedding, [FlowNext]_flowVars
             PROVE  Embedding'
  OBVIOUS
<1> USE DEF Embedding
<1>1. CASE HandoffStep
  <2>1. upc = "handoff" /\ upc' = "handoff" /\ Next
    BY <1>1, Zenon DEF HandoffStep
  <2> QED
    BY <2>1, NextIInv, Zenon
<1>2. ASSUME NEW exited \in BOOLEAN, BloodchainRuns(exited) PROVE Embedding'
  BY <1>2, Zenon DEF BloodchainRuns, flow
<1>3. CASE UNCHANGED handoffVars
  <2>1. kpc' = kpc /\ (IInv => IInv')
    BY <1>3, NextIInv, Zenon DEF handoffVars
  <2> HIDE DEF IInv
  <2>2. CASE UNCHANGED <<upc, entry>>
    BY <2>1, <2>2, Zenon
  <2>3. CASE kpc = "idle" /\ upc \notin {"running", "prompt", "reset"}
    BY <2>1, <2>3, Zenon
  <2>4. CASE upc = "running" /\ entry' = entry /\ kpc = "idle" /\ upc' = "prompt"
    BY <2>1, <2>4, Zenon
  <2>5. CASE upc = "running" /\ entry' = entry /\ kpc = "idle" /\ entry # "bloodchain"
    BY <2>1, <2>5, Zenon
  <2>6. CASE HandoffFails
    BY <2>1, <2>6, Zenon DEF HandoffFails, flow
  <2>7. CASE Reboot
    BY <2>1, <2>7, Zenon DEF Reboot, flow
  <2>8. \/ UNCHANGED <<upc, entry>>
        \/ kpc = "idle" /\ upc \notin {"running", "prompt", "reset"}
        \/ upc = "running" /\ entry' = entry /\ kpc = "idle" /\ upc' = "prompt"
        \/ upc = "running" /\ entry' = entry /\ kpc = "idle" /\ entry # "bloodchain"
        \/ HandoffFails
        \/ Reboot
    <3>1. upc \notin {"handoff", "prompt", "reset"} => kpc = "idle"
      BY Zenon
    <3>2. CASE \E ok \in BOOLEAN : StartUp(ok)
      BY <3>1, <3>2, Zenon DEF StartUp
    <3>3. CASE KeyPressed \/ NoKey \/ (\E loaded \in BOOLEAN : Autoboot(loaded))
               \/ AutobootUnsupported \/ ShowMenu \/ MenuAborted
      BY <3>1, <3>3, Zenon DEF KeyPressed, NoKey, Autoboot, AutobootUnsupported, ShowMenu, MenuAborted
    <3>4. CASE \E e \in Entries : MenuBoots(e)
      BY <3>1, <3>4, Zenon DEF MenuBoots
    <3>5. CASE EntryFails \/ LoaderRuns \/ ShellEnds
      BY <3>1, <3>5, Zenon DEF EntryFails, LoaderRuns, ShellEnds
    <3>6. CASE LoadedKernelReturns \/ AutobootedKernelReturns \/ BloodchainReturns
      BY <3>1, <3>6, Zenon DEF LoadedKernelReturns, AutobootedKernelReturns, BloodchainReturns,
                        MenuReturns, flow
    <3>7. CASE HandoffStep
      BY <3>7, Zenon DEF HandoffStep, flow
    <3>8. CASE \E exited \in BOOLEAN : BloodchainRuns(exited)
      BY <3>1, <3>8, Zenon DEF BloodchainRuns
    <3>9. CASE UNCHANGED flowVars
      BY <3>9, Zenon DEF flowVars, flow
    <3> QED
      BY <3>2, <3>3, <3>4, <3>5, <3>6, <3>7, <3>8, <3>9, Zenon DEF FlowNext
  <2> QED
    BY <2>2, <2>3, <2>4, <2>5, <2>6, <2>7, <2>8, Zenon
<1>4. \/ HandoffStep
      \/ \E exited \in BOOLEAN : BloodchainRuns(exited)
      \/ UNCHANGED handoffVars
  BY Zenon DEF FlowNext, flowVars, StartUp, KeyPressed, NoKey, Autoboot, AutobootUnsupported,
         ShowMenu, MenuAborted, MenuBoots, EntryFails, LoaderRuns, LoadedKernelReturns,
         AutobootedKernelReturns, ShellEnds, BloodchainReturns, HandoffFails, Reboot
<1> QED
  BY <1>1, <1>2, <1>3, <1>4, Zenon

\* UefiMain keeps both parts of the invariant in every behaviour.
LEMMA FlowInvariant == FlowSpec => [](Countdown /\ Embedding)
BY InitFlow, CountdownStep, EmbeddingStep, PTL DEF FlowSpec

\* The default entry is booted unattended only after timeout * POLLS polls that
\* all came back without a key, for every timeout; never with a timeout of 0
\* (main.c:558-577).
THEOREM AutobootCorrect == FlowSpec => []AutobootAfterFullCountdown
<1>1. Countdown => AutobootAfterFullCountdown
  BY Zenon DEF Countdown, AutobootAfterFullCountdown, Polls
<1> QED
  BY <1>1, FlowInvariant, PTL

\* kernel.efi is only loaded with boot services, whatever ran before it
\* (main.c:614).
THEOREM HandoffServicesCorrect == FlowSpec => []HandoffHasBootServices
<1>1. Embedding => HandoffHasBootServices
  BY Zenon DEF Embedding, HandoffHasBootServices, IInv, Resources, Loading,
         Loading
<1> QED
  BY <1>1, FlowInvariant, PTL

\* The prompt lacks boot services only after a kernel was entered, or when the
\* UEFI handoff refused its parameters after the exit (main.c:628).
THEOREM PromptCorrect == FlowSpec => []PromptUsable
<1>1. Embedding => PromptUsable
  BY Zenon DEF Embedding, PromptUsable, IInv, TypeOK, Resources, Knowledge,
         ValidateBootParameters, ValidateBootParameters
<1> QED
  BY <1>1, FlowInvariant, PTL

\* What holds when kernel.efi is entered (main.c:1378) holds in every run of
\* UefiMain, and not only for the handoff on its own.
THEOREM FlowJumpCorrect == FlowSpec => []JumpReady
<1>1. Embedding => JumpReady
  <2>1. ASSUME IInv PROVE JumpReady
    BY <2>1, Zenon DEF IInv, Resources, Knowledge, ValidateBootParameters,
                Left, Executing, JumpReady
  <2> QED
    BY <2>1, Zenon DEF Embedding, JumpReady
<1> QED
  BY <1>1, FlowInvariant, PTL

-----------------------------------------------------------------------------
(* The fonts.                                                              *)

FontRecord ==
  [origin : {"builtin", "memory", "file"}, line_height : Nat, data_size : Nat]

BuiltinLive == {font \in font_live : IsBuiltin(font)}

CacheSound ==
  \A i \in 0..(g_font_cache_count - 1) :
    /\ g_font_cache[i] \in font_live /\ ~IsBuiltin(g_font_cache[i])
    /\ \A j \in 0..(i - 1) : g_font_cache[i] # g_font_cache[j]

(* FontsSound is not inductive.  That the end of a shutdown frees nothing  *)
(* twice needs to be known from its start on: the pointers of the two      *)
(* other built-in fonts never name a loaded one, and no caller holds a     *)
(* font, or a default font that is not the built-in one, while it runs.    *)
Careful ==
  /\ font_step \in {"idle", "shutdown"} /\ font_fault = "none" /\ font_i \in Nat
  /\ g_font_cache \in [Slots -> Nat] /\ g_font_cache_count \in 0..MAX_CACHED_FONTS
  /\ CacheSound
  /\ font_held \subseteq font_live
  /\ g_default_font \in font_live \cup {NULL}
  /\ g_mono_font \in BuiltinLive \cup {NULL} /\ g_bold_font \in BuiltinLive \cup {NULL}
  /\ font_step = "shutdown" =>
       /\ font_held = {}
       /\ g_default_font # NULL =>
            IsBuiltin(g_default_font) /\ g_default_font \notin {g_mono_font, g_bold_font}

FontInv ==
  /\ fonts \in Seq(FontRecord)
  /\ font_live \subseteq 1..Len(fonts)
  /\ font_foreign \in BOOLEAN
  /\ \A font \in 1..Len(fonts) : fonts[font].origin = "file" => GlyphInTable(font)
  /\ ~font_foreign => Careful

-----------------------------------------------------------------------------
(* A glyph of a font of width eight takes a byte per row.                  *)
LEMMA RowBytes == \A h \in Nat : (h * 8 + 7) \div 8 = h
OBVIOUS

(* The glyphs drawn are among the first 256 of a table.                    *)
LEMMA GlyphBound ==
  \A h \in Nat : \A k \in 0..94 : \A n \in {256, 512} : k * h + h <= h * n
<1> TAKE h \in Nat, k \in 0..94, n \in {256, 512}
<1>1. k * h <= 94 * h
  OBVIOUS
<1> QED
  BY <1>1

(* Fonts added behind others.                                              *)
LEMMA Joined ==
  ASSUME NEW old \in Seq(FontRecord), NEW new \in Seq(FontRecord)
  PROVE  /\ old \o new \in Seq(FontRecord) /\ Len(old \o new) = Len(old) + Len(new)
         /\ \A i \in 1..(Len(old) + Len(new)) :
              (old \o new)[i] = IF i <= Len(old) THEN old[i] ELSE new[i - Len(old)]
OBVIOUS

(* A font added at the end changes nothing about the others.               *)
LEMMA Appended ==
  ASSUME FontInv, NEW record \in FontRecord, fonts' = Append(fonts, record),
         record.origin = "file" =>
           \E n \in {256, 512} : record.data_size = record.line_height * n
  PROVE  /\ fonts' \in Seq(FontRecord) /\ Len(fonts') = Len(fonts) + 1
         /\ \A font \in 1..Len(fonts) : fonts'[font] = fonts[font]
         /\ fonts'[Len(fonts) + 1] = record
         /\ \A font \in 1..Len(fonts') : fonts'[font].origin = "file" => GlyphInTable(font)'
<1>1. /\ fonts' \in Seq(FontRecord) /\ Len(fonts') = Len(fonts) + 1
      /\ \A font \in 1..Len(fonts) : fonts'[font] = fonts[font]
      /\ fonts'[Len(fonts) + 1] = record
  BY DEF FontInv
<1>2. ASSUME NEW font \in 1..Len(fonts'), fonts'[font].origin = "file"
      PROVE  GlyphInTable(font)'
  <2>1. CASE font \in 1..Len(fonts)
    <3>1. fonts[font].origin = "file" /\ GlyphInTable(font)
      BY <1>1, <1>2, <2>1 DEF FontInv
    <3> QED
      BY <1>1, <2>1, <3>1 DEF GlyphInTable, BytesPerGlyph
  <2>2. CASE font = Len(fonts) + 1
    <3>1. PICK n \in {256, 512} : record.data_size = record.line_height * n
      BY <1>1, <1>2, <2>2, Zenon
    <3>2. record.line_height \in Nat
      BY Zenon DEF FontRecord
    <3>3. ASSUME NEW codepoint \in Drawn
          PROVE  (codepoint - 32) * ((record.line_height * 8 + 7) \div 8)
                   + record.line_height <= record.data_size
      <4>1. codepoint - 32 \in 0..94
        BY DEF Drawn
      <4>2. (record.line_height * 8 + 7) \div 8 = record.line_height
        BY <3>2, RowBytes
      <4>3. (codepoint - 32) * record.line_height + record.line_height
              <= record.line_height * n
        <5> DEFINE k == codepoint - 32
        <5> DEFINE h == record.line_height
        <5>1. k \in 0..94 /\ h \in Nat /\ n \in {256, 512}
          BY <3>2, <4>1, Zenon
        <5> HIDE DEF k, h
        <5>2. k * h + h <= h * n
          BY <5>1, GlyphBound
        <5> QED
          BY <5>2, Zenon DEF k, h
      <4> QED
        BY <3>1, <4>2, <4>3, Zenon
    <3> QED
      BY <1>1, <2>2, <3>3 DEF GlyphInTable, BytesPerGlyph
  <2> QED
    BY <1>1, <1>2, <2>1, <2>2 DEF FontInv
<1> QED
  BY <1>1, <1>2, Zenon

(* UnloadFont leaves the other fonts of the cache, each once.              *)
LEMMA Removed ==
  ASSUME FontInv, Careful, NEW font \in font_live, RemoveFromCache(font),
         font_live' = font_live \ {font}, UNCHANGED fonts
  PROVE  /\ g_font_cache' \in [Slots -> Nat]
         /\ g_font_cache_count' \in 0..MAX_CACHED_FONTS
         /\ CacheSound'
<1> DEFINE first == CHOOSE i \in Cached(font) : \A j \in Cached(font) : i <= j
<1> USE FontAssumption
<1>1. CASE Cached(font) = {}
  <2>1. \A i \in 0..(g_font_cache_count - 1) : g_font_cache[i] # font
    BY <1>1, Zenon DEF Cached
  <2> QED
    BY <1>1, <2>1, Zenon DEF RemoveFromCache, cacheVars, Careful, CacheSound, IsBuiltin
<1>2. CASE Cached(font) # {}
  <2>1. PICK at \in Cached(font) : TRUE
    BY <1>2, Zenon
  <2>2. at \in 0..(g_font_cache_count - 1) /\ g_font_cache[at] = font
    BY <2>1, Zenon DEF Cached
  <2>3. \A j \in Cached(font) : j = at
    BY <2>2 DEF Cached, Careful, CacheSound
  <2>4. \A j \in Cached(font) : at <= j
    BY <2>2, <2>3
  <2>5. first = at
    BY <2>1, <2>3, <2>4, Zenon
  <2>6. /\ g_font_cache' = [i \in Slots |-> ShiftedFrom(at, i)]
        /\ g_font_cache_count' = g_font_cache_count - 1
    BY <1>2, <2>5, Zenon DEF RemoveFromCache
  <2>7. g_font_cache_count' \in 0..MAX_CACHED_FONTS
    BY <2>2, <2>6 DEF Careful
  <2>8. g_font_cache' \in [Slots -> Nat]
    BY <2>2, <2>6 DEF Careful, ShiftedFrom, Slots
  <2>9. \A i \in 0..(g_font_cache_count - 2) :
          g_font_cache'[i] = g_font_cache[IF at <= i THEN i + 1 ELSE i]
    BY <2>2, <2>6 DEF Careful, ShiftedFrom, Slots
  <2>10. \A i \in 0..(g_font_cache_count - 1) : i # at => g_font_cache[i] # font
    BY <2>2, <2>3, Zenon DEF Cached
  <2>11. \A i, j \in 0..(g_font_cache_count - 1) : i # j => g_font_cache[i] # g_font_cache[j]
    BY DEF Careful, CacheSound
  <2>12. ASSUME NEW i \in 0..(g_font_cache_count - 2)
         PROVE  /\ g_font_cache'[i] \in font_live'
                /\ fonts[g_font_cache'[i]].origin # "builtin"
                /\ \A j \in 0..(i - 1) : g_font_cache'[i] # g_font_cache'[j]
    <3>1. (IF at <= i THEN i + 1 ELSE i) \in 0..(g_font_cache_count - 1) \ {at}
      BY <2>2 DEF Careful
    <3>2. g_font_cache'[i] \in font_live' /\ fonts[g_font_cache'[i]].origin # "builtin"
      BY <2>9, <2>10, <3>1, Zenon DEF Careful, CacheSound, IsBuiltin
    <3>3. ASSUME NEW j \in 0..(i - 1) PROVE g_font_cache'[i] # g_font_cache'[j]
      BY <2>2, <2>9, <2>11 DEF Careful
    <3> QED
      BY <3>2, <3>3, Zenon
  <2> QED
    BY <2>2, <2>6, <2>7, <2>8, <2>12, SMTT(30) DEF CacheSound, Careful, IsBuiltin
<1> QED
  BY <1>1, <1>2, Zenon

(* What LoadFontFromMemory and LoadFontFile have in common.                *)
LEMMA Added ==
  ASSUME FontInv, NEW record \in FontRecord, AddFont(record), font_step = "idle",
         record.origin # "builtin",
         record.origin = "file" =>
           \E n \in {256, 512} : record.data_size = record.line_height * n
  PROVE  FontInv'
<1> DEFINE new == Len(fonts) + 1
<1> USE FontAssumption
<1>1. fonts' = Append(fonts, record)
  BY Zenon DEF AddFont
<1>2. /\ fonts' \in Seq(FontRecord) /\ Len(fonts') = Len(fonts) + 1
      /\ \A font \in 1..Len(fonts) : fonts'[font] = fonts[font]
      /\ fonts'[new] = record
      /\ \A font \in 1..Len(fonts') : fonts'[font].origin = "file" => GlyphInTable(font)'
  BY <1>1, Appended
<1>3. /\ font_live' = font_live \cup {new} /\ AddToCache(new)
      /\ font_held' = font_held \cup {new}
      /\ UNCHANGED <<font_step, builtinVars, font_i, font_fault, font_foreign>>
  BY Zenon DEF AddFont
<1>4. Len(fonts) \in Nat /\ font_live \subseteq 1..Len(fonts) /\ font_foreign \in BOOLEAN
  BY DEF FontInv
<1>5. ASSUME ~font_foreign' PROVE Careful'
  <2>1. Careful
    BY <1>3, <1>5, Zenon DEF FontInv
  <2>2. \A font \in font_live : IsBuiltin(font)' <=> IsBuiltin(font)
    BY <1>2, <1>4 DEF IsBuiltin
  <2>3. /\ g_font_cache' \in [Slots -> Nat]
        /\ g_font_cache_count' \in 0..MAX_CACHED_FONTS
    <3>1. CASE g_font_cache_count < MAX_CACHED_FONTS
      BY <1>3, <1>4, <2>1, <3>1, SMTT(30) DEF AddToCache, Careful, Slots
    <3>2. CASE ~(g_font_cache_count < MAX_CACHED_FONTS)
      BY <1>3, <2>1, <3>2 DEF AddToCache, cacheVars, Careful
    <3> QED
      BY <3>1, <3>2, Zenon
  <2>4. CacheSound'
    <3>1. CASE g_font_cache_count < MAX_CACHED_FONTS
      <4>1. /\ g_font_cache' = [g_font_cache EXCEPT ![g_font_cache_count] = new]
            /\ g_font_cache_count' = g_font_cache_count + 1
            /\ g_font_cache_count \in Slots
        BY <1>3, <2>1, <3>1 DEF AddToCache, Careful, Slots
      <4>2. /\ g_font_cache'[g_font_cache_count] = new
            /\ \A i \in 0..(g_font_cache_count - 1) : g_font_cache'[i] = g_font_cache[i]
        BY <2>1, <4>1 DEF Careful, Slots
      <4>3. \A i \in 0..(g_font_cache_count - 1) :
              g_font_cache[i] \in font_live /\ g_font_cache[i] # new
        BY <1>4, <2>1 DEF Careful, CacheSound
      <4>4. fonts'[new].origin # "builtin"
        BY <1>2, Zenon
      <4>5. ASSUME NEW i \in 0..g_font_cache_count
            PROVE  /\ g_font_cache'[i] \in font_live'
                   /\ fonts'[g_font_cache'[i]].origin # "builtin"
                   /\ \A j \in 0..(i - 1) : g_font_cache'[i] # g_font_cache'[j]
        <5>1. CASE i = g_font_cache_count
          BY <1>3, <2>1, <4>2, <4>3, <4>4, <5>1 DEF Careful
        <5>2. CASE i \in 0..(g_font_cache_count - 1)
          <6>1. /\ g_font_cache[i] \in font_live /\ ~IsBuiltin(g_font_cache[i])
                /\ \A j \in 0..(i - 1) : g_font_cache[i] # g_font_cache[j]
            BY <2>1, <5>2 DEF Careful, CacheSound
          <6>2. \A j \in 0..(i - 1) : g_font_cache'[j] = g_font_cache[j]
            BY <2>1, <4>2, <5>2 DEF Careful
          <6>3. fonts'[g_font_cache[i]].origin # "builtin"
            BY <2>2, <6>1 DEF IsBuiltin
          <6> QED
            BY <1>3, <4>2, <5>2, <6>1, <6>2, <6>3
        <5> QED
          BY <2>1, <5>1, <5>2 DEF Careful
      <4> QED
        BY <2>1, <4>1, <4>5 DEF CacheSound, Careful, IsBuiltin
    <3>2. CASE ~(g_font_cache_count < MAX_CACHED_FONTS)
      BY <1>3, <2>1, <2>2, <3>2 DEF AddToCache, cacheVars, CacheSound, Careful, IsBuiltin
    <3> QED
      BY <3>1, <3>2, Zenon
  <2>5. BuiltinLive \subseteq BuiltinLive'
    BY <1>3, <2>2 DEF BuiltinLive
  <2> QED
    BY <1>3, <2>1, <2>3, <2>4, <2>5 DEF Careful, builtinVars
<1>6. font_live' \subseteq 1..Len(fonts')
  <2>1. 1..Len(fonts) \subseteq 1..(Len(fonts) + 1) /\ new \in 1..(Len(fonts) + 1)
    BY <1>4
  <2>2. font_live' = font_live \cup {new} /\ Len(fonts') = Len(fonts) + 1
    BY <1>2, <1>3, Zenon
  <2>3. font_live \subseteq 1..(Len(fonts) + 1)
    BY <1>4
  <2> HIDE DEF new
  <2> QED
    BY <2>1, <2>2, <2>3
<1>7. font_foreign' \in BOOLEAN
  BY <1>3, <1>4, Zenon
<1> QED
  BY <1>2, <1>5, <1>6, <1>7, Zenon DEF FontInv

(* InitFontSystem, whichever of its allocations fail.                      *)
LEMMA Initialized ==
  ASSUME FontInv, NEW default \in BOOLEAN, NEW mono \in BOOLEAN, NEW bold \in BOOLEAN,
         InitFontSystem(default, mono, bold)
  PROVE  FontInv'
<1> DEFINE at(n, allocated) == IF allocated THEN Len(fonts) + n ELSE NULL
<1> USE FontAssumption
<1>1. Len(fonts) \in Nat /\ font_live \subseteq 1..Len(fonts) /\ font_foreign \in BOOLEAN
  BY DEF FontInv
<1>2. fonts' = fonts \o BuiltinFonts
  BY Zenon DEF InitFontSystem
<1>3. BuiltinFonts \in Seq(FontRecord) /\ Len(BuiltinFonts) = 3
  BY DEF BuiltinFonts, FontRecord
<1>4. \A n \in 1..3 : BuiltinFonts[n].origin = "builtin"
  BY DEF BuiltinFonts
<1>5. /\ fonts' \in Seq(FontRecord) /\ Len(fonts') = Len(fonts) + 3
      /\ \A font \in 1..Len(fonts) : fonts'[font] = fonts[font]
      /\ \A n \in 1..3 : fonts'[Len(fonts) + n] = BuiltinFonts[n]
  <2>1. fonts \in Seq(FontRecord)
    BY Zenon DEF FontInv
  <2>2. /\ fonts' \in Seq(FontRecord) /\ Len(fonts') = Len(fonts) + Len(BuiltinFonts)
        /\ \A i \in 1..(Len(fonts) + Len(BuiltinFonts)) :
             fonts'[i] = IF i <= Len(fonts) THEN fonts[i] ELSE BuiltinFonts[i - Len(fonts)]
    BY <1>2, <1>3, <2>1, Joined, Zenon
  <2>3. \A font \in 1..Len(fonts) : fonts'[font] = fonts[font]
    BY <1>1, <1>3, <2>2
  <2>4. \A n \in 1..3 : fonts'[Len(fonts) + n] = BuiltinFonts[n]
    BY <1>1, <1>3, <2>2
  <2> QED
    BY <1>3, <2>2, <2>3, <2>4, Zenon
<1>6. \A n \in 1..3 : fonts'[Len(fonts) + n].origin = "builtin"
  BY <1>4, <1>5, Zenon
<1>7. ASSUME NEW font \in 1..Len(fonts'), fonts'[font].origin = "file"
      PROVE  GlyphInTable(font)'
  <2>1. font \in 1..Len(fonts)
    <3>1. font \notin 1..Len(fonts) => font - Len(fonts) \in 1..3
      BY <1>1, <1>5
    <3>2. font - Len(fonts) \in 1..3 => fonts'[Len(fonts) + (font - Len(fonts))].origin = "builtin"
      BY <1>6, Zenon
    <3>3. Len(fonts) + (font - Len(fonts)) = font
      BY <1>1, <1>5
    <3> QED
      BY <1>7, <3>1, <3>2, <3>3, Zenon
  <2>2. fonts'[font] = fonts[font] /\ GlyphInTable(font)
    BY <1>5, <1>7, <2>1, Zenon DEF FontInv
  <2> QED
    BY <2>2, Zenon DEF GlyphInTable, BytesPerGlyph
<1>8. /\ g_default_font' = at(1, default) /\ g_mono_font' = at(2, mono)
      /\ g_bold_font' = at(3, bold)
      /\ font_live' = font_live \cup ({at(1, default), at(2, mono), at(3, bold)} \ {NULL})
      /\ g_font_cache' = [i \in Slots |-> NULL] /\ g_font_cache_count' = 0
      /\ font_step = "idle"
      /\ UNCHANGED <<font_step, font_i, font_held, font_fault, font_foreign>>
  BY Zenon DEF InitFontSystem, Called
<1>9. font_live' \subseteq 1..Len(fonts')
  <2>1. font_live \subseteq 1..(Len(fonts) + 3)
    BY <1>1
  <2>2. \A n \in 1..3 : \A allocated \in BOOLEAN :
          at(n, allocated) \in 1..(Len(fonts) + 3) \cup {NULL}
    BY <1>1
  <2>3. {at(1, default), at(2, mono), at(3, bold)} \subseteq 1..(Len(fonts) + 3) \cup {NULL}
    BY <2>2
  <2> HIDE DEF at
  <2> QED
    BY <1>5, <1>8, <2>1, <2>3, Zenon
<1>10. g_mono_font' \in BuiltinLive' \cup {NULL} /\ g_bold_font' \in BuiltinLive' \cup {NULL}
  BY <1>1, <1>6, <1>8 DEF BuiltinLive, IsBuiltin, NULL
<1>11. g_default_font' \in font_live' \cup {NULL}
  BY <1>8, Zenon
<1>12. ASSUME ~font_foreign' PROVE Careful'
  <2>1. Careful
    BY <1>8, <1>12, Zenon DEF FontInv
  <2>2. g_font_cache' \in [Slots -> Nat] /\ CacheSound'
    BY <1>8 DEF CacheSound, NULL
  <2> QED
    BY <1>8, <1>10, <1>11, <2>1, <2>2 DEF Careful
<1> QED
  BY <1>5, <1>7, <1>8, <1>9, <1>12, <1>1, Zenon DEF FontInv

(* Steps that allocate nothing only have to keep Careful.                  *)
LEMMA NothingAdded ==
  ASSUME FontInv, UNCHANGED fonts, font_live' \subseteq font_live,
         font_foreign' \in BOOLEAN, ~font_foreign' => Careful'
  PROVE  FontInv'
<1>1. font_live' \subseteq 1..Len(fonts') /\ fonts' \in Seq(FontRecord)
  BY Zenon DEF FontInv
<1>2. \A font \in 1..Len(fonts') : fonts'[font].origin = "file" => GlyphInTable(font)'
  BY Zenon DEF FontInv, GlyphInTable, BytesPerGlyph
<1> QED
  BY <1>1, <1>2, Zenon DEF FontInv

(* The sound cases of ShutdownFontSystem's end: three different fonts go,  *)
(* none of them in the cache.                                              *)
LEMMA ShutDown ==
  ASSUME FontInv, ShutdownEnds
  PROVE  FontInv'
<1> USE FontAssumption
<1>1. /\ font_step = "shutdown" /\ font_step' = "idle" /\ font_i' = 0
      /\ g_default_font' = NULL /\ g_mono_font' = NULL /\ g_bold_font' = NULL
      /\ g_font_cache_count' = 0 /\ UNCHANGED <<fonts, g_font_cache, font_held, font_foreign>>
      /\ font_live' = font_live \ ({g_default_font, g_mono_font, g_bold_font} \ {NULL})
  BY Zenon DEF ShutdownEnds
<1>2. ASSUME ~font_foreign' PROVE Careful'
  <2>1. Careful
    BY <1>1, <1>2, Zenon DEF FontInv
  <2>2. font_fault' = "none"
    BY <1>1, <2>1, Zenon DEF ShutdownEnds, Careful, BuiltinLive
  <2>3. font_held' = {}
    BY <1>1, <2>1, Zenon DEF Careful
  <2>4. CacheSound'
    BY <1>1 DEF CacheSound
  <2> QED
    BY <1>1, <2>1, <2>2, <2>3, <2>4 DEF Careful
<1>3. font_foreign' \in BOOLEAN
  BY <1>1, Zenon DEF FontInv
<1> QED
  BY <1>1, <1>2, <1>3, NothingAdded, Zenon

(* A font that is neither built-in nor the default goes: the pointers and  *)
(* the other fonts stay.                                                   *)
LEMMA Unloaded ==
  ASSUME FontInv, Careful, NEW font \in font_live, Unload(font), ~IsBuiltin(font),
         font # g_default_font, UNCHANGED <<fonts, builtinVars>>
  PROVE  /\ g_font_cache' \in [Slots -> Nat]
         /\ g_font_cache_count' \in 0..MAX_CACHED_FONTS
         /\ CacheSound' /\ font_fault' = "none" /\ font_live' = font_live \ {font}
         /\ g_default_font' \in font_live' \cup {NULL}
         /\ g_mono_font' \in BuiltinLive' \cup {NULL}
         /\ g_bold_font' \in BuiltinLive' \cup {NULL}
<1>1. /\ RemoveFromCache(font) /\ font_live' = font_live \ {font}
      /\ font_fault' = font_fault
  BY Zenon DEF Unload
<1>2. /\ g_font_cache' \in [Slots -> Nat]
      /\ g_font_cache_count' \in 0..MAX_CACHED_FONTS
      /\ CacheSound'
  BY <1>1, Removed, Zenon
<1>3. BuiltinLive' = BuiltinLive
  BY <1>1, Zenon DEF BuiltinLive, IsBuiltin
<1>4. g_default_font' \in font_live' \cup {NULL}
  BY <1>1, Zenon DEF Careful, builtinVars
<1> QED
  BY <1>1, <1>2, <1>3, <1>4, Zenon DEF Careful, builtinVars

-----------------------------------------------------------------------------
(* Before InitFontSystem there are no fonts.                               *)
LEMMA FontInitial == FontInit => FontInv
<1> SUFFICES ASSUME FontInit PROVE FontInv
  BY Zenon
<1> USE FontAssumption DEF FontInit
<1>1. fonts \in Seq(FontRecord) /\ Len(fonts) = 0
  OBVIOUS
<1>2. CacheSound /\ g_font_cache \in [Slots -> Nat]
  BY DEF CacheSound, NULL
<1>3. Careful
  BY <1>2 DEF Careful
<1>4. font_live \subseteq 1..Len(fonts) /\ 1..Len(fonts) = {}
  BY <1>1
<1>5. font_foreign \in BOOLEAN
  BY Zenon
<1> QED
  BY <1>1, <1>3, <1>4, <1>5, Zenon DEF FontInv

(* Every call, and every round of the two loops, keeps the invariant.      *)
LEMMA FontStep == FontInv /\ [FontNext]_fontVars => FontInv'
<1> SUFFICES ASSUME FontInv, [FontNext]_fontVars PROVE FontInv'
  OBVIOUS
<1> USE FontAssumption
<1>0. font_foreign \in BOOLEAN
  BY Zenon DEF FontInv
<1>1. ASSUME NEW default \in BOOLEAN, NEW mono \in BOOLEAN, NEW bold \in BOOLEAN,
             InitFontSystem(default, mono, bold)
      PROVE  FontInv'
  BY <1>1, Initialized, Zenon
<1>2. ASSUME NEW font \in font_held \cup {g_mono_font, g_bold_font}, SetDefaultFont(font)
      PROVE  FontInv'
  <2>1. /\ UNCHANGED <<font_step, fonts, font_live, cacheVars, g_mono_font, g_bold_font,
                       font_i, font_held, font_fault, font_foreign>>
        /\ g_default_font' = font /\ font # NULL /\ font_step = "idle"
    BY <1>2, Zenon DEF SetDefaultFont, Called
  <2>2. ASSUME ~font_foreign' PROVE Careful'
    <3>1. Careful
      BY <2>1, <2>2, Zenon DEF FontInv
    <3>2. CacheSound' /\ BuiltinLive' = BuiltinLive
      BY <2>1, <3>1, Zenon DEF Careful, CacheSound, BuiltinLive, IsBuiltin, cacheVars
    <3>3. g_default_font' \in font_live'
      BY <2>1, <3>1, Zenon DEF Careful, BuiltinLive
    <3> QED
      BY <2>1, <3>1, <3>2, <3>3, Zenon DEF Careful, cacheVars
  <2> QED
    BY <1>0, <2>1, <2>2, NothingAdded, Zenon
<1>3. ASSUME NEW size \in MemorySizes, LoadFontFromMemory(size) PROVE FontInv'
  <2> DEFINE record == [origin |-> "memory", line_height |-> 16, data_size |-> size]
  <2>1. record \in FontRecord /\ record.origin = "memory"
    BY Zenon DEF FontRecord
  <2>2. AddFont(record) /\ font_step = "idle"
    BY <1>3, Zenon DEF LoadFontFromMemory, Called
  <2> HIDE DEF record
  <2> QED
    BY <2>1, <2>2, Added, Zenon
<1>4. ASSUME NEW psf \in FontFiles, LoadFontFile(psf) PROVE FontInv'
  <2> DEFINE record == [origin |-> "file", line_height |-> psf.charsize,
                        data_size |-> psf.charsize * GlyphCount(psf)]
  <2>1. psf.charsize \in Nat /\ GlyphCount(psf) \in {256, 512}
    BY DEF GlyphCount
  <2>2. psf.charsize * GlyphCount(psf) \in Nat
    BY <2>1
  <2>3. /\ record \in FontRecord /\ record.origin = "file"
        /\ record.data_size = record.line_height * GlyphCount(psf)
    BY <2>1, <2>2, Zenon DEF FontRecord
  <2>4. AddFont(record) /\ font_step = "idle"
    BY <1>4, Zenon DEF LoadFontFile, Called
  <2> HIDE DEF record
  <2> QED
    BY <2>1, <2>3, <2>4, Added
<1>5. CASE LoadFontFileFalls
  <2>1. /\ UNCHANGED <<font_step, fonts, font_live, cacheVars, builtinVars, font_i,
                       font_fault, font_foreign>>
        /\ font_held' = font_held \cup {g_default_font} /\ g_default_font # NULL
        /\ font_step = "idle"
    BY <1>5, Zenon DEF LoadFontFileFalls, Called
  <2>2. ASSUME ~font_foreign' PROVE Careful'
    <3>1. Careful
      BY <2>1, <2>2, Zenon DEF FontInv
    <3>2. CacheSound' /\ BuiltinLive' = BuiltinLive
      BY <2>1, <3>1, Zenon DEF Careful, CacheSound, BuiltinLive, IsBuiltin, cacheVars
    <3>3. font_held' \subseteq font_live'
      BY <2>1, <3>1, Zenon DEF Careful
    <3> QED
      BY <2>1, <3>1, <3>2, <3>3, Zenon DEF Careful, cacheVars, builtinVars
  <2> QED
    BY <1>0, <2>1, <2>2, NothingAdded, Zenon
<1>6. ASSUME NEW font \in font_held, UnloadFont(font) PROVE FontInv'
  <2>1. /\ Unload(font) /\ font_held' = font_held \ {font} /\ font_step = "idle"
        /\ font_foreign' = (font_foreign \/ IsBuiltin(font) \/ font = g_default_font)
        /\ UNCHANGED <<font_step, fonts, builtinVars, font_i>>
    BY <1>6, Zenon DEF UnloadFont, Called
  <2>2. ASSUME ~font_foreign' PROVE Careful'
    <3>1. Careful /\ ~IsBuiltin(font) /\ font # g_default_font
      BY <2>1, <2>2, Zenon DEF FontInv
    <3>2. font \in font_live
      BY <3>1, Zenon DEF Careful
    <3>3. /\ g_font_cache' \in [Slots -> Nat]
          /\ g_font_cache_count' \in 0..MAX_CACHED_FONTS
          /\ CacheSound' /\ font_fault' = "none" /\ font_live' = font_live \ {font}
          /\ g_default_font' \in font_live' \cup {NULL}
          /\ g_mono_font' \in BuiltinLive' \cup {NULL}
          /\ g_bold_font' \in BuiltinLive' \cup {NULL}
      BY <2>1, <3>1, <3>2, Unloaded, Zenon
    <3>4. font_held' \subseteq font_live'
      BY <2>1, <3>1, <3>3, Zenon DEF Careful
    <3> QED
      BY <2>1, <3>1, <3>3, <3>4, Zenon DEF Careful
  <2>3. font_foreign' \in BOOLEAN
    BY <2>1, Zenon
  <2>4. font_live' \subseteq font_live
    BY <2>1, Zenon DEF Unload
  <2> QED
    BY <2>1, <2>2, <2>3, <2>4, NothingAdded, Zenon
<1>7. CASE ShutdownFontSystem
  <2>1. /\ UNCHANGED <<fonts, font_live, cacheVars, builtinVars, font_fault>>
        /\ font_step' = "shutdown" /\ font_i' = 0 /\ font_held' = {}
        /\ font_foreign' =
             (font_foreign \/ (/\ g_default_font # NULL
                               /\ \/ ~IsBuiltin(g_default_font)
                                  \/ g_default_font \in {g_mono_font, g_bold_font}))
    BY <1>7, Zenon DEF ShutdownFontSystem
  <2>2. ASSUME ~font_foreign' PROVE Careful'
    <3>1. /\ Careful
          /\ g_default_font # NULL =>
               IsBuiltin(g_default_font) /\ g_default_font \notin {g_mono_font, g_bold_font}
      BY <2>1, <2>2, Zenon DEF FontInv
    <3>2. CacheSound' /\ BuiltinLive' = BuiltinLive
      BY <2>1, <3>1, Zenon DEF Careful, CacheSound, BuiltinLive, IsBuiltin, cacheVars
    <3> QED
      BY <2>1, <3>1, <3>2, Zenon DEF Careful, cacheVars, builtinVars, IsBuiltin
  <2>3. font_foreign' \in BOOLEAN
    BY <2>1, Zenon
  <2> QED
    BY <2>1, <2>2, <2>3, NothingAdded, Zenon
<1>8. CASE ClearFontCache
  BY <1>8, NothingAdded, Zenon DEF ClearFontCache
<1>9. CASE LoopStep
  <2>1. /\ UNCHANGED <<font_step, fonts, builtinVars, font_held, font_foreign>>
        /\ font_i < g_font_cache_count /\ font_i' = font_i + 1
        /\ \/ UNCHANGED <<cacheVars, font_live, font_fault>>
           \/ Unload(g_font_cache[font_i])
        /\ font_step \in {"shutdown", "clear"}
    BY <1>9, Zenon DEF LoopStep
  <2>2. ASSUME ~font_foreign' PROVE Careful'
    <3>1. Careful /\ font_step = "shutdown"
      BY <2>1, <2>2, Zenon DEF FontInv, Careful
    <3>2. font_i' \in Nat /\ font_held' = {} /\ font_i \in 0..(g_font_cache_count - 1)
      BY <2>1, <3>1 DEF Careful
    <3>3. CASE UNCHANGED <<cacheVars, font_live, font_fault>>
      <4>1. CacheSound' /\ BuiltinLive' = BuiltinLive
        BY <2>1, <3>1, <3>3, Zenon DEF Careful, CacheSound, BuiltinLive, IsBuiltin, cacheVars
      <4> QED
        BY <2>1, <3>1, <3>2, <3>3, <4>1, Zenon DEF Careful, cacheVars, builtinVars, IsBuiltin
    <3>4. CASE Unload(g_font_cache[font_i])
      <4>1. g_font_cache[font_i] \in font_live /\ ~IsBuiltin(g_font_cache[font_i])
        BY <3>1, <3>2, Zenon DEF Careful, CacheSound
      <4>2. g_font_cache[font_i] # g_default_font
        <5>1. g_font_cache[font_i] # NULL
          <6>1. font_live \subseteq 1..Len(fonts)
            BY Zenon DEF FontInv
          <6> QED
            BY <4>1, <6>1 DEF NULL
        <5> QED
          BY <3>1, <4>1, <5>1, Zenon DEF Careful
      <4>3. /\ g_font_cache' \in [Slots -> Nat]
            /\ g_font_cache_count' \in 0..MAX_CACHED_FONTS
            /\ CacheSound' /\ font_fault' = "none"
            /\ g_default_font' \in font_live' \cup {NULL}
            /\ g_mono_font' \in BuiltinLive' \cup {NULL}
            /\ g_bold_font' \in BuiltinLive' \cup {NULL}
        BY <2>1, <3>1, <3>4, <4>1, <4>2, Unloaded, Zenon
      <4> QED
        BY <2>1, <3>1, <3>2, <4>3, Zenon DEF Careful, builtinVars, IsBuiltin
    <3> QED
      BY <2>1, <3>3, <3>4, Zenon
  <2>3. font_live' \subseteq font_live
    BY <2>1, Zenon DEF Unload
  <2> QED
    BY <1>0, <2>1, <2>2, <2>3, NothingAdded, Zenon
<1>10. CASE ShutdownEnds
  BY <1>10, ShutDown, Zenon
<1>11. CASE ClearEnds
  <2>1. /\ font_step = "clear"
        /\ UNCHANGED <<fonts, font_live, font_foreign>>
    BY <1>11, Zenon DEF ClearEnds
  <2>2. font_foreign
    BY <1>0, <2>1, Zenon DEF FontInv, Careful
  <2> QED
    BY <1>0, <2>1, <2>2, NothingAdded, Zenon
<1>12. CASE UNCHANGED fontVars
  <2>1. CacheSound' = CacheSound /\ BuiltinLive' = BuiltinLive
    BY <1>12, Zenon DEF fontVars, cacheVars, CacheSound, BuiltinLive, IsBuiltin
  <2>2. Careful => Careful'
    BY <1>12, <2>1, Zenon DEF fontVars, cacheVars, builtinVars, Careful, IsBuiltin
  <2>3. UNCHANGED <<fonts, font_live, font_foreign>>
    BY <1>12, Zenon DEF fontVars
  <2>4. ~font_foreign' => Careful'
    BY <2>2, <2>3, Zenon DEF FontInv
  <2> QED
    BY <1>0, <2>3, <2>4, NothingAdded, Zenon
<1> QED
  BY <1>1, <1>2, <1>3, <1>4, <1>5, <1>6, <1>7, <1>8, <1>9, <1>10, <1>11, <1>12, Zenon DEF FontNext

(* However many fonts are loaded, made the default and unloaded, in        *)
(* whatever order and through however full a cache, none is used or freed  *)
(* after it is gone and no glyph of a file's font lies outside its table,  *)
(* as long as the three calls named at FontsSound are not made             *)
(* (boot/font.c:114-159, 270-430).                                         *)
THEOREM FontsCorrect == FontSpec => []FontsSound
<1>1. FontInv => FontsSound
  <2> SUFFICES ASSUME FontInv, ~font_foreign PROVE FontsSound
    BY Zenon DEF FontsSound
  <2>1. Careful
    BY Zenon DEF FontInv
  <2>2. \A font \in font_live : fonts[font].origin = "file" => GlyphInTable(font)
    BY Zenon DEF FontInv
  <2>3. g_font_cache_count <= MAX_CACHED_FONTS
    BY <2>1, FontAssumption DEF Careful
  <2>4. {g_default_font, g_mono_font, g_bold_font} \subseteq font_live \cup {NULL}
    BY <2>1, Zenon DEF Careful, BuiltinLive
  <2> QED
    BY <2>1, <2>2, <2>3, <2>4, Zenon DEF Careful, CacheSound, FontsSound
<1> QED
  BY <1>1, FontInitial, FontStep, PTL DEF FontSpec

=============================================================================
