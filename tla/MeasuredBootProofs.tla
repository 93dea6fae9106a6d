------------------------- MODULE MeasuredBootProofs -------------------------
(***************************************************************************)
(* Measured boot, for every capacity of the log, every number of polls and *)
(* calls and every size of file: the event log tells which events the TPM  *)
(* was extended for, in the order it was, and what the calls report, in    *)
(* the log, the count and the mask of the context, is what the TPM did.    *)
(***************************************************************************)
EXTENDS MeasuredBoot, TLAPS

Events == [pcr : Nat, id : Nat]

EventSizes == [data : Nat, desc : Nat]

Commands ==
  [code : {"startup", "self_test", "separator", "bootloader", "kernel", "diagnostics"},
   pcr : Nat, id : Nat, size : EventSizes]

Contexts == [measurement_count : Nat, pcr_mask : SUBSET Nat, event_log : BOOLEAN]

Overrun == {"file_overrun", "log_overrun"}

Calling == {"send", "ready", "response", "result"} \cup Overrun

(* The types, and which PCR each kind of command extends.                  *)
TpmTypeOK ==
  /\ calls \in Nat
  /\ pc \in {"return", "detect", "locality", "global_log", "context_log"} \cup Calling
  /\ tpm \in {"idle", "ready", "executing", "complete"}
  /\ cmd \in Commands /\ running \in Commands
  /\ extended \in Seq(Events) /\ log \in Seq(Events)
  /\ context \in Contexts
  /\ pc \notin Calling => ~Extends(cmd)
  /\ ~Extends(cmd) => cmd.pcr = 0
  /\ cmd.code = "separator" => cmd.pcr \in 0..LAST_SEPARATOR
  /\ cmd.code = "bootloader" => cmd.pcr = TPM2_PCR_BOOTLOADER
  /\ cmd.code = "kernel" => cmd.pcr = TPM2_PCR_KERNEL

(* The log stays inside both of its capacities.                            *)
LogFits ==
  /\ max_events \in Nat /\ Len(log) <= max_events
  /\ log_size \in 0..MAX_LOG_SIZE

(* A copy leaves its buffer only when a size wraps.                        *)
OverrunWraps ==
  pc \in Overrun => log_size + EventBytes(cmd.size) >= UINT32

(* The order in which measurements are issued: by call, and within         *)
(* measured_boot_init by PCR.                                              *)
Precedes(m, n) == m.id < n.id \/ (m.id = n.id /\ m.pcr < n.pcr)

Ordered(s) == \A i, j \in 1..Len(s) : i < j => Precedes(s[i], s[j])

Elements(s) == {s[i] : i \in 1..Len(s)}

(* The extends executed, and the one the TPM is executing.                 *)
Issued ==
  Elements(extended) \cup
    IF tpm = "executing" /\ Extends(running) THEN {Event(running)} ELSE {}

(* The TPM takes one command at a time, and a command is sent only when it *)
(* is ready.  So an extend the driver gave up on is executed before the    *)
(* next one, the extends come in the order they were issued, and the only  *)
(* one that can be both pending and executed is the command at hand.       *)
Serial ==
  /\ Ordered(extended) /\ Ordered(log) /\ Elements(log) \subseteq Elements(extended)
  /\ tpm = "executing" /\ Extends(running) =>
       \A m \in Elements(extended) : Precedes(m, Event(running))
  /\ \A m \in Issued : m.id <= calls
  /\ pc \in Calling => cmd.id = calls
  /\ pc # "return" /\ (pc \in Calling => ~Extends(cmd)) => \A m \in Issued : m.id < calls
  /\ pc \in {"send", "ready", "file_overrun"} /\ Extends(cmd) =>
       \A m \in Issued : Precedes(m, Event(cmd))
  /\ pc \in {"response", "result"} /\ Extends(cmd) =>
       /\ \A m \in Issued : m = Event(cmd) \/ Precedes(m, Event(cmd))
       /\ \A m \in Elements(log) : Precedes(m, Event(cmd))

(* An answer belongs to the command at hand, and success means that it was *)
(* executed.                                                               *)
Answered ==
  /\ pc = "response" /\ tpm = "executing" => running = cmd
  /\ \/ pc = "response" /\ tpm = "complete" /\ reply = "success"
     \/ pc = "result" /\ rc = 0
     => (Extends(cmd) => Event(cmd) \in Elements(extended))

TpmInv == TpmTypeOK /\ LogFits /\ OverrunWraps /\ Serial /\ Answered

\* What an append to the log, or to the extends, does to its elements.
LEMMA AppendElements ==
  ASSUME NEW s \in Seq(Events), NEW m \in Events
  PROVE  /\ Append(s, m) \in Seq(Events)
         /\ Len(Append(s, m)) = Len(s) + 1
         /\ Elements(Append(s, m)) = Elements(s) \cup {m}
         /\ \A i \in 1..Len(s) : Append(s, m)[i] = s[i]
         /\ Append(s, m)[Len(s) + 1] = m
<1>1. /\ Append(s, m) \in Seq(Events)
      /\ Len(Append(s, m)) = Len(s) + 1
      /\ \A i \in 1..Len(s) : Append(s, m)[i] = s[i]
      /\ Append(s, m)[Len(s) + 1] = m
  OBVIOUS
<1>2. 1..(Len(s) + 1) = 1..Len(s) \cup {Len(s) + 1}
  OBVIOUS
<1>3. Elements(Append(s, m)) = Elements(s) \cup {m}
  BY <1>1, <1>2 DEF Elements
<1> QED
  BY <1>1, <1>3, Zenon

(* What comes after everything in an ordered sequence keeps it ordered.    *)
LEMMA AppendOrdered ==
  ASSUME NEW s \in Seq(Events), NEW m \in Events, Ordered(s),
         \A e \in Elements(s) : Precedes(e, m)
  PROVE  Ordered(Append(s, m))
<1> SUFFICES ASSUME NEW i \in 1..(Len(s) + 1), NEW j \in 1..(Len(s) + 1), i < j
             PROVE  Precedes(Append(s, m)[i], Append(s, m)[j])
  BY AppendElements, Zenon DEF Ordered
<1>1. i \in 1..Len(s) /\ Append(s, m)[i] = s[i]
  BY AppendElements
<1>2. CASE j \in 1..Len(s)
  BY <1>1, <1>2, AppendElements, Zenon DEF Ordered
<1>3. CASE j = Len(s) + 1
  BY <1>1, <1>3, AppendElements, Zenon DEF Elements
<1> QED
  BY <1>2, <1>3

\* The sizes of events and of the log are natural numbers.
LEMMA Sizes ==
  /\ LAST_SEPARATOR \in 0..7 /\ EVENT_SIZE \in Nat
  /\ SeparatorSize \in EventSizes /\ VersionSize \in EventSizes
  /\ \A size \in FileSizes : size \in EventSizes
  /\ MAX_EVENTS \in Nat /\ MAX_LOG_SIZE \in Nat /\ UINT32 \in Nat \ {0}
BY SizeAssumption DEF EventSizes

(* What the driver does to its context keeps the context's type.           *)
LEMMA ContextType ==
  ASSUME NEW c \in Contexts, NEW p \in Nat, NEW ok \in BOOLEAN
  PROVE  /\ [c EXCEPT !.event_log = ok] \in Contexts
         /\ [c EXCEPT !.pcr_mask = @ \cup {p}] \in Contexts
         /\ [c EXCEPT !.measurement_count = @ + 1, !.pcr_mask = @ \cup {p}] \in Contexts
<1>1. c.pcr_mask \cup {p} \in SUBSET Nat /\ c.measurement_count + 1 \in Nat
  BY DEF Contexts
<1>2. [c EXCEPT !.event_log = ok] \in Contexts
  BY Zenon DEF Contexts
<1>3. [c EXCEPT !.pcr_mask = @ \cup {p}] \in Contexts
  BY <1>1, Zenon DEF Contexts
<1>4. [c EXCEPT !.measurement_count = @ + 1, !.pcr_mask = @ \cup {p}] \in Contexts
  BY <1>1, Zenon DEF Contexts
<1> QED
  BY <1>2, <1>3, <1>4, Zenon

(* Every step keeps the types.                                             *)
LEMMA TpmTypeStep == TpmTypeOK /\ [Next]_vars => TpmTypeOK'
<1> SUFFICES ASSUME TpmTypeOK, [Next]_vars PROVE TpmTypeOK'
  BY Zenon
<1> USE DEF TpmTypeOK, Calling, Overrun, Extends
<1>z. NoSize \in EventSizes
  BY DEF NoSize, EventSizes
<1>n. NoCommand \in Commands /\ ~Extends(NoCommand) /\ NoCommand.pcr = 0
  BY <1>z, Zenon DEF NoCommand, Commands
<1>e. ASSUME NEW c \in Commands PROVE Event(c) \in Events
  BY Zenon DEF Commands, Event, Events
<1>1. CASE DeviceStep
  <2>1. ASSUME NEW done \in BOOLEAN, NEW answer, TpmExecutes(done, answer)
        PROVE  extended' \in Seq(Events) /\ tpm' = "complete" /\ running' = NoCommand
    BY <2>1, <1>e, AppendElements, Zenon DEF TpmExecutes
  <2> QED
    BY <1>1, <1>n, <2>1 DEF DeviceStep, GrantLocality, TpmReady, logVars
<1>2. CASE measured_boot_init
  <2>1. NoContext \in Contexts
    BY Zenon DEF NoContext, Contexts
  <2> QED
    BY <1>2, <2>1 DEF measured_boot_init, device, logVars
<1>3. ASSUME NEW code \in {"bootloader", "kernel", "diagnostics"}, NEW pcr \in Nat,
             NEW size \in EventSizes, NEW allocated \in BOOLEAN,
             Measure(code, pcr, size, allocated),
             code = "bootloader" => pcr = TPM2_PCR_BOOTLOADER,
             code = "kernel" => pcr = TPM2_PCR_KERNEL
      PROVE  TpmTypeOK'
  <2>1. PICK c \in Commands : c = [code |-> code, pcr |-> pcr, id |-> calls + 1, size |-> size]
    <3>1. calls + 1 \in Nat
      OBVIOUS
    <3>2. [code |-> code, pcr |-> pcr, id |-> calls + 1, size |-> size] \in Commands
      BY <3>1, <1>3, Zenon DEF Commands
    <3> QED
      BY <3>2, Zenon
  <2>2. c.code = code /\ c.pcr = pcr
    BY <2>1, Zenon
  <2>3. calls' \in Nat /\ UNCHANGED <<tpm, running, extended, log, context>>
    BY <1>3 DEF Measure, device, logVars
  <2>4. CASE cmd' = c /\ pc' \in {"send", "file_overrun"}
    BY <1>3, <2>2, <2>3, <2>4, Zenon
  <2>5. CASE cmd' = NoCommand /\ pc' = "return"
    BY <1>n, <2>3, <2>5, Zenon
  <2> QED
    BY <1>3, <2>1, <2>4, <2>5, Zenon DEF Measure, Send, Return
<1>4. CASE tpm2_cleanup
  BY <1>4 DEF tpm2_cleanup, device
<1>5. CASE DetectInterface
  BY <1>5, <1>n, Zenon DEF DetectInterface, Return, device, logVars
<1>6. CASE WaitLocality
  BY <1>6, <1>n, Zenon DEF WaitLocality, Poll, Return, device, logVars
<1>l. Append(log, Event(cmd)) \in Seq(Events) /\ cmd.pcr \in Nat
  <2>1. Event(cmd) \in Events /\ log \in Seq(Events)
    BY <1>e, Zenon
  <2>2. cmd.pcr \in Nat
    BY Zenon DEF Commands
  <2> QED
    BY <2>1, <2>2, AppendElements, Zenon
<1>s. ASSUME NEW p \in 0..LAST_SEPARATOR PROVE Separator(p) \in Commands
  BY Sizes DEF Separator, Command, Commands
<1>7. ASSUME NEW allocated \in BOOLEAN, GlobalLog(allocated) PROVE TpmTypeOK'
  <2>1. CASE allocated
    BY <1>7, <2>1, <1>n, <1>z DEF GlobalLog, Send, Command, device, Commands
  <2>2. CASE ~allocated
    BY <1>7, <2>2, <1>n, Zenon DEF GlobalLog, Return, device, logVars
  <2> QED
    BY <2>1, <2>2, Zenon
<1>8. ASSUME NEW allocated \in BOOLEAN, ContextLog(allocated) PROVE TpmTypeOK'
  <2>1. context' \in Contexts
    BY <1>8, ContextType, Zenon DEF ContextLog
  <2>2. CASE allocated
    <3>1. Separator(0) \in Commands /\ Separator(0).code = "separator" /\ Separator(0).pcr = 0
      BY <1>s, Sizes DEF Separator, Command
    <3> QED
      BY <1>8, <2>1, <2>2, <3>1, Sizes, SMTT(30) DEF ContextLog, Send, device, logVars
  <2>3. CASE ~allocated
    BY <1>8, <2>1, <2>3, <1>n, Zenon DEF ContextLog, Return, device, logVars
  <2> QED
    BY <2>2, <2>3
<1>9. CASE SendCommand
  BY <1>9, Zenon DEF SendCommand, Fail, device, logVars
<1>10. CASE WaitReady
  BY <1>10 DEF WaitReady, Poll, Fail, device, logVars
<1>11. CASE WaitResponse
  BY <1>11, Zenon DEF WaitResponse, Poll, Fail, device, logVars
<1>12. CASE StartupResult
  BY <1>12, <1>n, <1>z, SMTT(30) DEF StartupResult, Send, Command, Return, device, logVars, Commands
<1>13. CASE SelfTestResult
  BY <1>13, <1>n, Zenon DEF SelfTestResult, Return, device, logVars
<1>14. CASE SeparatorResult
  <2>1. log' \in Seq(Events)
    BY <1>14, <1>l, Zenon DEF SeparatorResult, tpm2_event_log_add, logVars
  <2>2. context' \in Contexts
    BY <1>14, <1>l, ContextType, Zenon DEF SeparatorResult
  <2>3. CASE cmd.pcr < LAST_SEPARATOR
    <3>0. cmd.pcr + 1 \in 0..LAST_SEPARATOR
      BY <2>3, <1>l, Sizes
    <3>1. PICK p \in 0..LAST_SEPARATOR : p = cmd.pcr + 1
      BY <3>0, Zenon
    <3>2. Separator(p) \in Commands /\ Separator(p).code = "separator" /\ Separator(p).pcr = p
      BY <1>s, Zenon DEF Separator, Command
    <3>3. cmd' = Separator(p) /\ pc' = "send"
      BY <1>14, <2>3, <3>1, Zenon DEF SeparatorResult, Send
    <3>4. UNCHANGED <<tpm, running, extended, calls>>
      BY <1>14, Zenon DEF SeparatorResult, device
    <3> QED
      BY <2>1, <2>2, <3>2, <3>3, <3>4, Zenon
  <2>4. CASE ~(cmd.pcr < LAST_SEPARATOR)
    BY <1>14, <2>1, <2>2, <2>4, <1>n, Zenon DEF SeparatorResult, Return, device
  <2> QED
    BY <2>3, <2>4, Zenon
<1>15. CASE MeasureResult
  <2>1. log' \in Seq(Events)
    BY <1>15, <1>l, Zenon DEF MeasureResult, tpm2_event_log_add, logVars
  <2>2. context' \in Contexts
    <3>1. CASE Measured
      <4>1. context' = [context EXCEPT !.measurement_count = @ + 1,
                                       !.pcr_mask = @ \cup {cmd.pcr}]
        BY <1>15, <3>1, Zenon DEF MeasureResult
      <4>2. context \in Contexts
        BY Zenon
      <4> HIDE DEF TpmTypeOK
      <4> QED
        BY <4>1, <4>2, <1>l, ContextType, Zenon
    <3>2. CASE ~Measured
      BY <1>15, <3>2, Zenon DEF MeasureResult
    <3> QED
      BY <3>1, <3>2, Zenon
  <2> QED
    <3>1. UNCHANGED <<tpm, running, extended, calls>> /\ pc' = "return" /\ cmd' = NoCommand
      BY <1>15, Zenon DEF MeasureResult, Return, device
    <3> QED
      BY <1>n, <2>1, <2>2, <3>1, Zenon
<1>16. CASE DiagnosticsResult
  BY <1>16, <1>n, Zenon DEF DiagnosticsResult, Return, device, logVars
<1>17. CASE UNCHANGED vars
  BY <1>17, Zenon DEF vars, device, logVars
<1>18. CASE measured_boot_measure_bootloader
  BY <1>18, <1>3, Sizes, Zenon DEF measured_boot_measure_bootloader, TPM2_PCR_BOOTLOADER
<1>19. ASSUME NEW size \in FileSizes, NEW allocated \in BOOLEAN,
              measured_boot_measure_kernel(size, allocated)
       PROVE  TpmTypeOK'
  BY <1>19, <1>3, Sizes, Zenon DEF measured_boot_measure_kernel, TPM2_PCR_KERNEL
<1>20. CASE tpm2_run_diagnostics
  BY <1>20, <1>3, <1>z, Zenon DEF tpm2_run_diagnostics, DIAGNOSTIC_PCR
<1>21. CASE LogOverrun
  BY <1>21, Zenon DEF LogOverrun, device, logVars
<1> HIDE DEF TpmTypeOK, Calling, Overrun, Extends
<1> QED
  BY <1>1, <1>2, <1>4, <1>5, <1>6, <1>7, <1>8, <1>9, <1>10, <1>11, <1>12, <1>13,
     <1>14, <1>15, <1>16, <1>17, <1>18, <1>19, <1>20, <1>21, Zenon DEF Next, Call, DriverStep

(* What the TPM was given are events, and the driver's own steps leave it. *)
LEMMA IssuedType ==
  ASSUME TpmTypeOK
  PROVE  /\ \A m \in Issued : m.id \in Nat /\ m.pcr \in Nat
         /\ \A m \in Elements(log) : m.id \in Nat /\ m.pcr \in Nat
         /\ Elements(extended) \subseteq Issued
         /\ tpm # "executing" => Issued = Elements(extended)
         /\ Event(cmd) \in Events /\ Event(cmd).id = cmd.id /\ Event(cmd).pcr = cmd.pcr
         /\ Event(running) \in Events
<1>1. \A c \in Commands : Event(c) \in Events /\ Event(c).id = c.id /\ Event(c).pcr = c.pcr
  BY Zenon DEF Commands, Event, Events
<1>2. \A s \in Seq(Events) : \A m \in Elements(s) : m \in Events
  BY DEF Elements
<1>3. \A m \in Events : m.id \in Nat /\ m.pcr \in Nat
  BY Zenon DEF Events
<1>4. cmd \in Commands /\ running \in Commands /\ extended \in Seq(Events) /\ log \in Seq(Events)
  BY Zenon DEF TpmTypeOK
<1> QED
  BY <1>1, <1>2, <1>3, <1>4, Zenon DEF Issued

\* As long as the device does nothing, no extend is added.
LEMMA SameDevice ==
  ASSUME UNCHANGED device
  PROVE  Issued' = Issued /\ extended' = extended /\ Elements(extended)' = Elements(extended)
BY Zenon DEF device, Issued, Elements

(* The steps of the TPM.                                                   *)
LEMMA DeviceSerial ==
  ASSUME TpmTypeOK, Serial, Answered, DeviceStep
  PROVE  Serial' /\ Answered'
<1>u. UNCHANGED <<log, pc, cmd, rc, calls>>
  BY Zenon DEF DeviceStep, logVars
<1>1. CASE GrantLocality
  <2>1. UNCHANGED <<tpm, running, reply, extended>>
    BY <1>1, Zenon DEF GrantLocality
  <2>2. Issued' = Issued
    BY <2>1, Zenon DEF Issued
  <2>3. Serial'
    BY <2>1, <2>2, <1>u, Zenon DEF Serial
  <2> QED
    BY <2>1, <2>3, <1>u, Zenon DEF Answered
<1>2. CASE TpmReady
  <2>1. Issued' = Issued /\ extended' = extended /\ tpm' = "ready"
    BY <1>2, Zenon DEF TpmReady, Issued, Elements
  <2> QED
    BY <2>1, <1>u, ZenonT(30) DEF Serial, Answered
<1>3. ASSUME NEW done \in BOOLEAN, NEW answer, TpmExecutes(done, answer)
      PROVE  Serial' /\ Answered'
  <2>0. tpm = "executing" /\ tpm' = "complete"
    BY <1>3, Zenon DEF TpmExecutes
  <2>l. Elements(log)' = Elements(log) /\ (Ordered(log) => Ordered(log)')
    BY <1>u, Zenon DEF Elements, Ordered
  <2>1. CASE done /\ Extends(running)
    <3>1. extended' = Append(extended, Event(running))
      BY <1>3, <2>1, Zenon DEF TpmExecutes
    <3>2. Elements(extended)' = Elements(extended) \cup {Event(running)}
      BY <3>1, IssuedType, AppendElements, Zenon DEF TpmTypeOK
    <3>3. Issued' = Issued
      BY <3>2, <2>0, <2>1, Zenon DEF Issued
    <3>4. Ordered(extended)'
      BY <3>1, <2>0, <2>1, IssuedType, AppendOrdered, Zenon DEF TpmTypeOK, Serial
    <3>5. Serial'
      BY <3>2, <3>3, <3>4, <2>0, <2>l, <1>u, Zenon DEF Serial
    <3>6. Answered'
      <4>1. CASE pc = "response"
        BY <4>1, <3>2, <2>0, <1>u, Zenon DEF Answered
      <4>2. CASE pc # "response"
        BY <4>2, <3>2, <1>u, Zenon DEF Answered
      <4> QED
        BY <4>1, <4>2, Zenon
    <3> QED
      BY <3>5, <3>6, Zenon
  <2>2. CASE ~(done /\ Extends(running))
    <3>1. extended' = extended /\ Elements(extended)' = Elements(extended)
      BY <1>3, <2>2, Zenon DEF TpmExecutes, Elements
    <3>2. Issued' \subseteq Issued
      BY <3>1, <2>0, Zenon DEF Issued
    <3>3. Serial'
      BY <3>1, <3>2, <2>0, <2>l, <1>u, Zenon DEF Serial, Ordered
    <3>4. reply' = "success" => done
      BY <1>3, Zenon DEF TpmExecutes
    <3>5. Answered'
      BY <3>1, <3>4, <2>0, <2>2, <1>u, Zenon DEF Answered
    <3> QED
      BY <3>3, <3>5
  <2> QED
    BY <2>1, <2>2, Zenon
<1> QED
  BY <1>1, <1>2, <1>3, Zenon DEF DeviceStep

(* The steps that neither touch the TPM nor extend the log.                *)
LEMMA QuietSerial ==
  ASSUME TpmTypeOK, Serial, Answered, UNCHANGED device,
         \/ measured_boot_init \/ tpm2_cleanup \/ DetectInterface \/ WaitLocality
         \/ \E allocated \in BOOLEAN : GlobalLog(allocated) \/ ContextLog(allocated)
         \/ SendCommand \/ StartupResult \/ SelfTestResult \/ DiagnosticsResult \/ LogOverrun
         \/ \E code \in {"bootloader", "kernel", "diagnostics"}, pcr \in Nat, size \in EventSizes,
               allocated \in BOOLEAN : Measure(code, pcr, size, allocated)
         \/ (WaitReady \/ WaitResponse) /\ pc' = pc
         \/ (WaitReady \/ WaitResponse) /\ Fail
  PROVE  Serial' /\ Answered'
<1>d. /\ Issued' = Issued /\ extended' = extended /\ Elements(extended)' = Elements(extended)
      /\ tpm' = tpm /\ running' = running /\ reply' = reply
  BY SameDevice, Zenon DEF device
<1>t. /\ \A m \in Issued : m.id \in Nat /\ m.pcr \in Nat
      /\ calls \in Nat
      /\ pc \in {"return", "detect", "locality", "global_log", "context_log"} \cup Calling
      /\ pc \notin Calling => ~Extends(cmd)
  BY IssuedType, Zenon DEF TpmTypeOK
<1>n. ~Extends(NoCommand)
  BY Zenon DEF NoCommand, Extends
<1>l. log' = log => Elements(log)' = Elements(log) /\ (Ordered(log)' <=> Ordered(log))
  BY Zenon DEF Elements, Ordered
<1>z. log' = << >> => Elements(log)' = {} /\ Ordered(log)'
  BY DEF Elements, Ordered
<1>o. Ordered(extended)' <=> Ordered(extended)
  BY <1>d, Zenon DEF Ordered
<1>e. Elements(extended) \subseteq Issued
  BY Zenon DEF Issued
<1> USE DEF Serial, Answered, Calling, Overrun
<1>1. CASE measured_boot_init
  BY <1>1, <1>d, <1>t, <1>l, <1>o DEF measured_boot_init, logVars
<1>2. CASE tpm2_cleanup
  BY <1>2, <1>d, <1>t, <1>z, <1>o DEF tpm2_cleanup
<1>3. CASE DetectInterface
  BY <1>3, <1>d, <1>t, <1>l, <1>o, <1>n, Zenon DEF DetectInterface, Return, logVars
<1>4. CASE WaitLocality
  BY <1>4, <1>d, <1>t, <1>l, <1>o, <1>n, Zenon DEF WaitLocality, Poll, Return, logVars
<1>5. ASSUME NEW allocated \in BOOLEAN, GlobalLog(allocated) PROVE Serial' /\ Answered'
  <2>1. CASE allocated
    <3>1. pc = "global_log" /\ pc' = "send" /\ cmd' = Command("startup", 0, NoSize) /\ log' = << >>
          /\ calls' = calls
      BY <1>5, <2>1, Zenon DEF GlobalLog, Send
    <3>2. cmd'.id = calls /\ ~Extends(cmd')
      BY <3>1, Zenon DEF Command, Extends
    <3> QED
      BY <3>1, <3>2, <1>d, <1>t, <1>z, <1>o, Zenon
  <2>2. CASE ~allocated
    BY <1>5, <2>2, <1>d, <1>t, <1>l, <1>o, <1>n, Zenon DEF GlobalLog, Return, logVars
  <2> QED
    BY <2>1, <2>2, Zenon
<1>6. ASSUME NEW allocated \in BOOLEAN, ContextLog(allocated) PROVE Serial' /\ Answered'
  <2>1. CASE allocated
    <3>1. pc = "context_log" /\ pc' = "send" /\ cmd' = Separator(0) /\ log' = log /\ calls' = calls
      BY <1>6, <2>1, Zenon DEF ContextLog, Send, logVars
    <3>2. cmd'.id = calls /\ Event(cmd').id = calls
      BY <3>1, Zenon DEF Separator, Command, Event
    <3>3. \A m \in Issued : Precedes(m, Event(cmd'))
      BY <3>1, <3>2, <1>t, Zenon DEF Precedes
    <3>4. Extends(cmd')
      BY <3>1, Zenon DEF Separator, Command, Extends
    <3> QED
      BY <3>1, <3>2, <3>3, <3>4, <1>d, <1>t, <1>l, <1>o, Zenon
  <2>2. CASE ~allocated
    BY <1>6, <2>2, <1>d, <1>t, <1>l, <1>o, <1>n, Zenon DEF ContextLog, Return, logVars
  <2> QED
    BY <2>1, <2>2
<1>7. CASE SendCommand
  <2>1. UNCHANGED <<log, cmd, calls>> /\ pc = "send" /\ (pc' = "ready" \/ (pc' = "result" /\ rc' = 1))
    BY <1>7, Zenon DEF SendCommand, Fail, logVars
  <2> QED
    BY <2>1, <1>d, <1>t, <1>l, <1>o, <1>e
<1>8. CASE StartupResult
  <2>1. pc = "result" /\ ~Extends(cmd) /\ UNCHANGED <<log, calls>>
    BY <1>8, Zenon DEF StartupResult, Extends, logVars
  <2>2. (pc' = "send" /\ cmd' = Command("self_test", 0, NoSize)) \/ (pc' = "return" /\ cmd' = NoCommand)
    BY <1>8, Zenon DEF StartupResult, Send, Return
  <2>3. Command("self_test", 0, NoSize).id = calls /\ ~Extends(Command("self_test", 0, NoSize))
    BY Zenon DEF Command, Extends
  <2> QED
    BY <2>1, <2>2, <2>3, <1>d, <1>t, <1>l, <1>o, <1>n, Zenon
<1>9. CASE SelfTestResult
  <2>1. pc = "result" /\ ~Extends(cmd) /\ UNCHANGED <<log, calls>>
    BY <1>9, Zenon DEF SelfTestResult, Extends, logVars
  <2>2. (pc' = "context_log" /\ cmd' = cmd) \/ (pc' = "return" /\ cmd' = NoCommand)
    BY <1>9, Zenon DEF SelfTestResult, Return
  <2> QED
    BY <2>1, <2>2, <1>d, <1>t, <1>l, <1>o, <1>n, Zenon
<1>10. CASE DiagnosticsResult
  BY <1>10, <1>d, <1>t, <1>l, <1>o, <1>n, Zenon DEF DiagnosticsResult, Return, logVars
<1>11. ASSUME NEW code \in {"bootloader", "kernel", "diagnostics"}, NEW pcr \in Nat, NEW size \in EventSizes,
              NEW allocated \in BOOLEAN, Measure(code, pcr, size, allocated)
       PROVE  Serial' /\ Answered'
  <2>1. pc = "return" /\ calls' = calls + 1 /\ log' = log
    BY <1>11, Zenon DEF Measure, logVars
  <2>2. CASE pc' \in {"send", "file_overrun"} /\ cmd' = [code |-> code, pcr |-> pcr, id |-> calls + 1, size |-> size]
    <3>1. cmd'.id = calls' /\ Event(cmd').id = calls + 1
      BY <2>1, <2>2, Zenon DEF Event
    <3>2. \A m \in Issued : Precedes(m, Event(cmd'))
      BY <3>1, <1>t, SMTT(30) DEF Precedes
    <3>3. Extends(cmd')
      BY <2>2, Zenon DEF Extends
    <3> QED
      BY <2>1, <2>2, <3>1, <3>2, <3>3, <1>d, <1>t, <1>l, <1>o, SMTT(30)
  <2>3. CASE pc' = "return" /\ cmd' = NoCommand
    BY <2>1, <2>3, <1>d, <1>t, <1>l, <1>o, <1>n
  <2> QED
    BY <1>11, <2>2, <2>3, Zenon DEF Measure, Send, Return
<1>12. CASE (WaitReady \/ WaitResponse) /\ (pc' = pc \/ Fail)
  <2> HIDE DEF Serial, Answered
  <2>1. UNCHANGED <<log, calls>> /\ pc \in {"ready", "response"}
    BY <1>12, Zenon DEF WaitReady, WaitResponse, logVars
  <2>2. CASE Fail
    BY <2>1, <2>2, <1>d, <1>t, <1>l, <1>o, <1>e, SMTT(30) DEF Fail, Serial, Answered
  <2>3. CASE pc' = pc /\ ~Fail
    <3>1. UNCHANGED <<cmd, rc>>
      BY <1>12, <2>3, <2>1, Zenon DEF WaitReady, WaitResponse, Poll, device
    <3> QED
      BY <2>1, <2>3, <3>1, <1>d, <1>t, <1>l, <1>o, Zenon DEF Serial, Answered
  <2> QED
    BY <1>12, <2>2, <2>3, Zenon
<1>13. CASE LogOverrun
  <2>1. UNCHANGED <<log, cmd, calls>> /\ pc = "result" /\ pc' = "log_overrun"
    BY <1>13, Zenon DEF LogOverrun, logVars
  <2> QED
    BY <2>1, <1>d, <1>t, <1>l, <1>o, Zenon
<1> HIDE DEF Serial, Answered, Calling, Overrun
<1> QED
  BY <1>1, <1>2, <1>3, <1>4, <1>5, <1>6, <1>7, <1>8, <1>9, <1>10, <1>11, <1>12, <1>13, Zenon

(* The command is given to the TPM, and the answer to it is read.          *)
LEMMA ExchangeSerial ==
  ASSUME TpmTypeOK, Serial, Answered, WaitReady \/ WaitResponse
  PROVE  Serial' /\ Answered'
<1>l. Elements(log)' = Elements(log) /\ (Ordered(log)' <=> Ordered(log)) /\ calls' = calls
  BY Zenon DEF WaitReady, WaitResponse, logVars, Elements, Ordered
<1>e. Elements(extended) \subseteq Issued
  BY Zenon DEF Issued
<1>1. CASE UNCHANGED device
  <2>1. pc' = pc \/ Fail
    <3>1. CASE WaitReady
      <4>1. pc = "ready" /\ ~(tpm' = "executing" /\ tpm = "ready")
        BY <1>1, <3>1, Zenon DEF WaitReady, device
      <4> QED
        BY <1>1, <3>1, <4>1, Zenon DEF WaitReady, Poll, device
    <3>2. CASE WaitResponse
      <4>1. pc = "response" /\ ~(tpm' = "idle" /\ tpm = "complete")
        BY <1>1, <3>2, Zenon DEF WaitResponse, device
      <4> QED
        BY <1>1, <3>2, <4>1, Zenon DEF WaitResponse, Poll, device
    <3> QED
      BY <3>1, <3>2, Zenon
  <2> QED
    BY <1>1, <2>1, QuietSerial, Zenon
<1>2. CASE WaitReady /\ ~UNCHANGED device
  <2>1. /\ pc = "ready" /\ pc' = "response" /\ tpm = "ready" /\ tpm' = "executing"
        /\ running' = cmd /\ UNCHANGED <<extended, cmd, rc>>
    BY <1>2, Zenon DEF WaitReady, Poll
  <2>2. Issued = Elements(extended) /\ Elements(extended)' = Elements(extended)
    BY <2>1, Zenon DEF Issued, Elements
  <2>3. Issued' = Issued \cup IF Extends(cmd) THEN {Event(cmd)} ELSE {}
    BY <2>1, <2>2, Zenon DEF Issued
  <2>4. Extends(cmd) => /\ \A m \in Issued : Precedes(m, Event(cmd))
                        /\ \A m \in Elements(log) : Precedes(m, Event(cmd))
    BY <2>1, <2>2, Zenon DEF Serial
  <2>5. cmd.id = calls /\ calls \in Nat /\ Event(cmd).id = calls
    BY <2>1, IssuedType, Zenon DEF Serial, Calling, TpmTypeOK
  <2>6. Ordered(extended)' <=> Ordered(extended)
    BY <2>1, Zenon DEF Ordered
  <2>7. Serial'
    BY <2>1, <2>2, <2>3, <2>4, <2>5, <2>6, <1>l DEF Serial, Calling
  <2>8. Answered'
    BY <2>1, <2>2, Zenon DEF Answered
  <2> QED
    BY <2>7, <2>8, Zenon
<1>3. CASE WaitResponse /\ ~UNCHANGED device
  <2>1. /\ pc = "response" /\ pc' = "result" /\ tpm = "complete" /\ tpm' = "idle"
        /\ rc' = (IF reply = "success" THEN 0 ELSE 1) /\ UNCHANGED <<extended, cmd>>
    BY <1>3, Zenon DEF WaitResponse, Poll
  <2>2. Elements(extended)' = Elements(extended) /\ Issued' = Issued
    BY <2>1, Zenon DEF Issued, Elements
  <2>3. Ordered(extended)' <=> Ordered(extended)
    BY <2>1, Zenon DEF Ordered
  <2>4. Serial'
    BY <2>1, <2>2, <2>3, <1>l, Zenon DEF Serial, Calling
  <2>5. Answered'
    BY <2>1, <2>2 DEF Answered
  <2> QED
    BY <2>4, <2>5
<1> QED
  BY <1>1, <1>2, <1>3, Zenon

(* A measurement is logged only with the answer that it was executed.      *)
LEMMA LoggedSerial ==
  ASSUME TpmTypeOK, Serial, Answered, SeparatorResult \/ MeasureResult
  PROVE  Serial' /\ Answered'
<1>d. /\ Issued' = Issued /\ extended' = extended /\ Elements(extended)' = Elements(extended)
      /\ tpm' = tpm /\ running' = running /\ calls' = calls
      /\ (Ordered(extended)' <=> Ordered(extended))
  BY SameDevice, Zenon DEF SeparatorResult, MeasureResult, device, Ordered
<1>c. pc = "result" /\ Extends(cmd) /\ cmd.id = calls
  BY Zenon DEF SeparatorResult, MeasureResult, Extends, Serial, Calling
<1>t. /\ \A m \in Issued : m.id \in Nat /\ m.pcr \in Nat
      /\ Event(cmd) \in Events /\ Event(cmd).id = calls /\ Event(cmd).pcr = cmd.pcr
      /\ log \in Seq(Events) /\ calls \in Nat /\ cmd.pcr \in Nat
  BY <1>c, IssuedType, Zenon DEF TpmTypeOK, Commands
<1>p. /\ \A m \in Issued : m = Event(cmd) \/ Precedes(m, Event(cmd))
      /\ \A m \in Elements(log) : Precedes(m, Event(cmd))
  BY <1>c, Zenon DEF Serial
<1>1. Ordered(log)' /\ Elements(log)' \subseteq Elements(extended)
  <2>1. CASE Measured
    <3>1. log' = Append(log, Event(cmd))
      BY <2>1, Zenon DEF SeparatorResult, MeasureResult, tpm2_event_log_add
    <3>2. Event(cmd) \in Elements(extended)
      BY <2>1, <1>c, Zenon DEF Measured, Answered
    <3>3. Ordered(log) /\ Elements(log) \subseteq Elements(extended)
      BY Zenon DEF Serial
    <3>4. Ordered(Append(log, Event(cmd)))
      BY <3>3, <1>t, <1>p, AppendOrdered, Zenon
    <3>5. Elements(Append(log, Event(cmd))) = Elements(log) \cup {Event(cmd)}
      BY <1>t, AppendElements, Zenon
    <3> QED
      BY <3>1, <3>2, <3>3, <3>4, <3>5, Zenon
  <2>2. CASE ~Measured
    <3>1. log' = log
      BY <2>2, Zenon DEF SeparatorResult, MeasureResult, logVars
    <3>2. Ordered(log)' /\ Elements(log)' = Elements(log)
      BY <3>1, Zenon DEF Serial, Ordered, Elements
    <3> QED
      BY <3>2, Zenon DEF Serial
  <2> QED
    BY <2>1, <2>2, Zenon
<1>2. CASE pc' = "return" /\ cmd' = NoCommand
  BY <1>1, <1>2, <1>d, Zenon DEF Serial, Answered, Calling, Overrun
<1>3. CASE pc' = "send" /\ cmd' = Separator(cmd.pcr + 1)
  <2>1. cmd'.id = calls /\ Event(cmd').id = calls /\ Event(cmd').pcr = cmd.pcr + 1
    BY <1>3, Zenon DEF Separator, Command, Event
  <2>2. \A m \in Issued : Precedes(m, Event(cmd'))
    BY <2>1, <1>t, <1>p DEF Precedes
  <2>3. Extends(cmd')
    BY <1>3, Zenon DEF Separator, Command, Extends
  <2>4. Serial'
    BY <2>1, <2>2, <2>3, <1>1, <1>3, <1>d, Zenon DEF Serial, Calling
  <2> QED
    BY <2>4, <1>3, Zenon DEF Answered
<1> QED
  BY <1>2, <1>3, Zenon DEF SeparatorResult, MeasureResult, Send, Return

(* Every step keeps the order of what is issued, and what answers mean.    *)
LEMMA SerialStep ==
  ASSUME TpmTypeOK, Serial, Answered, [Next]_vars
  PROVE  Serial' /\ Answered'
<1>1. CASE DeviceStep
  BY <1>1, DeviceSerial, Zenon
<1>2. CASE WaitReady \/ WaitResponse
  BY <1>2, ExchangeSerial, Zenon
<1>3. CASE SeparatorResult \/ MeasureResult
  BY <1>3, LoggedSerial, Zenon
<1>4. CASE UNCHANGED vars
  <2>1. UNCHANGED <<pc, cmd, rc, tpm, reply, running, calls, log, extended>>
    BY <1>4, Zenon DEF vars, device, logVars
  <2>2. Issued' = Issued
    BY <2>1, Zenon DEF Issued
  <2>3. Serial'
    BY <2>1, <2>2, Zenon DEF Serial
  <2>4. Answered'
    BY <2>1, Zenon DEF Answered
  <2> QED
    BY <2>3, <2>4, Zenon
<1>5. ASSUME NEW code \in {"bootloader", "kernel", "diagnostics"}, NEW pcr \in Nat,
             NEW size \in EventSizes, NEW allocated \in BOOLEAN, Measure(code, pcr, size, allocated)
      PROVE  Serial' /\ Answered'
  <2>1. UNCHANGED device
    BY <1>5, Zenon DEF Measure
  <2> QED
    BY <1>5, <2>1, QuietSerial, Zenon
<1>6. CASE Call
  <2>1. CASE measured_boot_measure_bootloader
    BY <2>1, <1>5, Sizes, Zenon DEF measured_boot_measure_bootloader, TPM2_PCR_BOOTLOADER
  <2>2. ASSUME NEW size \in FileSizes, NEW allocated \in BOOLEAN,
               measured_boot_measure_kernel(size, allocated)
        PROVE  Serial' /\ Answered'
    BY <2>2, <1>5, Sizes, Zenon DEF measured_boot_measure_kernel, TPM2_PCR_KERNEL
  <2>3. CASE tpm2_run_diagnostics
    <3>1. NoSize \in EventSizes
      BY DEF NoSize, EventSizes
    <3> QED
      BY <2>3, <3>1, <1>5, Zenon DEF tpm2_run_diagnostics, DIAGNOSTIC_PCR
  <2>4. CASE measured_boot_init \/ tpm2_cleanup
    <3>1. UNCHANGED device
      BY <2>4, Zenon DEF measured_boot_init, tpm2_cleanup
    <3> QED
      BY <2>4, <3>1, QuietSerial, Zenon
  <2> QED
    BY <1>6, <2>1, <2>2, <2>3, <2>4, Zenon DEF Call
<1>7. ASSUME NEW allocated \in BOOLEAN, GlobalLog(allocated) \/ ContextLog(allocated)
      PROVE  Serial' /\ Answered'
  <2>1. UNCHANGED device
    BY <1>7, Zenon DEF GlobalLog, ContextLog
  <2> QED
    BY <1>7, <2>1, QuietSerial, Zenon
<1>8. CASE DetectInterface \/ WaitLocality \/ SendCommand \/ StartupResult \/ SelfTestResult
             \/ DiagnosticsResult \/ LogOverrun
  <2>1. UNCHANGED device
    BY <1>8, Zenon DEF DetectInterface, WaitLocality, SendCommand, StartupResult, SelfTestResult,
                DiagnosticsResult, LogOverrun, Poll
  <2> QED
    BY <1>8, <2>1, QuietSerial, Zenon
<1> QED
  BY <1>1, <1>2, <1>3, <1>4, <1>6, <1>7, <1>8, Zenon DEF Next, DriverStep

(* What a step does to the log and the reports.                           *)
LEMMA LogSteps ==
  ASSUME [Next]_vars
  PROVE  \/ UNCHANGED <<log, log_size, max_events, reported>>
         \/ /\ log' = << >> /\ log_size' = 0 /\ reported' = {}
            /\ max_events' \in {0, MAX_EVENTS}
         \/ /\ SeparatorResult \/ MeasureResult
            /\ Measured /\ tpm2_event_log_add
<1>1. CASE DeviceStep
  BY <1>1, Zenon DEF DeviceStep, logVars
<1>2. CASE Call
  BY <1>2, Zenon DEF Call, measured_boot_init, measured_boot_measure_bootloader,
              measured_boot_measure_kernel, tpm2_run_diagnostics, Measure, tpm2_cleanup, logVars
<1>3. CASE DriverStep
  BY <1>3, ZenonT(30) DEF DriverStep, DetectInterface, WaitLocality, GlobalLog, ContextLog, SendCommand,
              WaitReady, WaitResponse, StartupResult, SelfTestResult, SeparatorResult,
              MeasureResult, DiagnosticsResult, LogOverrun, logVars
<1>4. CASE UNCHANGED vars
  BY <1>4, Zenon DEF vars, logVars
<1> QED
  BY <1>1, <1>2, <1>3, <1>4, Zenon DEF Next

\* The size of the event of the command at hand.
LEMMA EventSize ==
  ASSUME TpmTypeOK
  PROVE  /\ cmd.size.data \in Nat /\ cmd.size.desc \in Nat
         /\ EventBytes(cmd.size) = EVENT_SIZE + cmd.size.data + cmd.size.desc
         /\ EventBytes(cmd.size) \in Nat
<1>1. cmd.size \in EventSizes
  BY Zenon DEF TpmTypeOK, Commands
<1>2. cmd.size.data \in Nat /\ cmd.size.desc \in Nat
  BY <1>1, Zenon DEF EventSizes
<1>3. EventBytes(cmd.size) = EVENT_SIZE + cmd.size.data + cmd.size.desc
  BY Zenon DEF EventBytes
<1> QED
  BY <1>2, <1>3, Sizes

(* An event that passes the test of the capacity and whose sizes do not    *)
(* wrap fits the log's buffer.                                             *)
LEMMA FitsUnlessWraps ==
  ASSUME TpmTypeOK, LogFits, Overruns
  PROVE  log_size + EventBytes(cmd.size) >= UINT32
<1> DEFINE sum == log_size + EventBytes(cmd.size)
<1>1. log_size \in Nat /\ MAX_LOG_SIZE \in Nat /\ UINT32 \in Nat \ {0} /\ EVENT_SIZE \in Nat
  BY Sizes DEF LogFits
<1>2. sum \in Nat /\ sum = log_size + (EVENT_SIZE + cmd.size.data + cmd.size.desc)
  BY <1>1, EventSize
<1>3. ~(sum % UINT32 > MAX_LOG_SIZE) /\ CopyTooLong
  BY Zenon DEF Overruns, LogFull
<1>4. sum < UINT32 => sum % UINT32 = sum
  <2> HIDE DEF sum
  <2> QED
    BY <1>1, <1>2
<1>5. ASSUME sum < UINT32 PROVE FALSE
  <2>1. sum <= MAX_LOG_SIZE
    BY <1>1, <1>2, <1>3, <1>4, <1>5
  <2> HIDE DEF sum
  <2> QED
    BY <2>1, <1>1, <1>2, <1>3, <1>5, EventSize DEF CopyTooLong
<1> QED
  BY <1>1, <1>2, <1>5

\* tpm2_event_log_add stays within the capacities of the log.
LEMMA LogFitsStep ==
  ASSUME TpmTypeOK, LogFits, [Next]_vars
  PROVE  LogFits'
<1>1. CASE UNCHANGED <<log, log_size, max_events>>
  BY <1>1, Zenon DEF LogFits
<1>2. CASE log' = << >> /\ log_size' = 0 /\ max_events' \in {0, MAX_EVENTS}
  BY <1>2, Sizes DEF LogFits
<1>3. CASE Measured /\ tpm2_event_log_add
  <2>1. Len(log') = Len(log) + 1 /\ Len(log) \in Nat
    <3>1. log' = Append(log, Event(cmd))
      BY <1>3, Zenon DEF tpm2_event_log_add
    <3>2. log \in Seq(Events) /\ Event(cmd) \in Events
      BY IssuedType, Zenon DEF TpmTypeOK
    <3>3. Len(Append(log, Event(cmd))) = Len(log) + 1
      BY <3>2, AppendElements, Zenon
    <3>4. Len(log) \in Nat
      BY <3>2
    <3> QED
      BY <3>1, <3>3, <3>4, Zenon
  <2>2. Len(log) < max_events /\ max_events' = max_events /\ max_events \in Nat
    BY <1>3, <2>1 DEF Measured, LogFull, tpm2_event_log_add, LogFits
  <2>3. log_size' \in 0..MAX_LOG_SIZE
    <3>1. log_size + EventBytes(cmd.size) \in Nat
      BY Sizes, EventSize DEF LogFits
    <3>2. (log_size + EventBytes(cmd.size)) % UINT32 \in Nat
      BY <3>1, Sizes
    <3> QED
      BY <1>3, <3>2, Sizes DEF Measured, LogFull, tpm2_event_log_add
  <2> QED
    BY <2>1, <2>2, <2>3, SMTT(30) DEF LogFits
<1> QED
  BY <1>1, <1>2, <1>3, LogSteps, Zenon

(* What was copied outside its buffer had a size that wraps.               *)
LEMMA OverrunStep ==
  ASSUME TpmTypeOK, LogFits, LogFits', OverrunWraps, [Next]_vars
  PROVE  OverrunWraps'
<1>n. /\ log_size \in Nat /\ UINT32 \in Nat \ {0} /\ EVENT_SIZE \in Nat
      /\ log_size' \in Nat
  BY Sizes DEF LogFits
<1> USE DEF OverrunWraps, Overrun
<1>1. CASE LogOverrun
  <2>1. log_size' = log_size /\ cmd' = cmd /\ Overruns
    BY <1>1, Zenon DEF LogOverrun, logVars
  <2> QED
    BY <2>1, FitsUnlessWraps, Zenon
<1>2. ASSUME NEW code, NEW pcr, NEW size \in EventSizes, NEW allocated,
             Measure(code, pcr, size, allocated)
      PROVE  OverrunWraps'
  <2>1. CASE pc' \notin Overrun
    BY <2>1, Zenon
  <2>2. CASE size.data >= UINT32 /\ cmd'.size = size
    <3>1. size.data \in Nat /\ size.desc \in Nat
      BY Zenon DEF EventSizes
    <3>2. EventBytes(size) = EVENT_SIZE + size.data + size.desc
      BY Zenon DEF EventBytes
    <3>3. log_size' + EventBytes(size) >= UINT32
      BY <2>2, <3>1, <3>2, <1>n
    <3> QED
      BY <2>2, <3>3, Zenon
  <2>3. \/ pc' \in {"send", "return"}
        \/ size.data >= UINT32 /\ cmd' = [code |-> code, pcr |-> pcr, id |-> calls + 1, size |-> size]
    BY <1>2, Zenon DEF Measure, Send, Return
  <2>4. CASE pc' \in {"send", "return"}
    BY <2>4, <2>1, Zenon
  <2>5. CASE cmd' = [code |-> code, pcr |-> pcr, id |-> calls + 1, size |-> size]
    <3>1. cmd'.size = size
      BY <2>5
    <3> QED
      BY <3>1, <2>2, <2>3, <2>4, Zenon
  <2> QED
    BY <2>3, <2>4, <2>5, Zenon
<1>3. CASE pc' \notin Overrun
  BY <1>3, Zenon
<1>4. CASE UNCHANGED <<pc, cmd, log_size>>
  BY <1>4, Zenon
<1>5. CASE DeviceStep \/ UNCHANGED vars
  BY <1>5, <1>4, Zenon DEF DeviceStep, vars, logVars
<1>6. CASE Call
  <2>1. NoSize \in EventSizes
    BY DEF NoSize, EventSizes
  <2>2. CASE measured_boot_init \/ tpm2_cleanup
    BY <2>2, <1>3, Zenon DEF measured_boot_init, tpm2_cleanup
  <2> QED
    BY <1>6, <2>1, <2>2, <1>2, Sizes, Zenon DEF Call, measured_boot_measure_bootloader,
       measured_boot_measure_kernel, tpm2_run_diagnostics
<1>7. CASE DriverStep /\ ~LogOverrun
  <2>1. pc' \notin Overrun
    BY <1>7, Zenon DEF DriverStep, DetectInterface, WaitLocality, GlobalLog, ContextLog,
       SendCommand, WaitReady, WaitResponse, StartupResult, SelfTestResult, SeparatorResult,
       MeasureResult, DiagnosticsResult, Poll, Fail, Send, Return
  <2> QED
    BY <2>1, <1>3, Zenon
<1> HIDE DEF OverrunWraps, Overrun
<1> QED
  BY <1>1, <1>5, <1>6, <1>7, Zenon DEF Next

\* The TPM starts idle, without extends and without a log.
LEMMA TpmInitInv == Init => TpmInv
<1> SUFFICES ASSUME Init PROVE TpmInv
  BY Zenon
<1>1. extended = << >> /\ log = << >> /\ cmd = NoCommand /\ running = NoCommand
      /\ pc = "return" /\ tpm = "idle" /\ calls = 0 /\ context = NoContext
      /\ max_events = 0 /\ log_size = 0
  BY Zenon DEF Init
<1>2. TpmTypeOK
  <2>0. NoSize \in EventSizes
    BY DEF NoSize, EventSizes
  <2>1. NoContext \in Contexts /\ NoCommand \in Commands
    BY <2>0, Zenon DEF NoContext, Contexts, NoCommand, Commands
  <2> QED
    BY <1>1, <2>1, SMTT(30) DEF TpmTypeOK, NoCommand, Extends, Calling, Overrun
<1>3. LogFits
  BY <1>1, Sizes DEF LogFits
<1>4. Elements(extended) = {} /\ Elements(log) = {} /\ Issued = {}
  BY <1>1 DEF Elements, Issued
<1>5. Serial /\ Answered
  BY <1>1, <1>4 DEF Serial, Answered, Ordered, Calling, Overrun
<1>6. OverrunWraps
  BY <1>1, Zenon DEF OverrunWraps, Overrun
<1> QED
  BY <1>2, <1>3, <1>5, <1>6, Zenon DEF TpmInv

\* The invariant holds in every state of a run.
THEOREM TpmInvariant == Spec => []TpmInv
<1>1. TpmInv /\ [Next]_vars => TpmInv'
  BY TpmTypeStep, LogFitsStep, OverrunStep, SerialStep, Zenon DEF TpmInv
<1> QED
  BY <1>1, TpmInitInv, PTL DEF Spec

(* The entries of the event log are, in order, events the TPM has extended *)
(* a PCR for, for every number of polls and calls, however late the TPM is *)
(* ready and answers, and whatever is lost of its answers; the log never   *)
(* outgrows its capacities, and a copy leaves its buffer only for an event *)
(* whose size wraps.                                                       *)
THEOREM LogCorrect == Spec => []LogFollowsExtends
<1>1. TpmInv => LogFollowsExtends
  <2> SUFFICES ASSUME TpmInv PROVE LogFollowsExtends
    BY Zenon
  <2>1. /\ Ordered(extended) /\ Ordered(log) /\ Elements(log) \subseteq Elements(extended)
        /\ extended \in Seq(Events) /\ log \in Seq(Events)
    BY Zenon DEF TpmInv, Serial, TpmTypeOK
  <2>2. DOMAIN extended = 1..Len(extended) /\ DOMAIN log = 1..Len(log)
    BY <2>1
  <2>3. ASSUME NEW m \in Events, NEW n \in Events, Precedes(m, n)
        PROVE  ~Precedes(n, m) /\ m # n
    BY <2>3 DEF Events, Precedes
  <2>4. ASSUME NEW k \in DOMAIN extended, NEW l \in DOMAIN extended,
               NEW i \in DOMAIN log, NEW j \in DOMAIN log,
               extended[k] = log[i], extended[l] = log[j]
        PROVE  k < l <=> i < j
    <3>1. log[i] \in Events /\ log[j] \in Events
      BY <2>1
    <3>2. k \in Nat /\ l \in Nat /\ i \in Nat /\ j \in Nat
      BY <2>2
    <3>3. k < l => Precedes(log[i], log[j])
      BY <2>1, <2>2, <2>4, Zenon DEF Ordered
    <3>4. l < k => Precedes(log[j], log[i])
      BY <2>1, <2>2, <2>4, Zenon DEF Ordered
    <3>5. i < j => Precedes(log[i], log[j])
      BY <2>1, <2>2, Zenon DEF Ordered
    <3>6. j < i => Precedes(log[j], log[i])
      BY <2>1, <2>2, Zenon DEF Ordered
    <3>7. k = l => log[i] = log[j]
      BY <2>4, Zenon
    <3> QED
      BY <3>1, <3>2, <3>3, <3>4, <3>5, <3>6, <3>7, <2>3
  <2>5. Entries \subseteq {extended[k] : k \in DOMAIN extended}
    BY <2>1, <2>2, Zenon DEF Entries, Elements
  <2>6. Len(log) <= max_events /\ log_size <= MAX_LOG_SIZE
    BY Sizes DEF TpmInv, LogFits
  <2>7. pc \in {"file_overrun", "log_overrun"} => log_size + EventBytes(cmd.size) >= UINT32
    BY Zenon DEF TpmInv, OverrunWraps, Overrun
  <2> QED
    BY <2>4, <2>5, <2>6, <2>7, Zenon DEF LogFollowsExtends
<1> QED
  BY <1>1, TpmInvariant, PTL

-----------------------------------------------------------------------------
(* What the calls report.                                                  *)

OwnPcrs == {TPM2_PCR_BOOTLOADER, TPM2_PCR_KERNEL}

(* The extends of the loader's own PCRs other than the command at hand.    *)
Settled ==
  {i \in DOMAIN extended : extended[i].pcr \in OwnPcrs /\ extended[i] # Event(cmd)}

(* The log holds what was reported, and the context counts what is settled. *)
Backed ==
  /\ {m \in Elements(log) : m.pcr \in OwnPcrs} = reported
  /\ context.measurement_count <= Cardinality(Settled)
  /\ \A p \in context.pcr_mask :
       p \in 0..LAST_SEPARATOR \/ \E i \in DOMAIN extended : extended[i].pcr = p /\ p \in OwnPcrs

(* What a step does to the context and to the command.                     *)
LEMMA ContextSteps ==
  ASSUME TpmTypeOK, [Next]_vars
  PROVE  \/ /\ context'.measurement_count = context.measurement_count
            /\ context'.pcr_mask = context.pcr_mask
         \/ context' = NoContext
         \/ SeparatorResult
         \/ MeasureResult /\ Measured
<1>1. CASE DeviceStep
  BY <1>1, Zenon DEF DeviceStep
<1>2. CASE Call
  BY <1>2, Zenon DEF Call, measured_boot_init, measured_boot_measure_bootloader,
              measured_boot_measure_kernel, tpm2_run_diagnostics, Measure, tpm2_cleanup
<1>3. ASSUME NEW allocated \in BOOLEAN, ContextLog(allocated)
      PROVE  /\ context'.measurement_count = context.measurement_count
             /\ context'.pcr_mask = context.pcr_mask
  BY <1>3 DEF ContextLog, TpmTypeOK
<1>4. CASE DriverStep
  BY <1>4, <1>3, Zenon DEF DriverStep, DetectInterface, WaitLocality, GlobalLog, SendCommand,
              WaitReady, WaitResponse, StartupResult, SelfTestResult,
              MeasureResult, DiagnosticsResult, LogOverrun
<1>5. CASE UNCHANGED vars
  BY <1>5, Zenon DEF vars
<1> QED
  BY <1>1, <1>2, <1>4, <1>5, Zenon DEF Next

\* Only a call of the TPM replaces the command, and it begins by sending it.
LEMMA CommandSteps ==
  ASSUME [Next]_vars
  PROVE  cmd' = cmd \/ cmd' = NoCommand \/ pc' \in {"send", "file_overrun"}
<1>1. CASE DeviceStep \/ UNCHANGED vars
  BY <1>1, Zenon DEF DeviceStep, vars
<1>2. CASE Call
  BY <1>2, Zenon DEF Call, measured_boot_init, measured_boot_measure_bootloader,
              measured_boot_measure_kernel, tpm2_run_diagnostics, Measure, tpm2_cleanup,
              Send, Return
<1>3. CASE DriverStep
  BY <1>3, Zenon DEF DriverStep, DetectInterface, WaitLocality, GlobalLog, ContextLog, SendCommand,
              WaitReady, WaitResponse, StartupResult, SelfTestResult, SeparatorResult,
              MeasureResult, DiagnosticsResult, LogOverrun, Poll, Fail, Send, Return
<1> QED
  BY <1>1, <1>2, <1>3, Zenon DEF Next

(* What was extended stays extended.                                       *)
LEMMA ExtendedGrows ==
  ASSUME TpmTypeOK, [Next]_vars
  PROVE  /\ DOMAIN extended \subseteq DOMAIN extended'
         /\ \A i \in DOMAIN extended : extended'[i] = extended[i]
<1>1. CASE extended' = extended
  BY <1>1, Zenon
<1>2. CASE extended' = Append(extended, Event(running))
  <2>1. extended \in Seq(Events) /\ Event(running) \in Events
    BY IssuedType, Zenon DEF TpmTypeOK
  <2>2. DOMAIN extended = 1..Len(extended) /\ DOMAIN extended' = 1..(Len(extended) + 1)
    BY <1>2, <2>1, AppendElements
  <2> QED
    BY <1>2, <2>1, <2>2, AppendElements, SMTT(30)
<1>3. DeviceStep => extended' = extended \/ extended' = Append(extended, Event(running))
  BY Zenon DEF DeviceStep, GrantLocality, TpmReady, TpmExecutes
<1>4. Call => extended' = extended
  BY Zenon DEF Call, measured_boot_init, measured_boot_measure_bootloader,
         measured_boot_measure_kernel, tpm2_run_diagnostics, Measure, tpm2_cleanup, device
<1>5. DriverStep => extended' = extended
  BY Zenon DEF DriverStep, DetectInterface, WaitLocality, GlobalLog, ContextLog, SendCommand,
         WaitReady, WaitResponse, StartupResult, SelfTestResult, SeparatorResult,
         MeasureResult, DiagnosticsResult, LogOverrun, Poll, device
<1> QED
  BY <1>1, <1>2, <1>3, <1>4, <1>5, Zenon DEF Next, vars, device

INSTANCE FiniteSetTheorems

(* Sets of positions in a sequence are finite, and larger ones count more. *)
LEMMA CountPositions ==
  ASSUME NEW s \in Seq(Events), NEW A \in SUBSET DOMAIN s, NEW B \in SUBSET A
  PROVE  /\ IsFiniteSet(A) /\ Cardinality(A) \in Nat /\ Cardinality(B) \in Nat
         /\ Cardinality(B) <= Cardinality(A)
         /\ \A i \in A \ B : Cardinality(B) + 1 <= Cardinality(A)
<1>1. IsFiniteSet(DOMAIN s)
  <2>1. DOMAIN s = 1..Len(s) /\ Len(s) \in Nat
    OBVIOUS
  <2> QED
    BY <2>1, FS_Interval
<1>2. IsFiniteSet(A) /\ IsFiniteSet(B)
  BY <1>1, FS_Subset, Zenon
<1>3. Cardinality(A) \in Nat /\ Cardinality(B) \in Nat /\ Cardinality(B) <= Cardinality(A)
  BY <1>2, FS_CardinalityType, FS_Subset, Zenon
<1>4. ASSUME NEW i \in A \ B PROVE Cardinality(B) + 1 <= Cardinality(A)
  <2>1. B \cup {i} \in SUBSET A
    BY Zenon
  <2>2. Cardinality(B \cup {i}) = Cardinality(B) + 1
    BY <1>2, FS_AddElement, Zenon
  <2>3. Cardinality(B \cup {i}) <= Cardinality(A)
    BY <1>2, <2>1, FS_Subset, Zenon
  <2> QED
    BY <2>2, <2>3, Zenon
<1> QED
  BY <1>2, <1>3, <1>4, Zenon

(* What is settled stays settled: a new command is not one that was        *)
(* executed.                                                               *)
LEMMA SettledGrows ==
  ASSUME TpmTypeOK, TpmTypeOK', Serial', [Next]_vars
  PROVE  /\ Settled \subseteq Settled'
         /\ Settled \in SUBSET DOMAIN extended' /\ Settled' \in SUBSET DOMAIN extended'
<1>1. ASSUME NEW i \in Settled PROVE i \in Settled'
  <2>1. /\ i \in DOMAIN extended' /\ extended'[i] = extended[i]
        /\ extended[i].pcr \in OwnPcrs /\ extended[i] # Event(cmd)
    BY ExtendedGrows, Zenon DEF Settled
  <2>2. extended'[i] # Event(cmd')
    <3>1. CASE cmd' = cmd
      BY <2>1, <3>1, Zenon
    <3>2. CASE cmd'.pcr \notin OwnPcrs
      BY <2>1, <3>2 DEF Event
    <3>3. CASE pc' \in {"send", "file_overrun"} /\ Extends(cmd')
      <4>1. i \in 1..Len(extended')
        BY <2>1, SMTT(30) DEF TpmTypeOK
      <4>2. extended'[i] \in Issued'
        BY <4>1, Zenon DEF Issued, Elements
      <4>3. Precedes(extended'[i], Event(cmd'))
        BY <3>3, <4>2, Zenon DEF Serial
      <4>4. Event(cmd').id \in Nat /\ Event(cmd').pcr \in Nat
        BY Zenon DEF TpmTypeOK, Commands, Event
      <4> QED
        BY <4>3, <4>4, SMTT(30) DEF Precedes
    <3>4. ~Extends(cmd') => cmd'.pcr \notin OwnPcrs
      BY DEF TpmTypeOK, OwnPcrs, TPM2_PCR_BOOTLOADER, TPM2_PCR_KERNEL
    <3>5. ~Extends(NoCommand)
      BY Zenon DEF Extends, NoCommand
    <3> QED
      BY <3>1, <3>2, <3>3, <3>4, <3>5, CommandSteps, Zenon
  <2> QED
    BY <2>1, <2>2, Zenon DEF Settled
<1>2. Settled' \subseteq DOMAIN extended'
  BY Zenon DEF Settled
<1> QED
  BY <1>1, <1>2, Zenon

(* The log and the reports change together: what is logged of the loader's *)
(* own PCRs is reported, and separators go to other PCRs.                  *)
LEMMA ReportsStep ==
  ASSUME TpmTypeOK, Backed, [Next]_vars
  PROVE  {m \in Elements(log') : m.pcr \in OwnPcrs} = reported'
<1>1. CASE UNCHANGED <<log, reported>>
  BY <1>1, Zenon DEF Backed
<1>2. CASE log' = << >> /\ reported' = {}
  BY <1>2 DEF Elements
<1>3. CASE (SeparatorResult \/ MeasureResult) /\ Measured /\ tpm2_event_log_add
  <2>1. Elements(log') = Elements(log) \cup {Event(cmd)} /\ Event(cmd).pcr = cmd.pcr
    BY <1>3, IssuedType, AppendElements, Zenon DEF tpm2_event_log_add, TpmTypeOK
  <2>2. {m \in Elements(log) : m.pcr \in OwnPcrs} = reported
    BY Zenon DEF Backed
  <2>3. CASE SeparatorResult
    <3>0. cmd.pcr \in 0..LAST_SEPARATOR /\ reported' = reported
      BY <2>3, Zenon DEF SeparatorResult, TpmTypeOK
    <3>1. cmd.pcr \notin OwnPcrs
      BY <3>0, Sizes DEF OwnPcrs, TPM2_PCR_BOOTLOADER, TPM2_PCR_KERNEL
    <3> QED
      BY <2>1, <2>2, <3>0, <3>1, Zenon
  <2>4. CASE MeasureResult
    <3>1. cmd.pcr \in OwnPcrs /\ reported' = reported \cup {Event(cmd)}
      BY <2>4, <1>3, Zenon DEF MeasureResult, TpmTypeOK, OwnPcrs
    <3> QED
      BY <2>1, <2>2, <3>1, Zenon
  <2> QED
    BY <1>3, <2>3, <2>4, Zenon
<1> QED
  BY <1>1, <1>2, <1>3, LogSteps, Zenon

(* A measurement that is counted joins those that are settled.             *)
LEMMA CountStep ==
  ASSUME TpmTypeOK, TpmTypeOK', Serial', Answered, Backed, [Next]_vars
  PROVE  context'.measurement_count <= Cardinality(Settled')
<1>t. /\ context.measurement_count \in Nat /\ extended' \in Seq(Events)
      /\ context \in Contexts
  BY Zenon DEF TpmTypeOK, Contexts
<1>1. /\ Settled \subseteq Settled'
      /\ Settled' \in SUBSET DOMAIN extended'
  BY SettledGrows, Zenon
<1>2. /\ Cardinality(Settled) \in Nat /\ Cardinality(Settled') \in Nat
      /\ Cardinality(Settled) <= Cardinality(Settled')
      /\ \A i \in Settled' \ Settled : Cardinality(Settled) + 1 <= Cardinality(Settled')
  BY <1>1, <1>t, CountPositions, Zenon
<1>3. context.measurement_count <= Cardinality(Settled)
  BY Zenon DEF Backed
<1>4. CASE context'.measurement_count = context.measurement_count
  BY <1>4, <1>2, <1>3, <1>t
<1>5. CASE context' = NoContext
  BY <1>5, <1>2 DEF NoContext
<1>6. CASE SeparatorResult
  BY <1>6, <1>4, <1>t, Zenon DEF SeparatorResult, Contexts
<1>7. CASE MeasureResult /\ Measured
  <2>1. Extends(cmd) /\ pc = "result" /\ rc = 0 /\ cmd.pcr \in OwnPcrs
    BY <1>7, Zenon DEF MeasureResult, Measured, Extends, TpmTypeOK, OwnPcrs
  <2>2. Event(cmd) \in Elements(extended)
    BY <2>1, Zenon DEF Answered
  <2>3. PICK i \in DOMAIN extended : extended[i] = Event(cmd)
    BY <2>2 DEF Elements, TpmTypeOK
  <2>4. i \notin Settled
    BY <2>3, Zenon DEF Settled
  <2>5. i \in Settled'
    <3>1. cmd' = NoCommand /\ i \in DOMAIN extended' /\ extended'[i] = extended[i]
      BY <1>7, ExtendedGrows, Zenon DEF MeasureResult, Return
    <3>2. extended'[i].pcr = cmd.pcr
      BY <3>1, <2>3, SMTT(30) DEF Event
    <3>3. Event(cmd').pcr = 0 /\ 0 \notin OwnPcrs
      BY <3>1 DEF Event, NoCommand, OwnPcrs, TPM2_PCR_BOOTLOADER, TPM2_PCR_KERNEL
    <3> QED
      BY <3>1, <3>2, <3>3, <2>1, Zenon DEF Settled
  <2>6. context'.measurement_count = context.measurement_count + 1
    BY <1>7, <1>t, ZenonT(30) DEF MeasureResult, Contexts
  <2> QED
    BY <2>4, <2>5, <2>6, <1>2, <1>3, <1>t
<1> QED
  BY <1>4, <1>5, <1>6, <1>7, ContextSteps, Zenon

(* A bit of the mask is a separator's or stands for an executed extend.    *)
LEMMA MaskStep ==
  ASSUME TpmTypeOK, Answered, Backed, [Next]_vars,
         NEW p \in context'.pcr_mask
  PROVE  p \in 0..LAST_SEPARATOR \/
           \E i \in DOMAIN extended' : extended'[i].pcr = p /\ p \in OwnPcrs
<1>t. context \in Contexts
  BY Zenon DEF TpmTypeOK
<1>1. CASE p \in context.pcr_mask
  BY <1>1, ExtendedGrows, Zenon DEF Backed
<1>2. CASE context' = NoContext
  BY <1>2, Zenon DEF NoContext
<1>3. CASE SeparatorResult
  <2>1. context'.pcr_mask = context.pcr_mask \cup {cmd.pcr} /\ cmd.pcr \in 0..LAST_SEPARATOR
    BY <1>3, <1>t, Zenon DEF SeparatorResult, TpmTypeOK, Contexts
  <2> QED
    BY <2>1, <1>1, Zenon
<1>4. CASE MeasureResult /\ Measured
  <2>1. Extends(cmd) /\ pc = "result" /\ rc = 0 /\ cmd.pcr \in OwnPcrs
    BY <1>4, Zenon DEF MeasureResult, Measured, Extends, TpmTypeOK, OwnPcrs
  <2>2. PICK i \in DOMAIN extended : extended[i] = Event(cmd)
    BY <2>1, SMTT(30) DEF Answered, Elements, TpmTypeOK
  <2>3. extended'[i].pcr = cmd.pcr /\ i \in DOMAIN extended'
    BY <2>2, ExtendedGrows DEF Event
  <2>4. context'.pcr_mask = context.pcr_mask \cup {cmd.pcr}
    BY <1>4, <1>t, Zenon DEF MeasureResult, Contexts
  <2> QED
    BY <2>1, <2>3, <2>4, <1>1, Zenon
<1> QED
  BY <1>1, <1>2, <1>3, <1>4, ContextSteps, Zenon

\* What is reported is backed in every state of a run.
THEOREM ReportsInvariant == Spec => [](TpmInv /\ Backed)
<1>1. Init => Backed
  <2> SUFFICES ASSUME Init PROVE Backed
    OBVIOUS
  <2>1. extended = << >> /\ log = << >> /\ reported = {} /\ context = NoContext
    BY Zenon DEF Init
  <2>2. Settled = {} /\ Elements(log) = {}
    BY <2>1 DEF Settled, Elements
  <2>3. Cardinality(Settled) = 0
    BY <2>2, FS_EmptySet, Zenon
  <2> QED
    BY <2>1, <2>2, <2>3 DEF Backed, NoContext
<1>2. TpmInv /\ TpmInv' /\ Backed /\ [Next]_vars => Backed'
  <2> SUFFICES ASSUME TpmInv, TpmInv', Backed, [Next]_vars PROVE Backed'
    BY Zenon
  <2>t. TpmTypeOK /\ Answered /\ TpmTypeOK' /\ Serial'
    BY Zenon DEF TpmInv
  <2>1. {m \in Elements(log') : m.pcr \in OwnPcrs} = reported'
    BY <2>t, ReportsStep, Zenon
  <2>2. context'.measurement_count <= Cardinality(Settled')
    BY <2>t, CountStep, Zenon
  <2>3. \A p \in context'.pcr_mask : p \in 0..LAST_SEPARATOR \/
           \E i \in DOMAIN extended' : extended'[i].pcr = p /\ p \in OwnPcrs
    BY <2>t, MaskStep, Zenon
  <2> QED
    BY <2>1, <2>2, <2>3, Zenon DEF Backed
<1> QED
  BY <1>1, <1>2, TpmInvariant, PTL DEF Spec

(* What the calls report is backed: the log holds exactly the measurements *)
(* reported as done, and every count and bit of the context stands for an  *)
(* extend the TPM has executed, for every capacity, number of polls and    *)
(* number of calls.                                                        *)
THEOREM ReportsCorrect == Spec => []ReportsBacked
<1>1. TpmInv /\ Backed => ReportsBacked
  <2> SUFFICES ASSUME TpmInv, Backed PROVE ReportsBacked
    BY Zenon
  <2>t. extended \in Seq(Events) /\ log \in Seq(Events) /\ context.measurement_count \in Nat
    BY Zenon DEF TpmInv, TpmTypeOK, Contexts
  <2> DEFINE made == {i \in DOMAIN extended : extended[i].pcr \in OwnPcrs}
  <2>1. LogMatchesReports
    <3>1. Entries = Elements(log)
      BY <2>t DEF Entries, Elements
    <3>2. {m \in Elements(log) : m.pcr \in OwnPcrs} = reported
      BY Zenon DEF Backed
    <3> QED
      BY <3>1, <3>2, Zenon DEF LogMatchesReports, OwnPcrs
  <2>2. context.measurement_count <= Cardinality(made)
    <3>1. Settled \in SUBSET made /\ made \in SUBSET DOMAIN extended
      BY Zenon DEF Settled
    <3>2. Cardinality(Settled) \in Nat /\ Cardinality(made) \in Nat
          /\ Cardinality(Settled) <= Cardinality(made)
      BY <3>1, <2>t, CountPositions, Zenon
    <3>3. context.measurement_count <= Cardinality(Settled)
      BY Zenon DEF Backed
    <3> QED
      BY <3>2, <3>3, <2>t
  <2>3. context.pcr_mask \subseteq 0..LAST_SEPARATOR \cup {extended[i].pcr : i \in made}
    BY Zenon DEF Backed
  <2> QED
    BY <2>1, <2>2, <2>3, Zenon DEF ReportsBacked, ContextBacked, OwnPcrs
<1> QED
  BY <1>1, ReportsInvariant, PTL

=============================================================================
