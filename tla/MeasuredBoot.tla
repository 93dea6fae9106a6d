---------------------------- MODULE MeasuredBoot ----------------------------
(***************************************************************************)
(* Measured boot (security/tpm2.c): the TIS driver that sends one command  *)
(* at a time to the TPM and polls for its answer, the event log kept in    *)
(* memory, and the measured_boot_* calls built on both.                    *)
(*                                                                         *)
(* The TPM runs beside the driver.  A command is accepted, executed and    *)
(* answered at moments of the TPM's choosing, so an answer may come after  *)
(* the driver has given up on it.  A register is polled a bounded number   *)
(* of times; each poll is a step of its own.                               *)
(*                                                                         *)
(* A measurement is an event: its PCR and the number of the API call that  *)
(* makes it, which determine its data and its description.  "extended" is  *)
(* the sequence of the events extended into the PCRs and "log" that of the *)
(* events in the log.  The digests are not kept: the PCR takes SHA-256 of  *)
(* the data and the entry the first 20 bytes of SHA-256 of data and        *)
(* description, so an entry tells which event took place and never the     *)
(* value that was extended.                                                *)
(***************************************************************************)
EXTENDS Naturals, Sequences, FiniteSets

CONSTANTS
  LOCALITY_TRIES, READY_TRIES, RESPONSE_TRIES, \* polls before a timeout
  LAST_SEPARATOR,   \* the separators go to PCR 0..LAST_SEPARATOR
  MAX_EVENTS,       \* capacity of the global event log, in events
  MAX_LOG_SIZE,     \* and in bytes
  UINT32,           \* sizes are computed modulo this
  EVENT_SIZE,       \* sizeof(TCG_PCR_EVENT)
  SeparatorSize,    \* the bytes of a separator and of its description,
  VersionSize,      \* of the bootloader's version string,
  FileSizes,        \* and of the files, with their names, that may be measured
  MAX_CALLS         \* bound: API calls in a behaviour

ASSUME SizeAssumption ==
  /\ {LOCALITY_TRIES, READY_TRIES, RESPONSE_TRIES} \subseteq Nat
  /\ {LAST_SEPARATOR, MAX_EVENTS, MAX_LOG_SIZE, MAX_CALLS} \subseteq Nat
  /\ UINT32 \in Nat \ {0}
  /\ LAST_SEPARATOR < 8   \* the first PCR that is not the firmware's
  /\ EVENT_SIZE \in Nat
  /\ FileSizes \cup {SeparatorSize, VersionSize} \subseteq [data : Nat, desc : Nat]

TPM2_PCR_BOOTLOADER == 8

TPM2_PCR_KERNEL == 9

DIAGNOSTIC_PCR == 23

Pcrs == 0..23

VARIABLES
  \* the TPM
  hardware,          \* what the interface registers show
  locality,          \* is locality 0 active
  tpm,               \* "idle", "ready", "executing" or "complete"
  running,           \* the command it executes
  reply,             \* the response held while "complete"
  started,           \* has TPM2_Startup succeeded since power on
  extended,          \* the extends executed, in order
  \* the driver's globals and the caller's context
  g_tpm_interface, g_tpm_initialized,
  log, log_size, max_events,
  context,
  \* the call in progress
  pc, tries, cmd, rc, calls,
  \* the measurements reported as done since the log was made
  reported

device == <<hardware, locality, tpm, running, reply, started, extended>>

logVars == <<g_tpm_initialized, log, log_size, max_events>>

vars == <<device, g_tpm_interface, logVars, context, pc, tries, cmd, rc,
          calls, reported>>

NoContext == [measurement_count |-> 0, pcr_mask |-> {}, event_log |-> FALSE]

NoSize == [data |-> 0, desc |-> 0]

NoCommand == [code |-> "startup", pcr |-> 0, id |-> 0, size |-> NoSize]

\* The event a command measures.
Event(c) == [pcr |-> c.pcr, id |-> c.id]

Extends(c) == c.code \notin {"startup", "self_test"}

Init ==
  /\ hardware \in {"none", "crb", "tis"}
  /\ locality = FALSE
  /\ tpm = "idle"
  /\ reply = "none"
  /\ started \in BOOLEAN
  /\ extended = << >>
  /\ g_tpm_interface = "none"
  /\ g_tpm_initialized = FALSE
  /\ log = << >>
  /\ log_size = 0
  /\ max_events = 0
  /\ context = NoContext
  /\ pc = "return"
  /\ tries = 0
  /\ cmd = NoCommand
  /\ running = NoCommand
  /\ rc = 0
  /\ calls = 0
  /\ reported = {}

-----------------------------------------------------------------------------
(* The TPM.                                                                *)

\* The request for locality 0 is granted some time after it is made.
GrantLocality ==
  /\ hardware = "tis" /\ g_tpm_interface = "tis" /\ ~locality
  /\ locality' = TRUE
  /\ UNCHANGED <<hardware, tpm, running, reply, started, extended>>

\* The TPM becomes ready for a command and drops what it held.
TpmReady ==
  /\ tpm \in {"idle", "complete"}
  /\ tpm' = "ready"
  /\ reply' = "none"
  /\ UNCHANGED <<hardware, locality, running, started, extended>>

\* Startup fails on a TPM that has been started, every other command on one
\* that has not.  A response cut short says nothing of the outcome.
TpmExecutes(done, answer) ==
  /\ tpm = "executing"
  /\ answer \in {"short", IF done THEN "success" ELSE "error"}
  /\ done => (started <=> running.code # "startup")
  /\ tpm' = "complete"
  /\ running' = NoCommand
  /\ reply' = answer
  /\ started' = (started \/ done)
  /\ extended' = IF done /\ Extends(running)
                 THEN Append(extended, Event(running))
                 ELSE extended
  /\ UNCHANGED <<hardware, locality>>

DeviceStep ==
  /\ \/ GrantLocality
     \/ TpmReady
     \/ \E done \in BOOLEAN, answer \in {"success", "error", "short"} :
          TpmExecutes(done, answer)
  /\ UNCHANGED <<g_tpm_interface, logVars, context, pc, tries, cmd, rc, calls,
                 reported>>

-----------------------------------------------------------------------------
(* tpm2_send_command and the polling loops.                                *)

Return(r) ==
  /\ pc' = "return"
  /\ rc' = r
  /\ cmd' = NoCommand

\* The command fails: its caller sees a result that is not 0.
Fail ==
  /\ pc' = "result"
  /\ rc' = 1
  /\ UNCHANGED cmd

Send(c) ==
  /\ cmd' = c
  /\ pc' = "send"
  /\ UNCHANGED rc

\* Mutant: a round that does not count.
PollForever(bit, Then, TimedOut) ==
  \/ /\ ~bit
     /\ UNCHANGED <<device, tries, pc, cmd, rc>>
  \/ /\ bit
     /\ Then

\* One round of "while (timeout-- > 0)".  Success in the last round leaves
\* timeout at 0, which the test after the loop takes for a timeout.
Poll(bit, Then, TimedOut) ==
  \/ /\ tries > 0 /\ ~bit
     /\ tries' = tries - 1
     /\ UNCHANGED <<device, pc, cmd, rc>>
  \/ /\ tries > 1 /\ bit
     /\ Then
  \/ /\ tries = 0 \/ (tries = 1 /\ bit)
     /\ tries' = 0
     /\ TimedOut
     /\ UNCHANGED device

SendCommand ==
  /\ pc = "send"
  /\ IF g_tpm_interface = "tis"
     THEN pc' = "ready" /\ tries' = READY_TRIES /\ UNCHANGED <<cmd, rc>>
     ELSE Fail /\ UNCHANGED tries
  /\ UNCHANGED <<device, g_tpm_interface, logVars, context, calls, reported>>

\* Once the TPM is ready, the bytes are written and GO is set.
WaitReady ==
  /\ pc = "ready"
  /\ Poll(tpm = "ready",
          /\ tpm' = "executing"
          /\ running' = cmd
          /\ pc' = "response"
          /\ tries' = RESPONSE_TRIES
          /\ UNCHANGED <<hardware, locality, reply, started, extended, cmd, rc>>,
          Fail)
  /\ UNCHANGED <<g_tpm_interface, logVars, context, calls, reported>>

\* The response is read while there is data, and its code is looked at.
WaitResponse ==
  /\ pc = "response"
  /\ Poll(tpm = "complete",
          /\ tpm' = "idle"
          /\ reply' = "none"
          /\ pc' = "result"
          /\ rc' = IF reply = "success" THEN 0 ELSE 1
          /\ tries' = 0
          /\ UNCHANGED <<hardware, locality, running, started, extended, cmd>>,
          Fail)
  /\ UNCHANGED <<g_tpm_interface, logVars, context, calls, reported>>

-----------------------------------------------------------------------------
(* measured_boot_init and what it starts.                                  *)

Command(code, pcr, size) ==
  [code |-> code, pcr |-> pcr, id |-> calls, size |-> size]

measured_boot_init ==
  /\ pc = "return" /\ calls < MAX_CALLS
  /\ calls' = calls + 1
  /\ context' = NoContext
  /\ pc' = IF g_tpm_initialized THEN "context_log" ELSE "detect"
  /\ UNCHANGED <<device, g_tpm_interface, logVars, tries, cmd, rc, reported>>

\* tpm2_detect_interface, and tpm2_init_interface up to the polling loop.
\* A TPM is looked for at two addresses; only TIS asks for the locality.
DetectInterface ==
  /\ pc = "detect"
  /\ IF hardware = "none"
     THEN Return(1) /\ UNCHANGED <<g_tpm_interface, tries>>
     ELSE /\ g_tpm_interface' = hardware
          /\ IF hardware = "tis"
             THEN pc' = "locality" /\ tries' = LOCALITY_TRIES
             ELSE pc' = "global_log" /\ UNCHANGED tries
          /\ UNCHANGED <<cmd, rc>>
  /\ UNCHANGED <<device, logVars, context, calls, reported>>

WaitLocality ==
  /\ pc = "locality"
  /\ Poll(locality,
          pc' = "global_log" /\ tries' = 0 /\ UNCHANGED <<device, cmd, rc>>,
          Return(1))
  /\ UNCHANGED <<g_tpm_interface, logVars, context, calls, reported>>

\* tpm2_event_log_init on the global log; "allocated" tells whether both
\* allocations succeed.  The driver counts as initialized before the TPM has
\* been started and tested.
GlobalLog(allocated) ==
  /\ pc = "global_log"
  /\ IF allocated
     THEN /\ g_tpm_initialized' = TRUE
          /\ log' = << >> /\ log_size' = 0 /\ max_events' = MAX_EVENTS
          /\ reported' = {}
          /\ Send(Command("startup", 0, NoSize))
     ELSE Return(1) /\ UNCHANGED <<logVars, reported>>
  /\ UNCHANGED <<device, g_tpm_interface, context, tries, calls>>

StartupResult ==
  /\ pc = "result" /\ cmd.code = "startup"
  /\ IF rc = 0 THEN Send(Command("self_test", 0, NoSize)) ELSE Return(1)
  /\ UNCHANGED <<device, g_tpm_interface, logVars, context, tries, calls,
                 reported>>

SelfTestResult ==
  /\ pc = "result" /\ cmd.code = "self_test"
  /\ IF rc = 0 THEN pc' = "context_log" /\ UNCHANGED <<cmd, rc>> ELSE Return(1)
  /\ UNCHANGED <<device, g_tpm_interface, logVars, context, tries, calls,
                 reported>>

Separator(pcr) == Command("separator", pcr, SeparatorSize)

\* The log of the context is allocated and never written.
ContextLog(allocated) ==
  /\ pc = "context_log"
  /\ context' = [context EXCEPT !.event_log = allocated]
  /\ IF allocated THEN Send(Separator(0)) ELSE Return(1)
  /\ UNCHANGED <<device, g_tpm_interface, logVars, tries, calls, reported>>

-----------------------------------------------------------------------------
(* Measurements: extend first, then the log.                               *)

\* What an event takes of the log, before it is cut to 32 bits.
EventBytes(size) == EVENT_SIZE + size.data + size.desc

\* total_event_size wraps, and so does its sum with log_size.
LogFull ==
  \/ Len(log) >= max_events
  \/ (log_size + EventBytes(cmd.size)) % UINT32 > MAX_LOG_SIZE

\* Data and description are put together in combined_data, whose length is
\* their sum in 32 bits, and copied from there into the log's buffer.
CopyTooLong ==
  \/ cmd.size.data + cmd.size.desc >= UINT32
  \/ log_size + cmd.size.data + cmd.size.desc > MAX_LOG_SIZE

\* The event passes the test of the capacity and its copy leaves the buffer.
Overruns == rc = 0 /\ ~LogFull /\ CopyTooLong

\* tpm2_event_log_add for the command that has been answered.
tpm2_event_log_add ==
  /\ log' = Append(log, Event(cmd))
  /\ log_size' = (log_size + EventBytes(cmd.size)) % UINT32
  /\ UNCHANGED <<g_tpm_initialized, max_events>>

\* Mutant: the log is written whatever the TPM answered.
MeasuredAnyway == ~LogFull /\ ~CopyTooLong

\* tpm2_measure_data returns 0.
Measured == rc = 0 /\ ~LogFull /\ ~CopyTooLong

\* Nothing is said of what the program does after a copy outside its buffer.
LogOverrun ==
  /\ pc = "result" /\ cmd.code \in {"separator", "bootloader", "kernel"}
  /\ Overruns
  /\ pc' = "log_overrun"
  /\ UNCHANGED <<device, g_tpm_interface, logVars, context, tries, cmd, rc, calls,
                 reported>>

\* The results of the separators are not looked at.
SeparatorResult ==
  /\ pc = "result" /\ cmd.code = "separator" /\ ~Overruns
  /\ IF Measured THEN tpm2_event_log_add ELSE UNCHANGED logVars
  /\ context' = [context EXCEPT !.pcr_mask = @ \cup {cmd.pcr}]
  /\ IF cmd.pcr < LAST_SEPARATOR
     THEN Send(Separator(cmd.pcr + 1))
     ELSE Return(0)
  /\ UNCHANGED <<device, g_tpm_interface, tries, calls, reported>>

\* Mutant: the context counts measurements that failed.
MeasureResultAlwaysCounts ==
  /\ pc = "result" /\ cmd.code \in {"bootloader", "kernel"} /\ ~Overruns
  /\ context' = [context EXCEPT !.measurement_count = @ + 1]
  /\ IF Measured
     THEN tpm2_event_log_add /\ Return(0) /\ reported' = reported \cup {Event(cmd)}
     ELSE Return(1) /\ UNCHANGED <<logVars, reported>>
  /\ UNCHANGED <<device, g_tpm_interface, tries, calls>>

\* measured_boot_measure_bootloader and measured_boot_measure_kernel.
MeasureResult ==
  /\ pc = "result" /\ cmd.code \in {"bootloader", "kernel"} /\ ~Overruns
  /\ IF Measured
     THEN /\ tpm2_event_log_add
          /\ Return(0)
          /\ context' = [context EXCEPT !.measurement_count = @ + 1,
                                        !.pcr_mask = @ \cup {cmd.pcr}]
          /\ reported' = reported \cup {Event(cmd)}
     ELSE Return(1) /\ UNCHANGED <<logVars, context, reported>>
  /\ UNCHANGED <<device, g_tpm_interface, tries, calls>>

\* A measurement starts: the name and the file are copied into a block whose
\* size is their sum in 32 bits, and the driver must be initialized.
Measure(code, pcr, size, allocated) ==
  /\ pc = "return" /\ calls < MAX_CALLS
  /\ calls' = calls + 1
  /\ LET c == [code |-> code, pcr |-> pcr, id |-> calls + 1, size |-> size]
     IN  \/ /\ allocated /\ size.data >= UINT32
            /\ cmd' = c
            /\ pc' = "file_overrun"
            /\ UNCHANGED rc
         \/ /\ allocated /\ size.data < UINT32 /\ g_tpm_initialized
            /\ Send(c)
         \/ /\ ~(allocated /\ (size.data >= UINT32 \/ g_tpm_initialized))
            /\ Return(1)
  /\ UNCHANGED <<device, g_tpm_interface, logVars, context, tries, reported>>

measured_boot_measure_bootloader ==
  Measure("bootloader", TPM2_PCR_BOOTLOADER, VersionSize, TRUE)

measured_boot_measure_kernel(size, allocated) ==
  Measure("kernel", TPM2_PCR_KERNEL, size, allocated)

\* The test PCR is extended and nothing is logged.
tpm2_run_diagnostics ==
  Measure("diagnostics", DIAGNOSTIC_PCR, NoSize, TRUE)

DiagnosticsResult ==
  /\ pc = "result" /\ cmd.code = "diagnostics"
  /\ Return(rc)
  /\ UNCHANGED <<device, g_tpm_interface, logVars, context, tries, calls, reported>>

tpm2_cleanup ==
  /\ pc = "return" /\ calls < MAX_CALLS /\ g_tpm_initialized
  /\ calls' = calls + 1
  /\ g_tpm_initialized' = FALSE
  /\ log' = << >> /\ log_size' = 0 /\ max_events' = 0
  /\ reported' = {}
  /\ UNCHANGED <<device, g_tpm_interface, context, pc, tries, cmd, rc>>

-----------------------------------------------------------------------------
Call ==
  \/ measured_boot_init
  \/ measured_boot_measure_bootloader
  \/ \E size \in FileSizes, allocated \in BOOLEAN :
       measured_boot_measure_kernel(size, allocated)
  \/ tpm2_run_diagnostics
  \/ tpm2_cleanup

DriverStep ==
  \/ DetectInterface \/ WaitLocality
  \/ \E allocated \in BOOLEAN : GlobalLog(allocated) \/ ContextLog(allocated)
  \/ SendCommand \/ WaitReady \/ WaitResponse
  \/ StartupResult \/ SelfTestResult \/ SeparatorResult
  \/ MeasureResult \/ DiagnosticsResult \/ LogOverrun

Next == Call \/ DriverStep \/ DeviceStep

Spec == Init /\ [][Next]_vars

\* The processor keeps executing a call once it is made.  Nothing is assumed
\* of the TPM: it may never become ready and never answer.
FairSpec == Spec /\ WF_vars(DriverStep)

-----------------------------------------------------------------------------
(* Properties.                                                             *)

Entries == {log[i] : i \in DOMAIN log}

\* The event log is an account of the extends: an event is logged only if the
\* TPM has extended its PCR for it, and in the order of the extends, whatever
\* timeouts, late answers, refusals and re-initialisations came before.  The
\* log outgrows neither of its capacities, and a copy leaves its buffer only
\* for an event that takes the log past 2^32 bytes: the test of the capacity is
\* right for every other one (tpm2_measure_data and tpm2_event_log_add, lines
\* 297-310 and 339-375; tpm2_measure_file, lines 445-462).
LogFollowsExtends ==
  /\ Entries \subseteq {extended[k] : k \in DOMAIN extended}
  /\ \A k, l \in DOMAIN extended, i, j \in DOMAIN log :
       extended[k] = log[i] /\ extended[l] = log[j] => (k < l <=> i < j)
  /\ Len(log) <= max_events
  /\ log_size <= MAX_LOG_SIZE
  /\ pc \in {"file_overrun", "log_overrun"} =>
       log_size + EventBytes(cmd.size) >= UINT32

\* The log holds a bootloader or kernel measurement exactly when the call
\* that made it returned 0: a call that fails after the extend, because the
\* log is full, leaves no entry, and one that succeeds leaves one (lines
\* 305-309, 418-443).
LogMatchesReports ==
  {m \in Entries : m.pcr \in {TPM2_PCR_BOOTLOADER, TPM2_PCR_KERNEL}} = reported

\* The context never claims more than the TPM holds: each counted measurement
\* and each of the two bits set on success stands for an executed extend
\* (lines 418-443).
ContextBacked ==
  LET made == {i \in DOMAIN extended : extended[i].pcr \in
                 {TPM2_PCR_BOOTLOADER, TPM2_PCR_KERNEL}}
  IN  /\ context.measurement_count <= Cardinality(made)
      /\ context.pcr_mask \subseteq 0..LAST_SEPARATOR \cup {extended[i].pcr : i \in made}

\* What the calls report is backed: the log by the calls that succeeded, and
\* the context by what the TPM holds.  A call that reports success without its
\* entry, an entry without success, or a count or a bit without an executed
\* extend would each break it (tpm2_measure_data and its callers, lines 297-310,
\* 418-443).
ReportsBacked == LogMatchesReports /\ ContextBacked

\* Every call returns, whatever the TPM does: each polling loop is bounded
\* (lines 94-106, 121-130, 141-150).  The exception is a copy that has left its
\* buffer.
CallReturns ==
  pc # "return" ~> pc \in {"return", "file_overrun", "log_overrun"}

\* tpm2.h calls pcr_mask the "Bitmask of used PCRs".  A separator the TPM did
\* not take sets the bit all the same (lines 404-407).
MaskedPcrUsed ==
  context.pcr_mask \subseteq {extended[i].pcr : i \in DOMAIN extended}

\* tpm2_init_interface gives up with the comment "Failed to acquire locality".
\* The locality may be active by then: a grant seen by the last poll is taken
\* for a timeout (lines 94-106).
TimeoutMeansNoLocality ==
  [][pc = "locality" /\ pc' = "return" => ~locality]_vars

=============================================================================
