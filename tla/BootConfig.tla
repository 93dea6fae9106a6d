----------------------------- MODULE BootConfig -----------------------------
(***************************************************************************)
(* LoadBootConfig of main.c: built-in defaults, then bloodhorn.ini line by *)
(* line, then bloodhorn.json, then the BLOODHORN_* firmware variables, then *)
(* the clamp of the menu timeout.  Any firmware call or allocation on the  *)
(* way may fail; the load goes on with what it has.                        *)
(*                                                                         *)
(* A text is a record of where it came from and its length: whether a text *)
(* fits its destination is all that decides what the copies do with it.    *)
(***************************************************************************)
EXTENDS Integers, Sequences, FiniteSets, FiniteSetsExt

CONSTANTS
  SizeOf,      \* size in characters, with the final NUL, of each text field
  ENV_BUFFER,  \* size of the ASCII buffer a firmware variable is converted in
  INT_BITS,    \* width of int, the type of menu_timeout
  UINTN_BITS,  \* width of UINTN, the type the INI number is read in
  MAX_TIMEOUT, \* upper bound of the clamp
  DEFAULT_TIMEOUT,
  IniFiles,    \* contents bloodhorn.ini may have: sequences of lines
  JsonFiles,   \* contents bloodhorn.json may have: functions on some fields
  EnvStores    \* firmware variables that may be set: functions on some fields

TextFields == {"default_entry", "language", "kernel", "initrd", "cmdline"}
BoolFields == {"secure_boot", "tpm_enabled", "use_gui"}
Fields == TextFields \cup BoolFields \cup {"menu_timeout"}

Texts == [from : STRING, len : Nat]
Empty == [from |-> "", len |-> 0]

\* The lines of an INI file: headers, with or without their closing bracket;
\* pairs with a recognised key; anything else.
IniLines ==
  [kind : {"section"}, name : STRING, valid : BOOLEAN]
    \cup [kind : {"pair"}, key : TextFields, value : Texts]
    \cup [kind : {"pair"}, key : BoolFields, value : STRING]
    \cup [kind : {"pair"}, key : {"menu_timeout"}, value : Nat]
    \cup [kind : {"skip"}]

ASSUME ConfigAssumption ==
  /\ SizeOf \in [TextFields -> Nat \ {0}]
  /\ ENV_BUFFER \in Nat \ {0}
  /\ INT_BITS \in Nat \ {0}
  /\ UINTN_BITS \in Nat \ {0}
  /\ MAX_TIMEOUT \in Nat
  /\ DEFAULT_TIMEOUT \in 0..MAX_TIMEOUT
  /\ 2^INT_BITS \in Nat \ {0}  \* a fact the provers do not have
  /\ IniFiles \subseteq Seq(IniLines)
  /\ \A doc \in JsonFiles \cup EnvStores :
       /\ \A f \in DOMAIN doc \cap TextFields : doc[f] \in Texts
       /\ "menu_timeout" \in DOMAIN doc => doc["menu_timeout"] \in Nat

VARIABLES
  pc,       \* where LoadBootConfig is
  config,   \* the BOOT_CONFIG under construction
  section,  \* the INI section in force
  lineNo,   \* INI lines consumed
  envNo,    \* firmware variables consumed
  handles,  \* open file handles
  heap,     \* live pool buffers
  ini, json, env,       \* what the disk and the firmware hold
  jsonSeen, envSeen     \* history: was JSON applied, which variables were read

inputs == <<ini, json, env>>
configVars == <<pc, config, section, lineNo, envNo, handles, heap, ini, json, env,
                jsonSeen, envSeen>>
-----------------------------------------------------------------------------
(* Conversions *)

\* (int) of an unsigned number: two's complement of its low INT_BITS bits.
ToInt(n) ==
  LET low == n % 2^INT_BITS
  IN IF low < 2^(INT_BITS - 1) THEN low ELSE low - 2^INT_BITS

\* AsciiStrCpyS into field f: a text that does not fit leaves the field as it was.
AsciiStrCpyS(f, old, text) == IF text.len < SizeOf[f] THEN text ELSE old

\* UnicodeStrToAsciiStrS into the zeroed buffer a: a text that does not fit
\* leaves the buffer empty.
UnicodeStrToAsciiStrS(text) == IF text.len < ENV_BUFFER THEN text ELSE Empty

\* AsciiStrDecimalToUintn saturates; a value that starts with no digit reads as 0.
AsciiStrDecimalToUintn(n) == IF n < 2^UINTN_BITS THEN n ELSE 2^UINTN_BITS - 1

\* parse_bool_ascii: a value that is no boolean word keeps the old one.
parse_bool_ascii(v, old) ==
  IF v = "true" THEN TRUE ELSE IF v = "false" THEN FALSE ELSE old

\* What a recognised key of the INI file does to its field.
IniValue(f, old, v) ==
  CASE f \in TextFields -> AsciiStrCpyS(f, old, v)
    [] f \in BoolFields -> parse_bool_ascii(v, old)
    [] f = "menu_timeout" -> ToInt(AsciiStrDecimalToUintn(v))

\* FIND_STR and FIND_INT; the digits of FIND_INT accumulate in an INTN, whose
\* low bits are those of the number.
JsonValue(f, old, v) ==
  IF f \in TextFields THEN AsciiStrCpyS(f, old, v) ELSE ToInt(v)

\* What a firmware variable does to its field.
EnvValue(f, old, v) ==
  CASE f \in TextFields -> AsciiStrCpyS(f, old, UnicodeStrToAsciiStrS(v))
    [] f \in BoolFields -> v # 0
    [] f = "menu_timeout" -> ToInt(v)
-----------------------------------------------------------------------------
Default(f) ==
  CASE f = "default_entry" -> [from |-> "builtin", len |-> 5]
    [] f = "language" -> [from |-> "builtin", len |-> 2]
    [] f \in {"kernel", "initrd", "cmdline"} -> Empty
    [] f = "menu_timeout" -> DEFAULT_TIMEOUT
    [] f \in {"tpm_enabled", "use_gui"} -> TRUE
    [] f = "secure_boot" -> FALSE

Defaults == [f \in Fields |-> Default(f)]

\* The section of the INI file a key is recognised in.
SectionOf(f) == IF f \in {"kernel", "initrd", "cmdline"} THEN "linux" ELSE "boot"

\* The order in which the firmware variables are looked up; use_gui has none.
EnvVars == <<"default_entry", "menu_timeout", "language", "kernel", "initrd",
             "cmdline", "secure_boot", "tpm_enabled">>

Init ==
  /\ pc = "root"
  /\ config = Defaults
  /\ section = ""
  /\ lineNo = 0
  /\ envNo = 0
  /\ handles = {}
  /\ heap = {}
  /\ ini \in IniFiles
  /\ json \in JsonFiles
  /\ env \in EnvStores
  /\ jsonSeen = FALSE
  /\ envSeen = {}

\* Without a root directory the defaults stand, and neither the firmware
\* variables nor the clamp are reached.  The handle of the volume is never
\* closed.
OpenRoot(ok) ==
  /\ pc = "root"
  /\ pc' = IF ok THEN "ini_open" ELSE "done"
  /\ handles' = IF ok THEN {"root"} ELSE {}
  /\ UNCHANGED <<config, section, lineNo, envNo, heap, inputs, jsonSeen, envSeen>>
-----------------------------------------------------------------------------
(* ReadWholeFileAscii *)

Sources == {"ini", "json"}
At(src, step) ==
  CASE step = "open" -> IF src = "ini" THEN "ini_open" ELSE "json_open"
    [] step = "info" -> IF src = "ini" THEN "ini_info" ELSE "json_info"
    [] step = "buf" -> IF src = "ini" THEN "ini_buf" ELSE "json_buf"
    [] step = "read" -> IF src = "ini" THEN "ini_read" ELSE "json_read"
    [] step = "apply" -> IF src = "ini" THEN "ini_lines" ELSE "json_apply"
    [] step = "next" -> IF src = "ini" THEN "json_open" ELSE "env"

\* A file without content: blen is 0.
FileEmpty(src) == IF src = "ini" THEN ini = << >> ELSE DOMAIN json = {}

FileStep == UNCHANGED <<config, section, lineNo, envNo, inputs, jsonSeen, envSeen>>

OpenFile(src, ok) ==
  /\ pc = At(src, "open")
  /\ pc' = At(src, IF ok THEN "info" ELSE "next")
  /\ handles' = IF ok THEN handles \cup {src} ELSE handles
  /\ UNCHANGED heap
  /\ FileStep

\* Both GetInfo calls and the allocation of the info block between them.
GetInfo(src, ok) ==
  /\ pc = At(src, "info")
  /\ pc' = At(src, IF ok THEN "buf" ELSE "next")
  /\ IF ok THEN heap' = heap \cup {<<src, "info">>} /\ UNCHANGED handles
     ELSE handles' = handles \ {src} /\ UNCHANGED heap
  /\ FileStep

AllocateBuffer(src, ok) ==
  /\ pc = At(src, "buf")
  /\ pc' = At(src, IF ok THEN "read" ELSE "next")
  /\ IF ok THEN heap' = heap \cup {<<src, "buf">>} /\ UNCHANGED handles
     ELSE handles' = handles \ {src} /\ heap' = heap \ {<<src, "info">>}
  /\ FileStep

\* Mutant: the error path of Read keeps the buffer.
ReadFileLeaky(src, ok) ==
  /\ pc = At(src, "read")
  /\ pc' = At(src, IF ok /\ ~FileEmpty(src) THEN "apply" ELSE "next")
  /\ handles' = handles \ {src}
  /\ heap' = heap \ {<<src, "info">>}
  /\ FileStep

\* Read, and the test of the caller: an empty file is neither applied nor freed.
ReadFile(src, ok) ==
  /\ pc = At(src, "read")
  /\ pc' = At(src, IF ok /\ ~FileEmpty(src) THEN "apply" ELSE "next")
  /\ handles' = handles \ {src}
  /\ heap' = heap \ ({<<src, "info">>} \cup IF ok THEN {} ELSE {<<src, "buf">>})
  /\ FileStep
-----------------------------------------------------------------------------
(* ApplyIniToConfig *)

\* The section after a line: a header whose name does not fit, or without its
\* closing bracket, leaves the section in force.
SectionAfter(line) ==
  IF line.kind = "section" /\ line.valid THEN line.name ELSE section

\* The configuration after a line.
IniSet(line) ==
  IF line.kind = "pair" /\ section = SectionOf(line.key)
  THEN [config EXCEPT ![line.key] = IniValue(line.key, @, line.value)]
  ELSE config

IniLine ==
  LET line == ini[lineNo + 1]
  IN /\ pc = "ini_lines"
     /\ lineNo < Len(ini)
     /\ lineNo' = lineNo + 1
     /\ section' = SectionAfter(line)
     /\ config' = IniSet(line)
     /\ UNCHANGED <<pc, envNo, handles, heap, inputs, jsonSeen, envSeen>>

\* The end of the file, or a failed allocation of a line copy: the remaining
\* lines are dropped without an error.  The caller frees the file buffer.
IniReturn ==
  /\ pc = "ini_lines"
  /\ pc' = "json_open"
  /\ heap' = heap \ {<<"ini", "buf">>}
  /\ UNCHANGED <<config, section, lineNo, envNo, handles, inputs, jsonSeen, envSeen>>
-----------------------------------------------------------------------------
(* ApplyJsonToConfig and ApplyUefiEnvOverrides *)

\* The keys of the document that are searched for: no boolean is.
JsonKeys == DOMAIN json \cap (TextFields \cup {"menu_timeout"})

\* Mutant: a field the INI file has already set is kept.
ApplyJsonAfterIni ==
  /\ pc = "json_apply"
  /\ config' = [f \in Fields |->
                  IF f \in JsonKeys /\ config[f] = Defaults[f]
                  THEN JsonValue(f, config[f], json[f]) ELSE config[f]]
  /\ jsonSeen' = TRUE
  /\ pc' = "env"
  /\ heap' = heap \ {<<"json", "buf">>}
  /\ UNCHANGED <<section, lineNo, envNo, handles, inputs, envSeen>>

\* Each known key is searched in the whole text, at its first occurrence.
ApplyJsonToConfig ==
  /\ pc = "json_apply"
  /\ config' = [f \in Fields |->
                  IF f \in JsonKeys
                  THEN JsonValue(f, config[f], json[f]) ELSE config[f]]
  /\ jsonSeen' = TRUE
  /\ pc' = "env"
  /\ heap' = heap \ {<<"json", "buf">>}
  /\ UNCHANGED <<section, lineNo, envNo, handles, inputs, envSeen>>

\* One round of ApplyUefiEnvOverrides.  A variable that is absent, too short for
\* its type, or whose allocation or second read fails, is skipped; the copy is
\* freed within the round.
EnvVariable(ok) ==
  LET f == EnvVars[envNo + 1]
  IN /\ pc = "env"
     /\ envNo < Len(EnvVars)
     /\ envNo' = envNo + 1
     /\ IF ok /\ f \in DOMAIN env
          THEN /\ config' = [config EXCEPT ![f] = EnvValue(f, @, env[f])]
               /\ envSeen' = envSeen \cup {f}
          ELSE UNCHANGED <<config, envSeen>>
     /\ UNCHANGED <<pc, section, lineNo, handles, heap, inputs, jsonSeen>>

EnvReturn ==
  /\ pc = "env"
  /\ envNo = Len(EnvVars)
  /\ pc' = "clamp"
  /\ UNCHANGED <<config, section, lineNo, envNo, handles, heap, inputs, jsonSeen, envSeen>>

Clamp(n) == IF n < 0 THEN 0 ELSE IF n > MAX_TIMEOUT THEN MAX_TIMEOUT ELSE n

ClampTimeout ==
  /\ pc = "clamp"
  /\ config' = [config EXCEPT !.menu_timeout = Clamp(@)]
  /\ pc' = "done"
  /\ UNCHANGED <<section, lineNo, envNo, handles, heap, inputs, jsonSeen, envSeen>>

Next ==
  \/ \E ok \in BOOLEAN : OpenRoot(ok)
  \/ \E src \in Sources, ok \in BOOLEAN :
       \/ OpenFile(src, ok)
       \/ GetInfo(src, ok)
       \/ AllocateBuffer(src, ok)
       \/ ReadFile(src, ok)
  \/ IniLine
  \/ IniReturn
  \/ ApplyJsonToConfig
  \/ \E ok \in BOOLEAN : EnvVariable(ok)
  \/ EnvReturn
  \/ ClampTimeout

Spec == Init /\ [][Next]_configVars
-----------------------------------------------------------------------------
(* Properties *)

\* Reference definition of the configuration, by looking back over the sources
\* instead of running through them.  Headers(i) are the section headers
\* above line i, of which the last is in force; Setting(f) are the lines that give
\* f a value it accepts.
Headers(i) == {j \in 1..(i - 1) : ini[j].kind = "section" /\ ini[j].valid}

InForce(i) == IF Headers(i) = {} THEN "" ELSE ini[Max(Headers(i))].name

Accepted(f, v) ==
  CASE f \in TextFields -> v.len < SizeOf[f]
    [] f \in BoolFields -> v \in {"true", "false"}
    [] f = "menu_timeout" -> TRUE

Counts(f, i) ==
  /\ ini[i].kind = "pair"
  /\ ini[i].key = f
  /\ InForce(i) = SectionOf(f)
  /\ Accepted(f, ini[i].value)

Setting(f) == {i \in 1..lineNo : Counts(f, i)}

FromIni(f) ==
  IF Setting(f) = {} THEN Defaults[f]
  ELSE IniValue(f, Defaults[f], ini[Max(Setting(f))].value)

FromFiles(f) ==
  IF jsonSeen /\ f \in JsonKeys /\ Accepted(f, json[f])
  THEN JsonValue(f, Defaults[f], json[f]) ELSE FromIni(f)

EnvAccepted(f) ==
  f \in envSeen /\ (f \in TextFields => UnicodeStrToAsciiStrS(env[f]).len < SizeOf[f])

Effective(f) == IF EnvAccepted(f) THEN EnvValue(f, Defaults[f], env[f]) ELSE FromFiles(f)

\* The final configuration is, field by field, what the last source with an
\* acceptable value says: firmware variable, else JSON, else the last INI line
\* in the right section, else the default; whatever reads and allocations failed
\* on the way (main.c:394-414).  The timeout is the nearest value in its
\* documented range (docs/Configuration.md:109), although a value of a file or
\* of a variable may have turned negative in the cast to int.
FinalConfigCorrect ==
  pc = "done" =>
    /\ \A f \in Fields \ {"menu_timeout"} : config[f] = Effective(f)
    /\ config.menu_timeout \in 0..MAX_TIMEOUT
    /\ LET asked == Effective("menu_timeout")
       IN  /\ asked >= 0 => config.menu_timeout <= asked
           /\ asked <= MAX_TIMEOUT => config.menu_timeout >= asked

\* Every path through the load, failing or not, closes the files it opened and
\* frees what it allocated; the exceptions are the volume handle and the buffer
\* of a file without content, which the test blen > 0 skips together with its
\* FreePool (main.c:397, 404).
ReleasedAtEnd ==
  pc = "done" => /\ handles \subseteq {"root"}
                 /\ heap \subseteq {<<src, "buf">> : src \in {s \in Sources : FileEmpty(s)}}

\* CONFIG.md:94 says "If multiple config sources exist, INI > JSON > environment
\* (INI has highest priority)": a value of the INI file is never overridden.
IniHasHighestPriority ==
  pc = "done" =>
    \A f \in Fields : FromIni(f) # Defaults[f] /\ f # "menu_timeout" => config[f] = FromIni(f)
=============================================================================
