-------------------------- MODULE ConfigMenuProofs --------------------------
(***************************************************************************)
(* LoadBootConfig, for every file, every limit and every call that fails;  *)
(* the boot menu, for every table size, window height, set of names and    *)
(* keyboard; and the table of strings it shows, for every set of languages *)
(* and every locale file.                                                  *)
(***************************************************************************)
EXTENDS BootConfig, BootMenu, Localization, TLAPS

\* The steps of ReadWholeFileAscii that hold the file open, the info block and
\* the buffer.
FileOpen(src) == pc \in {At(src, "info"), At(src, "buf"), At(src, "read")}
InfoLive(src) == pc \in {At(src, "buf"), At(src, "read")}
BufferLive(src) == pc \in {At(src, "read"), At(src, "apply")}

\* What is held at every point of the load.
Held ==
  /\ handles \subseteq {"root", "ini", "json"}
  /\ heap \subseteq Sources \X {"info", "buf"}
  /\ \A src \in Sources :
       /\ src \in handles => FileOpen(src)
       /\ <<src, "info">> \in heap => InfoLive(src)
       /\ <<src, "buf">> \in heap => BufferLive(src) \/ FileEmpty(src)

\* Every step of the load keeps what it holds within these bounds: an error of
\* ReadWholeFileAscii gives back what was taken before it.
LEMMA HeldStep == Held /\ [Next]_configVars => Held'
<1> SUFFICES ASSUME Held, [Next]_configVars
             PROVE  Held'
  BY Zenon
<1> USE DEF Held, FileOpen, InfoLive, BufferLive, Sources, At, FileEmpty, inputs
<1>1. ASSUME NEW ok \in BOOLEAN, OpenRoot(ok) PROVE Held'
  BY <1>1, Zenon DEF OpenRoot
<1>2. ASSUME NEW src \in Sources, NEW ok \in BOOLEAN, OpenFile(src, ok) PROVE Held'
  <2>1. CASE src = "ini"
    BY <1>2, <2>1 DEF OpenFile, FileStep
  <2>2. CASE src = "json"
    BY <1>2, <2>2 DEF OpenFile, FileStep
  <2> QED
    BY <2>1, <2>2, Zenon
<1>3. ASSUME NEW src \in Sources, NEW ok \in BOOLEAN, GetInfo(src, ok) PROVE Held'
  <2>1. CASE src = "ini"
    BY <1>3, <2>1 DEF GetInfo, FileStep
  <2>2. CASE src = "json"
    BY <1>3, <2>2 DEF GetInfo, FileStep
  <2> QED
    BY <2>1, <2>2
<1>4. ASSUME NEW src \in Sources, NEW ok \in BOOLEAN, AllocateBuffer(src, ok) PROVE Held'
  <2>1. CASE src = "ini"
    BY <1>4, <2>1 DEF AllocateBuffer, FileStep
  <2>2. CASE src = "json"
    BY <1>4, <2>2 DEF AllocateBuffer, FileStep
  <2> QED
    BY <2>1, <2>2
<1>5. ASSUME NEW src \in Sources, NEW ok \in BOOLEAN, ReadFile(src, ok) PROVE Held'
  <2>1. CASE src = "ini"
    BY <1>5, <2>1 DEF ReadFile, FileStep
  <2>2. CASE src = "json"
    BY <1>5, <2>2 DEF ReadFile, FileStep
  <2> QED
    BY <2>1, <2>2
<1>6. CASE IniLine
  BY <1>6, Zenon DEF IniLine
<1>7. CASE IniReturn
  BY <1>7 DEF IniReturn
<1>8. CASE ApplyJsonToConfig
  BY <1>8 DEF ApplyJsonToConfig
<1>9. ASSUME NEW ok \in BOOLEAN, EnvVariable(ok) PROVE Held'
  BY <1>9 DEF EnvVariable
<1>10. CASE EnvReturn
  BY <1>10 DEF EnvReturn
<1>11. CASE ClampTimeout
  BY <1>11 DEF ClampTimeout
<1>12. CASE UNCHANGED configVars
  BY <1>12 DEF configVars
<1> QED
  BY <1>1, <1>2, <1>3, <1>4, <1>5, <1>6, <1>7, <1>8, <1>9, <1>10, <1>11, <1>12, Zenon DEF Next

\* When LoadBootConfig returns, on whatever path, no file is open and nothing is
\* allocated but the buffer of a file without content (main.c:397, 404).
THEOREM ReleaseCorrect == Spec => []ReleasedAtEnd
<1>1. Init => Held
  BY Zenon DEF Init, Held
<1>2. Held => ReleasedAtEnd
  <2> SUFFICES ASSUME Held, pc = "done"
               PROVE  /\ handles \subseteq {"root"}
                      /\ heap \subseteq {<<src, "buf">> : src \in {s \in Sources : FileEmpty(s)}}
    BY Zenon DEF ReleasedAtEnd
  <2>1. \A src \in Sources : ~FileOpen(src) /\ ~InfoLive(src) /\ ~BufferLive(src)
    BY Zenon DEF FileOpen, InfoLive, BufferLive, At, Sources
  <2>2. handles \subseteq {"root"}
    BY <2>1, Zenon DEF Held, Sources
  <2>3. ASSUME NEW block \in heap
        PROVE  block \in {<<src, "buf">> : src \in {s \in Sources : FileEmpty(s)}}
    <3>1. PICK src \in Sources, part \in {"info", "buf"} : block = <<src, part>>
      BY DEF Held
    <3> QED
      BY <2>1, <3>1, Zenon DEF Held
  <2> QED
    BY <2>2, <2>3, Zenon
<1> QED
  BY <1>1, <1>2, HeldStep, PTL DEF Spec
-----------------------------------------------------------------------------
(* The reference definition *)

\* The greatest of a set of numbers is the one no other exceeds.
LEMMA MaxIs ==
  ASSUME NEW S \in SUBSET Int, NEW m \in S, \A k \in S : k <= m
  PROVE  Max(S) = m
<1>1. \E x \in S : \A y \in S : x >= y
  BY Zenon
<1>2. Max(S) \in S /\ \A y \in S : Max(S) >= y
  BY <1>1, Zenon DEF Max
<1>3. Max(S) \in Int /\ m \in Int /\ Max(S) >= m /\ m >= Max(S)
  BY <1>2, Zenon
<1> QED
  BY <1>3

Loading ==
  {"root", "ini_open", "ini_info", "ini_buf", "ini_read", "ini_lines",
   "json_open", "json_info", "json_buf", "json_read", "json_apply"}

\* The load before the clamp: each field is what the sources consumed so far say.
\* The JSON document is applied before any firmware variable is read, and a
\* variable is read once.
Progress ==
  /\ ini \in IniFiles /\ json \in JsonFiles /\ env \in EnvStores
  /\ pc \in Loading \cup {"env", "clamp", "done"}
  /\ lineNo \in 0..Len(ini)
  /\ envNo \in 0..Len(EnvVars)
  /\ config = [f \in Fields |-> config[f]]
  /\ config["menu_timeout"] \in Int
  /\ pc = "root" => config["menu_timeout"] \in 0..MAX_TIMEOUT
  /\ section = InForce(lineNo + 1)
  /\ jsonSeen \in BOOLEAN
  /\ pc \in Loading => ~jsonSeen /\ envSeen = {}
  /\ envSeen \subseteq DOMAIN env \cap {EnvVars[i] : i \in 1..envNo}
  /\ pc # "done" => \A f \in Fields : config[f] = Effective(f)
  /\ FinalConfigCorrect

\* A line is in the range of its file.
LEMMA LineType ==
  ASSUME Progress, NEW i \in 1..Len(ini)
  PROVE  ini[i] \in IniLines
BY ConfigAssumption DEF Progress

\* The section in force after a line is what the parser has in its variable.
LEMMA SectionStep ==
  ASSUME Progress, lineNo < Len(ini)
  PROVE  InForce(lineNo + 2) = SectionAfter(ini[lineNo + 1])
<1> DEFINE n == lineNo + 1
           row == ini[n]
<1>0. lineNo \in Nat /\ Len(ini) \in Nat /\ n \in 1..Len(ini)
  BY ConfigAssumption, SMTT(30) DEF Progress
<1>1. CASE row.kind = "section" /\ row.valid
  <2>1. n \in Headers(lineNo + 2) /\ \A k \in Headers(lineNo + 2) : k <= n
    BY <1>0, <1>1 DEF Headers
  <2>2. Max(Headers(lineNo + 2)) = n
    <3>1. Headers(lineNo + 2) \in SUBSET Int
      BY DEF Headers
    <3> QED
      BY <2>1, <3>1, MaxIs, Zenon
  <2> QED
    BY <1>1, <2>1, <2>2, Zenon DEF InForce, SectionAfter
<1>2. CASE ~(row.kind = "section" /\ row.valid)
  <2>1. Headers(lineNo + 2) = Headers(lineNo + 1)
    BY <1>0, <1>2 DEF Headers
  <2> QED
    BY <1>2, <2>1, Zenon DEF InForce, SectionAfter, Progress
<1> QED
  BY <1>1, <1>2, Zenon

\* The three kinds of fields exclude one another, and what each accepts.
LEMMA Kinds ==
  ASSUME NEW f \in Fields
  PROVE  /\ \/ f \in TextFields /\ f \notin BoolFields /\ f # "menu_timeout"
            \/ f \notin TextFields /\ f \in BoolFields /\ f # "menu_timeout"
            \/ f \notin TextFields /\ f \notin BoolFields /\ f = "menu_timeout"
BY Zenon DEF Fields, TextFields, BoolFields

\* What an INI line does to a field of each kind.
LEMMA IniValueIs ==
  ASSUME NEW f \in Fields, NEW old, NEW v
  PROVE  /\ f \in TextFields =>
              IniValue(f, old, v) = AsciiStrCpyS(f, old, v) /\ (Accepted(f, v) <=> v.len < SizeOf[f])
         /\ f \in BoolFields =>
              IniValue(f, old, v) = parse_bool_ascii(v, old) /\ (Accepted(f, v) <=> v \in {"true", "false"})
         /\ f = "menu_timeout" =>
              IniValue(f, old, v) = ToInt(AsciiStrDecimalToUintn(v)) /\ Accepted(f, v)
BY Kinds, Zenon DEF IniValue, Accepted

\* A value a field accepts replaces whatever the field held; any other value of
\* an INI line leaves it as it was.
LEMMA IniValueAccepted ==
  ASSUME NEW f \in Fields, NEW old, NEW other, NEW v
  PROVE  /\ Accepted(f, v) => IniValue(f, old, v) = IniValue(f, other, v)
         /\ ~Accepted(f, v) => IniValue(f, old, v) = old
<1>1. CASE f \in TextFields
  BY <1>1, IniValueIs DEF AsciiStrCpyS
<1>2. CASE f \in BoolFields
  <2>1. CASE v = "true"
    BY <1>2, <2>1, IniValueIs, Zenon DEF parse_bool_ascii
  <2>2. CASE v = "false"
    BY <1>2, <2>2, IniValueIs, Zenon DEF parse_bool_ascii
  <2>3. CASE v \notin {"true", "false"}
    BY <1>2, <2>3, IniValueIs, Zenon DEF parse_bool_ascii
  <2> QED
    BY <2>1, <2>2, <2>3, Zenon
<1>3. CASE f = "menu_timeout"
  BY <1>3, IniValueIs
<1> QED
  BY <1>1, <1>2, <1>3, Kinds, Zenon

\* The cast to int gives an integer.
LEMMA ToIntType == \A n \in Int : ToInt(n) \in Int
BY ConfigAssumption DEF ToInt

\* What the lines up to the next one say of a field: what the line does to what
\* the lines before it say.
LEMMA FromIniStep ==
  ASSUME Progress, lineNo < Len(ini), lineNo' = lineNo + 1, ini' = ini, NEW f \in Fields
  PROVE  FromIni(f)' =
           IF /\ ini[lineNo + 1].kind = "pair"
              /\ ini[lineNo + 1].key = f
              /\ section = SectionOf(f)
           THEN IniValue(f, FromIni(f), ini[lineNo + 1].value) ELSE FromIni(f)
<1> DEFINE n == lineNo + 1
           row == ini[n]
<1>0. lineNo \in Nat /\ n \in Nat /\ section = InForce(n)
  BY ConfigAssumption DEF Progress
<1>1. \A i : Counts(f, i)' <=> Counts(f, i)
  BY Zenon DEF Counts, InForce, Headers
<1>2. Setting(f)' = {i \in 1..n : Counts(f, i)}
  BY <1>1, Zenon DEF Setting
<1>3. CASE Counts(f, n)
  <2>1. n \in Setting(f)' /\ Setting(f)' \in SUBSET Int /\ \A k \in Setting(f)' : k <= n
    BY <1>0, <1>2, <1>3
  <2>2. Max(Setting(f)') = n
    BY <2>1, MaxIs, Zenon
  <2>3. FromIni(f)' = IniValue(f, Defaults[f], row.value)
    BY <2>1, <2>2, Zenon DEF FromIni
  <2>4. Accepted(f, row.value)
    BY <1>3, Zenon DEF Counts
  <2>5. IniValue(f, Defaults[f], row.value) = IniValue(f, FromIni(f), row.value)
    BY <2>4, IniValueAccepted, Zenon
  <2> QED
    BY <1>0, <1>3, <2>3, <2>5, Zenon DEF Counts
<1>4. CASE ~Counts(f, n)
  <2>1. Setting(f)' = Setting(f)
    BY <1>0, <1>2, <1>4 DEF Setting
  <2>2. FromIni(f)' = FromIni(f)
    BY <2>1, Zenon DEF FromIni
  <2>3. row.kind = "pair" /\ row.key = f /\ section = SectionOf(f) =>
          IniValue(f, FromIni(f), row.value) = FromIni(f)
    BY <1>0, <1>4, IniValueAccepted, Zenon DEF Counts
  <2> QED
    BY <2>2, <2>3, Zenon
<1> QED
  BY <1>3, <1>4, Zenon

\* What the sources say so far does not change with a step that consumes none.
LEMMA SameSources ==
  ASSUME UNCHANGED <<ini, json, env, lineNo, jsonSeen, envSeen>>
  PROVE  \A f : Effective(f)' = Effective(f) /\ InForce(lineNo + 1)' = InForce(lineNo + 1)
BY DEF Effective, EnvAccepted, FromFiles, FromIni, Setting, Counts, InForce, Headers, JsonKeys

\* A line of the INI file moves the configuration along.
LEMMA IniLineStep ==
  ASSUME Progress, IniLine
  PROVE  Progress'
<1> DEFINE n == lineNo + 1
           row == ini[n]
<1>0. /\ pc = "ini_lines" /\ lineNo < Len(ini) /\ lineNo' = n
      /\ section' = SectionAfter(row) /\ config' = IniSet(row)
      /\ UNCHANGED <<pc, envNo, ini, json, env, jsonSeen, envSeen>>
  BY Zenon DEF IniLine, inputs
<1>1. lineNo \in Nat /\ Len(ini) \in Nat /\ n \in 1..Len(ini) /\ lineNo' \in 0..Len(ini)
  BY <1>0, ConfigAssumption, SMTT(30) DEF Progress
<1>2. section' = InForce(lineNo + 1)'
  <2>1. PICK k \in Nat : k = lineNo + 2
    BY <1>1
  <2>2. InForce(lineNo + 1)' = InForce(k)
    <3>1. lineNo' + 1 = k
      BY <1>0, <1>1, <2>1
    <3> QED
      BY <1>0, <3>1, Zenon DEF InForce, Headers
  <2> QED
    BY <1>0, <2>1, <2>2, SectionStep, Zenon
<1>3. ~jsonSeen /\ envSeen = {} /\ ~jsonSeen' /\ envSeen' = {}
  BY <1>0, Zenon DEF Progress, Loading
<1>4. ASSUME NEW f \in Fields
      PROVE  config[f] = FromIni(f) /\ Effective(f)' = FromIni(f)'
  BY <1>0, <1>3, Zenon DEF Progress, Effective, EnvAccepted, FromFiles
<1>5. ASSUME NEW f \in Fields
      PROVE  config'[f] = Effective(f)'
  <2>1. CASE row.kind = "pair" /\ row.key = f /\ section = SectionOf(f)
    <3>1. config' = [config EXCEPT ![f] = IniValue(f, @, row.value)]
      BY <1>0, <2>1, Zenon DEF IniSet
    <3>2. config'[f] = IniValue(f, FromIni(f), row.value)
      BY <3>1, <1>4, Zenon DEF Progress
    <3> QED
      BY <2>1, <3>2, <1>0, <1>4, FromIniStep, Zenon
  <2>2. CASE ~(row.kind = "pair" /\ row.key = f /\ section = SectionOf(f))
    <3>1. config'[f] = config[f]
      BY <1>0, <2>2, Zenon DEF IniSet, Progress
    <3> QED
      BY <2>2, <3>1, <1>0, <1>4, FromIniStep, Zenon
  <2> QED
    BY <2>1, <2>2, Zenon
<1>6. config' = [f \in Fields |-> config'[f]]
  BY <1>0, Zenon DEF IniSet, Progress
<1>7. config'["menu_timeout"] \in Int
  <2>1. row \in IniLines
    BY <1>1, LineType, Zenon
  <2>2. CASE row.kind = "pair" /\ row.key = "menu_timeout" /\ section = SectionOf("menu_timeout")
    <3>1. row.value \in Nat
      BY <2>1, <2>2, Zenon DEF IniLines, TextFields, BoolFields
    <3>2. AsciiStrDecimalToUintn(row.value) \in Int
      BY <3>1, ConfigAssumption DEF AsciiStrDecimalToUintn
    <3>3. config'["menu_timeout"] = ToInt(AsciiStrDecimalToUintn(row.value))
      <4>1. config' = [config EXCEPT !["menu_timeout"] = IniValue("menu_timeout", @, row.value)]
        BY <1>0, <2>2, Zenon DEF IniSet
      <4>2. config'["menu_timeout"] = IniValue("menu_timeout", config["menu_timeout"], row.value)
        BY <4>1, Zenon DEF Progress, Fields
      <4> QED
        BY <4>2, IniValueIs DEF Fields
    <3> QED
      BY <3>2, <3>3, ToIntType, Zenon
  <2>3. CASE ~(row.kind = "pair" /\ row.key = "menu_timeout" /\ section = SectionOf("menu_timeout"))
    <3>1. config'["menu_timeout"] = config["menu_timeout"]
      BY <1>0, <2>3, Zenon DEF IniSet, Progress, Fields
    <3> QED
      BY <3>1, Zenon DEF Progress
  <2> QED
    BY <2>2, <2>3, Zenon
<1>8. FinalConfigCorrect'
  BY <1>0, Zenon DEF FinalConfigCorrect
<1> QED
  BY <1>0, <1>1, <1>2, <1>3, <1>5, <1>6, <1>7, <1>8, Zenon DEF Progress

\* Applying the JSON document moves the configuration along.
LEMMA JsonStep ==
  ASSUME Progress, ApplyJsonToConfig
  PROVE  Progress'
<1>0. /\ pc = "json_apply" /\ pc' = "env" /\ jsonSeen' = TRUE
      /\ config' = [f \in Fields |-> IF f \in JsonKeys
                                     THEN JsonValue(f, config[f], json[f]) ELSE config[f]]
      /\ UNCHANGED <<section, lineNo, envNo, ini, json, env, envSeen>>
  BY Zenon DEF ApplyJsonToConfig, inputs
<1>1. ~jsonSeen /\ envSeen = {} /\ envSeen' = {}
  BY <1>0, Zenon DEF Progress, Loading
<1>2. \A f : FromIni(f)' = FromIni(f)
  BY <1>0 DEF FromIni, Setting, Counts, InForce, Headers
<1>3. section' = InForce(lineNo + 1)'
  BY <1>0, Zenon DEF Progress, InForce, Headers
<1>4. ASSUME NEW f \in Fields
      PROVE  config'[f] = Effective(f)'
  <2>1. config[f] = FromIni(f)
    BY <1>0, <1>1, Zenon DEF Progress, Loading, Effective, EnvAccepted, FromFiles
  <2>2. Effective(f)' = IF f \in JsonKeys /\ Accepted(f, json[f])
                        THEN JsonValue(f, Defaults[f], json[f]) ELSE FromIni(f)
    BY <1>0, <1>1, <1>2, Zenon DEF Effective, EnvAccepted, FromFiles, JsonKeys
  <2>3. CASE f \in JsonKeys /\ f \in TextFields
    <3>1. Accepted(f, json[f]) <=> json[f].len < SizeOf[f]
      BY <2>3, IniValueIs, Zenon
    <3> QED
      BY <1>0, <2>1, <2>2, <2>3, <3>1, Zenon DEF JsonValue, AsciiStrCpyS
  <2>4. CASE f \in JsonKeys /\ f = "menu_timeout"
    <3>1. Accepted(f, json[f]) /\ f \notin TextFields
      BY <2>4, IniValueIs, Kinds, Zenon
    <3> QED
      BY <1>0, <2>2, <2>4, <3>1, Zenon DEF JsonValue
  <2>5. CASE f \notin JsonKeys
    BY <1>0, <2>1, <2>2, <2>5, Zenon
  <2> QED
    BY <2>3, <2>4, <2>5, Zenon DEF JsonKeys
<1>5. config'["menu_timeout"] \in Int
  <2>1. "menu_timeout" \in Fields /\ "menu_timeout" \notin TextFields
    BY Zenon DEF Fields, TextFields
  <2>2. CASE "menu_timeout" \in JsonKeys
    <3>1. json["menu_timeout"] \in Nat
      BY <2>2, ConfigAssumption, Zenon DEF Progress, JsonKeys
    <3>2. config'["menu_timeout"] = ToInt(json["menu_timeout"])
      BY <1>0, <2>1, <2>2, Zenon DEF JsonValue
    <3> QED
      BY <3>1, <3>2, ToIntType
  <2>3. CASE "menu_timeout" \notin JsonKeys
    BY <1>0, <2>1, <2>3, Zenon DEF Progress
  <2> QED
    BY <2>2, <2>3, Zenon
<1>6. config' = [f \in Fields |-> config'[f]]
  BY <1>0, Zenon
<1>7. FinalConfigCorrect'
  BY <1>0, Zenon DEF FinalConfigCorrect
<1> QED
  BY <1>0, <1>1, <1>3, <1>4, <1>5, <1>6, <1>7, Zenon DEF Progress, Loading

\* The variables are distinct fields.
LEMMA EnvVarsDistinct ==
  /\ Len(EnvVars) = 8
  /\ \A i \in 1..8 : EnvVars[i] \in Fields
  /\ \A i \in 1..8, j \in 1..8 : EnvVars[i] = EnvVars[j] => i = j
BY DEF EnvVars, Fields, TextFields, BoolFields

\* A variable that is read replaces what the files said, if the text fits.
LEMMA EnvValueIs ==
  ASSUME NEW f \in Fields, NEW old, NEW other, NEW v
  PROVE  /\ (f \in TextFields => UnicodeStrToAsciiStrS(v).len < SizeOf[f]) =>
              EnvValue(f, old, v) = EnvValue(f, other, v)
         /\ f \in TextFields /\ ~(UnicodeStrToAsciiStrS(v).len < SizeOf[f]) =>
              EnvValue(f, old, v) = old
         /\ f = "menu_timeout" => EnvValue(f, old, v) = ToInt(v)
<1>1. CASE f \in TextFields
  <2>1. /\ EnvValue(f, old, v) = AsciiStrCpyS(f, old, UnicodeStrToAsciiStrS(v))
        /\ EnvValue(f, other, v) = AsciiStrCpyS(f, other, UnicodeStrToAsciiStrS(v))
        /\ f # "menu_timeout"
    BY <1>1, Kinds, Zenon DEF EnvValue
  <2> QED
    BY <1>1, <2>1, Zenon DEF AsciiStrCpyS
<1>2. CASE f \in BoolFields
  <2>1. EnvValue(f, old, v) = (v # 0) /\ EnvValue(f, other, v) = (v # 0)
    BY <1>2, Kinds, Zenon DEF EnvValue
  <2> QED
    BY <1>2, <2>1, Kinds, Zenon
<1>3. CASE f = "menu_timeout"
  BY <1>3, Kinds, Zenon DEF EnvValue
<1> QED
  BY <1>1, <1>2, <1>3, Kinds, Zenon

\* A firmware variable moves the configuration along.
LEMMA EnvStep ==
  ASSUME Progress, NEW ok \in BOOLEAN, EnvVariable(ok)
  PROVE  Progress'
<1>0. /\ pc = "env" /\ pc' = "env" /\ envNo < Len(EnvVars) /\ envNo' = envNo + 1
      /\ UNCHANGED <<section, lineNo, ini, json, env, jsonSeen>>
  BY Zenon DEF EnvVariable, inputs
<1>1. envNo + 1 \in 1..8 /\ envNo' \in 0..8
  BY <1>0, EnvVarsDistinct DEF Progress
<1>2. PICK g \in Fields : g = EnvVars[envNo + 1]
  BY <1>1, EnvVarsDistinct, Zenon
<1>3. g \notin envSeen
  BY <1>1, <1>2, EnvVarsDistinct, SMTT(30) DEF Progress
<1>4. section' = InForce(lineNo + 1)'
  BY <1>0, Zenon DEF Progress, InForce, Headers
<1>5. \A f : FromFiles(f)' = FromFiles(f)
  BY <1>0 DEF FromFiles, FromIni, Setting, Counts, InForce, Headers, JsonKeys
<1>6. FinalConfigCorrect'
  BY <1>0, Zenon DEF FinalConfigCorrect
<1>7. /\ config' = [f \in Fields |-> config'[f]]
      /\ config'["menu_timeout"] \in Int
      /\ envSeen' \subseteq DOMAIN env \cap {EnvVars[i] : i \in 1..envNo'}
      /\ \A f \in Fields : config'[f] = Effective(f)'
  <2>1. CASE ok /\ g \in DOMAIN env
    <3>1. config' = [config EXCEPT ![g] = EnvValue(g, @, env[g])] /\ envSeen' = envSeen \cup {g}
      BY <1>2, <2>1, Zenon DEF EnvVariable
    <3>2. config'[g] = EnvValue(g, config[g], env[g])
      BY <3>1, Zenon DEF Progress
    <3>3. config[g] = FromFiles(g)
      BY <1>0, <1>3, Zenon DEF Progress, Effective, EnvAccepted
    <3>4. EnvAccepted(g)' <=> (g \in TextFields => UnicodeStrToAsciiStrS(env[g]).len < SizeOf[g])
      BY <1>0, <3>1, Zenon DEF EnvAccepted
    <3>5. config'[g] = Effective(g)'
      <4>1. CASE g \in TextFields => UnicodeStrToAsciiStrS(env[g]).len < SizeOf[g]
        <5>1. EnvValue(g, config[g], env[g]) = EnvValue(g, Defaults[g], env[g])
          BY <4>1, EnvValueIs, Zenon
        <5>2. Effective(g)' = EnvValue(g, Defaults[g], env[g])
          BY <1>0, <3>4, <4>1, Zenon DEF Effective
        <5> QED
          BY <3>2, <5>1, <5>2, Zenon
      <4>2. CASE g \in TextFields /\ ~(UnicodeStrToAsciiStrS(env[g]).len < SizeOf[g])
        <5>1. EnvValue(g, config[g], env[g]) = config[g]
          BY <4>2, EnvValueIs, Zenon
        <5>2. Effective(g)' = FromFiles(g)
          BY <1>5, <3>4, <4>2, Zenon DEF Effective
        <5> QED
          BY <3>2, <3>3, <5>1, <5>2, Zenon
      <4> QED
        BY <4>1, <4>2, Zenon
    <3>6. ASSUME NEW f \in Fields, f # g
          PROVE  config'[f] = config[f] /\ Effective(f)' = Effective(f)
      <4>1. config'[f] = config[f]
        BY <3>1, <3>6, Zenon DEF Progress
      <4>2. EnvAccepted(f)' <=> EnvAccepted(f)
        BY <1>0, <3>1, <3>6, Zenon DEF EnvAccepted
      <4> QED
        BY <1>0, <1>5, <4>1, <4>2, Zenon DEF Effective
    <3>7. \A f \in Fields : config'[f] = Effective(f)'
      BY <1>0, <3>5, <3>6, Zenon DEF Progress
    <3>8. config'["menu_timeout"] \in Int
      <4>1. CASE g = "menu_timeout"
        <5>1. env["menu_timeout"] \in Nat
          BY <2>1, <4>1, ConfigAssumption, Zenon DEF Progress
        <5>2. config'[g] = ToInt(env[g])
          BY <3>2, <4>1, EnvValueIs
        <5> QED
          BY <4>1, <5>1, <5>2, ToIntType
      <4>2. CASE g # "menu_timeout"
        BY <3>1, <4>2, Zenon DEF Progress, Fields
      <4> QED
        BY <4>1, <4>2, Zenon
    <3>9. envSeen' \subseteq DOMAIN env \cap {EnvVars[i] : i \in 1..envNo'}
      <4>1. 1..envNo \subseteq 1..envNo' /\ envNo + 1 \in 1..envNo'
        BY <1>0, <1>1 DEF Progress
      <4> QED
        BY <1>2, <2>1, <3>1, <4>1 DEF Progress
    <3>10. config' = [f \in Fields |-> config'[f]]
      BY <3>1, Zenon DEF Progress
    <3> QED
      BY <3>7, <3>8, <3>9, <3>10, Zenon
  <2>2. CASE ~(ok /\ g \in DOMAIN env)
    <3>1. UNCHANGED <<config, envSeen>>
      BY <1>2, <2>2, Zenon DEF EnvVariable
    <3>2. \A f \in Fields : Effective(f)' = Effective(f)
      BY <1>0, <3>1, SameSources, Zenon
    <3>3. 1..envNo \subseteq 1..envNo'
      BY <1>0, <1>1 DEF Progress
    <3> QED
      BY <1>0, <3>1, <3>2, <3>3, Zenon DEF Progress
  <2> QED
    BY <2>1, <2>2, Zenon
<1> QED
  BY <1>0, <1>1, <1>4, <1>6, <1>7, EnvVarsDistinct, Zenon DEF Progress, Loading

\* The clamp of a number is the nearest one in the range.
LEMMA ClampNearest ==
  ASSUME NEW n \in Int
  PROVE  /\ Clamp(n) \in 0..MAX_TIMEOUT
         /\ n >= 0 => Clamp(n) <= n
         /\ n <= MAX_TIMEOUT => Clamp(n) >= n
BY ConfigAssumption DEF Clamp

\* The clamp ends the load with the configuration the sources ask for.
LEMMA ClampStep ==
  ASSUME Progress, ClampTimeout
  PROVE  Progress'
<1>0. /\ pc = "clamp" /\ pc' = "done"
      /\ config' = [config EXCEPT !["menu_timeout"] = Clamp(@)]
      /\ UNCHANGED <<section, lineNo, envNo, ini, json, env, jsonSeen, envSeen>>
  BY Zenon DEF ClampTimeout, inputs
<1>1. /\ \A f : Effective(f)' = Effective(f)
      /\ section' = InForce(lineNo + 1)'
  BY <1>0, SameSources, Zenon DEF Progress
<1>2. "menu_timeout" \in Fields
  BY Zenon DEF Fields
<1>3. config'["menu_timeout"] = Clamp(Effective("menu_timeout")) /\ Effective("menu_timeout") \in Int
  BY <1>0, <1>2, Zenon DEF Progress
<1>4. \A f \in Fields \ {"menu_timeout"} : config'[f] = Effective(f)'
  BY <1>0, <1>1, Zenon DEF Progress
<1>5. FinalConfigCorrect'
  BY <1>0, <1>1, <1>3, <1>4, ClampNearest, Zenon DEF FinalConfigCorrect
<1>6. config'["menu_timeout"] \in Int /\ config' = [f \in Fields |-> config'[f]]
  BY <1>0, <1>3, ClampNearest, ConfigAssumption, SMTT(30) DEF Progress
<1> QED
  BY <1>0, <1>1, <1>5, <1>6, Zenon DEF Progress, Loading

\* A step that only moves on, or fails to read, keeps what is known.
LEMMA MoveStep ==
  ASSUME Progress, pc # "done", pc' \in Loading \cup {"env", "clamp"},
         pc' \in Loading => pc \in Loading, pc' # "root",
         UNCHANGED <<config, section, lineNo, envNo, ini, json, env, jsonSeen, envSeen>>
  PROVE  Progress'
<1>1. /\ \A f : Effective(f)' = Effective(f)
      /\ section' = InForce(lineNo + 1)'
  BY SameSources, Zenon DEF Progress
<1>2. pc' # "done"
  BY Zenon DEF Loading
<1>3. FinalConfigCorrect'
  BY <1>2, Zenon DEF FinalConfigCorrect
<1> QED
  BY <1>1, <1>2, <1>3, Zenon DEF Progress

\* Without a root directory the defaults are what the sources ask for.
LEMMA RootStep ==
  ASSUME Progress, NEW ok \in BOOLEAN, OpenRoot(ok)
  PROVE  Progress'
<1>0. /\ pc = "root" /\ pc' = IF ok THEN "ini_open" ELSE "done"
      /\ UNCHANGED <<config, section, lineNo, envNo, ini, json, env, jsonSeen, envSeen>>
  BY Zenon DEF OpenRoot, inputs
<1>1. CASE ok
  BY <1>0, <1>1, MoveStep, Zenon DEF Loading
<1>2. CASE ~ok
  <2>1. /\ \A f : Effective(f)' = Effective(f)
        /\ section' = InForce(lineNo + 1)'
    BY <1>0, SameSources, Zenon DEF Progress
  <2>2. \A f \in Fields : config'[f] = Effective(f)'
    BY <1>0, <2>1, Zenon DEF Progress
  <2>3. "menu_timeout" \in Fields /\ config'["menu_timeout"] \in 0..MAX_TIMEOUT
    BY <1>0, Zenon DEF Progress, Fields
  <2>4. FinalConfigCorrect'
    BY <2>2, <2>3, ConfigAssumption DEF FinalConfigCorrect
  <2> QED
    BY <1>0, <1>2, <2>1, <2>4, Zenon DEF Progress, Loading
<1> QED
  BY <1>1, <1>2, Zenon

\* Before anything is read the defaults are in force.
LEMMA InitProgress == Init => Progress
<1> SUFFICES ASSUME Init PROVE Progress
  BY Zenon
<1>0. /\ pc = "root" /\ config = Defaults /\ lineNo = 0 /\ envNo = 0
      /\ ini \in IniFiles /\ json \in JsonFiles /\ env \in EnvStores
      /\ jsonSeen = FALSE /\ envSeen = {}
  BY Zenon DEF Init
<1>1. Len(ini) \in Nat /\ Len(EnvVars) \in Nat
  BY <1>0, ConfigAssumption, EnvVarsDistinct
<1>2. section = InForce(lineNo + 1)
  <2>1. Headers(lineNo + 1) = {}
    BY <1>0 DEF Headers
  <2>2. section = ""
    BY Zenon DEF Init
  <2> QED
    BY <2>1, <2>2, Zenon DEF InForce
<1>3. ASSUME NEW f \in Fields PROVE config[f] = Effective(f)
  <2>1. Setting(f) = {}
    BY <1>0 DEF Setting
  <2> QED
    BY <1>0, <2>1, Zenon DEF Effective, EnvAccepted, FromFiles, FromIni
<1>4. config = [f \in Fields |-> config[f]]
  <2>1. Defaults = [f \in Fields |-> Defaults[f]]
    BY Zenon DEF Defaults
  <2> QED
    BY <1>0, <2>1, Zenon
<1>5. config["menu_timeout"] \in 0..MAX_TIMEOUT /\ config["menu_timeout"] \in Int
  <2>1. Defaults["menu_timeout"] = DEFAULT_TIMEOUT
    BY Zenon DEF Defaults, Default, Fields
  <2> QED
    BY <1>0, <2>1, ConfigAssumption
<1>6. FinalConfigCorrect
  BY <1>0, Zenon DEF FinalConfigCorrect
<1>7. pc \in Loading \cup {"env", "clamp", "done"} /\ jsonSeen \in BOOLEAN
  BY <1>0, Zenon DEF Loading
<1>8. lineNo \in 0..Len(ini) /\ envNo \in 0..Len(EnvVars)
  BY <1>0, <1>1
<1>9. envSeen \subseteq DOMAIN env \cap {EnvVars[i] : i \in 1..envNo}
  BY <1>0, Zenon
<1> QED
  BY <1>0, <1>2, <1>3, <1>4, <1>5, <1>6, <1>7, <1>8, <1>9, Zenon DEF Progress

\* Every step keeps the configuration what the sources consumed so far say.
LEMMA ProgressStep == Progress /\ [Next]_configVars => Progress'
<1> SUFFICES ASSUME Progress, [Next]_configVars
             PROVE  Progress'
  OBVIOUS
<1>1. ASSUME NEW src \in Sources, NEW ok \in BOOLEAN,
             OpenFile(src, ok) \/ GetInfo(src, ok) \/ AllocateBuffer(src, ok) \/ ReadFile(src, ok)
      PROVE  Progress'
  <2>1. UNCHANGED <<config, section, lineNo, envNo, ini, json, env, jsonSeen, envSeen>>
    BY <1>1, Zenon DEF OpenFile, GetInfo, AllocateBuffer, ReadFile, FileStep, inputs
  <2>2. /\ pc \in Loading /\ pc # "done" /\ pc' # "root"
        /\ pc' \in Loading \cup {"env"}
    <3>1. CASE src = "ini"
      BY <1>1, <3>1, Zenon DEF OpenFile, GetInfo, AllocateBuffer, ReadFile, At, Loading
    <3>2. CASE src = "json"
      BY <1>1, <3>2, Zenon DEF OpenFile, GetInfo, AllocateBuffer, ReadFile, At, Loading
    <3> QED
      BY <3>1, <3>2, Zenon DEF Sources
  <2> QED
    BY <2>1, <2>2, MoveStep, Zenon
<1>2. CASE IniReturn
  BY <1>2, MoveStep, Zenon DEF IniReturn, inputs, Loading
<1>3. CASE EnvReturn
  BY <1>3, MoveStep, Zenon DEF EnvReturn, inputs, Loading
<1>4. CASE UNCHANGED configVars
  <2>1. UNCHANGED <<pc, config, section, lineNo, envNo, ini, json, env, jsonSeen, envSeen>>
    BY <1>4, Zenon DEF configVars
  <2>2. /\ \A f : Effective(f)' = Effective(f)
        /\ section' = InForce(lineNo + 1)'
    BY <2>1, SameSources, Zenon DEF Progress
  <2>3. FinalConfigCorrect'
    BY <2>1, <2>2, Zenon DEF FinalConfigCorrect, Progress
  <2> QED
    BY <2>1, <2>2, <2>3, Zenon DEF Progress
<1> QED
  BY <1>1, <1>2, <1>3, <1>4, RootStep, IniLineStep, JsonStep, EnvStep, ClampStep, Zenon DEF Next

\* Whatever the sources hold and whichever reads and allocations fail, each field
\* ends as the last source with an acceptable value says, and the timeout as the
\* nearest value of its range (main.c:394-414).
THEOREM ConfigCorrect == Spec => []FinalConfigCorrect
<1>1. Progress => FinalConfigCorrect
  BY Zenon DEF Progress
<1> QED
  BY <1>1, InitProgress, ProgressStep, PTL DEF Spec

-----------------------------------------------------------------------------
(* The strings.                                                            *)

Entries == [key : STRING, value : Nat \X Nat]

(* The lines read so far that belong into the table.                       *)
KeptLines == {n \in 1..line : Text[n].pair /\ ~Text[n].comment}

LocTypeOK ==
  /\ locale_file \in [Languages -> LocaleFiles] /\ current_lang \in Languages
  /\ Text \in Seq(LocaleLines)
  /\ sets \in Nat /\ line \in 0..Len(Text)
  /\ g_loc \in Seq(Entries)

(* The entries are the lines kept, in their order.                         *)
TableOK ==
  /\ \A i \in 1..Len(g_loc) :
       \E n \in KeptLines : g_loc[i] = [key |-> Text[n].key, value |-> <<sets, n>>]
  /\ \A n \in KeptLines : \E i \in 1..Len(g_loc) : g_loc[i].value = <<sets, n>>
  /\ \A i, j \in 1..Len(g_loc), m, n \in KeptLines :
       g_loc[i].value = <<sets, m>> /\ g_loc[j].value = <<sets, n>> /\ i < j => m < n
  /\ loc_values = {g_loc[i].value : i \in 1..Len(g_loc)}
  /\ loc_cap = 0 => g_loc = << >>

LocInv == LocTypeOK /\ (loc_step # "crashed" => TableOK)

(* There is room for all that was read and for all that can still come.    *)
RoomOK ==
  /\ loc_cap \in Nat
  /\ loc_step # "crashed" =>
       /\ Len(g_loc) = Cardinality(KeptLines)
       /\ loc_cap # 0 => LineCount(Text) <= loc_cap

\* The localization starts without a table.
LEMMA LocInitInv == LocInit => LocInv
<1> SUFFICES ASSUME LocInit PROVE LocInv
  OBVIOUS
<1>1. LocTypeOK
  BY LocaleAssumption DEF LocInit, LocTypeOK, Text
<1>2. KeptLines = {} /\ 1..Len(g_loc) = {}
  BY DEF LocInit, KeptLines
<1> QED
  BY <1>1, <1>2, Zenon DEF LocInit, LocInv, TableOK

\* The value of an entry is that of a line of the text loaded last.
LEMMA EntryValue ==
  ASSUME TableOK, NEW i \in 1..Len(g_loc)
  PROVE  \E n \in KeptLines : g_loc[i].value = <<sets, n>>
<1>1. PICK n \in KeptLines : g_loc[i] = [key |-> Text[n].key, value |-> <<sets, n>>]
  BY Zenon DEF TableOK
<1>2. g_loc[i].value = <<sets, n>>
  BY <1>1
<1> QED
  BY <1>2, Zenon

(* A line that is kept is appended, and what was read stays as it is.      *)
LEMMA StoredTable ==
  ASSUME LocTypeOK, TableOK, loc_cap # 0, line < Len(Text), StoreLine,
         Text[line + 1].pair, ~Text[line + 1].comment,
         line' = line + 1, UNCHANGED <<locale_file, current_lang, loc_cap, sets>>
  PROVE  LocTypeOK' /\ TableOK'
<1> DEFINE n == line + 1
           entry == [key |-> Text[n].key, value |-> <<sets, n>>]
<1>t. /\ line \in Nat /\ n \in Nat /\ Len(Text) \in Nat /\ sets \in Nat
      /\ Text \in Seq(LocaleLines) /\ g_loc \in Seq(Entries) /\ Text' = Text
      /\ UNCHANGED <<sets, loc_cap>> /\ line' = n /\ n \in 1..Len(Text)
  BY DEF LocTypeOK, Text
<1>k. KeptLines' = KeptLines \cup {n} /\ n \notin KeptLines /\ KeptLines \subseteq 1..line
  <2>1. 1..n = (1..line) \cup {n} /\ n \notin 1..line
    BY <1>t
  <2> HIDE DEF n
  <2> QED
    BY <1>t, <2>1, Zenon DEF KeptLines, n
<1>e. entry \in Entries
  <2>1. Text[n] \in LocaleLines
    BY <1>t
  <2>2. Text[n].key \in STRING
    BY <2>1, Zenon DEF LocaleLines
  <2> QED
    BY <2>2, <1>t, Zenon DEF Entries
<1>g. g_loc' = Append(g_loc, entry) /\ loc_values' = loc_values \cup {entry.value}
  BY <1>t, Zenon DEF StoreLine, Stored
<1> HIDE DEF n, entry
<1>a. /\ Len(g_loc) \in Nat /\ g_loc' \in Seq(Entries) /\ Len(g_loc') = Len(g_loc) + 1
      /\ \A i \in 1..Len(g_loc) : g_loc'[i] = g_loc[i]
      /\ g_loc'[Len(g_loc) + 1] = entry
  BY <1>g, <1>t, <1>e
<1>v. entry.value = <<sets, n>> /\ entry = [key |-> Text[n].key, value |-> <<sets, n>>]
  BY Zenon DEF entry
<1>1. LocTypeOK'
  <2>1. locale_file' \in [Languages -> LocaleFiles] /\ current_lang' \in Languages
    BY Zenon DEF LocTypeOK
  <2> QED
    BY <1>t, <1>a, <2>1 DEF LocTypeOK
<1>2. ASSUME NEW i \in 1..Len(g_loc')
      PROVE  \E m \in KeptLines' : g_loc'[i] = [key |-> Text'[m].key, value |-> <<sets', m>>]
  <2>1. CASE i = Len(g_loc) + 1
    BY <2>1, <1>a, <1>v, <1>k, <1>t, Zenon
  <2>2. CASE i \in 1..Len(g_loc)
    <3>1. PICK m \in KeptLines : g_loc[i] = [key |-> Text[m].key, value |-> <<sets, m>>]
      BY <2>2, Zenon DEF TableOK
    <3>2. m \in KeptLines' /\ g_loc'[i] = g_loc[i]
      BY <2>2, <1>a, <1>k, Zenon
    <3> QED
      BY <3>1, <3>2, <1>t, Zenon
  <2> QED
    BY <2>1, <2>2, <1>a
<1>3. ASSUME NEW m \in KeptLines'
      PROVE  \E i \in 1..Len(g_loc') : g_loc'[i].value = <<sets', m>>
  <2>1. CASE m = n
    <3>1. Len(g_loc) + 1 \in 1..Len(g_loc') /\ g_loc'[Len(g_loc) + 1].value = <<sets', m>>
      BY <2>1, <1>a, <1>v, <1>t
    <3> QED
      BY <3>1, Zenon
  <2>2. CASE m \in KeptLines
    <3>1. PICK i \in 1..Len(g_loc) : g_loc[i].value = <<sets, m>>
      BY <2>2, Zenon DEF TableOK
    <3>2. i \in 1..Len(g_loc') /\ g_loc'[i].value = <<sets', m>>
      BY <3>1, <1>a, <1>t
    <3> QED
      BY <3>2, Zenon
  <2> QED
    BY <2>1, <2>2, <1>k, Zenon
<1>4. ASSUME NEW i \in 1..Len(g_loc'), NEW j \in 1..Len(g_loc'),
             NEW p \in KeptLines', NEW m \in KeptLines',
             g_loc'[i].value = <<sets', p>>, g_loc'[j].value = <<sets', m>>, i < j
      PROVE  p < m
  <2>1. i \in 1..Len(g_loc) /\ g_loc'[i] = g_loc[i]
    BY <1>4, <1>a
  <2>2. PICK q \in KeptLines : g_loc[i].value = <<sets, q>>
    BY <2>1, EntryValue, Zenon
  <2>3. p = q /\ p \in 1..line
    BY <1>4, <2>1, <2>2, <1>t, <1>k
  <2>4. CASE j = Len(g_loc) + 1
    <3>1. m = n
      BY <1>4, <2>4, <1>a, <1>v, <1>t
    <3> QED
      BY <3>1, <2>3, <1>t DEF n
  <2>5. CASE j \in 1..Len(g_loc)
    <3>1. g_loc[j].value = <<sets, m>>
      BY <1>4, <2>5, <1>a, <1>t, Zenon
    <3>2. PICK r \in KeptLines : g_loc[j].value = <<sets, r>>
      BY <2>5, EntryValue, Zenon
    <3>3. m = r
      BY <3>1, <3>2
    <3> QED
      BY <3>1, <3>2, <3>3, <2>1, <2>2, <2>3, <2>5, <1>4, Zenon DEF TableOK
  <2> QED
    BY <2>4, <2>5, <1>a
<1>5. loc_values' = {g_loc'[i].value : i \in 1..Len(g_loc')}
  <2>1. 1..Len(g_loc') = (1..Len(g_loc)) \cup {Len(g_loc) + 1}
    BY <1>a, SMTT(30)
  <2>2. loc_values = {g_loc[i].value : i \in 1..Len(g_loc)}
    BY Zenon DEF TableOK
  <2> QED
    BY <2>1, <2>2, <1>a, <1>g
<1> QED
  BY <1>1, <1>2, <1>3, <1>4, <1>5, <1>t, Zenon DEF TableOK

\* A step that leaves the table alone leaves it sound.
LEMMA SameTable ==
  ASSUME TableOK, KeptLines' = KeptLines, Text' = Text,
         g_loc' = g_loc, loc_values' = loc_values, sets' = sets, loc_cap' = loc_cap
  PROVE  TableOK'
<1>1. \A i \in 1..Len(g_loc') :
        \E n \in KeptLines' : g_loc'[i] = [key |-> Text'[n].key, value |-> <<sets', n>>]
  BY Zenon DEF TableOK
<1>2. \A n \in KeptLines' : \E i \in 1..Len(g_loc') : g_loc'[i].value = <<sets', n>>
  BY Zenon DEF TableOK
<1>3. \A i, j \in 1..Len(g_loc'), m, n \in KeptLines' :
        g_loc'[i].value = <<sets', m>> /\ g_loc'[j].value = <<sets', n>> /\ i < j => m < n
  BY DEF TableOK
<1>4. loc_values' = {g_loc'[i].value : i \in 1..Len(g_loc')}
  BY Zenon DEF TableOK
<1>5. loc_cap' = 0 => g_loc' = << >>
  BY Zenon DEF TableOK
<1> QED
  BY <1>1, <1>2, <1>3, <1>4, <1>5, Zenon DEF TableOK

(* A line that is not kept changes nothing but the count of lines read.    *)
LEMMA SkippedTable ==
  ASSUME LocTypeOK, TableOK, line < Len(Text),
         ~(Text[line + 1].pair /\ ~Text[line + 1].comment), line' = line + 1,
         UNCHANGED <<locale_file, current_lang, loc_cap, sets, g_loc, loc_values>>
  PROVE  LocTypeOK' /\ TableOK'
<1>1. LocTypeOK'
  BY DEF LocTypeOK, Text
<1>2. 1..line' = (1..line) \cup {line + 1}
  BY DEF LocTypeOK
<1>3. Text' = Text
  BY Zenon DEF Text
<1>4. KeptLines' = KeptLines
  BY <1>2, <1>3, Zenon DEF KeptLines
<1>5. TableOK'
  BY <1>3, <1>4, SameTable, Zenon
<1> QED
  BY <1>1, <1>5, Zenon

(* A new language starts with an empty table.                              *)
LEMMA NewTable ==
  ASSUME LocTypeOK, TableOK, NEW language \in Languages,
         current_lang' = language, free_locale_table,
         line' = 0, sets' = sets + 1, UNCHANGED locale_file
  PROVE  LocTypeOK' /\ TableOK'
<1>1. Text' = locale_file[language] /\ Text' \in Seq(LocaleLines)
  BY LocaleAssumption, Zenon DEF Text, LocTypeOK
<1>2. g_loc' = << >> /\ loc_values' = {}
  <2>1. DOMAIN g_loc = 1..Len(g_loc)
    BY DEF LocTypeOK
  <2> QED
    BY <2>1, Zenon DEF free_locale_table, TableOK
<1>3. LocTypeOK'
  BY <1>1, <1>2 DEF LocTypeOK
<1>4. KeptLines' = {} /\ 1..Len(g_loc') = {}
  BY <1>2 DEF KeptLines
<1> QED
  BY <1>2, <1>3, <1>4, Zenon DEF TableOK

\* Every step of the localization keeps its table sound.
LEMMA LocNextInv == LocInv /\ [LocNext]_locVars => LocInv'
<1> SUFFICES ASSUME LocInv, [LocNext]_locVars PROVE LocInv'
  OBVIOUS
<1>i. LocTypeOK /\ (loc_step # "crashed" => TableOK)
  BY Zenon DEF LocInv
<1>1. ASSUME NEW language \in Languages, SetLanguageFails(language) PROVE LocInv'
  <2>1. LocTypeOK' /\ TableOK'
    BY <1>1, <1>i, NewTable, Zenon DEF SetLanguageFails
  <2> QED
    BY <2>1, Zenon DEF LocInv
<1>2. ASSUME NEW language \in Languages, NEW allocated \in BOOLEAN,
             SetLanguage(language, allocated)
      PROVE  LocInv'
  <2>1. TableOK /\ current_lang' = language /\ free_locale_table /\ line' = 0
        /\ sets' = sets + 1 /\ UNCHANGED locale_file
    BY <1>2, <1>i, Zenon DEF SetLanguage
  <2> QED
    BY <2>1, <1>i, NewTable, Zenon DEF LocInv
<1>3. CASE ParseLine
  <2>1. /\ TableOK /\ line < Len(Text) /\ line' = line + 1
        /\ UNCHANGED <<locale_file, current_lang, loc_cap, sets>>
    BY <1>3, <1>i, Zenon DEF ParseLine
  <2>2. CASE Text[line + 1].pair /\ ~Text[line + 1].comment /\ loc_cap # 0
    <3>1. StoreLine
      BY <1>3, <2>2, Zenon DEF ParseLine
    <3> QED
      BY <2>1, <2>2, <3>1, <1>i, StoredTable, Zenon DEF LocInv
  <2>3. CASE ~(Text[line + 1].pair /\ ~Text[line + 1].comment)
    <3>1. UNCHANGED <<g_loc, loc_values>>
      BY <1>3, <2>3, Zenon DEF ParseLine
    <3> QED
      BY <2>1, <2>3, <3>1, <1>i, SkippedTable, Zenon DEF LocInv
  <2>4. CASE Text[line + 1].pair /\ ~Text[line + 1].comment /\ loc_cap = 0
    <3>1. loc_step' = "crashed" /\ g_loc' = g_loc
      BY <1>3, <2>4, Zenon DEF ParseLine
    <3>2. LocTypeOK'
      BY <2>1, <3>1, <1>i DEF LocTypeOK, Text
    <3> QED
      BY <3>1, <3>2, Zenon DEF LocInv
  <2> QED
    BY <2>2, <2>3, <2>4, Zenon
<1>4. CASE ParseStops \/ ParseEnds \/ UNCHANGED locVars
  <2>1. /\ UNCHANGED <<locale_file, current_lang, loc_cap, g_loc, line, loc_values, sets>>
        /\ loc_step' # "crashed" => loc_step # "crashed"
    BY <1>4, Zenon DEF ParseStops, ParseEnds, locVars
  <2>2. LocTypeOK'
    BY <2>1, <1>i, Zenon DEF LocTypeOK, Text
  <2>3. KeptLines' = KeptLines /\ Text' = Text
    BY <2>1, Zenon DEF KeptLines, Text
  <2>4. TableOK => TableOK'
    BY <2>1, <2>3, SameTable, Zenon
  <2> QED
    BY <2>1, <2>2, <2>4, <1>i, Zenon DEF LocInv
<1> QED
  BY <1>1, <1>2, <1>3, <1>4, Zenon DEF LocNext

\* The table is sound in every state of a run.
LEMMA LocInvariant == LocSpec => []LocInv
<1> QED
  BY LocInitInv, LocNextInv, PTL DEF LocSpec

-----------------------------------------------------------------------------
(* The menu.                                                               *)

INSTANCE WellFoundedInduction

\* A non-empty set of naturals has a least element: the loops of menu.c that
\* stop at the first match return it.
LEMMA LeastExists ==
  ASSUME NEW S \in SUBSET Nat, S # {}
  PROVE  /\ (CHOOSE i \in S : \A j \in S : i <= j) \in S
         /\ \A j \in S : (CHOOSE i \in S : \A k \in S : i <= k) <= j
<1> DEFINE R == {ss \in Nat \X Nat : ss[1] < ss[2]}
<1>1. IsWellFoundedOn(R, Nat)
  BY NatLessThanWellFounded, Zenon DEF OpToRel
<1>2. PICK x \in S : \A y \in S : ~ (<<y, x>> \in R)
  <2> HIDE DEF R
  <2> QED
    BY <1>1, WFMin, Zenon
<1>3. \A y \in S : x <= y
  <2> SUFFICES ASSUME NEW y \in S PROVE x <= y
    BY Zenon
  <2>1. <<y, x>> \in Nat \X Nat
    BY Zenon
  <2>2. ~ (y < x)
    BY <1>2, <2>1, Zenon
  <2> QED
    BY <2>2
<1> QED
  BY <1>3, Zenon

\* towlower maps characters to characters.
LEMMA TowlowerType ==
  ASSUME NEW c \in Nat
  PROVE  towlower(c) \in Nat
BY DEF towlower

\* The key AssignHotkeys finds for a name (menu.c:51) is 0 or a character
\* that no earlier entry uses.
LEMMA FirstUnusedFresh ==
  ASSUME NEW name \in Seq(Nat), NEW used
  PROVE  /\ FirstUnused(name, used) \in Nat
         /\ FirstUnused(name, used) # 0 => FirstUnused(name, used) \notin used
<1> DEFINE free == {j \in 1..Len(name) : /\ Printable(towlower(name[j]))
                                         /\ towlower(name[j]) \notin used}
           least == CHOOSE j \in free : \A k \in free : j <= k
<1>1. CASE free = {}
  BY <1>1, Zenon DEF FirstUnused
<1>2. CASE free # {}
  <2>1. free \in SUBSET Nat
    OBVIOUS
  <2>2. least \in free
    BY <1>2, <2>1, LeastExists, Zenon
  <2>3. FirstUnused(name, used) = towlower(name[least])
    BY <1>2, Zenon DEF FirstUnused
  <2>4. name[least] \in Nat
    BY <2>2
  <2> QED
    BY <2>2, <2>3, <2>4, TowlowerType, Zenon
<1> QED
  BY <1>1, <1>2, Zenon

-----------------------------------------------------------------------------
(* Type correctness *)

\* Every reachable state of the menu is well typed.
THEOREM TypeCorrect == BootMenuSpec => []TypeOK
<1> USE MenuAssumption
<1>1. BootMenuInit => TypeOK
  BY SMTT(30) DEF BootMenuInit, TypeOK, Stages, Modes, None
<1>2. TypeOK /\ [BootMenuNext]_menuVars => TypeOK'
  <2> SUFFICES ASSUME TypeOK, [BootMenuNext]_menuVars
               PROVE  TypeOK'
    BY Zenon
  <2> USE DEF TypeOK, Stages, Modes, None, BootEntryCount
  <2>1. ASSUME NEW name \in Names, AddBootEntry(name) PROVE TypeOK'
    <3>1. [name |-> name, fn |-> TRUE] \in BOOT_MENU_ENTRY
      BY Zenon DEF BOOT_MENU_ENTRY
    <3> QED
      BY <2>1, <3>1, SMTT(30) DEF AddBootEntry
  <2>2. CASE ShowBootMenu
    BY <2>2, Zenon DEF ShowBootMenu
  <2>3. CASE AssignHotkey
    <3> DEFINE n == Len(BootEntryHotkeys)
               used == {BootEntryHotkeys[k] : k \in 1..n}
    <3>1. BootEntries[n + 1].name \in Seq(Nat)
      <4>1. n + 1 \in 1..Len(BootEntries)
        BY <2>3 DEF AssignHotkey
      <4>2. BootEntries[n + 1] \in BOOT_MENU_ENTRY
        BY <4>1
      <4> QED
        BY <4>2, Zenon DEF BOOT_MENU_ENTRY
    <3>2. FirstUnused(BootEntries[n + 1].name, used) \in Nat
      BY <3>1, FirstUnusedFresh, Zenon
    <3> QED
      BY <2>3, <3>2 DEF AssignHotkey
  <2>4. ASSUME NEW graphics \in BOOLEAN, OpenMenu(graphics) PROVE TypeOK'
    <3>1. CASE BootEntryCount = 0
      <4>1. FallbackName \in Seq(Nat)
        BY DEF FallbackName
      <4>2. [name |-> FallbackName, fn |-> FALSE] \in BOOT_MENU_ENTRY
        BY <4>1, Zenon DEF BOOT_MENU_ENTRY
      <4>3. /\ BootEntries' = <<[name |-> FallbackName, fn |-> FALSE]>>
            /\ BootEntryHotkeys' = <<0>>
        BY <2>4, <3>1, Zenon DEF OpenMenu
      <4>4. \A e \in BOOT_MENU_ENTRY : <<e>> \in Seq(BOOT_MENU_ENTRY)
        OBVIOUS
      <4>5. <<0>> \in Seq(Nat)
        OBVIOUS
      <4>6. BootEntries' \in Seq(BOOT_MENU_ENTRY) /\ BootEntryHotkeys' \in Seq(Nat)
        BY <4>2, <4>3, <4>4, <4>5, Zenon
      <4> QED
        BY <2>4, <4>6, Zenon DEF OpenMenu
    <3>2. CASE BootEntryCount # 0
      BY <2>4, <3>2, Zenon DEF OpenMenu
    <3> QED
      BY <3>1, <3>2, Zenon
  <2>5. CASE DrawBootMenu
    BY <2>5 DEF DrawBootMenu
  <2>6. CASE MouseAway
    BY <2>6, Zenon DEF MouseAway
  <2>7. ASSUME NEW i \in 0..(BootEntryCount - 1), NEW left \in BOOLEAN,
               MouseOver(i, left)
        PROVE  TypeOK'
    BY <2>7 DEF MouseOver, Boot
  <2>8. CASE KeyError
    BY <2>8, Zenon DEF KeyError
  <2>9. ASSUME NEW c \in KeyChars, KeyHotkey(c) PROVE TypeOK'
    <3>1. HotkeyMatches(c) \in SUBSET Nat
      BY DEF HotkeyMatches
    <3>2. SelectedEntry' \in HotkeyMatches(c)
      BY <2>9, <3>1, LeastExists, Zenon DEF KeyHotkey
    <3> QED
      BY <2>9, <3>1, <3>2 DEF KeyHotkey, ReadKey
  <2>10. CASE KeyEnter
    BY <2>10, Zenon DEF KeyEnter, ReadKey, Boot
  <2>11. CASE KeyUp
    BY <2>11 DEF KeyUp, ReadKey
  <2>12. CASE KeyDown
    BY <2>12 DEF KeyDown, ReadKey
  <2>13. CASE KeyEsc
    BY <2>13, Zenon DEF KeyEsc, ReadKey
  <2>14. CASE KeyOther
    BY <2>14, Zenon DEF KeyOther, ReadKey
  <2>15. CASE UNCHANGED menuVars
    BY <2>15, Zenon DEF menuVars
  <2> QED
    BY <2>1, <2>2, <2>3, <2>4, <2>5, <2>6, <2>7, <2>8, <2>9, <2>10, <2>11,
       <2>12, <2>13, <2>14, <2>15, Zenon DEF BootMenuNext, Keys
<1> QED
  BY <1>1, <1>2, PTL DEF BootMenuSpec

-----------------------------------------------------------------------------
(* The selection and the window *)

\* MenuIndicesValid says nothing of the state before the menu opens; the
\* strengthening adds that the selection and the window start at the top.
IndexInv ==
  /\ MenuIndicesValid
  /\ ~Running => SelectedEntry = 0 /\ MenuScrollOffset = 0

\* The selection always names an entry and the window stays inside the table:
\* the reads of BootEntries[SelectedEntry] and the drawing loop of menu.c are in
\* bounds for every number of entries, window height and sequence of events.
THEOREM IndicesCorrect == BootMenuSpec => []MenuIndicesValid
<1> USE MenuAssumption
<1>1. BootMenuInit => IndexInv
  BY Zenon DEF BootMenuInit, IndexInv, MenuIndicesValid, Running
<1>2. TypeOK /\ TypeOK' /\ IndexInv /\ [BootMenuNext]_menuVars => IndexInv'
  <2> SUFFICES ASSUME TypeOK, TypeOK', IndexInv, [BootMenuNext]_menuVars
               PROVE  IndexInv'
    BY Zenon
  <2> USE DEF IndexInv, MenuIndicesValid, Running, LastWindow, BootEntryCount
  <2>0. /\ Len(BootEntries) \in Nat
        /\ SelectedEntry \in Int
        /\ MenuScrollOffset \in Int
    BY DEF TypeOK
  <2>1. ASSUME NEW name \in Names, AddBootEntry(name) PROVE IndexInv'
    BY <2>1, Zenon DEF AddBootEntry
  <2>2. CASE ShowBootMenu
    BY <2>2, Zenon DEF ShowBootMenu
  <2>3. CASE AssignHotkey
    BY <2>3, Zenon DEF AssignHotkey
  <2>4. ASSUME NEW graphics \in BOOLEAN, OpenMenu(graphics) PROVE IndexInv'
    <3>1. Len(BootEntries') \in Nat \ {0}
      <4>1. CASE Len(BootEntries) = 0
        <5>1. BootEntries' = <<[name |-> FallbackName, fn |-> FALSE]>>
          BY <2>4, <4>1, Zenon DEF OpenMenu
        <5> QED
          BY <5>1
      <4>2. CASE Len(BootEntries) # 0
        BY <2>0, <2>4, <4>2, Zenon DEF OpenMenu
      <4> QED
        BY <4>1, <4>2, Zenon
    <3>2. stage' = "draw" /\ SelectedEntry' = 0 /\ MenuScrollOffset' = 0
      BY <2>4, Zenon DEF OpenMenu
    <3> QED
      BY <3>1, <3>2
  <2>5. CASE DrawBootMenu
    BY <2>5, Zenon DEF DrawBootMenu
  <2>6. CASE MouseAway
    BY <2>6, Zenon DEF MouseAway
  <2>7. ASSUME NEW i \in 0..(BootEntryCount - 1), NEW left \in BOOLEAN,
               MouseOver(i, left)
        PROVE  IndexInv'
    <3>1. stage' \in {"returned", "wait"}
      BY <2>7, Zenon DEF MouseOver, Boot
    <3> QED
      BY <2>7, <3>1, Zenon DEF MouseOver
  <2>8. CASE KeyError
    BY <2>8, Zenon DEF KeyError
  <2>9. ASSUME NEW c \in KeyChars, KeyHotkey(c) PROVE IndexInv'
    <3>1. HotkeyMatches(c) \in SUBSET Nat /\ HotkeyMatches(c) \subseteq 0..(Len(BootEntries) - 1)
      BY DEF HotkeyMatches
    <3>2. SelectedEntry' \in HotkeyMatches(c)
      BY <2>9, <3>1, LeastExists, Zenon DEF KeyHotkey
    <3> QED
      BY <2>9, <3>1, <3>2, Zenon DEF KeyHotkey, ReadKey
  <2>10. CASE KeyEnter
    BY <2>10, Zenon DEF KeyEnter, ReadKey, Boot
  <2>11. CASE KeyUp
    BY <2>0, <2>11 DEF KeyUp, ReadKey
  <2>12. CASE KeyDown
    BY <2>0, <2>12 DEF KeyDown, ReadKey
  <2>13. CASE KeyEsc
    BY <2>13, Zenon DEF KeyEsc, ReadKey
  <2>14. CASE KeyOther
    BY <2>14, Zenon DEF KeyOther, ReadKey
  <2>15. CASE UNCHANGED menuVars
    BY <2>15, Zenon DEF menuVars
  <2> QED
    BY <2>1, <2>2, <2>3, <2>4, <2>5, <2>6, <2>7, <2>8, <2>9, <2>10, <2>11,
       <2>12, <2>13, <2>14, <2>15 DEF BootMenuNext, Keys
<1>3. IndexInv => MenuIndicesValid
  BY Zenon DEF IndexInv
<1> QED
  BY <1>1, <1>2, <1>3, TypeCorrect, PTL DEF BootMenuSpec

\* SCAN_UP and SCAN_DOWN never scroll the selection out of the window.
THEOREM ArrowsCorrect == BootMenuSpec => ArrowKeepsVisible
<1> USE MenuAssumption
<1>1. ASSUME TypeOK, MenuIndicesValid, KeyUp \/ KeyDown, Visible(SelectedEntry)
      PROVE  Visible(SelectedEntry)'
  <2> USE DEF Visible, BootEntryCount, MenuIndicesValid, LastWindow, Running
  <2>0. /\ Len(BootEntries) \in Nat
        /\ SelectedEntry \in Int
        /\ MenuScrollOffset \in Int
        /\ BootEntries' = BootEntries
        /\ stage = "wait"
    BY <1>1 DEF TypeOK, KeyUp, KeyDown, ReadKey
  <2>1. CASE KeyUp
    BY <1>1, <2>0, <2>1 DEF KeyUp
  <2>2. CASE KeyDown
    BY <1>1, <2>0, <2>2 DEF KeyDown
  <2> QED
    BY <1>1, <2>1, <2>2, Zenon
<1>2. TypeOK /\ MenuIndicesValid
        => [(KeyUp \/ KeyDown) /\ Visible(SelectedEntry) => Visible(SelectedEntry)']_menuVars
  BY <1>1, Zenon
<1> QED
  BY <1>2, TypeCorrect, IndicesCorrect, PTL DEF ArrowKeepsVisible
-----------------------------------------------------------------------------
(* Hotkeys *)

\* Two entries never share a hotkey, whatever the names.
THEOREM HotkeysCorrect == BootMenuSpec => []HotkeysDistinct
<1> USE MenuAssumption
<1>1. BootMenuInit => HotkeysDistinct
  BY SMTT(30) DEF BootMenuInit, HotkeysDistinct
<1>2. TypeOK /\ HotkeysDistinct /\ [BootMenuNext]_menuVars => HotkeysDistinct'
  <2> SUFFICES ASSUME TypeOK, HotkeysDistinct, [BootMenuNext]_menuVars
               PROVE  HotkeysDistinct'
    BY Zenon
  <2>1. CASE AssignHotkey
    <3> DEFINE n == Len(BootEntryHotkeys)
               used == {BootEntryHotkeys[k] : k \in 1..n}
               key == FirstUnused(BootEntries[n + 1].name, used)
    <3>1. BootEntries[n + 1].name \in Seq(Nat)
      <4>1. n + 1 \in 1..Len(BootEntries)
        BY <2>1 DEF AssignHotkey, TypeOK, BootEntryCount
      <4>2. BootEntries[n + 1] \in BOOT_MENU_ENTRY
        BY <4>1 DEF TypeOK
      <4> QED
        BY <4>2, Zenon DEF BOOT_MENU_ENTRY
    <3>2. key \in Nat /\ (key # 0 => key \notin used)
      BY <3>1, FirstUnusedFresh, Zenon
    <3>3. BootEntryHotkeys' = Append(BootEntryHotkeys, key)
      BY <2>1, Zenon DEF AssignHotkey
    <3>4. /\ n \in Nat /\ Len(BootEntryHotkeys') = n + 1
          /\ \A i \in 1..n : BootEntryHotkeys'[i] = BootEntryHotkeys[i]
          /\ BootEntryHotkeys'[n + 1] = key
      <4> HIDE DEF key
      <4> QED
        BY <3>2, <3>3 DEF TypeOK
    <3>5. \A i \in 1..n : BootEntryHotkeys[i] \in used
      BY Zenon
    <3> HIDE DEF key, used
    <3> QED
      BY <3>2, <3>4, <3>5 DEF HotkeysDistinct
  <2>2. ASSUME NEW graphics \in BOOLEAN, OpenMenu(graphics) PROVE HotkeysDistinct'
    <3>1. BootEntryHotkeys' = BootEntryHotkeys \/ BootEntryHotkeys' = <<0>>
      BY <2>2, Zenon DEF OpenMenu
    <3> QED
      BY <3>1 DEF HotkeysDistinct
  <2>3. CASE UNCHANGED BootEntryHotkeys
    BY <2>3, Zenon DEF HotkeysDistinct
  <2> QED
    BY <2>1, <2>2, <2>3, Zenon
    DEF BootMenuNext, Keys, menuVars, AddBootEntry, ShowBootMenu, DrawBootMenu, MouseAway, MouseOver,
        KeyError, KeyHotkey, KeyEnter, KeyUp, KeyDown, KeyEsc, KeyOther, ReadKey
<1> QED
  BY <1>1, <1>2, TypeCorrect, PTL DEF BootMenuSpec

-----------------------------------------------------------------------------
(* The strings: the table has room for what is read.                       *)

INSTANCE FiniteSetTheorems


\* The lines load_language_file counts are finitely many.
LEMMA LineCountNat ==
  ASSUME NEW text \in Seq(LocaleLines)
  PROVE  LineCount(text) \in Nat
<1> DEFINE counted == {i \in DOMAIN text : \E j \in i..Len(text) : text[j].pair}
<1>0. DOMAIN text = 1..Len(text) /\ Len(text) \in Nat
  OBVIOUS
<1>1. counted \in SUBSET (1..Len(text)) /\ IsFiniteSet(1..Len(text))
  BY <1>0, FS_Interval
<1>2. IsFiniteSet(counted)
  <2> HIDE DEF counted
  <2> QED
    BY <1>1, FS_Subset, Zenon
<1> QED
  BY <1>2, FS_CardinalityType, Zenon DEF LineCount

(* The lines kept are finite in number, and were all counted.              *)
LEMMA KeptCounted ==
  ASSUME LocTypeOK
  PROVE  /\ IsFiniteSet(KeptLines)
         /\ Cardinality(KeptLines) \in Nat /\ LineCount(Text) \in Nat
         /\ Cardinality(KeptLines) <= LineCount(Text)
<1> DEFINE counted == {i \in DOMAIN Text : \E j \in i..Len(Text) : Text[j].pair}
<1>1. DOMAIN Text = 1..Len(Text) /\ Len(Text) \in Nat
  BY DEF LocTypeOK
<1>2. IsFiniteSet(1..Len(Text))
  BY <1>1, FS_Interval
<1>3. counted \subseteq 1..Len(Text) /\ KeptLines \subseteq counted
  <2>1. ASSUME NEW n \in KeptLines PROVE n \in counted
    <3>1. n \in 1..Len(Text) /\ n \in n..Len(Text) /\ Text[n].pair
      BY <1>1 DEF KeptLines, LocTypeOK
    <3> QED
      BY <3>1, <1>1, Zenon
  <2> QED
    BY <2>1, <1>1, Zenon
<1>4. IsFiniteSet(counted) /\ IsFiniteSet(KeptLines)
  BY <1>2, <1>3, FS_Subset, Zenon
<1> QED
  BY <1>3, <1>4, FS_Subset, FS_CardinalityType, Zenon DEF LineCount

\* An empty table has room.
LEMMA RoomInit == LocInit => RoomOK
<1> SUFFICES ASSUME LocInit PROVE RoomOK
  OBVIOUS
<1>1. KeptLines = {} /\ Cardinality(KeptLines) = 0
  BY FS_EmptySet DEF LocInit, KeptLines
<1> QED
  BY <1>1, Zenon DEF LocInit, RoomOK

(* A new table has the room that its file was counted to need.             *)
LEMMA RoomNew ==
  ASSUME LocTypeOK', g_loc' = << >>, line' = 0,
         loc_cap' = 0 \/ (LineCount(Text') = 0 /\ loc_cap' = 1) \/ loc_cap' = LineCount(Text')
  PROVE  RoomOK'
<1>1. LineCount(Text') \in Nat
  BY LineCountNat, Zenon DEF LocTypeOK
<1>2. KeptLines' = {} /\ Cardinality(KeptLines') = 0
  BY FS_EmptySet DEF KeptLines
<1> QED
  BY <1>1, <1>2 DEF RoomOK

\* Loading allocates for every line that is counted before it is kept.
LEMMA RoomStep == LocInv /\ LocInv' /\ RoomOK /\ [LocNext]_locVars => RoomOK'
<1> SUFFICES ASSUME LocInv, LocInv', RoomOK, [LocNext]_locVars PROVE RoomOK'
  BY Zenon
<1>t. LocTypeOK /\ LocTypeOK'
  BY Zenon DEF LocInv
<1>1. ASSUME NEW language \in Languages, SetLanguageFails(language) PROVE RoomOK'
  BY <1>1, <1>t, RoomNew, Zenon DEF SetLanguageFails, free_locale_table
<1>2. ASSUME NEW language \in Languages, NEW allocated \in BOOLEAN,
             SetLanguage(language, allocated)
      PROVE  RoomOK'
  <2>1. Text' = locale_file[language] /\ g_loc' = << >> /\ line' = 0
    BY <1>2, Zenon DEF SetLanguage, Text, free_locale_table
  <2>2. loc_cap' = 0 \/ (LineCount(Text') = 0 /\ loc_cap' = 1) \/ loc_cap' = LineCount(Text')
    BY <1>2, <2>1, Zenon DEF SetLanguage
  <2> QED
    BY <2>1, <2>2, <1>t, RoomNew, Zenon
<1>3. CASE ParseLine
  <2>1. /\ loc_step # "crashed" /\ line < Len(Text) /\ line' = line + 1 /\ Text' = Text
        /\ loc_cap' = loc_cap
    BY <1>3, Zenon DEF ParseLine, Text
  <2>2. line \in Nat /\ 1..line' = (1..line) \cup {line + 1} /\ line + 1 \notin 1..line
    BY <2>1, <1>t DEF LocTypeOK
  <2>3. CASE Text[line + 1].pair /\ ~Text[line + 1].comment /\ loc_cap # 0
    <3>1. KeptLines' = KeptLines \cup {line + 1} /\ line + 1 \notin KeptLines
      BY <2>1, <2>2, <2>3, Zenon DEF KeptLines
    <3>2. Cardinality(KeptLines') = Cardinality(KeptLines) + 1
      BY <3>1, <1>t, KeptCounted, FS_AddElement, Zenon
    <3>3. Len(g_loc') = Len(g_loc) + 1
      BY <1>3, <2>3, <1>t DEF ParseLine, StoreLine, LocTypeOK
    <3> QED
      BY <2>1, <3>2, <3>3, Zenon DEF RoomOK
  <2>4. CASE ~(Text[line + 1].pair /\ ~Text[line + 1].comment)
    <3>1. g_loc' = g_loc
      BY <1>3, <2>4, Zenon DEF ParseLine
    <3>2. KeptLines' = KeptLines
      BY <2>1, <2>2, <2>4, Zenon DEF KeptLines
    <3> QED
      BY <2>1, <3>1, <3>2, Zenon DEF RoomOK
  <2>5. CASE Text[line + 1].pair /\ ~Text[line + 1].comment /\ loc_cap = 0
    <3>1. loc_step' = "crashed"
      BY <1>3, <2>5, Zenon DEF ParseLine
    <3> QED
      BY <2>1, <3>1, Zenon DEF RoomOK
  <2> QED
    BY <2>3, <2>4, <2>5, Zenon
<1>4. CASE ParseStops \/ ParseEnds \/ UNCHANGED locVars
  <2>1. /\ UNCHANGED <<locale_file, current_lang, loc_cap, g_loc, line>>
        /\ loc_step' # "crashed" => loc_step # "crashed"
    BY <1>4, Zenon DEF ParseStops, ParseEnds, locVars
  <2>2. KeptLines' = KeptLines /\ Text' = Text
    BY <2>1, Zenon DEF KeptLines, Text
  <2> QED
    BY <2>1, <2>2, Zenon DEF RoomOK
<1> QED
  BY <1>1, <1>2, <1>3, <1>4, Zenon DEF LocNext

(* What the menu is drawn with exists and is what the file of the current  *)
(* language says, for every set of languages, every file and every place   *)
(* at which memory runs out: the table never outgrows the array that the   *)
(* first pass of SetLanguage counted out for it.                           *)
THEOREM LocaleCorrect == LocSpec => []LocaleSound
<1>1. LocInv /\ RoomOK => LocaleSound
  <2> SUFFICES ASSUME LocInv, RoomOK, loc_step # "crashed" PROVE LocaleSound
    BY Zenon DEF LocaleSound
  <2>i. LocTypeOK /\ TableOK
    BY Zenon DEF LocInv
  <2>t. /\ g_loc \in Seq(Entries) /\ DOMAIN g_loc = 1..Len(g_loc) /\ Len(g_loc) \in Nat
        /\ loc_cap \in Nat /\ line \in Nat
    BY <2>i DEF LocTypeOK, RoomOK
  <2>1. Len(g_loc) <= loc_cap
    <3>1. CASE loc_cap = 0
      BY <3>1, <2>i DEF TableOK
    <3>2. CASE loc_cap # 0
      BY <3>2, <2>i, <2>t, KeptCounted, SMTT(30) DEF RoomOK
    <3> QED
      BY <3>1, <3>2, Zenon
  <2>2. {g_loc[i].value : i \in DOMAIN g_loc} = loc_values
    BY <2>i, <2>t, Zenon DEF TableOK
  <2>3. ASSUME NEW key \in LocaleKeys
        PROVE  \/ Giving(key) = {} /\ GetLocalizedString(key) = <<BuiltInString(key)>>
               \/ \E n \in Giving(key) :
                    /\ \A j \in Giving(key) : n <= j
                    /\ GetLocalizedString(key) = Stored(n)
    <3> DEFINE found == {i \in DOMAIN g_loc : g_loc[i].key = key}
               first == CHOOSE i \in found : \A j \in found : i <= j
    <3>0. Giving(key) \subseteq KeptLines /\ Giving(key) \subseteq Nat /\ KeptLines \subseteq Nat
      BY <2>t DEF Giving, KeptLines
    <3>1. CASE found = {}
      <4>1. Giving(key) = {}
        <5> SUFFICES ASSUME NEW n \in Giving(key) PROVE FALSE
          BY Zenon
        <5>1. PICK i \in 1..Len(g_loc) : g_loc[i].value = <<sets, n>>
          BY <2>i, <3>0, Zenon DEF TableOK
        <5>2. PICK m \in KeptLines : g_loc[i] = [key |-> Text[m].key, value |-> <<sets, m>>]
          BY <2>i, Zenon DEF TableOK
        <5>3. m = n /\ g_loc[i].key = Text[n].key
          BY <5>1, <5>2
        <5>4. Text[n].key = key
          BY Zenon DEF Giving
        <5> QED
          BY <5>3, <5>4, <3>1, <2>t, Zenon
      <4> QED
        BY <4>1, <3>1, Zenon DEF GetLocalizedString
    <3>2. CASE found # {}
      <4>1. found \in SUBSET Nat
        BY <2>t
      <4>2. first \in found /\ \A j \in found : first <= j
        <5> HIDE DEF found
        <5> QED
          BY <4>1, <3>2, LeastExists, Zenon
      <4>3. first \in 1..Len(g_loc) /\ g_loc[first].key = key
        BY <4>2, <2>t, Zenon
      <4> HIDE DEF first
      <4>4. PICK n \in KeptLines : g_loc[first] = [key |-> Text[n].key, value |-> <<sets, n>>]
        BY <2>i, <4>3, Zenon DEF TableOK
      <4>5. n \in Giving(key) /\ g_loc[first].value = Stored(n)
        BY <4>3, <4>4 DEF KeptLines, Giving, Stored
      <4>6. loc_cap # 0
        <5>1. loc_cap = 0 => g_loc = << >>
          BY <2>i, Zenon DEF TableOK
        <5> QED
          BY <5>1, <4>3, SMTT(30)
      <4>7. GetLocalizedString(key) = Stored(n)
        BY <4>5, <4>6, <3>2, Zenon DEF GetLocalizedString, first
      <4>8. ASSUME NEW j \in Giving(key) PROVE n <= j
        <5>1. PICK i \in 1..Len(g_loc) : g_loc[i].value = <<sets, j>>
          BY <2>i, <3>0, ZenonT(30) DEF TableOK
        <5>2. PICK m \in KeptLines : g_loc[i] = [key |-> Text[m].key, value |-> <<sets, m>>]
          BY <2>i, Zenon DEF TableOK
        <5>3. m = j /\ g_loc[i].key = Text[j].key
          BY <5>1, <5>2, SMTT(30)
        <5>4. i \in found
          BY <5>3, <2>t, Zenon DEF Giving
        <5>5. first <= i
          BY <5>4, <4>2, Zenon
        <5>6. first = i => n = j
          BY <5>1, <4>4
        <5>7. first < i => n < j
          <6>1. g_loc[first].value = <<sets, n>> /\ j \in KeptLines
            BY <4>4, <3>0
          <6> QED
            BY <2>i, <4>3, <5>1, <6>1, ZenonT(30) DEF TableOK
        <5>8. first \in Nat /\ i \in Nat /\ n \in Nat /\ j \in Nat
          BY <4>3, <3>0, <2>t
        <5> QED
          BY <5>5, <5>6, <5>7, <5>8
      <4> QED
        BY <4>5, <4>7, <4>8, Zenon
    <3> QED
      BY <3>1, <3>2, Zenon
  <2> QED
    BY <2>1, <2>2, <2>3, Zenon DEF LocaleSound
<1> QED
  BY <1>1, LocInvariant, RoomInit, RoomStep, PTL DEF LocSpec

=============================================================================
