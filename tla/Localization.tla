---------------------------- MODULE Localization ----------------------------
(***************************************************************************)
(* The table of translated strings the menu is drawn with                  *)
(* (boot/localization.c): SetLanguage reads locales/<language>.ini and     *)
(* parses it line by line into a table it allocates;                       *)
(* GetLocalizedString looks there first and then at the built-in strings.  *)
(*                                                                         *)
(* A line is [pair, comment, key]: pair says that it has a "=", comment    *)
(* that it starts with "#" or ";".  Every allocation may fail.             *)
(***************************************************************************)
EXTENDS Integers, Sequences, FiniteSets

CONSTANTS
  Languages,        \* among them "en" and "es"
  LocaleFiles,      \* what the file of a language may be: sequences of lines
  BuiltIn,          \* the built-in strings: BuiltIn[key][language], of en and es
  MAX_SETS          \* bound: calls of SetLanguage

LocaleLines == [pair : BOOLEAN, comment : BOOLEAN, key : STRING]

ASSUME LocaleAssumption == "en" \in Languages /\ LocaleFiles \subseteq Seq(LocaleLines)

VARIABLES
  loc_step,         \* "idle", "parse", or "crashed" at a write through NULL
  locale_file,      \* the file of each language
  current_lang,
  loc_cap,          \* entries g_loc has room for, 0 if it is NULL
  g_loc,            \* [key, value] entries, g_loc_count of them
  line,             \* lines of the file parsed
  loc_values,       \* live value strings, by the entry they were made for
  loc_keys,         \* live key strings
  sets              \* calls of SetLanguage

locVars == <<loc_step, locale_file, current_lang, loc_cap, g_loc, line, loc_values,
             loc_keys, sets>>

LocInit ==
  /\ loc_step = "idle"
  /\ locale_file \in [Languages -> LocaleFiles]
  /\ current_lang = "en"
  /\ loc_cap = 0 /\ g_loc = << >> /\ line = 0
  /\ loc_values = {} /\ loc_keys = {}
  /\ sets = 0

Text == locale_file[current_lang]

(* A string, named by the call and the line it was made for.               *)
Stored(n) == <<sets, n>>

-----------------------------------------------------------------------------
(* The values and the array go; the keys stay allocated.                   *)
free_locale_table ==
  /\ loc_values' = loc_values \ {g_loc[i].value : i \in DOMAIN g_loc}
  /\ g_loc' = << >>

(* Mutant: only lines that end in a newline are counted.                   *)
LineCountEnded(text) ==
  Cardinality({i \in 1..(Len(text) - 1) : \E j \in i..Len(text) : text[j].pair})

(* The room is counted first: a line counts if there is a "=" in it or     *)
(* anywhere behind it.                                                     *)
LineCount(text) ==
  Cardinality({i \in DOMAIN text : \E j \in i..Len(text) : text[j].pair})

(* SetLanguage, with read_text_file failing at any of its steps or not.    *)
SetLanguageFails(language) ==
  /\ loc_step = "idle" /\ sets < MAX_SETS
  /\ current_lang' = language
  /\ free_locale_table /\ loc_cap' = 0
  /\ line' = 0 /\ sets' = sets + 1
  /\ UNCHANGED <<loc_step, locale_file, loc_keys>>

(* The file was read: the old table goes, a new one is allocated, and the  *)
(* result is not looked at.                                                *)
SetLanguage(language, allocated) ==
  /\ loc_step = "idle" /\ sets < MAX_SETS
  /\ current_lang' = language
  /\ free_locale_table
  /\ LET count == LineCount(locale_file[language])
     IN  loc_cap' = IF ~allocated THEN 0 ELSE IF count = 0 THEN 1 ELSE count
  /\ loc_step' = "parse" /\ line' = 0 /\ sets' = sets + 1
  /\ UNCHANGED <<locale_file, loc_keys>>

(* A pair that is no comment becomes an entry, at the next place of the    *)
(* array.                                                                  *)
StoreLine ==
  LET n == line + 1
  IN  /\ g_loc' = Append(g_loc, [key |-> Text[n].key, value |-> Stored(n)])
      /\ loc_values' = loc_values \cup {Stored(n)}
      /\ loc_keys' = loc_keys \cup {Stored(n)}

ParseLine ==
  /\ loc_step = "parse" /\ line < Len(Text)
  /\ line' = line + 1
  /\ IF Text[line + 1].pair /\ ~Text[line + 1].comment
     THEN IF loc_cap = 0
          THEN loc_step' = "crashed" /\ UNCHANGED <<g_loc, loc_values, loc_keys>>
          ELSE StoreLine /\ UNCHANGED loc_step
     ELSE UNCHANGED <<loc_step, g_loc, loc_values, loc_keys>>
  /\ UNCHANGED <<locale_file, current_lang, loc_cap, sets>>

(* The copy of a line, its value or its key cannot be allocated: what was  *)
(* allocated for the line is freed and the lines behind it are not read.   *)
ParseStops ==
  /\ loc_step = "parse" /\ line < Len(Text)
  /\ loc_step' = "idle"
  /\ UNCHANGED <<locale_file, current_lang, loc_cap, g_loc, line, loc_values, loc_keys, sets>>

ParseEnds ==
  /\ loc_step = "parse" /\ line = Len(Text)
  /\ loc_step' = "idle"
  /\ UNCHANGED <<locale_file, current_lang, loc_cap, g_loc, line, loc_values, loc_keys, sets>>

LocNext ==
  \/ \E language \in Languages :
       SetLanguageFails(language) \/ \E allocated \in BOOLEAN : SetLanguage(language, allocated)
  \/ ParseLine \/ ParseStops \/ ParseEnds

LocSpec == LocInit /\ [][LocNext]_locVars

-----------------------------------------------------------------------------
(* GetLocalizedString: the first entry with the key, or a built-in string. *)

BuiltInString(key) ==
  IF key \in DOMAIN BuiltIn
  THEN BuiltIn[key][IF current_lang = "es" THEN "es" ELSE "en"] ELSE ""

GetLocalizedString(key) ==
  LET found == {i \in DOMAIN g_loc : g_loc[i].key = key}
      first == CHOOSE i \in found : \A j \in found : i <= j
  IN  IF loc_cap # 0 /\ found # {} THEN g_loc[first].value ELSE <<BuiltInString(key)>>

-----------------------------------------------------------------------------
LocaleKeys == DOMAIN BuiltIn \cup {Text[n].key : n \in 1..Len(Text)}

(* Reference: the first of the lines read so far that gives the key.       *)
Giving(key) == {n \in 1..line : Text[n].pair /\ ~Text[n].comment /\ Text[n].key = key}

(* The menu is always drawn with strings that exist, whatever languages    *)
(* were set and wherever memory ran out: the table keeps to the array that *)
(* was counted out for it, its values are exactly the live ones, and a key *)
(* gives what the lines read of the current language's file say, or the    *)
(* built-in string.                                                        *)
LocaleSound ==
  loc_step # "crashed" =>
    /\ Len(g_loc) <= loc_cap
    /\ {g_loc[i].value : i \in DOMAIN g_loc} = loc_values
    /\ \A key \in LocaleKeys :
         \/ Giving(key) = {} /\ GetLocalizedString(key) = <<BuiltInString(key)>>
         \/ \E n \in Giving(key) :
              /\ \A j \in Giving(key) : n <= j
              /\ GetLocalizedString(key) = Stored(n)

(* localization.c:82 says of the first pass that it counts "lines with     *)
(* '='".                                                                   *)
CountsPairs ==
  loc_step = "parse" /\ loc_cap > 1 =>
    loc_cap = Cardinality({n \in DOMAIN Text : Text[n].pair})

(* A table that was given up has returned the memory of its keys.          *)
KeysReturned == Cardinality(loc_keys) <= Len(g_loc)

(* A language whose table cannot be allocated leaves the built-in strings. *)
FallsBack == loc_step # "crashed"

=============================================================================
