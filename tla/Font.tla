-------------------------------- MODULE Font --------------------------------
(***************************************************************************)
(* The fonts the display code draws with (boot/font.c): three built-in     *)
(* fonts over static tables, fonts loaded from memory or from a PSF1 file, *)
(* a cache of pointers to the loaded ones, and the default font, which     *)
(* main.c replaces by the one of the configuration.                        *)
(*                                                                         *)
(* A font is the place of its record in fonts; an address is not used      *)
(* again after it was freed.  Any allocation and any step of reading the   *)
(* file may fail.  What the code does after it touched freed memory, or    *)
(* freed memory that was never allocated, is undefined: the model stops.   *)
(***************************************************************************)
EXTENDS Integers, Sequences

CONSTANTS
  MAX_CACHED_FONTS, \* entries of the cache, at least the three of ClearFontCache
  FontFiles,        \* files: [psf1, double, charsize, size]
  MemorySizes,      \* sizes of a font given in memory
  MAX_FONTS,        \* bound: fonts allocated
  MAX_FONT_CALLS    \* bound: calls

ASSUME FontAssumption ==
  /\ MAX_CACHED_FONTS \in Nat /\ MAX_CACHED_FONTS >= 3
  /\ \A file \in FontFiles : file.charsize \in Nat
  /\ MemorySizes \subseteq Nat

VARIABLES
  font_step,        \* "idle", or the loop of "shutdown" or "clear"
  fonts,            \* every font allocated: [origin, line_height, data_size]
  font_live,        \* the fonts not freed
  g_font_cache, g_font_cache_count,
  g_default_font, g_mono_font, g_bold_font,
  font_i,           \* the index of the loop
  font_held,        \* fonts callers were given and have not given back
  font_fault,       \* "none", "freed": freed memory used, "static": a table freed
  font_foreign,     \* a caller took one of the steps FontsSound excludes
  font_calls        \* calls made

cacheVars == <<g_font_cache, g_font_cache_count>>

builtinVars == <<g_default_font, g_mono_font, g_bold_font>>

fontVars ==
  <<font_step, fonts, font_live, cacheVars, builtinVars, font_i, font_held, font_fault,
    font_foreign, font_calls>>

NULL == 0

Slots == 0..(MAX_CACHED_FONTS - 1)

(* Before InitFontSystem: static storage.                                  *)
FontInit ==
  /\ font_step = "idle" /\ fonts = << >> /\ font_live = {}
  /\ g_font_cache = [i \in Slots |-> NULL] /\ g_font_cache_count = 0
  /\ g_default_font = NULL /\ g_mono_font = NULL /\ g_bold_font = NULL
  /\ font_i = 0 /\ font_held = {} /\ font_fault = "none" /\ font_foreign = FALSE
  /\ font_calls = 0

(* A call begins.                                                          *)
Called ==
  /\ font_step = "idle" /\ font_fault = "none" /\ font_calls < MAX_FONT_CALLS
  /\ font_calls' = font_calls + 1

IsBuiltin(font) == fonts[font].origin = "builtin"

-----------------------------------------------------------------------------
(* The sizes of the tables as they stand in the file.                      *)
BuiltinFonts ==
  <<[origin |-> "builtin", line_height |-> 16, data_size |-> 96],
    [origin |-> "builtin", line_height |-> 8, data_size |-> 16],
    [origin |-> "builtin", line_height |-> 16, data_size |-> 16]>>

(* InitFontSystem, with any of its three allocations failing.              *)
InitFontSystem(default, mono, bold) ==
  LET at(n, allocated) == IF allocated THEN Len(fonts) + n ELSE NULL
  IN  /\ Called /\ Len(fonts) + 3 <= MAX_FONTS
      /\ fonts' = fonts \o BuiltinFonts
      /\ g_default_font' = at(1, default) /\ g_mono_font' = at(2, mono)
      /\ g_bold_font' = at(3, bold)
      /\ font_live' = font_live \cup ({at(1, default), at(2, mono), at(3, bold)} \ {NULL})
      /\ g_font_cache' = [i \in Slots |-> NULL] /\ g_font_cache_count' = 0
      /\ UNCHANGED <<font_step, font_i, font_held, font_fault, font_foreign>>

SetDefaultFont(font) ==
  /\ Called /\ font # NULL
  /\ g_default_font' = font
  /\ UNCHANGED <<font_step, fonts, font_live, cacheVars, g_mono_font, g_bold_font, font_i,
                 font_held, font_fault, font_foreign>>

-----------------------------------------------------------------------------
(* A full cache takes no more fonts; they are returned all the same.       *)
AddToCache(font) ==
  IF g_font_cache_count < MAX_CACHED_FONTS
  THEN /\ g_font_cache' = [g_font_cache EXCEPT ![g_font_cache_count] = font]
       /\ g_font_cache_count' = g_font_cache_count + 1
  ELSE UNCHANGED cacheVars

(* What both ways of loading end with.                                     *)
AddFont(record) ==
  LET font == Len(fonts) + 1
  IN  /\ font <= MAX_FONTS
      /\ fonts' = Append(fonts, record)
      /\ font_live' = font_live \cup {font}
      /\ AddToCache(font)
      /\ font_held' = font_held \cup {font}
      /\ UNCHANGED <<font_step, builtinVars, font_i, font_fault, font_foreign>>

(* LoadFontFromMemory; without memory it returns NULL and changes nothing. *)
LoadFontFromMemory(size) ==
  /\ Called /\ size # 0
  /\ AddFont([origin |-> "memory", line_height |-> 16, data_size |-> size])

GlyphCount(file) == IF file.double THEN 512 ELSE 256

(* The header of four bytes, and room for every glyph it announces.        *)
parse_psf1(file) ==
  /\ file.size >= 4 /\ file.psf1
  /\ file.size >= 4 + file.charsize * GlyphCount(file)

LoadFontFile(file) ==
  /\ Called /\ parse_psf1(file)
  /\ AddFont([origin |-> "file", line_height |-> file.charsize,
              data_size |-> file.charsize * GlyphCount(file)])

(* LoadFontFile without a name, with a file that cannot be read, that is   *)
(* no PSF1 font, or without memory: the caller gets the default font.      *)
LoadFontFileFalls ==
  /\ Called /\ g_default_font # NULL
  /\ font_held' = font_held \cup {g_default_font}
  /\ UNCHANGED <<font_step, fonts, font_live, cacheVars, builtinVars, font_i, font_fault,
                 font_foreign>>

-----------------------------------------------------------------------------
(* UnloadFont, as the caller's call and inside the two loops.              *)

Cached(font) == {i \in 0..(g_font_cache_count - 1) : g_font_cache[i] = font}

ShiftedFrom(first, i) ==
  g_font_cache[IF first <= i /\ i < g_font_cache_count - 1 THEN i + 1 ELSE i]

(* Mutant: the entries move up and the count stays.                        *)
RemoveFromCacheKeepsCount(font) ==
  LET first == CHOOSE i \in Cached(font) : \A j \in Cached(font) : i <= j
  IN  /\ g_font_cache' = IF Cached(font) = {} THEN g_font_cache
                         ELSE [i \in Slots |-> ShiftedFrom(first, i)]
      /\ UNCHANGED g_font_cache_count

(* The first entry goes and those behind it move up by one; the place of   *)
(* the last keeps its pointer.                                             *)
RemoveFromCache(font) ==
  LET first == CHOOSE i \in Cached(font) : \A j \in Cached(font) : i <= j
  IN  IF Cached(font) = {} THEN UNCHANGED cacheVars
      ELSE /\ g_font_cache' = [i \in Slots |-> ShiftedFrom(first, i)]
           /\ g_font_cache_count' = g_font_cache_count - 1

(* The font's data is freed, then the font.                                *)
Unload(font) ==
  /\ RemoveFromCache(font)
  /\ font_live' = font_live \ {font}
  /\ font_fault' = IF font \notin font_live THEN "freed"
                   ELSE IF IsBuiltin(font) THEN "static" ELSE font_fault

UnloadFont(font) ==
  /\ Called
  /\ Unload(font)
  /\ font_held' = font_held \ {font}
  /\ font_foreign' = (font_foreign \/ IsBuiltin(font) \/ font = g_default_font)
  /\ UNCHANGED <<font_step, fonts, builtinVars, font_i>>

-----------------------------------------------------------------------------
(* The two loops go over the cache by index while UnloadFont moves its     *)
(* entries.  A caller gives every font back by calling them.               *)

ShutdownFontSystem ==
  /\ Called
  /\ font_step' = "shutdown" /\ font_i' = 0 /\ font_held' = {}
  /\ font_foreign' =
       (font_foreign \/ (/\ g_default_font # NULL
                         /\ \/ ~IsBuiltin(g_default_font)
                            \/ g_default_font \in {g_mono_font, g_bold_font}))
  /\ UNCHANGED <<fonts, font_live, cacheVars, builtinVars, font_fault>>

ClearFontCache ==
  /\ Called
  /\ font_step' = "clear" /\ font_i' = 0 /\ font_held' = {} /\ font_foreign' = TRUE
  /\ UNCHANGED <<fonts, font_live, cacheVars, builtinVars, font_fault>>

Spared(font) ==
  \/ font = NULL
  \/ font_step = "clear" /\ font \in {g_default_font, g_mono_font, g_bold_font}

LoopStep ==
  /\ font_step \in {"shutdown", "clear"} /\ font_fault = "none"
  /\ font_i < g_font_cache_count
  /\ font_i' = font_i + 1
  /\ IF Spared(g_font_cache[font_i]) THEN UNCHANGED <<cacheVars, font_live, font_fault>>
     ELSE Unload(g_font_cache[font_i])
  /\ UNCHANGED <<font_step, fonts, builtinVars, font_held, font_foreign, font_calls>>

(* The three pointers are freed in turn, without their data.               *)
ShutdownEnds ==
  LET freed == {g_default_font, g_mono_font, g_bold_font} \ {NULL}
      twice == \/ ~(freed \subseteq font_live)
               \/ g_default_font # NULL /\ g_default_font \in {g_mono_font, g_bold_font}
  IN  /\ font_step = "shutdown" /\ font_fault = "none" /\ font_i >= g_font_cache_count
      /\ font_fault' = IF twice THEN "freed" ELSE "none"
      /\ font_live' = font_live \ freed
      /\ g_default_font' = NULL /\ g_mono_font' = NULL /\ g_bold_font' = NULL
      /\ g_font_cache_count' = 0 /\ font_step' = "idle" /\ font_i' = 0
      /\ UNCHANGED <<fonts, g_font_cache, font_held, font_foreign, font_calls>>

ClearEnds ==
  /\ font_step = "clear" /\ font_fault = "none" /\ font_i >= g_font_cache_count
  /\ g_font_cache_count' = 3 /\ font_step' = "idle" /\ font_i' = 0
  /\ UNCHANGED <<fonts, font_live, g_font_cache, builtinVars, font_held, font_fault,
                 font_foreign, font_calls>>

FontNext ==
  \/ \E default, mono, bold \in BOOLEAN : InitFontSystem(default, mono, bold)
  \/ \E font \in font_held \cup {g_mono_font, g_bold_font} : SetDefaultFont(font)
  \/ \E size \in MemorySizes : LoadFontFromMemory(size)
  \/ \E file \in FontFiles : LoadFontFile(file)
  \/ LoadFontFileFalls
  \/ \E font \in font_held : UnloadFont(font)
  \/ ShutdownFontSystem \/ ClearFontCache \/ LoopStep \/ ShutdownEnds \/ ClearEnds

FontSpec == FontInit /\ [][FontNext]_fontVars

-----------------------------------------------------------------------------
(* RenderBitmapGlyph: the first and the last byte it reads of the font's   *)
(* data for a character.                                                   *)

BytesPerGlyph(font) == (fonts[font].line_height * 8 + 7) \div 8

Drawn == 32..126

GlyphInTable(font) ==
  \A codepoint \in Drawn :
    fonts[font].line_height > 0 =>
      (codepoint - 32) * BytesPerGlyph(font) + fonts[font].line_height
        <= fonts[font].data_size

-----------------------------------------------------------------------------
(* A program that loads, sets and unloads fonts in any order never draws   *)
(* with memory that is gone and frees nothing twice, however full the      *)
(* cache is: the fonts it holds and the three pointers are live, the cache *)
(* holds each loaded font at most once and only live ones, and what is     *)
(* drawn of a font from a file lies in its table.  Excluded are the three  *)
(* steps the statements below are about.                                   *)
FontsSound ==
  ~font_foreign =>
    /\ font_fault = "none"
    /\ font_held \subseteq font_live
    /\ {g_default_font, g_mono_font, g_bold_font} \subseteq font_live \cup {NULL}
    /\ g_font_cache_count <= MAX_CACHED_FONTS
    /\ \A i \in 0..(g_font_cache_count - 1) :
         /\ g_font_cache[i] \in font_live /\ ~IsBuiltin(g_font_cache[i])
         /\ \A j \in 0..(i - 1) : g_font_cache[i] # g_font_cache[j]
    /\ \A font \in font_live : fonts[font].origin = "file" => GlyphInTable(font)

(* No order of calls uses or frees memory that was freed before, or frees  *)
(* a table that was never allocated.                                       *)
NeverFault == font_fault = "none"

(* After ShutdownFontSystem no font is left allocated.                     *)
ShutdownFreesAll ==
  [][font_step = "shutdown" /\ font_step' = "idle" => font_live' = {}]_fontVars

(* font.c:429 says of the count ClearFontCache sets: "Keep the three       *)
(* built-in fonts".                                                        *)
ClearKeepsBuiltins ==
  [][font_step = "clear" /\ font_step' = "idle" =>
       \A i \in 0..(g_font_cache_count' - 1) :
         g_font_cache'[i] # NULL /\ IsBuiltin(g_font_cache'[i])]_fontVars

(* font.c:20 says of the built-in table "(ASCII 32-126)".                  *)
BuiltinGlyphsInTable == \A font \in font_live : IsBuiltin(font) => GlyphInTable(font)

=============================================================================
