---------------------------- MODULE MC_BootMenu ----------------------------
(* A small menu: four entries, a window of two, names that share letters,  *)
(* one name without a printable ASCII character, and keys that are and are *)
(* not hotkeys; and the table of strings it is drawn with, for two         *)
(* languages and files with comments, foreign keys and repeated keys; and  *)
(* the fonts, with a cache of three that four loaded ones overflow, and    *)
(* files that are a font, one byte short of one, and none.                 *)
(* One of the three runs, the others stay at an initial state.             *)
EXTENDS BootMenu, Font, Localization

VARIABLE part       \* the one that runs

MCNames == {<<65>>, <<66, 97>>, <<233>>}
MCKeyChars == {13, 65, 97, 98}

Pair(key) == [pair |-> TRUE, comment |-> FALSE, key |-> key]
Comment(pair) == [pair |-> pair, comment |-> TRUE, key |-> ""]

MCLocaleFiles ==
  {<< >>, <<Comment(FALSE)>>, <<Comment(TRUE), Pair("boot")>>,
   <<Comment(FALSE), Pair("exit"), Pair("boot")>>,
   <<Pair("boot"), Pair("hint"), Pair("boot")>>, <<Pair("exit"), Comment(FALSE)>>}

MCBuiltIn ==
  [boot |-> [en |-> "Boot", es |-> "Arrancar"], exit |-> [en |-> "Exit", es |-> "Salir"]]

PsfFile(double, charsize, size) ==
  [psf1 |-> TRUE, double |-> double, charsize |-> charsize, size |-> size]

MCFontFiles ==
  {PsfFile(FALSE, 8, 2052), PsfFile(TRUE, 16, 8195),
   [PsfFile(FALSE, 8, 2052) EXCEPT !.psf1 = FALSE]}

MenuInit ==
  /\ part \in {"menu", "strings", "fonts"}
  /\ BootMenuInit /\ LocInit /\ FontInit
  /\ part # "strings" => \A language \in Languages : locale_file[language] = << >>

MenuNext ==
  \/ part = "menu" /\ BootMenuNext /\ UNCHANGED <<part, locVars, fontVars>>
  \/ part = "strings" /\ LocNext /\ UNCHANGED <<part, menuVars, fontVars>>
  \/ part = "fonts" /\ FontNext /\ UNCHANGED <<part, menuVars, locVars>>

MenuSpec == MenuInit /\ [][MenuNext]_<<part, menuVars, locVars, fontVars>>

=============================================================================
