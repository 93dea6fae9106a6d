------------------------------ MODULE BootMenu ------------------------------
(***************************************************************************)
(* The interactive boot menu of boot/menu.c: the table of entries, the     *)
(* hotkeys derived from their names, the selection and the scroll window,  *)
(* and the event loop of ShowBootMenu.                                     *)
(*                                                                         *)
(* The loop has three stages per iteration and they are separate steps     *)
(* here, because what the user sees, what the mouse selects and what a key *)
(* acts on are three different moments: the screen is drawn, the mouse is  *)
(* sampled (which may change the selection after the screen was drawn),    *)
(* and only then does the loop wait for a key.                             *)
(*                                                                         *)
(* Entries are numbered from 0 as in the code; entry i is                  *)
(* BootEntries[i + 1].                                                     *)
(***************************************************************************)
EXTENDS Integers, Sequences

CONSTANTS
  MAX_BOOT_ENTRIES,      \* capacity of the entry table
  VISIBLE_MENU_ENTRIES,  \* height of the scroll window
  Names,                 \* names a caller may register: sequences of characters
  KeyChars               \* non-zero characters the keyboard can deliver

ASSUME MenuAssumption ==
  /\ MAX_BOOT_ENTRIES \in Nat \ {0}
  /\ VISIBLE_MENU_ENTRIES \in Nat \ {0}
  /\ Names \subseteq Seq(Nat)
  /\ KeyChars \subseteq Nat \ {0}

VARIABLES
  BootEntries,       \* the entry table: a sequence of [name, fn]
  BootEntryHotkeys,  \* the hotkey of each entry, 0 for none
  SelectedEntry,     \* the current selection
  MenuScrollOffset,  \* the first visible entry
  Status,            \* the EFI status variable ShowBootMenu reuses: TRUE = success
  screen,            \* what the last redraw showed: mode and highlighted entry
  stage,             \* where the loop is
  chosen             \* the entry whose boot function was called, or none

menuVars == <<BootEntries, BootEntryHotkeys, SelectedEntry, MenuScrollOffset,
              Status, screen, stage, chosen>>

BootEntryCount == Len(BootEntries)

None == -1
CARRIAGE_RETURN == 13

\* "Exit to UEFI Firmware", cut to its first word: hotkeys are assigned before
\* the fallback entry exists, so its characters are never read.
FallbackName == <<69, 120, 105, 116>>

Stages == {"setup", "assign", "draw", "mouse", "wait", "returned", "aborted"}
Modes == {"none", "graphics", "text"}
-----------------------------------------------------------------------------
(* Hotkeys *)

towlower(c) == IF c \in 65..90 THEN c + 32 ELSE c

Printable(c) == c >= 32 /\ c < 128

\* Mutant: a taken character is taken again.
FirstPrintable(name, used) ==
  LET printable == {j \in 1..Len(name) : Printable(towlower(name[j]))}
  IN IF printable = {} THEN 0
     ELSE towlower(name[CHOOSE j \in printable : \A k \in printable : j <= k])

\* The first printable character of a name that no earlier entry uses.
FirstUnused(name, used) ==
  LET free == {j \in 1..Len(name) : /\ Printable(towlower(name[j]))
                                    /\ towlower(name[j]) \notin used}
  IN IF free = {} THEN 0
     ELSE towlower(name[CHOOSE j \in free : \A k \in free : j <= k])
-----------------------------------------------------------------------------
BootMenuInit ==
  /\ BootEntries = << >>
  /\ BootEntryHotkeys = << >>
  /\ SelectedEntry = 0
  /\ MenuScrollOffset = 0
  /\ Status = TRUE
  /\ screen = [mode |-> "none", highlight |-> None]
  /\ stage = "setup"
  /\ chosen = None

\* The caller registers an entry; a full table refuses it.
AddBootEntry(name) ==
  /\ stage = "setup"
  /\ BootEntryCount < MAX_BOOT_ENTRIES
  /\ BootEntries' = Append(BootEntries, [name |-> name, fn |-> TRUE])
  /\ UNCHANGED <<BootEntryHotkeys, SelectedEntry, MenuScrollOffset, Status,
                 screen, stage, chosen>>

\* ShowBootMenu is called; the entries are complete.
ShowBootMenu ==
  /\ stage = "setup"
  /\ stage' = "assign"
  /\ UNCHANGED <<BootEntries, BootEntryHotkeys, SelectedEntry, MenuScrollOffset,
                 Status, screen, chosen>>

\* One round of the loop of AssignHotkeys: the next entry in table order takes
\* its key.
AssignHotkey ==
  LET n == Len(BootEntryHotkeys)
      used == {BootEntryHotkeys[k] : k \in 1..n}
  IN /\ stage = "assign"
     /\ n < BootEntryCount
     /\ BootEntryHotkeys' = Append(BootEntryHotkeys, FirstUnused(BootEntries[n + 1].name, used))
     /\ UNCHANGED <<BootEntries, SelectedEntry, MenuScrollOffset, Status, screen,
                    stage, chosen>>

\* All keys are assigned.  Status is the result of InitializeGraphics.  An empty
\* table gets the fallback entry, which has no boot function and, added after
\* AssignHotkeys, no hotkey.
OpenMenu(graphics) ==
  /\ stage = "assign"
  /\ Len(BootEntryHotkeys) = BootEntryCount
  /\ IF BootEntryCount = 0
       THEN /\ BootEntries' = <<[name |-> FallbackName, fn |-> FALSE]>>
            /\ BootEntryHotkeys' = <<0>>
       ELSE UNCHANGED <<BootEntries, BootEntryHotkeys>>
  /\ Status' = graphics
  /\ stage' = "draw"
  /\ UNCHANGED <<SelectedEntry, MenuScrollOffset, screen, chosen>>

Visible(i) ==
  /\ i \in 0..(BootEntryCount - 1)
  /\ MenuScrollOffset <= i
  /\ i < MenuScrollOffset + VISIBLE_MENU_ENTRIES

\* Redraw.  The graphical menu highlights the selection only when it lies in
\* the window; the text menu lists every entry.
DrawBootMenu ==
  /\ stage = "draw"
  /\ screen' = IF Status
               THEN [mode |-> "graphics",
                     highlight |-> IF Visible(SelectedEntry) THEN SelectedEntry ELSE None]
               ELSE [mode |-> "text", highlight |-> SelectedEntry]
  /\ stage' = "mouse"
  /\ UNCHANGED <<BootEntries, BootEntryHotkeys, SelectedEntry, MenuScrollOffset,
                 Status, chosen>>

\* BootFunction of the entry is called, or the menu returns EFI_SUCCESS when the
\* entry has none.  Either way the loop is left.
Boot(i) ==
  /\ chosen' = i
  /\ stage' = "returned"

\* The mouse rests outside every visible entry.
MouseAway ==
  /\ stage = "mouse"
  /\ stage' = "wait"
  /\ UNCHANGED <<BootEntries, BootEntryHotkeys, SelectedEntry, MenuScrollOffset,
                 Status, screen, chosen>>

\* The mouse rests on visible entry i: it becomes the selection, and the left
\* button boots it.
MouseOver(i, left_button) ==
  /\ stage = "mouse"
  /\ Visible(i)
  /\ SelectedEntry' = i
  /\ IF left_button THEN Boot(i)
     ELSE stage' = "wait" /\ UNCHANGED chosen
  /\ UNCHANGED <<BootEntries, BootEntryHotkeys, MenuScrollOffset, Status, screen>>

\* WaitForEvent or ReadKeyStroke fails: the loop starts over with an error in
\* Status, so the next redraw is in text mode.
KeyError ==
  /\ stage = "wait"
  /\ Status' = FALSE
  /\ stage' = "draw"
  /\ UNCHANGED <<BootEntries, BootEntryHotkeys, SelectedEntry, MenuScrollOffset,
                 screen, chosen>>

\* A key was read: Status is the success of ReadKeyStroke.
ReadKey ==
  /\ stage = "wait"
  /\ Status' = TRUE
  /\ UNCHANGED <<BootEntries, BootEntryHotkeys, screen>>

\* Entries whose hotkey is the lower-cased key.
HotkeyMatches(c) ==
  {i \in 0..(BootEntryCount - 1) : BootEntryHotkeys[i + 1] = towlower(c)}

KeyHotkey(c) ==
  /\ ReadKey
  /\ c # CARRIAGE_RETURN
  /\ HotkeyMatches(c) # {}
  /\ SelectedEntry' = CHOOSE i \in HotkeyMatches(c) : \A j \in HotkeyMatches(c) : i <= j
  /\ stage' = "draw"
  /\ UNCHANGED <<MenuScrollOffset, chosen>>

KeyEnter ==
  /\ ReadKey
  /\ Boot(SelectedEntry)
  /\ UNCHANGED <<SelectedEntry, MenuScrollOffset>>

\* Mutant: the window does not follow the wrap to the last entry.
KeyUpNoScroll ==
  /\ ReadKey
  /\ SelectedEntry' = IF SelectedEntry > 0 THEN SelectedEntry - 1 ELSE BootEntryCount - 1
  /\ MenuScrollOffset' = IF SelectedEntry > 0 /\ SelectedEntry' < MenuScrollOffset
                         THEN MenuScrollOffset - 1 ELSE MenuScrollOffset
  /\ stage' = "draw"
  /\ UNCHANGED chosen

KeyUp ==
  /\ ReadKey
  /\ IF SelectedEntry > 0
       THEN /\ SelectedEntry' = SelectedEntry - 1
            /\ MenuScrollOffset' = IF SelectedEntry' < MenuScrollOffset
                                   THEN MenuScrollOffset - 1 ELSE MenuScrollOffset
       ELSE /\ SelectedEntry' = BootEntryCount - 1
            /\ MenuScrollOffset' = IF BootEntryCount > VISIBLE_MENU_ENTRIES
                                   THEN BootEntryCount - VISIBLE_MENU_ENTRIES ELSE 0
  /\ stage' = "draw"
  /\ UNCHANGED chosen

\* Mutant: the bound of SCAN_DOWN is off by one.
KeyDownPastEnd ==
  /\ ReadKey
  /\ SelectedEntry' = IF SelectedEntry < BootEntryCount THEN SelectedEntry + 1 ELSE 0
  /\ MenuScrollOffset' = IF SelectedEntry < BootEntryCount
                         THEN IF SelectedEntry' >= MenuScrollOffset + VISIBLE_MENU_ENTRIES
                              THEN MenuScrollOffset + 1 ELSE MenuScrollOffset
                         ELSE 0
  /\ stage' = "draw"
  /\ UNCHANGED chosen

KeyDown ==
  /\ ReadKey
  /\ IF SelectedEntry < BootEntryCount - 1
       THEN /\ SelectedEntry' = SelectedEntry + 1
            /\ MenuScrollOffset' = IF SelectedEntry' >= MenuScrollOffset + VISIBLE_MENU_ENTRIES
                                   THEN MenuScrollOffset + 1 ELSE MenuScrollOffset
       ELSE /\ SelectedEntry' = 0
            /\ MenuScrollOffset' = 0
  /\ stage' = "draw"
  /\ UNCHANGED chosen

KeyEsc ==
  /\ ReadKey
  /\ stage' = "aborted"
  /\ UNCHANGED <<SelectedEntry, MenuScrollOffset, chosen>>

\* Any other key: a character that is no hotkey, or a scan code without a case.
KeyOther ==
  /\ ReadKey
  /\ stage' = "draw"
  /\ UNCHANGED <<SelectedEntry, MenuScrollOffset, chosen>>

Keys ==
  \/ \E c \in KeyChars : KeyHotkey(c)
  \/ KeyEnter
  \/ KeyUp
  \/ KeyDown
  \/ KeyEsc
  \/ KeyOther

BootMenuNext ==
  \/ \E name \in Names : AddBootEntry(name)
  \/ ShowBootMenu
  \/ AssignHotkey
  \/ \E graphics \in BOOLEAN : OpenMenu(graphics)
  \/ DrawBootMenu
  \/ MouseAway
  \/ \E i \in 0..(BootEntryCount - 1), left \in BOOLEAN : MouseOver(i, left)
  \/ KeyError
  \/ Keys

BootMenuSpec == BootMenuInit /\ [][BootMenuNext]_menuVars
-----------------------------------------------------------------------------
(* Properties *)

BOOT_MENU_ENTRY == [name : Seq(Nat), fn : BOOLEAN]

TypeOK ==
  /\ BootEntries \in Seq(BOOT_MENU_ENTRY)
  /\ BootEntryHotkeys \in Seq(Nat)
  /\ SelectedEntry \in Int
  /\ MenuScrollOffset \in Int
  /\ Status \in BOOLEAN
  /\ screen \in [mode : Modes, highlight : Int]
  /\ stage \in Stages
  /\ chosen \in Int

Running == stage \notin {"setup", "assign"}

LastWindow == IF BootEntryCount > VISIBLE_MENU_ENTRIES
              THEN BootEntryCount - VISIBLE_MENU_ENTRIES ELSE 0

\* The selection is always the index of an entry and the window never runs past
\* the table: BootEntries[SelectedEntry] (menu.c:208, 237) and the drawing loop
\* (menu.c:135) never leave the table, whatever mixture of wrap-arounds, hotkey
\* jumps and mouse moves came before.
MenuIndicesValid ==
  Running => /\ SelectedEntry \in 0..(BootEntryCount - 1)
             /\ MenuScrollOffset \in 0..LastWindow

\* No two entries share a hotkey, so the first match the key handler takes
\* (menu.c:228) is the only one.
HotkeysDistinct ==
  \A i, j \in 1..Len(BootEntryHotkeys) :
    i # j /\ BootEntryHotkeys[i] # 0 => BootEntryHotkeys[i] # BootEntryHotkeys[j]

\* An arrow key never scrolls the selection out of the window: whenever the
\* selection was visible before SCAN_UP or SCAN_DOWN, it is visible after it,
\* including at both ends of the list where it wraps around (menu.c:243).
ArrowKeepsVisible ==
  [][(KeyUp \/ KeyDown) /\ Visible(SelectedEntry) => Visible(SelectedEntry)']_menuVars

\* USAGE.md:27 promises "Enter to boot the selected entry": the entry the screen
\* shows as selected is the one Enter boots.
EnterBootsHighlighted ==
  [][KeyEnter => screen.highlight = SelectedEntry]_menuVars
=============================================================================
