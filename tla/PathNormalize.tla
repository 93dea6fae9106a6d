--------------------------- MODULE PathNormalize ---------------------------
(***************************************************************************)
(* fs_normalize_path (fs/fs_common.c): the components of a path are pushed *)
(* on and popped off an array, then copied to the caller's buffer.  One    *)
(* step handles one component; strtok has already split the path and       *)
(* dropped empty components.                                               *)
(*                                                                         *)
(* walked is the directory a reader of the path gets to: "ups" steps above *)
(* the starting point and then down.  Above the root there is only the     *)
(* root.                                                                   *)
(***************************************************************************)
EXTENDS Naturals, Sequences

CONSTANTS
  Names,            \* component names other than "." and ".."
  Length,           \* the length of each name
  FS_MAX_PATH,      \* size of the array of components
  MAX_TOKENS,       \* bound: components in a path
  OutSizes          \* sizes of the caller's buffer

ASSUME NormalizeAssumption ==
  /\ "." \notin Names /\ ".." \notin Names
  /\ Length \in [Names \cup {".."} -> Nat]
  /\ FS_MAX_PATH \in Nat \ {0} /\ MAX_TOKENS \in Nat
  /\ OutSizes \subseteq Nat

Tokens == Names \cup {".", ".."}

VARIABLES
  is_absolute, out_size,
  taken,            \* components read so far
  components,       \* components[1..component_count]
  out, out_pos,     \* what was copied, and how many bytes it takes
  pc, rc,
  walked

vars == <<is_absolute, out_size, taken, components, out, out_pos, pc, rc, walked>>

Init ==
  /\ is_absolute \in BOOLEAN
  /\ out_size \in OutSizes
  /\ taken = 0
  /\ components = << >>
  /\ out = << >>
  /\ out_pos = 0
  /\ pc = "start"
  /\ rc = 0
  /\ walked = [ups |-> 0, down |-> << >>]

\* The arguments, and kstrdup.
Start(copied) ==
  /\ pc = "start"
  /\ IF out_size < 2 \/ ~copied
     THEN pc' = "return" /\ rc' = 1
     ELSE pc' = "split" /\ UNCHANGED rc
  /\ UNCHANGED <<is_absolute, out_size, taken, components, out, out_pos, walked>>

Pop(s) == SubSeq(s, 1, Len(s) - 1)

\* Where one more component leads from directory d.
Walk(d, token) ==
  CASE token = "."  -> d
    [] token = ".." -> IF d.down # << >> THEN [d EXCEPT !.down = Pop(d.down)]
                       ELSE IF is_absolute THEN d
                       ELSE [d EXCEPT !.ups = d.ups + 1]
    [] OTHER        -> [d EXCEPT !.down = Append(d.down, token)]

\* Mutant: ".." at the root is kept.
UpAtRoot ==
  components' = IF components # << >> THEN Pop(components)
                ELSE Append(components, "..")

Up ==
  components' = IF components # << >> THEN Pop(components)
                ELSE IF is_absolute THEN components
                ELSE Append(components, "..")

Split(token) ==
  /\ pc = "split" /\ taken < MAX_TOKENS
  /\ taken' = taken + 1
  /\ walked' = Walk(walked, token)
  /\ CASE token = "."  -> UNCHANGED <<components, pc, rc>>
       [] token = ".." -> Up /\ UNCHANGED <<pc, rc>>
       [] OTHER ->
            IF Len(components) >= FS_MAX_PATH
            THEN pc' = "return" /\ rc' = 1 /\ UNCHANGED components
            ELSE components' = Append(components, token) /\ UNCHANGED <<pc, rc>>
  /\ UNCHANGED <<is_absolute, out_size, out, out_pos>>

\* strtok returns NULL; an absolute path starts with the root.
SplitDone ==
  /\ pc = "split"
  /\ pc' = "copy"
  /\ out_pos' = IF is_absolute THEN 1 ELSE 0
  /\ UNCHANGED <<is_absolute, out_size, taken, components, out, rc, walked>>

\* Bytes the next component takes with its separator.
Needed ==
  Length[components[Len(out) + 1]] + IF Len(out) > 0 THEN 1 ELSE 0

\* Mutant: no room is kept for the terminator.
TooSmallLate == out_pos + Needed > out_size

TooSmall == out_pos + Needed >= out_size

Copy ==
  /\ pc = "copy" /\ Len(out) < Len(components)
  /\ IF TooSmall
     THEN pc' = "return" /\ rc' = 1 /\ UNCHANGED <<out, out_pos>>
     ELSE /\ out' = Append(out, components[Len(out) + 1])
          /\ out_pos' = out_pos + Needed
          /\ UNCHANGED <<pc, rc>>
  /\ UNCHANGED <<is_absolute, out_size, taken, components, walked>>

\* The terminator is written at out_pos.
CopyDone ==
  /\ pc = "copy" /\ Len(out) = Len(components)
  /\ pc' = "return"
  /\ UNCHANGED <<is_absolute, out_size, taken, components, out, out_pos, rc, walked>>

Next ==
  \/ \E copied \in BOOLEAN : Start(copied)
  \/ \E token \in Tokens : Split(token)
  \/ SplitDone
  \/ Copy
  \/ CopyDone

Spec == Init /\ [][Next]_vars

-----------------------------------------------------------------------------
(* Properties.                                                             *)

TypeOK ==
  /\ is_absolute \in BOOLEAN
  /\ out_size \in OutSizes
  /\ taken \in 0..MAX_TOKENS
  /\ components \in Seq(Names \cup {".."})
  /\ out \in Seq(Names \cup {".."})
  /\ out_pos \in Nat
  /\ pc \in {"start", "split", "copy", "return"}
  /\ rc \in {0, 1}
  /\ walked \in [ups : Nat, down : Seq(Names)]

\* Neither array is overrun.  Only normal components are tested against the
\* size of the array of components, but ".." is stored only when it is empty;
\* and from the first byte copied on the terminator still fits the caller's
\* buffer.
BufferRespected ==
  /\ Len(components) <= FS_MAX_PATH
  /\ pc # "start" /\ (pc = "return" => rc = 0) => out_pos < out_size

\* A normalized absolute path names the directory the original leads to, with
\* no "." or ".." left, and climbing above the root stays at the root.
AbsoluteCorrect ==
  pc = "return" /\ rc = 0 /\ is_absolute => out = walked.down

\* "For relative paths, keep the .. at the beginning": a normalized relative
\* path climbs as far as the original.
RelativeKeepsParents ==
  pc = "return" /\ rc = 0 /\ ~is_absolute =>
    out = [k \in 1..walked.ups |-> ".."] \o walked.down

=============================================================================
