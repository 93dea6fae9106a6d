---------------------------- MODULE MountLookup ----------------------------
(***************************************************************************)
(* The lookup both mount tables of fs/ share: the entry with the longest   *)
(* path that is a prefix of the one asked for and ends at a component, the *)
(* first of those in table order.  A path is the sequence of its           *)
(* components; the root "/" is the empty sequence.                         *)
(***************************************************************************)
EXTENDS Naturals, Sequences

NoMount == [path |-> << >>, fs |-> "none", data |-> 0, real |-> FALSE]

\* After the text of the mount path comes a separator or the end.  The text of
\* the root is its separator, so only the root itself passes.
Covers(mp, path) ==
  /\ mp.path \in {SubSeq(path, 1, n) : n \in 0..Len(path)}
  /\ mp.path = << >> => path = << >>

\* Mutant: the last of several equal paths is taken.
BetterOrEqual(mp, best) ==
  best = NoMount \/ Len(mp.path) >= Len(best.path)

Better(mp, best) ==
  best = NoMount \/ Len(mp.path) > Len(best.path)

find_mount_point(table, path) ==
  LET best[k \in 0..Len(table)] ==
        IF k = 0 THEN NoMount
        ELSE IF Covers(table[k], path) /\ Better(table[k], best[k - 1]) THEN table[k]
        ELSE best[k - 1]
  IN  best[Len(table)]

\* The table without the entry that an unmount takes out of the list.
Without(table, k) == SubSeq(table, 1, k - 1) \o SubSeq(table, k + 1, Len(table))

=============================================================================
