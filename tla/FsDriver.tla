------------------------------ MODULE FsDriver ------------------------------
(***************************************************************************)
(* What the drivers of fs/ have in common: a call of one of them with its  *)
(* disk, and the ways out of it.                                           *)
(***************************************************************************)
EXTENDS Integers, Sequences

VARIABLES
  disk, call,
  at,               \* what runs next
  priv,             \* the private data of the volume
  local,            \* the locals of the operation
  buf,              \* what was written to the caller's buffer
  heap,             \* allocations that are live
  result

driverVars == <<disk, call, at, priv, local, buf, heap, result>>

none == [mounted |-> FALSE]

Return(v) == at' = "return" /\ result' = v

\* An allocation or a disk read failed, which local.failed remembers.
Fail == Return(-1) /\ local' = [local EXCEPT !.failed = TRUE]

-----------------------------------------------------------------------------
(* Sequences of entries and of bytes.                                      *)

\* The first of some places in a sequence, 0 when there is none.
FirstOf(places) ==
  IF places = {} THEN 0 ELSE CHOOSE k \in places : \A j \in places : k <= j

Begins(s, t) == Len(s) <= Len(t) /\ s = SubSeq(t, 1, Len(s))

\* The parts one after the other.
Joined(parts) ==
  LET upto[k \in 0..Len(parts)] ==
        IF k = 0 THEN << >> ELSE upto[k - 1] \o parts[k]
  IN  upto[Len(parts)]

=============================================================================
