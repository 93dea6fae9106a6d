-------------------------------- MODULE LibB --------------------------------
(***************************************************************************)
(* The BloodHorn library (boot/libb/bloodhorn.c): its counted              *)
(* initialization, the table of services its users lend it, and its moves  *)
(* of memory and of strings, byte by byte.                                 *)
(*                                                                         *)
(* A user's table is an object of the user; BloodhornMainCoreboot declares *)
(* it in an inner block, so its life may end while the library is in use.  *)
(* The second definition of bh_shutdown in the file, the counted one, is   *)
(* the one modelled.                                                       *)
(***************************************************************************)
EXTENDS Integers

CONSTANTS
  Users,            \* the programs that initialize the library
  CELLS,            \* bytes of memory
  MAX_INITS         \* bound: initializations

ASSUME LibAssumption ==
  /\ CELLS \in Nat
  /\ "none" \notin Users

VARIABLES
  bh_system_table,  \* "none", "default" or the user whose table it is
  bh_initialized, bh_init_count,
  holders,          \* users between their bh_initialize and their bh_shutdown
  alive,            \* users whose table still exists
  inits,            \* initializations so far
  served,           \* the table the last call through the library used
  move,             \* the running move: [kind, dest, src, size, i], "none" if none
  moved,            \* the last move that returned, with its status
  bytes, before     \* memory now, and when the move began

tableVars == <<bh_system_table, bh_initialized, bh_init_count, holders, alive, inits, served>>

moveVars == <<move, moved, bytes, before>>

libVars == <<tableVars, moveVars>>

NoMove == [kind |-> "none", dest |-> 0, src |-> 0, size |-> 0, i |-> 0]

Returned(m, rc) == [kind |-> m.kind, dest |-> m.dest, src |-> m.src, size |-> m.size, rc |-> rc]

(* Every byte is told apart, but for a zero that may end a string.         *)
LibInit ==
  /\ bh_system_table = "none" /\ bh_initialized = FALSE /\ bh_init_count = 0
  /\ holders = {} /\ alive = Users /\ inits = 0 /\ served = "none"
  /\ move = NoMove /\ moved = Returned(NoMove, 0)
  /\ \E zero \in 0..CELLS : bytes = [k \in 0..(CELLS - 1) |-> IF k = zero THEN 0 ELSE k + 1]
  /\ before = bytes

-----------------------------------------------------------------------------
(* The table and the counter.                                              *)

(* A table is taken only if none was set before; no table at all selects   *)
(* the default one, whatever was set.                                      *)
bh_init_system_table(user, lends) ==
  bh_system_table' =
    IF ~lends THEN "default"
    ELSE IF bh_system_table = "none" THEN user ELSE bh_system_table

bh_initialize(user, lends) ==
  /\ inits < MAX_INITS /\ user \notin holders
  /\ lends => user \in alive
  /\ IF bh_initialized
     THEN bh_init_count' = bh_init_count + 1 /\ UNCHANGED <<bh_system_table, bh_initialized>>
     ELSE /\ bh_init_system_table(user, lends)
          /\ bh_initialized' = TRUE /\ bh_init_count' = 1
  /\ holders' = holders \cup {user} /\ inits' = inits + 1
  /\ UNCHANGED <<alive, served, moveVars>>

(* Mutant: the first user that is done shuts the library down.             *)
bh_shutdown_at_once(user) ==
  /\ user \in holders
  /\ holders' = holders \ {user}
  /\ bh_initialized' = FALSE /\ bh_init_count' = 0
  /\ UNCHANGED <<bh_system_table, alive, inits, served, moveVars>>

(* The table is kept "as it might be needed by cleanup code".              *)
bh_shutdown(user) ==
  /\ user \in holders
  /\ holders' = holders \ {user}
  /\ IF bh_initialized
     THEN /\ bh_init_count' = bh_init_count - 1
          /\ bh_initialized' = (bh_init_count' > 0)
     ELSE UNCHANGED <<bh_initialized, bh_init_count>>
  /\ UNCHANGED <<bh_system_table, alive, inits, served, moveVars>>

(* The block in which a user declared its table ends.                      *)
ScopeEnds(user) ==
  /\ user \in alive
  /\ alive' = alive \ {user}
  /\ UNCHANGED <<bh_system_table, bh_initialized, bh_init_count, holders, inits, served,
                 moveVars>>

(* bh_malloc, bh_puts, bh_get_memory_map and the others call through the   *)
(* table there is, initialized or not.                                     *)
bh_call ==
  /\ served' = bh_system_table
  /\ UNCHANGED <<bh_system_table, bh_initialized, bh_init_count, holders, alive, inits,
                 moveVars>>

-----------------------------------------------------------------------------
(* Moves.  One move at a time, inside the memory.                          *)

Begin(kind, dest, src, size, i) ==
  /\ move.kind = "none" /\ moved.kind = "none"
  /\ dest + size <= CELLS /\ src + size <= CELLS
  /\ move' = [kind |-> kind, dest |-> dest, src |-> src, size |-> size, i |-> i]
  /\ before' = bytes
  /\ UNCHANGED <<tableVars, bytes, moved>>

End(rc) ==
  /\ move' = NoMove
  /\ moved' = Returned(move, rc)

(* Upwards if the destination lies below the source, else downwards.       *)
bh_memory_copy(dest, src, size) ==
  Begin("copy", dest, src, size, IF dest < src THEN 0 ELSE size)

CopyByte ==
  /\ move.kind = "copy"
  /\ CASE move.dest < move.src /\ move.i < move.size ->
            /\ bytes' = [bytes EXCEPT ![move.dest + move.i] = bytes[move.src + move.i]]
            /\ move' = [move EXCEPT !.i = @ + 1] /\ UNCHANGED moved
       [] move.dest > move.src /\ move.i > 0 ->
            /\ bytes' = [bytes EXCEPT ![move.dest + move.i - 1] = bytes[move.src + move.i - 1]]
            /\ move' = [move EXCEPT !.i = @ - 1] /\ UNCHANGED moved
       [] OTHER -> End(0) /\ UNCHANGED bytes
  /\ UNCHANGED <<tableVars, before>>

(* The value is the number of the source here.                             *)
bh_memory_set(dest, value, size) == Begin("set", dest, value, size, 0)

SetByte ==
  /\ move.kind = "set"
  /\ IF move.i < move.size
     THEN /\ bytes' = [bytes EXCEPT ![move.dest + move.i] = move.src]
          /\ move' = [move EXCEPT !.i = @ + 1] /\ UNCHANGED moved
     ELSE End(0) /\ UNCHANGED bytes
  /\ UNCHANGED <<tableVars, before>>

bh_string_copy(dest, src, dest_size) == Begin("string", dest, src, dest_size, 0)

(* A character, or the terminating zero; BH_BUFFER_TOO_SMALL if the source *)
(* goes on behind the last one, as it is found after the zero was written. *)
CopyCharacter ==
  /\ move.kind = "string"
  /\ IF move.size = 0 THEN End(1) /\ UNCHANGED bytes
     ELSE IF move.i < move.size - 1 /\ bytes[move.src + move.i] # 0
     THEN /\ bytes' = [bytes EXCEPT ![move.dest + move.i] = bytes[move.src + move.i]]
          /\ move' = [move EXCEPT !.i = @ + 1] /\ UNCHANGED moved
     ELSE /\ bytes' = [bytes EXCEPT ![move.dest + move.i] = 0]
          /\ End(IF bytes'[move.src + move.i] = 0 THEN 0 ELSE 1)
  /\ UNCHANGED <<tableVars, before>>

TableNext ==
  \/ \E user \in Users :
       \/ \E lends \in BOOLEAN : bh_initialize(user, lends)
       \/ bh_shutdown(user) \/ ScopeEnds(user)
  \/ bh_call

MoveNext ==
  \/ \E dest, src \in 0..(CELLS - 1), size \in 0..CELLS :
       bh_memory_copy(dest, src, size) \/ bh_memory_set(dest, src, size)
         \/ bh_string_copy(dest, src, size)
  \/ CopyByte \/ SetByte \/ CopyCharacter

LibNext == TableNext \/ MoveNext

LibSpec == LibInit /\ [][LibNext]_libVars

-----------------------------------------------------------------------------
(* Whoever has initialized the library and not shut it down finds it       *)
(* initialized, with a table, whatever the others did in between; and      *)
(* nobody else does.                                                       *)
UsersServed ==
  /\ bh_initialized <=> holders # {}
  /\ bh_initialized => bh_system_table # "none"

Apart(m) == m.dest + m.size <= m.src \/ m.src + m.size <= m.dest

Into(m) == m.dest .. (m.dest + m.size - 1)

(* A move that returned has moved what was there when it began, also       *)
(* between overlapping regions; a string that did not overlap is complete  *)
(* exactly if the move says so, and always ends inside its buffer; and     *)
(* nothing else was touched.                                               *)
MovesExact ==
  moved.kind # "none" =>
    /\ \A k \in DOMAIN bytes : k \notin Into(moved) => bytes[k] = before[k]
    /\ moved.kind = "copy" =>
         \A k \in Into(moved) : bytes[k] = before[k - moved.dest + moved.src]
    /\ moved.kind = "set" => \A k \in Into(moved) : bytes[k] = moved.src
    /\ moved.kind = "string" /\ moved.size > 0 /\ Apart(moved) =>
         /\ \E k \in Into(moved) :
              /\ bytes[k] = 0
              /\ \A j \in moved.dest .. (k - 1) : bytes[j] = before[j - moved.dest + moved.src]
         /\ moved.rc = 0 <=>
              \E k \in Into(moved) : before[k - moved.dest + moved.src] = 0

(* The library serves whoever has initialized it, and its moves of memory  *)
(* and strings are exact.                                                  *)
LibrarySound == UsersServed /\ MovesExact

(* docs/Library-API.md:15 promises "system service integration": while the *)
(* library is initialized a call goes to a table that still exists.        *)
CallsReachLiveTable ==
  bh_initialized => bh_system_table \in alive \cup {"default"}

(* The table passed to bh_initialize is the "System service function       *)
(* table" of the library (docs/Library-API.md:16).                         *)
LentTableUsed ==
  [][\A user \in Users : bh_initialize(user, TRUE) => bh_system_table' = user]_libVars

=============================================================================
