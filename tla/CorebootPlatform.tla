-------------------------- MODULE CorebootPlatform --------------------------
(***************************************************************************)
(* The coreboot table (coreboot/coreboot_platform.c): the search for it in *)
(* low memory, and the walk over its entries that fills the globals the    *)
(* payload reads.                                                          *)
(*                                                                         *)
(* Low memory is looked at in slots of 16 bytes.  A slot holds no table,   *)
(* one with a wrong header or table checksum, or a valid one.  What lies   *)
(* behind the slot where the search ends is a sequence of entries; without *)
(* a valid table it is whatever memory holds.                              *)
(***************************************************************************)
EXTENDS Integers, Sequences

CONSTANTS
  SLOTS,            \* slots between 0x500 and 0x1000
  TABLE_LIMIT,      \* entries looked at, 128 in the code
  Tables,           \* the entries of tables a firmware may have built
  Garbage,          \* what memory may hold where there is no table
  UINT64            \* numbers of 64 bits, in the unit of the regions' sizes

ENTRY_HEADER == 8

MEM_ENTRY == 24     \* sizeof(COREBOOT_MEM_ENTRY)

CB_TAG_MEMORY == 1

CB_TAG_FRAMEBUFFER == 18

\* What a tag may hold: regions are the map entries found behind its header,
\* at least as many as its size has room for.  The size of a memory tag that a
\* firmware built is that of its header and its entries.
TableEntries == [tag : Nat, size : Nat, regions : Seq([addr : Nat, size : Nat, ram : BOOLEAN]),
                 usable : BOOLEAN]

\* The RAM among the first k regions of a map.
MemoryUpTo(map) ==
  LET total[k \in 0..Len(map)] ==
        IF k = 0 THEN 0 ELSE total[k - 1] + (IF map[k].ram THEN map[k].size ELSE 0)
  IN  total

\* The RAM of a machine fits the addresses it has; what looks like a map need not.
ASSUME PlatformAssumption ==
  /\ SLOTS \in Nat \ {0} /\ TABLE_LIMIT \in Nat /\ UINT64 \in Nat \ {0}
  /\ Tables \cup Garbage \subseteq Seq(TableEntries)
  /\ \A t \in Tables \cup Garbage : \A k \in DOMAIN t :
       t[k].tag = CB_TAG_MEMORY => t[k].size \div MEM_ENTRY <= Len(t[k].regions)
  /\ \A t \in Tables : \A k \in DOMAIN t :
       t[k].tag = CB_TAG_MEMORY =>
         /\ t[k].size = ENTRY_HEADER + MEM_ENTRY * Len(t[k].regions)
         /\ MemoryUpTo(t[k].regions)[Len(t[k].regions)] < UINT64

VARIABLES
  slots,                  \* what each slot holds
  entries,                \* the entries behind cb_header
  cb_header,              \* the slot looked at, 0 for NULL
  cb_framebuffer,         \* the entry it points into, 0 for NULL
  cb_memory_map, cb_memory_map_entries,
  pc,
  i, at                   \* the loop counter and the entry the walk is at

platformVars ==
  <<slots, entries, cb_header, cb_framebuffer, cb_memory_map,
    cb_memory_map_entries, i, at>>

PlatformInit ==
  /\ slots \in [1..SLOTS -> {"none", "bad_header", "bad_table", "valid"}]
  /\ entries = << >>
  /\ cb_header = 0
  /\ cb_framebuffer = 0
  /\ cb_memory_map = 0
  /\ cb_memory_map_entries = 0
  /\ pc = "scan"
  /\ i = 0
  /\ at = 1

Accepted(slot) == slot = "valid"

\* One round of the search in CorebootPlatformInit.  cb_header follows the
\* search, so it is the last slot when nothing is found, never NULL.
Scan ==
  /\ pc = "scan"
  /\ cb_header' = cb_header + 1
  /\ IF Accepted(slots[cb_header'])
     THEN pc' = "parse" /\ entries' \in Tables
     ELSE IF cb_header' = SLOTS
          THEN pc' = "parse" /\ entries' \in Garbage
          ELSE UNCHANGED <<pc, entries>>
  /\ UNCHANGED <<slots, cb_framebuffer, cb_memory_map, cb_memory_map_entries, i, at>>

\* Mutant: rounds up.
MapEntriesUp(size) == (size + MEM_ENTRY - 1) \div MEM_ENTRY

\* The size of an entry counts its header, which is shorter than a map entry.
MapEntries(size) == size \div MEM_ENTRY

\* Mutant: no limit on the number of entries.
ParseEntryUnlimited ==
  /\ pc = "parse"
  /\ at <= Len(entries)
  /\ at' = IF entries[at].size = 0 THEN at ELSE at + 1
  /\ UNCHANGED <<slots, entries, cb_header, cb_framebuffer, cb_memory_map,
                 cb_memory_map_entries, i, pc>>

\* The walk in CorebootParseTable.  An entry of size 0 is read again.
ParseEntry ==
  /\ pc = "parse"
  /\ i < TABLE_LIMIT /\ at <= Len(entries)
  /\ i' = i + 1
  /\ LET e == entries[at]
     IN  /\ at' = IF e.size = 0 THEN at ELSE at + 1
         /\ IF e.tag = CB_TAG_MEMORY
            THEN /\ cb_memory_map' = at
                 /\ cb_memory_map_entries' = MapEntries(e.size)
            ELSE UNCHANGED <<cb_memory_map, cb_memory_map_entries>>
         /\ cb_framebuffer' = IF e.tag = CB_TAG_FRAMEBUFFER THEN at ELSE cb_framebuffer
  /\ UNCHANGED <<slots, entries, cb_header, pc>>

\* The walk ends at tag 0, which ends the sequence, or at the limit; the
\* result is always TRUE.
ParseDone ==
  /\ pc = "parse"
  /\ i = TABLE_LIMIT \/ at > Len(entries)
  /\ pc' = "initialized"
  /\ UNCHANGED platformVars

PlatformNext == Scan \/ ParseEntry \/ ParseDone

-----------------------------------------------------------------------------
(* What the payload asks for.                                              *)

\* CorebootGetMemoryMap: the regions the pointer and the count denote.
CorebootGetMemoryMap ==
  IF cb_memory_map = 0 THEN << >>
  ELSE SubSeq(entries[cb_memory_map].regions, 1, cb_memory_map_entries)

CorebootGetTotalMemory ==
  MemoryUpTo(CorebootGetMemoryMap)[Len(CorebootGetMemoryMap)] % UINT64

NoRegion == [addr |-> 0, size |-> 0, ram |-> FALSE]

\* The regions of RAM that no other exceeds.
Largest ==
  {k \in DOMAIN CorebootGetMemoryMap :
     LET r == CorebootGetMemoryMap[k]
     IN  /\ r.ram /\ r.size > 0
         /\ \A j \in DOMAIN CorebootGetMemoryMap :
              CorebootGetMemoryMap[j].ram => CorebootGetMemoryMap[j].size <= r.size}

First(S) == CHOOSE k \in S : \A j \in S : k <= j

\* CorebootFindLargestMemoryRegion: the first of the largest.
CorebootFindLargestMemoryRegion ==
  IF Largest = {} THEN NoRegion
  ELSE CorebootGetMemoryMap[First(Largest)]

-----------------------------------------------------------------------------
(* Properties.                                                             *)

Initialized == pc \notin {"scan", "parse"}

HasTable == \E s \in 1..SLOTS : slots[s] = "valid"

\* The memory map handed out never reaches past the table entry it came from,
\* and leaves out none of its regions, when the table was built by a firmware.
MapInsideEntry ==
  Initialized /\ HasTable /\ cb_memory_map > 0 =>
    /\ cb_memory_map_entries = Len(entries[cb_memory_map].regions)
    /\ ENTRY_HEADER + MEM_ENTRY * cb_memory_map_entries <= entries[cb_memory_map].size

\* CorebootPlatformInit says "return FALSE; // Coreboot table not found": it
\* must not go on to the payload without a table.
AbsentTableReported == Initialized => HasTable

=============================================================================
