----------------------------- MODULE BloodChain -----------------------------
(***************************************************************************)
(* The builder of the BloodChain boot information (bloodchain.c): a header *)
(* followed by an array of module structures, followed by the modules'     *)
(* names and command lines, in one region of memory that is not cleared.   *)
(*                                                                         *)
(* The region behind the header is modelled byte by byte, because the      *)
(* array grows into the bytes behind it, where strings may be: a string is *)
(* what is found from its pointer to the next zero byte, and a field is    *)
(* read from its bytes.  Addresses and sizes are small enough for their    *)
(* high bytes to be zero.                                                  *)
(***************************************************************************)
EXTENDS Integers, Sequences, FiniteSetsExt

CONSTANTS
  HEADER,           \* the address of the module array, hdr + 1
  HEADER_SIZE,      \* 144: sizeof(struct bcbp_header)
  REGION,           \* bytes behind the header
  Offered,          \* the modules a caller may add
  MODTYPE_DRIVER,   \* 8: the last module type
  MAX_NAME, MAX_CMDLINE, \* 256, 4096: longest strings that validate
  MAX_ADDED         \* bound: modules added

VARIABLES
  bytes,            \* the region
  module_total,     \* hdr->module_count
  tables,           \* the optional addresses set in the header
  given             \* the modules the caller has added

chainVars == <<bytes, module_total, tables, given>>

WORD == 8           \* sizeof(uint64_t)

STRUCT == 40        \* sizeof(struct bcbp_module)

START == 0
SIZE == 8
CMDLINE == 16
NAME == 24
TYPE == 32

-----------------------------------------------------------------------------
(* Memory.                                                                 *)

(* Byte j of a number.                                                     *)
ByteOf(v, j) == IF j > 2 THEN 0 ELSE (v \div 256^j) % 256

Field(m, i, offset) ==
  LET at == STRUCT * i + offset
  IN  m[at] + 256 * m[at + 1] + 65536 * m[at + 2]

(* The place of the string behind a pointer, and of its terminating zero.  *)
Place(pointer) == pointer - HEADER

StringEnd(m, pointer) ==
  CHOOSE e \in Place(pointer)..(REGION - 1) :
    m[e] = 0 /\ \A k \in Place(pointer)..(e - 1) : m[k] # 0

strlen(m, pointer) == StringEnd(m, pointer) - Place(pointer)

StringAt(m, pointer) == [k \in 1..strlen(m, pointer) |-> m[Place(pointer) + k - 1]]

(* The writes of a field and of a string with its terminating zero.        *)
Store(m, at, v) ==
  [k \in DOMAIN m |-> IF k \in at..(at + WORD - 1) THEN ByteOf(v, k - at) ELSE m[k]]

StoreString(m, at, s) ==
  [k \in DOMAIN m |->
     IF k \in at..(at + Len(s) - 1) THEN s[k - at + 1]
     ELSE IF k = at + Len(s) THEN 0
     ELSE m[k]]

Indices == 0..(module_total - 1)

(* The strings of the modules in the array, as their pointers.             *)
Pointers == {Field(bytes, i, f) : i \in Indices, f \in {NAME, CMDLINE}} \ {0}

-----------------------------------------------------------------------------
(* bcbp_init clears the header and leaves the region behind it alone.      *)
ChainInit ==
  /\ \E garbage \in {0, 255} : bytes = [k \in 0..(REGION - 1) |-> garbage]
  /\ module_total = 0
  /\ tables = {}
  /\ given = << >>

(* Mutant: the strings start behind the array without the new structure.   *)
StringStartOfArray ==
  Max({HEADER + STRUCT * module_total} \cup {p + strlen(bytes, p) + 1 : p \in Pointers})

(* Where the strings of a new module go: behind the array with the new     *)
(* structure, and behind every string there is.                            *)
StringStart ==
  Max({HEADER + STRUCT * (module_total + 1)} \cup
        {p + strlen(bytes, p) + 1 : p \in Pointers})

(* The structure is written at the end of the array, then the strings.     *)
WithModule(m) ==
  LET at      == STRUCT * module_total
      name    == StringStart
      cmdline == IF m.cmdline = << >> THEN 0 ELSE name + Len(m.name) + 1
      fields  == [Store(Store(bytes, at + START, m.start), at + SIZE, m.size)
                    EXCEPT ![at + TYPE] = m.type]
      named   == StoreString(Store(fields, at + NAME, name), Place(name), m.name)
      pointed == Store(named, at + CMDLINE, cmdline)
  IN  IF cmdline = 0 THEN pointed ELSE StoreString(pointed, Place(cmdline), m.cmdline)

bcbp_add_module(m) ==
  /\ Len(given) < MAX_ADDED
  /\ m.size # 0
  /\ bytes' = WithModule(m)
  /\ module_total' = module_total + 1
  /\ given' = Append(given, m)
  /\ UNCHANGED tables

(* bcbp_set_acpi_rsdp, bcbp_set_smbios and bcbp_set_framebuffer.           *)
bcbp_set(table) ==
  /\ tables' = tables \cup {table}
  /\ UNCHANGED <<bytes, module_total, given>>

ChainNext ==
  \/ \E m \in Offered : bcbp_add_module(m)
  \/ \E table \in {"acpi_rsdp", "smbios", "framebuffer"} : bcbp_set(table)

-----------------------------------------------------------------------------
(* What the kernel reads.                                                  *)

Start(i) == Field(bytes, i, START)

Size(i) == Field(bytes, i, SIZE)

NameOf(i) == StringAt(bytes, Field(bytes, i, NAME))

CmdlineOf(i) ==
  IF Field(bytes, i, CMDLINE) = 0 THEN << >> ELSE StringAt(bytes, Field(bytes, i, CMDLINE))

(* The first module of that name, or the number of modules.                *)
bcbp_find_module(name) ==
  CHOOSE i \in 0..module_total :
    /\ i \in Indices => NameOf(i) = name
    /\ \A j \in 0..(i - 1) : NameOf(j) # name

(* calculate_required_memory: the header, the array and the strings, as    *)
(* they are found now.                                                     *)
StringBytes(i) ==
  Len(NameOf(i)) + 1 +
    (IF Field(bytes, i, CMDLINE) = 0 THEN 0 ELSE Len(CmdlineOf(i)) + 1)

required == HEADER_SIZE + STRUCT * module_total + MapThenSumSet(StringBytes, Indices)

Inside(pointer) == pointer < HEADER - HEADER_SIZE + required

bcbp_validate ==
  \A i \in Indices :
    /\ bytes[STRUCT * i + TYPE] \in 1..MODTYPE_DRIVER
    /\ Inside(Field(bytes, i, NAME)) /\ Len(NameOf(i)) < MAX_NAME
    /\ Field(bytes, i, CMDLINE) # 0 =>
         Inside(Field(bytes, i, CMDLINE)) /\ Len(CmdlineOf(i)) < MAX_CMDLINE

-----------------------------------------------------------------------------
(* bcbp_add_module never damages a module structure: the kernel finds the  *)
(* start, the size and the type of every module it was given, in order,    *)
(* and the strings of the one added last, wherever earlier strings ended.  *)
ModulesIntact ==
  /\ module_total = Len(given)
  /\ \A i \in Indices :
       /\ Start(i) = given[i + 1].start /\ Size(i) = given[i + 1].size
       /\ bytes[STRUCT * i + TYPE] = given[i + 1].type
  /\ module_total # 0 =>
       /\ NameOf(module_total - 1) = given[module_total].name
       /\ CmdlineOf(module_total - 1) = given[module_total].cmdline

(* bloodchain.h:69 says of the name of a module that it "will be copied":  *)
(* a module is found by its name.                                          *)
NamesFound ==
  \A i \in Indices : NameOf(i) = given[i + 1].name

(* bloodchain.h:71 calls cmdline the "Command line string for the module": *)
(* it is the one that was given.                                           *)
CmdlinesKept ==
  \A i \in Indices : CmdlineOf(i) = given[i + 1].cmdline

(* bloodchain.h:89 says that bcbp_validate returns "0 if valid": what the  *)
(* builder has made is valid.                                              *)
BuiltIsValid == bcbp_validate

=============================================================================
