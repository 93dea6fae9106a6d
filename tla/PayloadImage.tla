---------------------------- MODULE PayloadImage ----------------------------
(***************************************************************************)
(* The payload file (coreboot/coreboot_payload.c): CreateBloodhornPayload  *)
(* puts a header and a command line before a binary, ValidatePayloadHeader *)
(* checks such a header.                                                   *)
(***************************************************************************)
EXTENDS Naturals

CONSTANTS
  BinarySizes,      \* sizes the input file may have
  CmdlineSizes      \* lengths of the command line, its terminator included

HEADER_SIZE == 56   \* sizeof(COREBOOT_PAYLOAD_HEADER)

PAYLOAD_HEADER_VERSION == 2

SIGNATURE_SUM == 557          \* the bytes of "$COREBOO" added up

UINT16 == 65536

VARIABLES
  input_size, cmdline_size,
  image_pc,
  image_held,             \* handles and buffers held
  header,           \* COREBOOT_PAYLOAD_HEADER
  written,          \* was the output file written
  valid             \* the answer of ValidatePayloadHeader, once asked

imageVars == <<input_size, cmdline_size, image_pc, image_held, header, written, valid>>

NoHeader ==
  [header_version |-> 0, payload_size |-> 0, cmd_line_size |-> 0, checksum |-> 0,
   entry_point |-> 0, payload_uncompressed_size |-> 0]

ImageInit ==
  /\ input_size \in BinarySizes
  /\ cmdline_size \in CmdlineSizes
  /\ image_pc = "root"
  /\ image_held = {}
  /\ header = NoHeader
  /\ written = FALSE
  /\ valid = "unknown"

\* A step of CreateBloodhornPayload that the firmware may refuse: what is held
\* afterwards, and where it goes on.
Step(from, to, ok, gained, released) ==
  /\ image_pc = from
  /\ IF ok
     THEN image_pc' = to /\ image_held' = image_held \cup gained
     ELSE image_pc' = "return" /\ image_held' = image_held \ released
  /\ UNCHANGED <<input_size, cmdline_size, header, written, valid>>

GetImageRoot(ok) == Step("root", "open", ok, {"root"}, {})

\* The root directory is left open, here and below.
OpenInput(ok) == Step("open", "info", ok, {"input"}, {})

GetInputInfo(ok) == Step("info", "allocate", ok, {"info"}, {"input"})

AllocateInput(ok) ==
  Step("allocate", "read", ok, {"input_buffer"}, {"input", "info"})

ReadInput(ok) ==
  /\ image_pc = "read"
  /\ IF ok
     THEN image_pc' = "output_buffer" /\ image_held' = image_held \ {"input", "info"}
     ELSE image_pc' = "return" /\ image_held' = image_held \ {"input", "info", "input_buffer"}
  /\ UNCHANGED <<input_size, cmdline_size, header, written, valid>>

AllocateOutput(ok) ==
  Step("output_buffer", "header", ok, {"output_buffer"}, {"input_buffer"})

\* The bytes of a 32-bit number added up.
ByteSum(n) == (n % 256) + ((n \div 256) % 256) + ((n \div 65536) % 256) + (n \div 16777216)

\* The sum over the header without its last four bytes, which are reserved.
\* The payload's version is 1 and its load address 0x100000.
HeaderSum(h) ==
  SIGNATURE_SUM + 1 + 16 + ByteSum(h.header_version) + ByteSum(h.payload_size)
    + ByteSum(h.cmd_line_size) + ByteSum(h.checksum) + ByteSum(h.entry_point)
    + ByteSum(h.payload_uncompressed_size)

\* Mutant: a last, partly filled block is not counted.
BuildHeaderShort ==
  /\ image_pc = "header"
  /\ header' = [NoHeader EXCEPT !.payload_size = input_size \div 512,
                                !.entry_point = HEADER_SIZE,
                                !.payload_uncompressed_size = input_size]
  /\ image_pc' = "create"
  /\ UNCHANGED <<input_size, cmdline_size, image_held, written, valid>>

\* The checksum is taken while its own field is still 0.
BuildHeader ==
  /\ image_pc = "header"
  /\ LET h == [header_version |-> PAYLOAD_HEADER_VERSION,
               payload_size |-> ((input_size + 511) \div 512) % UINT16,
               cmd_line_size |-> cmdline_size, checksum |-> 0,
               entry_point |-> HEADER_SIZE + cmdline_size,
               payload_uncompressed_size |-> input_size]
     IN  header' = [h EXCEPT !.checksum = HeaderSum(h)]
  /\ image_pc' = "create"
  /\ UNCHANGED <<input_size, cmdline_size, image_held, written, valid>>

CreateOutput(ok) ==
  Step("create", "write", ok, {"output"}, {"input_buffer", "output_buffer"})

WriteOutput(ok) ==
  /\ image_pc = "write"
  /\ written' = ok
  /\ image_held' = image_held \ {"output", "input_buffer", "output_buffer"}
  /\ image_pc' = "return"
  /\ UNCHANGED <<input_size, cmdline_size, header, valid>>

ValidatePayloadHeader(h) ==
  /\ h.header_version = PAYLOAD_HEADER_VERSION
  /\ HeaderSum(h) = h.checksum

\* Whoever loads the file checks its header.
LoadPayload ==
  /\ image_pc = "return" /\ written
  /\ valid' = IF ValidatePayloadHeader(header) THEN "yes" ELSE "no"
  /\ image_pc' = "loaded"
  /\ UNCHANGED <<input_size, cmdline_size, image_held, header, written>>

ImageNext ==
  \/ \E ok \in BOOLEAN :
       \/ GetImageRoot(ok) \/ OpenInput(ok) \/ GetInputInfo(ok) \/ AllocateInput(ok)
       \/ ReadInput(ok) \/ AllocateOutput(ok) \/ CreateOutput(ok) \/ WriteOutput(ok)
  \/ BuildHeader
  \/ LoadPayload

ImageSpec == ImageInit /\ [][ImageNext]_imageVars

-----------------------------------------------------------------------------
(* Properties.                                                             *)

\* Every way out of CreateBloodhornPayload has freed both buffers and the file
\* information and closed both files; the root directory stays open once it
\* was opened.
CreateReleases ==
  image_pc \in {"return", "loaded"} => image_held \subseteq {"root"}

\* The header describes what was written: the binary starts at the entry
\* point, and the blocks cover it as long as their number fits 16 bits.
HeaderDescribesFile ==
  written =>
    /\ header.entry_point = HEADER_SIZE + header.cmd_line_size
    /\ input_size <= (UINT16 - 1) * 512 =>
         /\ header.payload_size * 512 >= header.payload_uncompressed_size
         /\ header.payload_size * 512 < header.payload_uncompressed_size + 512

\* CreateBloodhornPayload promises to "Create payload binary with proper
\* header": one that ValidatePayloadHeader accepts.
CreatedPayloadValidates == valid # "no"

=============================================================================
