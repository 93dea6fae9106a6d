---------------------------- MODULE MC_Coreboot ----------------------------
(***************************************************************************)
(* The three programs of the coreboot port: the payload that is entered at *)
(* BloodhornPayloadEntry, the one that is entered at CorebootMain, and the *)
(* tool that makes a payload file; and the library CorebootMain uses, as   *)
(* its table and its moves.  The firmware enters one of them; the          *)
(* variables of the others stay at an initial state.                       *)
(*                                                                         *)
(* Tables with and without a memory map, a framebuffer and foreign tags.   *)
(* Addresses and sizes of regions are in pages.                            *)
(***************************************************************************)
EXTENDS CorebootPayload, CorebootMain, PayloadImage, LibB

ASSUME PortAssumption == BinarySizes \cup CmdlineSizes \subseteq Nat

VARIABLE program    \* the one that runs

Region(addr, size, ram) == [addr |-> addr, size |-> size, ram |-> ram]

Entry(tag, size, regions, usable) ==
  [tag |-> tag, size |-> size, regions |-> regions, usable |-> usable]

Memory(regions) == Entry(CB_TAG_MEMORY, 8 + 24 * Len(regions), regions, FALSE)

Framebuffer(usable) == Entry(CB_TAG_FRAMEBUFFER, 40, << >>, usable)

Version == Entry(4, 24, << >>, FALSE)

\* Low memory, a reserved hole that is the largest region, two banks.
TwoBanks ==
  <<Region(0, 160, TRUE), Region(160, 900, FALSE), Region(256, 512, TRUE),
    Region(4096, 512, TRUE)>>

\* One bank from address 0.
OneBank == <<Region(0, 1024, TRUE)>>

MCTables ==
  {<<Version, Memory(TwoBanks), Framebuffer(TRUE)>>,
   <<Memory(TwoBanks), Framebuffer(FALSE)>>,
   <<Memory(OneBank)>>,
   <<Memory(<< >>), Version>>,
   << >>}

\* Memory without a table: nothing, an unknown tag of size 0, and bytes that
\* look like a memory map, of more than 64 bits in all.
MCGarbage ==
  {<< >>, <<Entry(77, 0, << >>, FALSE)>>,
   <<Entry(CB_TAG_MEMORY, 30, <<Region(5, 7, TRUE)>>, FALSE)>>,
   <<Entry(CB_TAG_MEMORY, 60, <<Region(5, 8000, TRUE), Region(9, 500, TRUE)>>, FALSE)>>}

\* Empty, small, and past 32 bits: with a size that is cut to 0 and to 300.
MCKernelSizes == {0, 300, 1024, 1324}

MCKernelBuffers == {260, 4100}

MCBinarySizes == {0, 1, 512, 513, 300000, 33553920, 33553921}

MCCmdlineSizes == {1, 18}

-----------------------------------------------------------------------------

PortInit ==
  /\ Init /\ MainInit /\ ImageInit /\ LibInit
  /\ program \in {"payload", "main", "image", "library", "moves"}
  /\ program # "payload" => \A s \in 1..SLOTS : slots[s] = "valid"
  /\ program # "main" => gST /\ configured = "none"
  /\ program # "moves" => bytes[0] = 0
  /\ program # "image" => input_size = 0 /\ cmdline_size = 1

PortNext ==
  /\ \/ program = "payload" /\ Next /\ UNCHANGED <<mainVars, imageVars, libVars>>
     \/ program = "main" /\ MainNext /\ UNCHANGED <<vars, imageVars, libVars>>
     \/ program = "image" /\ ImageNext /\ UNCHANGED <<vars, mainVars, libVars>>
     \/ program = "library" /\ TableNext /\ UNCHANGED <<vars, mainVars, imageVars>>
     \/ program = "moves" /\ MoveNext /\ UNCHANGED <<vars, mainVars, imageVars>>
  /\ UNCHANGED program

PortSpec ==
  /\ PortInit
  /\ [][PortNext]_<<program, vars, mainVars, imageVars, libVars>>
  /\ program = "payload" => WF_vars(PayloadStep)

\* Whatever the firmware answers, and also when a table entry of size 0 keeps
\* the walk in place, the payload ends in a running kernel or in a reboot.
PayloadRunEnds == program = "payload" => PayloadEnds

\* Every way out of the three functions that read a file closes the file and
\* frees its information, and keeps the buffer only for a caller that uses it;
\* only the payload and the tool leave the root directory open.
PortReleases == LoadReleases /\ PromptReleased /\ CreateReleases

=============================================================================
