---- MODULE MC_KernelHandoff ----
EXTENDS KernelHandoff

Region(ram, addr, size) == [ram |-> ram, addr |-> addr, size |-> size]
Descriptor(conventional, start, pages) ==
  [conventional |-> conventional, start |-> start, pages |-> pages]

MCKernelFiles == [size : {0, 1, 3}, genuine : BOOLEAN]
MCBufferAddrs == {3, 8}

\* No map, only reserved memory, the largest RAM at address 0, a tie.
MCCorebootMaps ==
  {<< >>, <<Region(FALSE, 4, 9)>>, <<Region(TRUE, 0, 9), Region(TRUE, 4, 2)>>,
   <<Region(TRUE, 2, 4), Region(TRUE, 7, 4)>>}

\* No region, one below the default base, one that is too small before one that fits.
MCUefiMaps ==
  {<<Descriptor(FALSE, 2, 9)>>, <<Descriptor(TRUE, 0, 9)>>,
   <<Descriptor(TRUE, 2, 1), Descriptor(TRUE, 7, 4)>>}

MCFramebuffers ==
  {[addr |-> 6, width |-> 2, height |-> 2, absent |-> FALSE],
   [addr |-> 0, width |-> 2, height |-> 2, absent |-> FALSE]}
====
