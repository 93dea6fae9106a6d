---- MODULE MC_BootFlow ----
EXTENDS BootFlow

MCKernelFiles == [size : {0, 1}, genuine : BOOLEAN]
MCBufferAddrs == {3}
MCCorebootMaps == {<<[ram |-> TRUE, addr |-> 4, size |-> 2]>>}
MCUefiMaps == {<<[conventional |-> TRUE, start |-> 7, pages |-> 4]>>}
MCFramebuffers == {[addr |-> 6, width |-> 2, height |-> 2, absent |-> FALSE]}
MCTimeouts == {0, 1, 3}
====
