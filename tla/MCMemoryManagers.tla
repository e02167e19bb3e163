-------------------------- MODULE MCMemoryManagers --------------------------
(* Heaps of a few dozen words, small enough for TLC and large enough for   *)
(* the sixteenth that triggers growth to be a word or two.  The static     *)
(* heap holds two of the three ordinary requests.  Words have 512 values:  *)
(* twice 232 and one and a half heaps of 64 wrap around to less than a     *)
(* heap, twice 248 to more than one, and both are above the lower address  *)
(* and below the higher one.                                               *)
EXTENDS MemoryManagers

MCInitialHeapSizes == {64}
MCRequests == {8, 28, 40, 232, 248}
MCStaticHeapSizes == {32}
MCAddresses == {16, 256}
=============================================================================
