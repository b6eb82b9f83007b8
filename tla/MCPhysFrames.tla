---------------------------- MODULE MCPhysFrames ----------------------------
(* Instances of PhysFrames for TLC.  Frames of 2 bytes; the kernel starts  *)
(* at 4 and the boot information ends at 9.                                *)
EXTENDS PhysFrames

Memory(end) == [Start |-> 0, End |-> end]

(* An empty map and memories too small for the kernel (KiStopError), the   *)
(* smallest memory that boots, which callers can use up, one whose heap    *)
(* does not fit, one ending in the middle of a bitmap byte and one ending  *)
(* with the last bit of a byte; the last has two ranges.                   *)
MCMemoryMaps ==
    {{}, {Memory(5)}, {Memory(15)}, {Memory(9), Memory(5)}, {Memory(17)}, {Memory(40)},
     {Memory(30), [Start |-> 34, End |-> 46]}}
=============================================================================
