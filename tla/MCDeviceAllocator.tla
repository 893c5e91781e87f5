-------------------------- MODULE MCDeviceAllocator --------------------------
(* Instances of DeviceAllocator for TLC.                                   *)
EXTENDS DeviceAllocator

\* No further than the first unmapping of memory somebody counts on.
Intact == ~torn

ThreadSymmetry == Permutations(Thread)
==============================================================================
