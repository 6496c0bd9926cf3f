----------------------- MODULE MCAtomicPoolFreeList -----------------------
(* Three events getting and relinquishing AtomicPooled objects of one      *)
(* pool; the allocator has three addresses, enough for each event to hold *)
(* one at once.                                                            *)
EXTENDS AtomicPoolFreeList

CONSTANTS c1, c2, c3, o1, o2, o3
=============================================================================
