---------------------------- MODULE MCAllocator ----------------------------
(* Three threads touching one device memory for the first time.           *)
EXTENDS Allocator

CONSTANTS a1, a2, a3, MCNoThread

MCThreads == {a1, a2, a3}
=============================================================================
