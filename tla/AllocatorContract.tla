-------------------------- MODULE AllocatorContract --------------------------
(***************************************************************************)
(* What first-touch preallocation (src/memory.cc) promises the threads     *)
(* that call memory_device_allocate_on, whatever its lock and racy flag    *)
(* do: the device memory is backed once, by one call of the backend whose  *)
(* result (a pointer or NULL) never changes afterwards, and a thread       *)
(* returns only after that call, with a chunk exactly when the backend     *)
(* gave a pointer.  Only allocated, chunk0 and the threads' results are    *)
(* visible.                                                                *)
(***************************************************************************)
CONSTANT Threads    \* the threads that touch the memory

VARIABLES
    allocated,  \* the memory has been backed
    chunk0,     \* what the one backend call returned, "unset" before
    got         \* per thread: its result, "none" until it returns

vars == <<allocated, chunk0, got>>

\* A carve out of chunk0: a chunk when the backend gave a pointer.
Result == IF chunk0 = "ptr" THEN "chunk" ELSE "fail"

Init ==
    /\ allocated = FALSE
    /\ chunk0 = "unset"
    /\ got = [t \in Threads |-> "none"]

\* The one backend allocation, which may return NULL.
Allocate ==
    /\ ~allocated
    /\ allocated' = TRUE
    /\ chunk0' \in {"ptr", "null"}
    /\ UNCHANGED got

\* Thread t returns from memory_device_allocate_on, after the allocation.
Return(t) ==
    /\ allocated
    /\ got[t] = "none"
    /\ got' = [got EXCEPT ![t] = Result]
    /\ UNCHANGED <<allocated, chunk0>>

Next == Allocate \/ \E t \in Threads : Return(t)

\* The safety contract.
Spec == Init /\ [][Next]_vars
=============================================================================
