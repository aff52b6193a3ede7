------------------------------ MODULE Allocator ------------------------------
(***************************************************************************)
(* First-touch preallocation of one device memory (src/memory.cc).         *)
(* Each thread calling memory_device_allocate_on runs                      *)
(* memory_device_preallocate_ensure, a double-checked lock:                *)
(*   57  if (!allocated)              -- read without the lock            *)
(*   61    lock(area.lock)                                                 *)
(*   63    if (!allocated)            -- read again under the lock        *)
(*   67      ptr = f_memory_device_allocate(...)                           *)
(*   68      memory_set_chunk0(ptr, ...)                                   *)
(*   69      allocated = 1                                                 *)
(*   72    unlock(area.lock)                                               *)
(* and then carves its chunk with device->memory_allocate_on (device.cc,   *)
(* not in the tree), which takes the area lock for its bookkeeping (spec   *)
(* section 5).  The read at line 57 races with the store at line 69: it    *)
(* may see the old value 0 after the store.  The backend call may fail     *)
(* and return NULL.                                                        *)
(***************************************************************************)
EXTENDS Naturals, FiniteSets

CONSTANTS
    Threads,    \* the threads that touch the memory first
    NoThread    \* the owner of a free lock

ASSUME AllocatorAssumption == NoThread \notin Threads

\* What memory_set_chunk0 recorded: nothing yet, the backend's pointer, or
\* the NULL it returned.
Chunk0 == {"unset", "ptr", "null"}

\* The line each thread is at.
Pc == {"check", "lock", "recheck", "alloc", "unlock", "carve", "done"}

VARIABLES
    pc,         \* per thread
    lock,       \* the holder of area.lock
    allocated,  \* device->memories[memory_id].allocated
    chunk0,     \* the backing allocation set by memory_set_chunk0
    nalloc,     \* how many times f_memory_device_allocate was called
    got         \* per thread: the carve's result, "none" until it returns

vars == <<pc, lock, allocated, chunk0, nalloc, got>>

Init ==
    /\ pc = [t \in Threads |-> "check"]
    /\ lock = NoThread
    /\ allocated = FALSE
    /\ chunk0 = "unset"
    /\ nalloc = 0
    /\ got = [t \in Threads |-> "none"]

\* Mutant: a thread that sees allocated unset waits for it to be set
\* instead of taking the lock.
CheckSpins(t) ==
    /\ pc[t] = "check"
    /\ allocated
    /\ pc' = [pc EXCEPT ![t] = "carve"]
    /\ UNCHANGED <<lock, allocated, chunk0, nalloc, got>>

\* Line 57: the unlocked read sees allocated, or, racing with its store,
\* the 0 it held before.  Seeing 1 skips the lock.
Check(t) ==
    /\ pc[t] = "check"
    /\ \E seen \in (IF allocated THEN BOOLEAN ELSE {FALSE}) :
          pc' = [pc EXCEPT ![t] = IF seen THEN "carve" ELSE "lock"]
    /\ UNCHANGED <<lock, allocated, chunk0, nalloc, got>>

\* Mutant: the lock taken without waiting for its holder, as an
\* unchecked trylock would.
LockNoWait(t) ==
    /\ pc[t] = "lock"
    /\ lock' = t
    /\ pc' = [pc EXCEPT ![t] = "recheck"]
    /\ UNCHANGED <<allocated, chunk0, nalloc, got>>

\* Line 61: XKRT_MUTEX_LOCK blocks while another thread holds the lock.
Lock(t) ==
    /\ pc[t] = "lock"
    /\ lock = NoThread
    /\ lock' = t
    /\ pc' = [pc EXCEPT ![t] = "recheck"]
    /\ UNCHANGED <<allocated, chunk0, nalloc, got>>

\* Mutant: an early return from the locked block once allocated is seen,
\* leaving the lock held.
RecheckReturnsLocked(t) ==
    /\ pc[t] = "recheck"
    /\ pc' = [pc EXCEPT ![t] = IF allocated THEN "carve" ELSE "alloc"]
    /\ UNCHANGED <<lock, allocated, chunk0, nalloc, got>>

\* Mutant: the test of line 63 dropped, trusting the unlocked read.
RecheckAlways(t) ==
    /\ pc[t] = "recheck"
    /\ pc' = [pc EXCEPT ![t] = "alloc"]
    /\ UNCHANGED <<lock, allocated, chunk0, nalloc, got>>

\* Line 63, under the lock: allocate only if no thread did.
Recheck(t) ==
    /\ pc[t] = "recheck"
    /\ pc' = [pc EXCEPT ![t] = IF allocated THEN "unlock" ELSE "alloc"]
    /\ UNCHANGED <<lock, allocated, chunk0, nalloc, got>>

\* Lines 65-69: call the backend, record its result (NULL included) as
\* chunk0, and set allocated.
Alloc(t) ==
    /\ pc[t] = "alloc"
    /\ \E ok \in BOOLEAN : chunk0' = IF ok THEN "ptr" ELSE "null"
    /\ allocated' = TRUE
    /\ nalloc' = nalloc + 1
    /\ pc' = [pc EXCEPT ![t] = "unlock"]
    /\ UNCHANGED <<lock, got>>

\* Line 72: XKRT_MUTEX_UNLOCK.
Unlock(t) ==
    /\ pc[t] = "unlock"
    /\ lock' = NoThread
    /\ pc' = [pc EXCEPT ![t] = "carve"]
    /\ UNCHANGED <<allocated, chunk0, nalloc, got>>

\* Line 84: device->memory_allocate_on carves a chunk out of chunk0 under
\* the area lock; out of a NULL chunk0 it has nothing to carve.
Carve(t) ==
    /\ pc[t] = "carve"
    /\ lock = NoThread
    /\ got' = [got EXCEPT ![t] = IF chunk0 = "ptr" THEN "chunk" ELSE "fail"]
    /\ pc' = [pc EXCEPT ![t] = "done"]
    /\ UNCHANGED <<lock, allocated, chunk0, nalloc>>

Next ==
    \E t \in Threads :
        \/ Check(t)
        \/ Lock(t)
        \/ Recheck(t)
        \/ Alloc(t)
        \/ Unlock(t)
        \/ Carve(t)

\* Every thread keeps running its call; the lock is held for a bounded
\* block and each thread takes it at most twice, so a thread waiting for
\* it finds it free for good once the others are done.
Fairness ==
    \A t \in Threads :
        /\ WF_vars(Check(t))
        /\ WF_vars(Lock(t))
        /\ WF_vars(Recheck(t))
        /\ WF_vars(Alloc(t))
        /\ WF_vars(Unlock(t))
        /\ WF_vars(Carve(t))

Spec == Init /\ [][Next]_vars /\ Fairness

-----------------------------------------------------------------------------
(* Properties. *)

\* The types, with the lock held only by a thread inside lines 61-72.
TypeOK ==
    /\ pc \in [Threads -> Pc]
    /\ lock \in {NoThread} \cup {t \in Threads : pc[t] \in {"recheck", "alloc", "unlock"}}
    /\ allocated \in BOOLEAN
    /\ chunk0 \in Chunk0
    /\ nalloc \in Nat
    /\ got \in [Threads -> {"none", "chunk", "fail"}]

\* Concurrent first touches allocate exactly once (spec 4.2): however the
\* racy check of line 57 and the lock interleave, f_memory_device_allocate
\* is called at most once, and once allocated is set it has been called.
AllocatedOnce ==
    /\ nalloc <= 1
    /\ allocated <=> nalloc = 1

\* The contract of first-touch preallocation, over the same allocated,
\* chunk0 and got: the locks, program counters and call count are hidden.
Once == INSTANCE AllocatorContract

\* memory_device_preallocate_ensure and the carve implement the contract:
\* every step either leaves allocated, chunk0 and got alone, or is the one
\* backend allocation of an unbacked memory, or a thread returning, after
\* that allocation, with the carve of the recorded chunk0.  A second backend
\* call, a chunk0 overwritten by it, or a return before chunk0 is recorded
\* each break it.
ImplementsOnce == Once!Spec

\* Every thread that touches the memory returns from
\* memory_device_allocate_on: the lock is released on every path.
EveryTouchReturns ==
    \A t \in Threads : <>(pc[t] = "done")
=============================================================================
