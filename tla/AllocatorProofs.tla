--------------------------- MODULE AllocatorProofs ---------------------------
(***************************************************************************)
(* Proofs about the first-touch allocation of src/memory.cc, for any set   *)
(* of threads.                                                             *)
(***************************************************************************)
EXTENDS Allocator, TLAPS

\* The lines 61-72 between XKRT_MUTEX_LOCK and XKRT_MUTEX_UNLOCK.
Locked == {"recheck", "alloc", "unlock"}

\* Every thread inside the locked block holds area.lock: there is at most
\* one.
Excl == \A t \in Threads : pc[t] \in Locked => lock = t

\* A thread about to call the backend (line 67) saw allocated unset under
\* the lock, and no store of it has happened since.
AllocPending == \A t \in Threads : pc[t] = "alloc" => ~allocated

\* AllocatedOnce strengthened into an inductive invariant.
IInv == TypeOK /\ AllocatedOnce /\ Excl /\ AllocPending

\* No thread has started: IInv holds.
LEMMA InitIInv == Init => IInv
<1> SUFFICES ASSUME Init PROVE IInv OBVIOUS
<1>1. TypeOK BY DEF Init, TypeOK, Pc, Chunk0
<1>2. AllocatedOnce BY DEF Init, AllocatedOnce
<1>3. Excl BY DEF Init, Excl, Locked
<1>4. AllocPending BY DEF Init, AllocPending
<1>5. QED BY <1>1, <1>2, <1>3, <1>4 DEF IInv
\* Each step of a thread keeps IInv.
LEMMA StepIInv ==
    ASSUME IInv, NEW t \in Threads,
           Check(t) \/ Lock(t) \/ Recheck(t) \/ Alloc(t) \/ Unlock(t) \/ Carve(t)
    PROVE  IInv'
<1> USE DEF IInv, TypeOK, AllocatedOnce, Excl, AllocPending, Locked, Pc, Chunk0
<1>1. CASE Check(t)
  BY <1>1 DEF Check
<1>2. CASE Lock(t)
  \* The lock was free, so no thread was inside the block.
  <2>1. \A u \in Threads : pc[u] \notin Locked
    BY <1>2, AllocatorAssumption DEF Lock
  <2>2. QED BY <1>2, <2>1 DEF Lock
<1>3. CASE Recheck(t)
  BY <1>3 DEF Recheck
<1>4. CASE Alloc(t)
  \* t holds the lock, so it is the only thread at line 67.
  <2>1. \A u \in Threads : pc[u] \in Locked => u = t
    BY <1>4 DEF Alloc
  <2>2. ~allocated /\ nalloc = 0
    BY <1>4 DEF Alloc
  <2>3. chunk0' \in Chunk0 BY <1>4 DEF Alloc
  <2>4. TypeOK' BY <1>4, <2>3 DEF Alloc
  <2>5. AllocatedOnce' BY <1>4, <2>2 DEF Alloc
  <2>6. Excl' BY <1>4 DEF Alloc
  <2>7. AllocPending' BY <1>4, <2>1 DEF Alloc
  <2>8. QED BY <2>4, <2>5, <2>6, <2>7
<1>5. CASE Unlock(t)
  \* t was the only thread inside the block.
  <2>1. \A u \in Threads : pc[u] \in Locked => u = t
    BY <1>5 DEF Unlock
  <2>2. QED BY <1>5, <2>1, AllocatorAssumption DEF Unlock
<1>6. CASE Carve(t)
  BY <1>6 DEF Carve
<1>7. QED BY <1>1, <1>2, <1>3, <1>4, <1>5, <1>6

\* IInv is inductive.
LEMMA NextIInv == IInv /\ [Next]_vars => IInv'
<1> SUFFICES ASSUME IInv, [Next]_vars PROVE IInv' OBVIOUS
<1>1. CASE Next BY <1>1, StepIInv DEF Next
<1>2. CASE UNCHANGED vars
  BY <1>2 DEF vars, IInv, TypeOK, AllocatedOnce, Excl, AllocPending
<1>3. QED BY <1>1, <1>2

\* Concurrent first touches of a device memory (memory_device_preallocate_ensure)
\* call f_memory_device_allocate at most once, and allocated is set exactly
\* when it was called, for any number of threads.
THEOREM AllocatedOnceHolds == Spec => []AllocatedOnce
<1>1. Init => IInv BY InitIInv
<1>2. IInv /\ [Next]_vars => IInv' BY NextIInv
<1>3. IInv => AllocatedOnce BY DEF IInv
<1>4. QED BY <1>1, <1>2, <1>3, PTL DEF Spec

\* The types hold in every state, the lock being held only by a thread
\* inside lines 61-72.
THEOREM TypeCorrect == Spec => []TypeOK
<1>1. Init => IInv BY InitIInv
<1>2. IInv /\ [Next]_vars => IInv' BY NextIInv
<1>3. IInv => TypeOK BY DEF IInv
<1>4. QED BY <1>1, <1>2, <1>3, PTL DEF Spec
-----------------------------------------------------------------------------
(* What the carves see. *)

\* A thread past line 69 (or one that read allocated set at line 57) finds
\* allocated set; the thread about to unlock has set it or seen it set.
PastAlloc ==
    \A t \in Threads : pc[t] \in {"unlock", "carve", "done"} => allocated

\* allocated is set only together with chunk0 (lines 68-69).
ChunkSet == allocated => chunk0 # "unset"

\* Only a thread that has returned has a carve result.
GotDone == \A t \in Threads : got[t] # "none" => pc[t] = "done"

\* A returned thread carved the outcome of the one backend call: no thread carves
\* before chunk0 is recorded (the unlocked read of line 57 and the unlock
\* of line 72 come after the store of line 68), and a NULL returned by
\* f_memory_device_allocate, recorded with allocated set, makes the carve
\* of every thread fail, the ones that touch the memory later included.
CarveSeesBackend ==
    \A t \in Threads :
        got[t] # "none" => /\ chunk0 # "unset"
                           /\ (got[t] = "chunk" <=> chunk0 = "ptr")

\* The invariant the refinement of AllocatorContract rests on.
CInv == IInv /\ PastAlloc /\ ChunkSet /\ GotDone /\ CarveSeesBackend

\* No thread has started: CInv holds.
LEMMA InitCInv == Init => CInv
<1> SUFFICES ASSUME Init PROVE CInv OBVIOUS
<1>1. IInv BY InitIInv
<1>2. QED BY <1>1 DEF Init, CInv, PastAlloc, ChunkSet, GotDone, CarveSeesBackend

\* Each step of a thread keeps CInv.
LEMMA StepCInv ==
    ASSUME CInv, NEW t \in Threads,
           Check(t) \/ Lock(t) \/ Recheck(t) \/ Alloc(t) \/ Unlock(t) \/ Carve(t)
    PROVE  CInv'
<1>1. IInv' BY StepIInv DEF CInv
<1> USE DEF CInv, PastAlloc, ChunkSet, GotDone, CarveSeesBackend, IInv, TypeOK, Pc
<1>2. CASE Check(t)
  \* The racy read sends t to the carve only once allocated is set.
  <2>1. PICK seen \in (IF allocated THEN BOOLEAN ELSE {FALSE}) :
          pc' = [pc EXCEPT ![t] = IF seen THEN "carve" ELSE "lock"]
    BY <1>2 DEF Check
  <2>2. UNCHANGED <<lock, allocated, chunk0, nalloc, got>> BY <1>2 DEF Check
  <2>3. seen => allocated BY <2>1
  <2>4. PastAlloc' BY <2>1, <2>2, <2>3
  <2>5. GotDone'
    <3> SUFFICES ASSUME NEW u \in Threads, got'[u] # "none" PROVE pc'[u] = "done"
      OBVIOUS
    <3>1. got[u] # "none" /\ pc[u] = "done" BY <2>2
    <3>2. u # t BY <3>1, <1>2 DEF Check
    <3>3. QED BY <2>1, <3>1, <3>2
  <2>6. QED BY <1>1, <2>2, <2>4, <2>5
<1>3. CASE Lock(t) BY <1>1, <1>3 DEF Lock
<1>4. CASE Recheck(t) BY <1>1, <1>4 DEF Recheck
<1>5. CASE Alloc(t)
  \* allocated was unset, so no thread had passed line 69 or carved.
  <2>1. ~allocated BY <1>5 DEF Alloc, IInv, AllocPending
  <2>2. \A u \in Threads : got[u] = "none" /\ pc[u] \notin {"unlock", "carve", "done"}
    BY <2>1
  <2>3. chunk0' # "unset" BY <1>5 DEF Alloc
  <2>4. QED BY <1>1, <1>5, <2>2, <2>3 DEF Alloc
<1>6. CASE Unlock(t) BY <1>1, <1>6 DEF Unlock
<1>7. CASE Carve(t)
  <2>1. allocated /\ chunk0 # "unset" BY <1>7 DEF Carve
  <2>2. QED BY <1>1, <1>7, <2>1 DEF Carve
<1>8. QED BY <1>2, <1>3, <1>4, <1>5, <1>6, <1>7

\* CInv is inductive.
LEMMA NextCInv == CInv /\ [Next]_vars => CInv'
<1> SUFFICES ASSUME CInv, [Next]_vars PROVE CInv' OBVIOUS
<1>1. CASE Next BY <1>1, StepCInv DEF Next
<1>2. CASE UNCHANGED vars
  <2>1. IInv' BY <1>2, NextIInv DEF CInv
  <2>2. QED BY <1>2, <2>1 DEF vars, CInv, PastAlloc, ChunkSet, GotDone, CarveSeesBackend
<1>3. QED BY <1>1, <1>2

-----------------------------------------------------------------------------
(* The refinement of AllocatorContract. *)

\* Each step of a thread is a step of the contract or leaves allocated,
\* chunk0 and got alone.
LEMMA StepRefinesOnce ==
    ASSUME CInv, NEW t \in Threads,
           Check(t) \/ Lock(t) \/ Recheck(t) \/ Alloc(t) \/ Unlock(t) \/ Carve(t)
    PROVE  [Once!Next]_Once!vars
<1> USE DEF CInv, IInv, TypeOK, Pc
<1>1. CASE Check(t) BY <1>1 DEF Check, Once!vars
<1>2. CASE Lock(t) BY <1>2 DEF Lock, Once!vars
<1>3. CASE Recheck(t) BY <1>3 DEF Recheck, Once!vars
<1>4. CASE Alloc(t)
  \* Line 67 runs only with allocated unset: the contract's one allocation.
  <2>1. ~allocated BY <1>4 DEF Alloc, AllocPending
  <2>2. chunk0' \in {"ptr", "null"} BY <1>4 DEF Alloc
  <2>3. Once!Allocate BY <1>4, <2>1, <2>2 DEF Alloc, Once!Allocate
  <2>4. QED BY <2>3 DEF Once!Next
<1>5. CASE Unlock(t) BY <1>5 DEF Unlock, Once!vars
<1>6. CASE Carve(t)
  \* A carving thread is past line 69 and has not returned yet.
  <2>1. allocated BY <1>6 DEF Carve, PastAlloc
  <2>2. got[t] = "none" BY <1>6 DEF Carve, GotDone
  <2>3. Once!Return(t) BY <1>6, <2>1, <2>2 DEF Carve, Once!Return, Once!Result
  <2>4. QED BY <2>3 DEF Once!Next
<1>7. QED BY <1>1, <1>2, <1>3, <1>4, <1>5, <1>6

\* Under CInv, every step of the allocator is a step of the contract or a
\* stutter of it.
LEMMA NextRefinesOnce == CInv /\ [Next]_vars => [Once!Next]_Once!vars
<1> SUFFICES ASSUME CInv, [Next]_vars PROVE [Once!Next]_Once!vars OBVIOUS
<1>1. CASE Next BY <1>1, StepRefinesOnce DEF Next
<1>2. CASE UNCHANGED vars BY <1>2 DEF vars, Once!vars
<1>3. QED BY <1>1, <1>2

\* memory_device_preallocate_ensure followed by the carve implements the
\* first-touch contract for any set of threads: one backend allocation of
\* an unbacked memory, whose result never changes, and every thread
\* returning after it with the carve of that result.
THEOREM ImplementsOnceHolds == Spec => ImplementsOnce
<1>1. Init => Once!Init BY DEF Init, Once!Init
<1>2. Init => CInv BY InitCInv
<1>3. CInv /\ [Next]_vars => CInv' BY NextCInv
<1>4. CInv /\ [Next]_vars => [Once!Next]_Once!vars BY NextRefinesOnce
<1>5. QED BY <1>1, <1>2, <1>3, <1>4, PTL DEF Spec, ImplementsOnce, Once!Spec
=============================================================================
