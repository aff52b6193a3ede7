---------------------------- MODULE StreamProofs ----------------------------
(***************************************************************************)
(* Proofs about the Stream model, for every capacity, concurrency and     *)
(* number of instructions.                                                 *)
(***************************************************************************)
EXTENDS Stream, InstructionQueueProofs, TLAPS

\* Every entry between ready.r and ready.w holds a submitted instruction:
\* instruction_new() filled it before commit() published it.
ReadyHeld ==
    \A j \in 0 .. (Size(ready) - 1) : rslot[At(ready, j)] \in Instr

\* A pending slot with a live sycl::event holds a launched instruction.
EventHeld ==
    \A p \in Pos : event[p] # "none" => pslot[p] \in Instr

\* TypeOK strengthened into an inductive invariant.
TypeInv == TypeOK /\ ReadyHeld /\ EventHeld

\* The initial state, with both queues empty, satisfies TypeInv.
LEMMA InitTypeInv == Init => TypeInv
<1> SUFFICES ASSUME Init PROVE TypeInv OBVIOUS
<1>1. TypeOK BY CapacityAssumption, StreamAssumption DEF Init, TypeOK, Queue, Pos, Instr, NoInstr, EventState
<1>2. Size(ready) = 0 BY DEF Init, Size
<1>3. ReadyHeld BY <1>2 DEF ReadyHeld
<1>4. EventHeld BY DEF Init, EventHeld
<1>5. QED BY <1>1, <1>3, <1>4 DEF TypeInv

\* The GPU finishing a command keeps TypeInv: its slot held an instruction.
LEMMA DeviceCompleteTypeInv ==
    ASSUME TypeInv, NEW p \in Pos, DeviceComplete(p)
    PROVE  TypeInv'
<1>1. TypeOK' BY DEF TypeInv, TypeOK, DeviceComplete, EventState
<1>2. ReadyHeld' BY DEF TypeInv, ReadyHeld, DeviceComplete
<1>3. EventHeld' BY DEF TypeInv, EventHeld, DeviceComplete, TypeOK
<1>4. QED BY <1>1, <1>2, <1>3 DEF TypeInv

\* A progress pass keeps TypeInv: every callback it runs is an instruction's.
LEMMA ProgressTypeInv ==
    ASSUME TypeInv, NEW okp \in 0 .. Size(pending), ProgressCommits(okp)
    PROVE  TypeInv'
<1>1. pending' \in Queue
  <2>1. Advance(pending.r, okp) \in Pos BY AdvanceInPos DEF TypeInv, TypeOK, Queue, Pos
  <2>2. QED BY <2>1 DEF ProgressCommits, TypeInv, TypeOK, Queue
<1>2. Done \subseteq Pos BY CapacityAssumption DEF Done, Slots, TypeInv, TypeOK, Queue, Pos
<1>3. fired' \subseteq Instr
  BY <1>2 DEF ProgressCommits, Done, TypeInv, TypeOK, EventHeld
<1>4. TypeOK' BY <1>1, <1>3 DEF ProgressCommits, TypeInv, TypeOK, EventState
<1>5. ReadyHeld' BY DEF TypeInv, ReadyHeld, ProgressCommits
<1>6. EventHeld' BY DEF TypeInv, EventHeld, ProgressCommits
<1>7. QED BY <1>4, <1>5, <1>6 DEF TypeInv

\* Submitting keeps TypeInv: the entry written at ready.w is the new
\* instruction, and every other entry between the cursors is untouched.
LEMMA SubmitTypeInv ==
    ASSUME TypeInv, Submit
    PROVE  TypeInv'
<1>1. ready \in Queue /\ ready.w \in Pos BY DEF TypeInv, TypeOK, Queue
<1>2. nsub + 1 \in Instr BY StreamAssumption DEF Submit, TypeInv, TypeOK, Instr
<1>3. Advance(ready.w, 1) \in Pos BY <1>1, CapacityAssumption DEF Advance, Pos
<1>4. TypeOK'
  BY <1>1, <1>2, <1>3 DEF Submit, TypeInv, TypeOK, Queue, Instr, NoInstr
<1>5. ReadyHeld'
  <2>1. SUFFICES ASSUME NEW j \in 0 .. (Size(ready') - 1)
                 PROVE  rslot'[At(ready', j)] \in Instr
    BY DEF ReadyHeld
  <2>2. 1 \in 0 .. (Capacity - 1) BY CapacityAssumption
  <2>3. Size(ready') = IF Size(ready) + 1 < Capacity THEN Size(ready) + 1 ELSE 0
    <3>1. Size(ready) \in 0 .. (Capacity - 1) BY <1>1, SizeRange
    <3>2. ready' = [ready EXCEPT !.w = Advance(ready.w, 1)] BY DEF Submit
    <3>3. Size([ready EXCEPT !.w = Advance(ready.w, 1)])
            = IF Size(ready) + 1 < Capacity THEN Size(ready) + 1
                                            ELSE Size(ready) + 1 - Capacity
      BY <1>1, <2>2, SizePush
    <3>4. QED BY <3>1, <3>2, <3>3, CapacityAssumption
  <2>4. At(ready', j) = At(ready, j) BY DEF Submit, At
  <2>5. Size(ready) \in 0 .. (Capacity - 1) BY <1>1, SizeRange
  <2>6. j \in 0 .. Size(ready) BY <2>3, <2>5, CapacityAssumption
  <2>7. ready.w = At(ready, Size(ready)) BY <1>1, WriteAt
  <2>8. CASE j < Size(ready)
    <3>1. j \in 0 .. (Capacity - 1) BY <2>6, <2>5, CapacityAssumption
    <3>2. At(ready, j) # ready.w BY <1>1, <2>5, <2>7, <2>8, <3>1, AtInjective
    <3>3. j \in 0 .. (Size(ready) - 1) BY <2>5, <2>6, <2>8, CapacityAssumption
    <3>5. rslot[At(ready, j)] \in Instr BY <3>3 DEF TypeInv, ReadyHeld
    <3>4. QED BY <2>4, <3>2, <3>5 DEF Submit
  <2>9. CASE j = Size(ready)
    <3>1. At(ready', j) = ready.w BY <2>4, <2>7, <2>9
    <3>2. rslot'[ready.w] = nsub + 1 BY <1>1 DEF Submit, TypeInv, TypeOK
    <3>3. QED BY <1>2, <3>1, <3>2, Zenon
  <2>10. QED BY <2>5, <2>6, <2>8, <2>9, CapacityAssumption
<1>6. EventHeld' BY DEF Submit, TypeInv, EventHeld
<1>7. QED BY <1>4, <1>5, <1>6 DEF TypeInv

\* A launch keeps TypeInv: the entry copied to pending position
\* pending.w + j is the ready entry at offset j, which held an instruction,
\* and the ready entries left between the cursors are the later ones.
LEMMA LaunchTypeInv ==
    ASSUME TypeInv, NEW n \in 1 .. Size(ready), LaunchMoves(n)
    PROVE  TypeInv'
<1> DEFINE moved == {Advance(pending.w, j) : j \in 0 .. (n - 1)}
           src(p) == Advance(ready.r, (p - pending.w) % Capacity)
<1>1. /\ ready \in Queue /\ pending \in Queue
      /\ ready.r \in Pos /\ pending.w \in Pos
  BY DEF TypeInv, TypeOK, Queue
<1>2. Size(ready) \in 0 .. (Capacity - 1) BY <1>1, SizeRange
<1>3. n \in 0 .. (Capacity - 1) BY <1>2, CapacityAssumption
<1>4. /\ pslot' = [p \in Pos |-> IF p \in moved THEN rslot[src(p)] ELSE pslot[p]]
      /\ completed' = [p \in Pos |-> IF p \in moved THEN FALSE ELSE completed[p]]
      /\ event' = [p \in Pos |-> IF p \in moved THEN "running" ELSE event[p]]
      /\ pending' = [pending EXCEPT !.w = Advance(pending.w, n)]
      /\ ready' = [ready EXCEPT !.r = Advance(ready.r, n)]
      /\ UNCHANGED <<rslot, nsub, fired>>
  BY DEF LaunchMoves
<1>5. ASSUME NEW j \in 0 .. (n - 1)
      PROVE  src(Advance(pending.w, j)) = At(ready, j)
  <2>1. j \in 0 .. (Capacity - 1) BY <1>3, CapacityAssumption
  <2>2. (Advance(pending.w, j) - pending.w) % Capacity = j BY <1>1, <2>1, BackOffset
  <2>3. At(ready, j) = Advance(ready.r, j) BY <1>1, AtAdvance
  <2>4. QED BY <2>2, <2>3
<1>6. ASSUME NEW p \in Pos PROVE src(p) \in Pos
  BY <1>1, CapacityAssumption DEF src, Advance, Pos
<1>7. moved \subseteq Pos BY <1>1, CapacityAssumption DEF moved, Advance, Pos
<1>8. TypeOK'
  <2>1. Advance(pending.w, n) \in Pos /\ Advance(ready.r, n) \in Pos
    BY <1>1, <1>3, CapacityAssumption DEF Advance, Pos
  <2>2. pslot' \in [Pos -> Instr \cup {NoInstr}]
    BY <1>4, <1>6 DEF TypeInv, TypeOK
  <2>3. QED BY <1>4, <2>1, <2>2 DEF TypeInv, TypeOK, Queue, EventState
<1>9. EventHeld'
  <2>1. SUFFICES ASSUME NEW p \in Pos, event'[p] # "none"
                 PROVE  pslot'[p] \in Instr
    BY DEF EventHeld
  <2>2. CASE p \in moved
    <3>1. PICK j \in 0 .. (n - 1) : p = Advance(pending.w, j) BY <2>2
    <3>2. pslot'[p] = rslot[At(ready, j)] BY <1>4, <1>5, <2>2, <3>1
    <3>3. j \in 0 .. (Size(ready) - 1) BY <1>2, CapacityAssumption
    <3>4. QED BY <3>2, <3>3 DEF TypeInv, ReadyHeld
  <2>3. CASE p \notin moved
    BY <1>4, <2>1, <2>3 DEF TypeInv, EventHeld
  <2>4. QED BY <2>2, <2>3
<1>10. ReadyHeld'
  <2>1. SUFFICES ASSUME NEW j \in 0 .. (Size(ready') - 1)
                 PROVE  rslot'[At(ready', j)] \in Instr
    BY DEF ReadyHeld
  <2>2. n \in 0 .. Size(ready) BY CapacityAssumption
  <2>3. Size(ready') = Size(ready) - n BY <1>1, <1>4, <2>2, SizePop
  <2>4. j \in 0 .. (Capacity - 1) BY <1>2, <2>3, CapacityAssumption
  <2>5. At(ready', j) = At(ready, n + j) BY <1>1, <1>3, <1>4, <2>4, AtPop
  <2>6. n + j \in 0 .. (Size(ready) - 1) BY <1>2, <2>3, CapacityAssumption
  <2>7. QED BY <1>4, <2>5, <2>6 DEF TypeInv, ReadyHeld
<1>11. QED BY <1>8, <1>9, <1>10 DEF TypeInv

\* TypeInv is inductive: every step of the device thread or of the SYCL
\* runtime keeps it.
LEMMA NextTypeInv == TypeInv /\ [Next]_vars => TypeInv'
<1> SUFFICES ASSUME TypeInv, [Next]_vars PROVE TypeInv' OBVIOUS
<1>1. CASE Submit BY <1>1, SubmitTypeInv
<1>2. CASE LaunchReady BY <1>2, LaunchTypeInv DEF LaunchReady
<1>3. CASE \E p \in Pos : DeviceComplete(p) BY <1>3, DeviceCompleteTypeInv
<1>4. CASE ProgressPending BY <1>4, ProgressTypeInv DEF ProgressPending
<1>5. CASE UNCHANGED vars
  BY <1>5 DEF vars, TypeInv, TypeOK, ReadyHeld, EventHeld
<1>6. QED BY <1>1, <1>2, <1>3, <1>4, <1>5 DEF Next

\* Type correctness of the stream for every capacity, concurrency and
\* number of instructions: cursors stay inside the buffer, slots hold
\* instruction numbers, and only submitted instructions see their
\* completion callback run (the callback of progress_pending_instructions
\* never fires on an empty slot).
THEOREM TypeCorrect == Spec => []TypeOK
<1>1. Init => TypeInv BY InitTypeInv
<1>2. TypeInv /\ [Next]_vars => TypeInv' BY NextTypeInv
<1>3. TypeInv => TypeOK BY DEF TypeInv
<1>4. QED BY <1>1, <1>2, <1>3, PTL DEF Spec
-----------------------------------------------------------------------------
(* No lost instruction, when the ready queue cannot wrap onto its reader.  *)

\* The throttle keeps the stream below its capacity: the configurations
\* where stream_create's capacity exceeds the concurrency (the default
\* 512 against 8 or 64).
NoOverflow == Concurrency < Capacity

\* The instructions between the cursors of either queue, by offset.
Held ==
    {rslot[At(ready, j)] : j \in 0 .. (Size(ready) - 1)}
        \cup {pslot[At(pending, j)] : j \in 0 .. (Size(pending) - 1)}

\* The stream holds at most Concurrency instructions.
Bounded == Outstanding <= Concurrency

\* A pending slot marked completed had its callback run.
CompletedFired == \A p \in Pos : completed[p] => pslot[p] \in fired

\* NoLostInstruction, by offset.
HeldUnfired == \A i \in 1 .. nsub : i \notin fired => i \in Held

\* NoLostInstruction strengthened into an inductive invariant.
LostInv == TypeInv /\ Bounded /\ CompletedFired /\ HeldUnfired
\* The initial state: nothing is held, submitted, completed or fired.
LEMMA InitLostInv == Init => LostInv
<1> SUFFICES ASSUME Init PROVE LostInv OBVIOUS
<1>1. TypeInv BY InitTypeInv
<1>2. Size(ready) = 0 /\ Size(pending) = 0 BY DEF Init, Size
<1>3. Bounded BY <1>2, StreamAssumption DEF Bounded, Outstanding
<1>4. CompletedFired BY DEF Init, CompletedFired
<1>5. HeldUnfired BY DEF Init, HeldUnfired
<1>6. QED BY <1>1, <1>3, <1>4, <1>5 DEF LostInv

\* The GPU finishing a command changes no queue, slot, flag or callback.
LEMMA DeviceCompleteLostInv ==
    ASSUME LostInv, NEW p \in Pos, DeviceComplete(p)
    PROVE  LostInv'
<1>1. TypeInv' BY DeviceCompleteTypeInv DEF LostInv
<1>2. Held' = Held BY DEF DeviceComplete, Held
<1>3. QED BY <1>1, <1>2 DEF LostInv, DeviceComplete, Bounded, Outstanding, CompletedFired, HeldUnfired

\* HeldUnfired is NoLostInstruction: the slots are the offsets from r.
LEMMA LostInvNoLost == LostInv => NoLostInstruction
<1> SUFFICES ASSUME LostInv PROVE NoLostInstruction OBVIOUS
<1>1. ready \in Queue /\ pending \in Queue BY DEF LostInv, TypeInv, TypeOK
<1>2. InReady = {rslot[At(ready, j)] : j \in 0 .. (Size(ready) - 1)}
  BY <1>1, SlotsAt DEF InReady
<1>3. InPending = {pslot[At(pending, j)] : j \in 0 .. (Size(pending) - 1)}
  BY <1>1, SlotsAt DEF InPending
<1>4. QED BY <1>2, <1>3 DEF LostInv, HeldUnfired, Held, NoLostInstruction
\* Submitting below the throttle: the new instruction lands at offset
\* size() of the ready queue, and every held instruction stays held.
LEMMA SubmitLostInv ==
    ASSUME LostInv, NoOverflow, Submit
    PROVE  LostInv'
<1>1. ready \in Queue /\ pending \in Queue /\ ready.w \in Pos
  BY DEF LostInv, TypeInv, TypeOK, Queue
<1>2. Size(ready) \in 0 .. (Capacity - 1) /\ Size(pending) \in 0 .. (Capacity - 1)
  BY <1>1, SizeRange
<1>3. Size(ready) + 1 < Capacity
  BY <1>2, StreamAssumption, CapacityAssumption DEF Submit, Outstanding, NoOverflow
<1>4. Size(ready') = Size(ready) + 1
  <2>1. 1 \in 0 .. (Capacity - 1) BY CapacityAssumption
  <2>2. Size([ready EXCEPT !.w = Advance(ready.w, 1)])
          = IF Size(ready) + 1 < Capacity THEN Size(ready) + 1
                                          ELSE Size(ready) + 1 - Capacity
    BY <1>1, <2>1, SizePush
  <2>3. QED BY <1>3, <2>2 DEF Submit
<1>5. TypeInv' BY SubmitTypeInv DEF LostInv
<1>6. Bounded'
  BY <1>2, <1>4, StreamAssumption DEF Submit, Bounded, Outstanding
<1>7. CompletedFired' BY DEF Submit, LostInv, CompletedFired
<1>8. ASSUME NEW j \in 0 .. (Size(ready) - 1)
      PROVE  rslot'[At(ready', j)] = rslot[At(ready, j)]
  <2>1. At(ready', j) = At(ready, j) BY DEF Submit, At
  <2>2. ready.w = At(ready, Size(ready)) BY <1>1, WriteAt
  <2>3. j \in 0 .. (Capacity - 1) /\ j # Size(ready) BY <1>2, CapacityAssumption
  <2>4. At(ready, j) # ready.w BY <1>1, <1>2, <2>2, <2>3, AtInjective
  <2>5. At(ready, j) \in Pos BY <1>1, AtInPos
  <2>6. QED BY <2>1, <2>4, <2>5 DEF Submit
<1>9. rslot'[At(ready', Size(ready))] = nsub + 1
  <2>1. At(ready', Size(ready)) = ready.w BY <1>1, WriteAt DEF Submit, At
  <2>2. QED BY <1>1, <2>1 DEF Submit, LostInv, TypeInv, TypeOK
<1>10. Held \subseteq Held'
  <2>1. pending' = pending /\ pslot' = pslot BY DEF Submit
  <2>2. \A j \in 0 .. (Size(ready) - 1) : j \in 0 .. (Size(ready') - 1)
    BY <1>4, <1>2
  <2>3. QED BY <1>8, <2>1, <2>2 DEF Held
<1>11. nsub + 1 \in Held'
  <2>1. Size(ready) \in 0 .. (Size(ready') - 1) BY <1>2, <1>4
  <2>2. QED BY <1>9, <2>1 DEF Held
<1>12. HeldUnfired'
  <2>1. nsub \in Nat /\ nsub' = nsub + 1 /\ fired' = fired
    BY DEF Submit, LostInv, TypeInv, TypeOK
  <2>2. QED BY <1>10, <1>11, <2>1 DEF LostInv, HeldUnfired
<1>13. QED BY <1>5, <1>6, <1>7, <1>12 DEF LostInv
\* A launch moves ready offset j to pending offset size() + j: below the
\* throttle the pending queue does not wrap, so every held instruction
\* stays held and the old pending entries are not overwritten.
LEMMA LaunchLostInv ==
    ASSUME LostInv, NoOverflow, NEW n \in 1 .. Size(ready), LaunchMoves(n)
    PROVE  LostInv'
<1> DEFINE moved == {Advance(pending.w, j) : j \in 0 .. (n - 1)}
           src(p) == Advance(ready.r, (p - pending.w) % Capacity)
           sp == Size(pending)
<1> USE CapacityAssumption, StreamAssumption DEF sp
<1>1. /\ ready \in Queue /\ pending \in Queue
      /\ ready.r \in Pos /\ pending.r \in Pos /\ pending.w \in Pos
  BY DEF LostInv, TypeInv, TypeOK, Queue
<1>2. Size(ready) \in 0 .. (Capacity - 1) /\ sp \in 0 .. (Capacity - 1)
  BY <1>1, SizeRange
<1>3. sp + n < Capacity /\ n \in 0 .. (Capacity - 1)
  BY <1>2, CapacityAssumption DEF LostInv, Bounded, Outstanding, NoOverflow
<1>4. /\ pslot' = [p \in Pos |-> IF p \in moved THEN rslot[src(p)] ELSE pslot[p]]
      /\ completed' = [p \in Pos |-> IF p \in moved THEN FALSE ELSE completed[p]]
      /\ pending' = [pending EXCEPT !.w = Advance(pending.w, n)]
      /\ ready' = [ready EXCEPT !.r = Advance(ready.r, n)]
      /\ UNCHANGED <<rslot, nsub, fired>>
  BY DEF LaunchMoves
<1>5. Size(pending') = sp + n
  BY <1>1, <1>3, <1>4, SizePush
<1>6. Size(ready') = Size(ready) - n
  <2>1. n \in 0 .. Size(ready) BY CapacityAssumption
  <2>2. QED BY <1>1, <1>4, <2>1, SizePop
<1>7. \A k \in Int : At(pending', k) = At(pending, k) BY <1>4 DEF At
<1>8. ASSUME NEW j \in 0 .. (n - 1)
      PROVE  Advance(pending.w, j) = At(pending, sp + j)
  <2>1. j \in 0 .. (Capacity - 1) BY <1>3
  <2>2. pending.w = At(pending, sp) BY <1>1, WriteAt
  <2>3. At(pending, sp) = Advance(pending.r, sp) BY DEF At, Advance
  <2>4. Advance(Advance(pending.r, sp), j) = Advance(pending.r, sp + j)
    BY <1>1, <1>2, <2>1, AdvanceAdd
  <2>5. QED BY <2>2, <2>3, <2>4 DEF At, Advance
<1>9. ASSUME NEW j \in 0 .. (n - 1)
      PROVE  src(Advance(pending.w, j)) = At(ready, j)
  <2>1. j \in 0 .. (Capacity - 1) BY <1>3
  <2>2. (Advance(pending.w, j) - pending.w) % Capacity = j BY <1>1, <2>1, BackOffset
  <2>3. QED BY <1>1, <2>2, AtAdvance
<1>10. ASSUME NEW j \in 0 .. (sp - 1)
       PROVE  At(pending, j) \notin moved
  <2>1. SUFFICES ASSUME NEW k \in 0 .. (n - 1), At(pending, j) = Advance(pending.w, k)
                 PROVE  FALSE
    OBVIOUS
  <2>2. At(pending, j) = At(pending, sp + k) BY <1>8, <2>1
  <2>3. j \in 0 .. (Capacity - 1) /\ sp + k \in 0 .. (Capacity - 1)
    BY <1>2, <1>3
  <2>4. j = sp + k BY <1>1, <2>2, <2>3, AtInjective
  <2>5. QED BY <2>4, <1>2
<1>11. moved \subseteq Pos BY <1>1, CapacityAssumption DEF Advance, Pos
<1>12. TypeInv' BY LaunchTypeInv DEF LostInv
<1>13. Bounded' BY <1>5, <1>6, <1>2 DEF LostInv, Bounded, Outstanding
<1>14. CompletedFired'
  BY <1>4 DEF LostInv, CompletedFired
<1>15. Held \subseteq Held'
  <2>1. ASSUME NEW j \in 0 .. (Size(ready) - 1)
        PROVE  rslot[At(ready, j)] \in Held'
    <3>1. CASE j < n
      <4>1. j \in 0 .. (n - 1) BY <3>1
      <4>2. Advance(pending.w, j) \in moved BY <4>1
      <4>3. pslot'[Advance(pending.w, j)] = rslot[At(ready, j)]
        BY <1>4, <1>9, <1>11, <4>1, <4>2
      <4>4. sp + j \in 0 .. (Size(pending') - 1) BY <1>5, <4>1, <1>2
      <4>5. At(pending', sp + j) = Advance(pending.w, j) BY <1>7, <1>8, <4>1, <1>2
      <4>6. QED BY <4>3, <4>4, <4>5 DEF Held
    <3>2. CASE j >= n
      <4>1. j - n \in 0 .. (Size(ready') - 1) BY <1>6, <3>2, <1>2
      <4>2. At(ready', j - n) = At(ready, j)
        <5>1. j - n \in 0 .. (Capacity - 1) BY <4>1, <1>2, <1>6, CapacityAssumption
        <5>2. At(ready', j - n) = At(ready, n + (j - n)) BY <1>1, <1>3, <1>4, <5>1, AtPop
        <5>3. QED BY <5>2
      <4>3. QED BY <1>4, <4>1, <4>2 DEF Held
    <3>3. QED BY <3>1, <3>2
  <2>2. ASSUME NEW j \in 0 .. (sp - 1)
        PROVE  pslot[At(pending, j)] \in Held'
    <3>1. At(pending, j) \in Pos BY <1>1, AtInPos
    <3>2. pslot'[At(pending, j)] = pslot[At(pending, j)] BY <1>4, <1>10, <3>1
    <3>3. j \in 0 .. (Size(pending') - 1) BY <1>5, <1>2
    <3>4. QED BY <1>7, <3>2, <3>3 DEF Held
  <2>3. QED BY <2>1, <2>2 DEF Held
<1>16. HeldUnfired' BY <1>4, <1>15 DEF LostInv, HeldUnfired
<1>17. QED BY <1>12, <1>13, <1>14, <1>16 DEF LostInv
\* A progress pass drops only the completed prefix of the pending queue,
\* and every completed entry has had its callback run.
LEMMA ProgressLostInv ==
    ASSUME LostInv, NEW okp \in 0 .. Size(pending), ProgressCommits(okp)
    PROVE  LostInv'
<1> USE CapacityAssumption
<1> DEFINE comp == [p \in Pos |-> completed[p] \/ p \in Done]
<1>1. ready \in Queue /\ pending \in Queue /\ pending.r \in Pos
  BY DEF LostInv, TypeInv, TypeOK, Queue
<1>2. Size(pending) \in 0 .. (Capacity - 1) /\ okp \in 0 .. (Capacity - 1)
  BY <1>1, SizeRange
<1>3. /\ IterateExit(pending, okp, {p \in Pos : comp[p]})
      /\ completed' = comp
      /\ fired' = fired \cup {pslot[p] : p \in Done}
      /\ pending' = [pending EXCEPT !.r = Advance(pending.r, okp)]
      /\ UNCHANGED <<ready, rslot, pslot, nsub>>
  BY DEF ProgressCommits, comp
<1>4. Size(pending') = Size(pending) - okp BY <1>1, <1>3, SizePop
<1>5. TypeInv' BY ProgressTypeInv DEF LostInv
<1>6. Bounded'
  <2>1. Size(ready') = Size(ready) BY <1>3
  <2>2. Size(ready) \in 0 .. (Capacity - 1) BY <1>1, SizeRange
  <2>3. QED BY <1>2, <1>4, <2>1, <2>2, StreamAssumption DEF LostInv, Bounded, Outstanding
<1>7. Done \subseteq Pos BY DEF Done, Slots, Pos, LostInv, TypeInv, TypeOK, Queue
<1>8. CompletedFired'
  <2>1. SUFFICES ASSUME NEW p \in Pos, completed'[p] PROVE pslot'[p] \in fired'
    BY DEF CompletedFired
  <2>2. completed[p] \/ p \in Done BY <1>3, <2>1 DEF comp
  <2>3. QED BY <1>3, <2>2 DEF LostInv, CompletedFired
<1>9. ASSUME NEW j \in 0 .. (okp - 1)
      PROVE  pslot[At(pending, j)] \in fired'
  <2>1. At(pending, j) \in Pos /\ comp[At(pending, j)]
    BY <1>3, AtInPos, <1>1 DEF IterateExit
  <2>2. completed[At(pending, j)] \/ At(pending, j) \in Done BY <2>1 DEF comp
  <2>3. QED BY <1>3, <2>1, <2>2 DEF LostInv, CompletedFired
<1>10. ASSUME NEW j \in okp .. (Size(pending) - 1)
       PROVE  pslot[At(pending, j)] \in Held'
  <2>1. j - okp \in 0 .. (Capacity - 1) /\ j - okp \in 0 .. (Size(pending') - 1)
    BY <1>2, <1>4
  <2>2. At(pending', j - okp) = At(pending, okp + (j - okp))
    BY <1>1, <1>2, <1>3, <2>1, AtPop
  <2>3. QED BY <1>3, <2>1, <2>2 DEF Held
<1>11. HeldUnfired'
  <2>1. SUFFICES ASSUME NEW i \in 1 .. nsub', i \notin fired' PROVE i \in Held'
    BY DEF HeldUnfired
  <2>2. i \in Held BY <1>3, <2>1 DEF LostInv, HeldUnfired
  <2>3. CASE \E j \in 0 .. (Size(ready) - 1) : i = rslot[At(ready, j)]
    BY <1>3, <2>3 DEF Held
  <2>4. CASE \E j \in 0 .. (Size(pending) - 1) : i = pslot[At(pending, j)]
    <3>1. PICK j \in 0 .. (Size(pending) - 1) : i = pslot[At(pending, j)] BY <2>4
    <3>2. CASE j < okp BY <1>9, <2>1, <3>1, <3>2
    <3>3. CASE j >= okp BY <1>10, <3>1, <3>3
    <3>4. QED BY <3>2, <3>3
  <2>5. QED BY <2>2, <2>3, <2>4 DEF Held
<1>12. QED BY <1>5, <1>6, <1>8, <1>11 DEF LostInv

\* LostInv is inductive when the throttle keeps the stream below capacity.
LEMMA NextLostInv == NoOverflow => (LostInv /\ [Next]_vars => LostInv')
<1> SUFFICES ASSUME NoOverflow, LostInv, [Next]_vars PROVE LostInv' OBVIOUS
<1>1. CASE Submit BY <1>1, SubmitLostInv
<1>2. CASE LaunchReady BY <1>2, LaunchLostInv DEF LaunchReady
<1>3. CASE \E p \in Pos : DeviceComplete(p) BY <1>3, DeviceCompleteLostInv
<1>4. CASE ProgressPending BY <1>4, ProgressLostInv DEF ProgressPending
<1>5. CASE UNCHANGED vars
  <2>1. TypeInv' BY <1>5, NextTypeInv DEF LostInv
  <2>2. QED BY <1>5, <2>1 DEF vars, LostInv, Bounded, Outstanding, CompletedFired, HeldUnfired, Held
<1>6. QED BY <1>1, <1>2, <1>3, <1>4, <1>5 DEF Next

\* No committed instruction is lost (stream_instruction_launch and
\* stream_instructions_progress keep every submitted instruction whose
\* callback has not run in the ready or the pending queue), for every
\* capacity above the concurrency and every number of instructions.
THEOREM NoLostInstructionHolds == NoOverflow => (Spec => []NoLostInstruction)
<1> SUFFICES ASSUME NoOverflow PROVE Spec => []NoLostInstruction OBVIOUS
<1>1. Init => LostInv BY InitLostInv
<1>2. LostInv /\ [Next]_vars => LostInv' BY NextLostInv
<1>3. LostInv => NoLostInstruction BY LostInvNoLost
<1>4. QED BY <1>1, <1>2, <1>3, PTL DEF Spec
=============================================================================
