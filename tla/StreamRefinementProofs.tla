------------------------ MODULE StreamRefinementProofs ------------------------
(***************************************************************************)
(* The stream implements its contract (StreamContract): the safety part   *)
(* of ImplementsContract, for every capacity above the concurrency and    *)
(* every number of instructions.  The argument is that both queues keep   *)
(* instructions in submission order, so that an entry of the pending      *)
(* queue not yet completed holds an instruction whose callback has not    *)
(* run, and two entries never hold the same instruction.                  *)
(***************************************************************************)
EXTENDS StreamProofs

\* The ready queue holds the last Size(ready) instructions submitted, in
\* the order of submission: commit() appends at w, the launch takes from r.
ReadyInOrder ==
    /\ Size(ready) <= nsub
    /\ \A j \in 0 .. (Size(ready) - 1) :
          rslot[At(ready, j)] = nsub - Size(ready) + 1 + j

\* The pending queue holds instructions in increasing order, all of them
\* submitted before those of the ready queue.
PendingInOrder ==
    /\ \A j \in 0 .. (Size(pending) - 1) :
          pslot[At(pending, j)] \in 1 .. (nsub - Size(ready))
    /\ \A j, k \in 0 .. (Size(pending) - 1) :
          j < k => pslot[At(pending, j)] < pslot[At(pending, k)]

\* Only instructions that left the ready queue have had their callback run.
FiredLaunched == \A i \in fired : i <= nsub - Size(ready)

\* An entry of the pending queue that is not completed has not fired.
UncompletedUnfired ==
    \A j \in 0 .. (Size(pending) - 1) :
        ~completed[At(pending, j)] => pslot[At(pending, j)] \notin fired

\* The invariant the refinement rests on.
RefInv ==
    /\ LostInv
    /\ ReadyInOrder
    /\ PendingInOrder
    /\ FiredLaunched
    /\ UncompletedUnfired

\* The initial state: both queues are empty and nothing has fired.
LEMMA InitRefInv == Init => RefInv
<1> SUFFICES ASSUME Init PROVE RefInv OBVIOUS
<1>1. LostInv BY InitLostInv
<1>2. Size(ready) = 0 /\ Size(pending) = 0 BY DEF Init, Size
<1>3. QED BY <1>1, <1>2 DEF Init, RefInv, ReadyInOrder, PendingInOrder,
                            FiredLaunched, UncompletedUnfired

\* The GPU finishing a command touches neither the queues nor the flags.
LEMMA DeviceCompleteRefInv ==
    ASSUME RefInv, NEW p \in Pos, DeviceComplete(p)
    PROVE  RefInv'
<1>1. LostInv' BY DeviceCompleteLostInv DEF RefInv
<1>2. QED BY <1>1 DEF DeviceComplete, RefInv, ReadyInOrder, PendingInOrder,
                     FiredLaunched, UncompletedUnfired

\* What a submission does to the ready queue, by offset: the entries
\* stay where they are and the new instruction is appended at size().
LEMMA SubmitShape ==
    ASSUME LostInv, NoOverflow, Submit
    PROVE  /\ Size(ready') = Size(ready) + 1
           /\ \A j \in 0 .. (Size(ready) - 1) :
                 rslot'[At(ready', j)] = rslot[At(ready, j)]
           /\ rslot'[At(ready', Size(ready))] = nsub + 1
<1>1. ready \in Queue /\ pending \in Queue /\ ready.w \in Pos
  BY DEF LostInv, TypeInv, TypeOK, Queue
<1>2. Size(ready) \in 0 .. (Capacity - 1) /\ Size(pending) \in 0 .. (Capacity - 1)
  BY <1>1, SizeRange
<1>3. Size(ready) + 1 < Capacity
  BY <1>2, StreamAssumption, CapacityAssumption DEF Submit, Outstanding, NoOverflow
<1>4. Size(ready') = Size(ready) + 1
  <2>1. 1 \in 0 .. (Capacity - 1) BY CapacityAssumption
  <2>2. Size([ready EXCEPT !.w = Advance(ready.w, 1)])
          = IF Size(ready) + 1 < Capacity THEN Size(ready) + 1
                                          ELSE Size(ready) + 1 - Capacity
    BY <1>1, <2>1, SizePush
  <2>3. QED BY <1>3, <2>2 DEF Submit
<1>5. ASSUME NEW j \in 0 .. (Size(ready) - 1)
      PROVE  rslot'[At(ready', j)] = rslot[At(ready, j)]
  <2>1. At(ready', j) = At(ready, j) BY DEF Submit, At
  <2>2. ready.w = At(ready, Size(ready)) BY <1>1, WriteAt
  <2>3. j \in 0 .. (Capacity - 1) /\ j # Size(ready) BY <1>2, CapacityAssumption
  <2>4. At(ready, j) # ready.w BY <1>1, <1>2, <2>2, <2>3, AtInjective
  <2>5. At(ready, j) \in Pos BY <1>1, AtInPos
  <2>6. QED BY <2>1, <2>4, <2>5 DEF Submit
<1>6. rslot'[At(ready', Size(ready))] = nsub + 1
  <2>1. At(ready', Size(ready)) = ready.w BY <1>1, WriteAt DEF Submit, At
  <2>2. QED BY <1>1, <2>1 DEF Submit, LostInv, TypeInv, TypeOK
<1>7. QED BY <1>4, <1>5, <1>6

\* A submission appends the next instruction number to the ready queue.
LEMMA SubmitRefInv ==
    ASSUME RefInv, NoOverflow, Submit
    PROVE  RefInv'
<1>1. LostInv /\ LostInv' BY SubmitLostInv DEF RefInv
<1>2. /\ Size(ready') = Size(ready) + 1
      /\ \A j \in 0 .. (Size(ready) - 1) :
            rslot'[At(ready', j)] = rslot[At(ready, j)]
      /\ rslot'[At(ready', Size(ready))] = nsub + 1
  BY <1>1, SubmitShape
<1>3. /\ nsub \in Nat /\ nsub' = nsub + 1
      /\ UNCHANGED <<pending, pslot, completed, fired>>
  BY DEF Submit, RefInv, LostInv, TypeInv, TypeOK
<1>4. Size(ready) \in 0 .. (Capacity - 1)
  BY SizeRange DEF RefInv, LostInv, TypeInv, TypeOK
<1>5. ReadyInOrder'
  <2>1. Size(ready') <= nsub' BY <1>2, <1>3, <1>4 DEF RefInv, ReadyInOrder
  <2>2. ASSUME NEW j \in 0 .. (Size(ready') - 1)
        PROVE  rslot'[At(ready', j)] = nsub' - Size(ready') + 1 + j
    <3>1. CASE j < Size(ready)
      BY <1>2, <1>3, <1>4, <3>1 DEF RefInv, ReadyInOrder
    <3>2. CASE j = Size(ready) BY <1>2, <1>3, <1>4, <3>2
    <3>3. QED BY <1>2, <1>4, <3>1, <3>2
  <2>3. QED BY <2>1, <2>2 DEF ReadyInOrder
<1>6. nsub' - Size(ready') = nsub - Size(ready) BY <1>2, <1>3, <1>4
<1>7. PendingInOrder' BY <1>3, <1>6 DEF RefInv, PendingInOrder
<1>8. FiredLaunched' BY <1>3, <1>6 DEF RefInv, FiredLaunched
<1>9. UncompletedUnfired' BY <1>3 DEF RefInv, UncompletedUnfired
<1>10. QED BY <1>1, <1>5, <1>7, <1>8, <1>9 DEF RefInv
\* What a launch of n entries does, by offset: the old pending entries
\* stay, ready offset j becomes pending offset size() + j, not completed,
\* and the ready queue loses its first n entries.
LEMMA LaunchShape ==
    ASSUME LostInv, NoOverflow, NEW n \in 1 .. Size(ready), LaunchMoves(n)
    PROVE  LET sp == Size(pending) IN
           /\ sp \in 0 .. (Capacity - 1) /\ Size(ready) \in 0 .. (Capacity - 1)
           /\ Size(pending') = sp + n
           /\ Size(ready') = Size(ready) - n
           /\ \A j \in 0 .. (sp - 1) :
                 /\ pslot'[At(pending', j)] = pslot[At(pending, j)]
                 /\ completed'[At(pending', j)] = completed[At(pending, j)]
           /\ \A j \in 0 .. (n - 1) :
                 /\ pslot'[At(pending', sp + j)] = rslot[At(ready, j)]
                 /\ ~completed'[At(pending', sp + j)]
           /\ \A j \in 0 .. (Size(ready') - 1) : At(ready', j) = At(ready, n + j)
           /\ UNCHANGED <<rslot, nsub, fired>>
<1> DEFINE moved == {Advance(pending.w, j) : j \in 0 .. (n - 1)}
           src(p) == Advance(ready.r, (p - pending.w) % Capacity)
           sp == Size(pending)
<1> USE CapacityAssumption, StreamAssumption DEF sp
<1>1. /\ ready \in Queue /\ pending \in Queue
      /\ ready.r \in Pos /\ pending.r \in Pos /\ pending.w \in Pos
  BY DEF LostInv, TypeInv, TypeOK, Queue
<1>2. Size(ready) \in 0 .. (Capacity - 1) /\ sp \in 0 .. (Capacity - 1)
  BY <1>1, SizeRange
<1>3. sp + n < Capacity /\ n \in 0 .. (Capacity - 1)
  BY <1>2, CapacityAssumption DEF LostInv, Bounded, Outstanding, NoOverflow
<1>4. /\ pslot' = [p \in Pos |-> IF p \in moved THEN rslot[src(p)] ELSE pslot[p]]
      /\ completed' = [p \in Pos |-> IF p \in moved THEN FALSE ELSE completed[p]]
      /\ pending' = [pending EXCEPT !.w = Advance(pending.w, n)]
      /\ ready' = [ready EXCEPT !.r = Advance(ready.r, n)]
      /\ UNCHANGED <<rslot, nsub, fired>>
  BY DEF LaunchMoves
<1>5. Size(pending') = sp + n
  BY <1>1, <1>3, <1>4, SizePush
<1>6. Size(ready') = Size(ready) - n
  <2>1. n \in 0 .. Size(ready) BY CapacityAssumption
  <2>2. QED BY <1>1, <1>4, <2>1, SizePop
<1>7. \A k \in Int : At(pending', k) = At(pending, k) BY <1>4 DEF At
<1>8. ASSUME NEW j \in 0 .. (n - 1)
      PROVE  Advance(pending.w, j) = At(pending, sp + j)
  <2>1. j \in 0 .. (Capacity - 1) BY <1>3
  <2>2. pending.w = At(pending, sp) BY <1>1, WriteAt
  <2>3. At(pending, sp) = Advance(pending.r, sp) BY DEF At, Advance
  <2>4. Advance(Advance(pending.r, sp), j) = Advance(pending.r, sp + j)
    BY <1>1, <1>2, <2>1, AdvanceAdd
  <2>5. QED BY <2>2, <2>3, <2>4 DEF At, Advance
<1>9. ASSUME NEW j \in 0 .. (n - 1)
      PROVE  src(Advance(pending.w, j)) = At(ready, j)
  <2>1. j \in 0 .. (Capacity - 1) BY <1>3
  <2>2. (Advance(pending.w, j) - pending.w) % Capacity = j BY <1>1, <2>1, BackOffset
  <2>3. QED BY <1>1, <2>2, AtAdvance
<1>10. ASSUME NEW j \in 0 .. (sp - 1)
       PROVE  At(pending, j) \notin moved
  <2>1. SUFFICES ASSUME NEW k \in 0 .. (n - 1), At(pending, j) = Advance(pending.w, k)
                 PROVE  FALSE
    OBVIOUS
  <2>2. At(pending, j) = At(pending, sp + k) BY <1>8, <2>1
  <2>3. j \in 0 .. (Capacity - 1) /\ sp + k \in 0 .. (Capacity - 1)
    BY <1>2, <1>3
  <2>4. j = sp + k BY <1>1, <2>2, <2>3, AtInjective
  <2>5. QED BY <2>4, <1>2
<1>11. moved \subseteq Pos BY <1>1, CapacityAssumption DEF Advance, Pos
<1>12. ASSUME NEW j \in 0 .. (sp - 1)
       PROVE  /\ pslot'[At(pending', j)] = pslot[At(pending, j)]
              /\ completed'[At(pending', j)] = completed[At(pending, j)]
  <2>1. At(pending, j) \in Pos BY <1>1, AtInPos
  <2>2. At(pending', j) = At(pending, j) BY <1>7
  <2>3. QED BY <1>4, <1>10, <2>1, <2>2
<1>13. ASSUME NEW j \in 0 .. (n - 1)
       PROVE  /\ pslot'[At(pending', sp + j)] = rslot[At(ready, j)]
              /\ ~completed'[At(pending', sp + j)]
  <2>1. Advance(pending.w, j) \in moved OBVIOUS
  <2>2. At(pending', sp + j) = Advance(pending.w, j) BY <1>7, <1>8, <1>2
  <2>3. QED BY <1>4, <1>9, <1>11, <2>1, <2>2
<1>14. ASSUME NEW j \in 0 .. (Size(ready') - 1)
       PROVE  At(ready', j) = At(ready, n + j)
  <2>1. j \in 0 .. (Capacity - 1) BY <1>2, <1>6
  <2>2. QED BY <1>1, <1>3, <1>4, <2>1, AtPop
<1>15. QED BY <1>2, <1>4, <1>5, <1>6, <1>12, <1>13, <1>14
\* A launch moves the oldest ready instructions, in order, behind the
\* pending ones; they are newer than every pending and every fired one.
LEMMA LaunchRefInv ==
    ASSUME RefInv, NoOverflow, NEW n \in 1 .. Size(ready), LaunchMoves(n)
    PROVE  RefInv'
<1> DEFINE sp == Size(pending)
           base == nsub - Size(ready)
<1> USE DEF sp, base
<1>1. LostInv /\ LostInv' BY LaunchLostInv DEF RefInv
<1>2. /\ sp \in 0 .. (Capacity - 1) /\ Size(ready) \in 0 .. (Capacity - 1)
      /\ Size(pending') = sp + n
      /\ Size(ready') = Size(ready) - n
      /\ \A j \in 0 .. (sp - 1) :
            /\ pslot'[At(pending', j)] = pslot[At(pending, j)]
            /\ completed'[At(pending', j)] = completed[At(pending, j)]
      /\ \A j \in 0 .. (n - 1) :
            /\ pslot'[At(pending', sp + j)] = rslot[At(ready, j)]
            /\ ~completed'[At(pending', sp + j)]
      /\ \A j \in 0 .. (Size(ready') - 1) : At(ready', j) = At(ready, n + j)
      /\ UNCHANGED <<rslot, nsub, fired>>
  BY <1>1, LaunchShape
<1>3. nsub \in Nat /\ Size(ready) <= nsub /\ n <= Size(ready)
  BY DEF RefInv, LostInv, TypeInv, TypeOK, ReadyInOrder
<1>4. \A j \in 0 .. (n - 1) : pslot'[At(pending', sp + j)] = base + 1 + j
  <2>1. \A j \in 0 .. (n - 1) : j \in 0 .. (Size(ready) - 1) BY <1>3, <1>2
  <2>2. QED BY <1>2, <2>1, <1>3 DEF RefInv, ReadyInOrder
<1>5. nsub' - Size(ready') = base + n BY <1>2, <1>3
<1>6. ReadyInOrder'
  <2>1. Size(ready') <= nsub' BY <1>2, <1>3
  <2>2. ASSUME NEW j \in 0 .. (Size(ready') - 1)
        PROVE  rslot'[At(ready', j)] = nsub' - Size(ready') + 1 + j
    <3>1. n + j \in 0 .. (Size(ready) - 1) BY <1>2, <1>3
    <3>2. rslot[At(ready, n + j)] = base + 1 + (n + j)
      BY <3>1, <1>2, <1>3 DEF RefInv, ReadyInOrder
    <3>3. QED BY <1>2, <1>5, <3>2, <1>3
  <2>3. QED BY <2>1, <2>2, <1>2, <1>3 DEF ReadyInOrder
<1>7. ASSUME NEW j \in 0 .. (Size(pending') - 1)
      PROVE  /\ pslot'[At(pending', j)] \in 1 .. (base + n)
             /\ j < sp => pslot'[At(pending', j)] = pslot[At(pending, j)]
             /\ j < sp => pslot'[At(pending', j)] <= base
             /\ j >= sp => pslot'[At(pending', j)] = base + 1 + (j - sp)
             /\ j >= sp => ~completed'[At(pending', j)]
  <2>1. CASE j < sp
    <3>1. j \in 0 .. (sp - 1) BY <2>1, <1>2, <1>3
    <3>2. pslot'[At(pending', j)] = pslot[At(pending, j)] BY <3>1, <1>2, <1>3
    <3>3. pslot[At(pending, j)] \in 1 .. base BY <3>1, <1>2, <1>3 DEF RefInv, PendingInOrder
    <3>4. QED BY <2>1, <3>2, <3>3, <1>3, <1>2
  <2>2. CASE j >= sp
    <3>1. j - sp \in 0 .. (n - 1) BY <2>2, <1>2, <1>3
    <3>2. pslot'[At(pending', sp + (j - sp))] = base + 1 + (j - sp) BY <3>1, <1>4, <1>2, <1>3
    <3>3. ~completed'[At(pending', sp + (j - sp))] BY <3>1, <1>2, <1>3
    <3>4. sp + (j - sp) = j BY <1>2, <1>3
    <3>5. QED BY <2>2, <3>1, <3>2, <3>3, <3>4, <1>3, <1>2
  <2>3. QED BY <2>1, <2>2, <1>2, <1>3
<1>8. PendingInOrder'
  <2>1. \A j \in 0 .. (Size(pending') - 1) :
           pslot'[At(pending', j)] \in 1 .. (nsub' - Size(ready'))
    BY <1>5, <1>7, <1>2, <1>3
  <2>2. ASSUME NEW j \in 0 .. (Size(pending') - 1), NEW k \in 0 .. (Size(pending') - 1),
               j < k
        PROVE  pslot'[At(pending', j)] < pslot'[At(pending', k)]
    <3>1. CASE k < sp
      <4>1. j \in 0 .. (Size(pending) - 1) /\ k \in 0 .. (Size(pending) - 1)
        BY <3>1, <2>2, <1>2, <1>3
      <4>2. pslot[At(pending, j)] < pslot[At(pending, k)]
        BY <4>1, <2>2, <1>2, <1>3 DEF RefInv, PendingInOrder
      <4>3. QED BY <1>7, <2>2, <3>1, <4>2, <1>2, <1>3
    <3>2. CASE j < sp /\ k >= sp BY <1>7, <3>2, <1>2, <1>3
    <3>3. CASE j >= sp BY <1>7, <2>2, <3>3, <1>2, <1>3
    <3>4. QED BY <3>1, <3>2, <3>3, <1>2, <1>3
  <2>3. QED BY <2>1, <2>2, <1>2, <1>3 DEF PendingInOrder
<1>9. FiredLaunched'
  <2>1. fired \subseteq Nat BY DEF RefInv, LostInv, TypeInv, TypeOK, Instr
  <2>2. \A i \in fired : i <= base BY DEF RefInv, FiredLaunched
  <2>3. SUFFICES ASSUME NEW i \in fired' PROVE i <= nsub' - Size(ready')
    BY DEF FiredLaunched
  <2>4. i \in fired /\ i \in Nat /\ i <= base BY <1>2, <2>1, <2>2
  <2>5. nsub - Size(ready) \in Int BY <1>2, <1>3
  <2>6. QED BY <1>5, <2>4, <2>5
<1>10. UncompletedUnfired'
  <2>1. SUFFICES ASSUME NEW j \in 0 .. (Size(pending') - 1),
                        ~completed'[At(pending', j)]
                 PROVE  pslot'[At(pending', j)] \notin fired'
    BY <1>2, <1>3 DEF UncompletedUnfired
  <2>2. CASE j < sp
    <3>1. j \in 0 .. (Size(pending) - 1) /\ ~completed[At(pending, j)]
      BY <2>1, <2>2, <1>2, <1>3
    <3>2. pslot[At(pending, j)] \notin fired BY <3>1, <1>2, <1>3 DEF RefInv, UncompletedUnfired
    <3>3. QED BY <1>2, <1>7, <2>2, <3>2, <1>3
  <2>3. CASE j >= sp
    <3>1. pslot'[At(pending', j)] > base BY <1>7, <2>3, <1>3, <1>2
    <3>2. \A i \in fired : i <= base BY <1>2, <1>3 DEF RefInv, FiredLaunched
    <3>3. fired \subseteq Nat BY <1>2, <1>3 DEF RefInv, LostInv, TypeInv, TypeOK, Instr
    <3>4. QED BY <1>2, <3>1, <3>2, <3>3, <1>3
  <2>4. QED BY <2>2, <2>3, <1>2, <1>3
<1>11. QED BY <1>1, <1>6, <1>8, <1>9, <1>10, <1>2, <1>3 DEF RefInv
\* Every entry a progress pass completes is an entry of the pending queue,
\* by offset, that was not completed.
LEMMA DoneAt ==
    ASSUME TypeInv, NEW p \in Done
    PROVE  \E k \in 0 .. (Size(pending) - 1) : p = At(pending, k) /\ ~completed[p]
<1>1. pending \in Queue BY DEF TypeInv, TypeOK
<1>2. Slots(pending) = {At(pending, j) : j \in 0 .. (Size(pending) - 1)}
  BY <1>1, SlotsAt
<1>3. QED BY <1>2 DEF Done

\* A progress pass drops the completed prefix of the pending queue; the
\* callbacks it runs are those of entries not completed before, each the
\* only entry holding its instruction.
LEMMA ProgressRefInv ==
    ASSUME RefInv, NEW okp \in 0 .. Size(pending), ProgressCommits(okp)
    PROVE  RefInv'
<1> USE CapacityAssumption
<1> DEFINE comp == [p \in Pos |-> completed[p] \/ p \in Done]
           base == nsub - Size(ready)
<1> USE DEF base
<1>1. LostInv /\ LostInv' BY ProgressLostInv DEF RefInv
<1>2. /\ ready \in Queue /\ pending \in Queue
      /\ Size(pending) \in 0 .. (Capacity - 1) /\ Size(ready) \in 0 .. (Capacity - 1)
      /\ okp \in 0 .. (Capacity - 1)
  BY SizeRange DEF RefInv, LostInv, TypeInv, TypeOK
<1>3. /\ completed' = comp
      /\ fired' = fired \cup {pslot[p] : p \in Done}
      /\ pending' = [pending EXCEPT !.r = Advance(pending.r, okp)]
      /\ UNCHANGED <<ready, rslot, pslot, nsub>>
  BY DEF ProgressCommits, comp
<1>4. Size(pending') = Size(pending) - okp BY <1>2, <1>3, SizePop
<1>5. ASSUME NEW i \in 0 .. (Size(pending') - 1)
      PROVE  /\ okp + i \in 0 .. (Size(pending) - 1)
             /\ At(pending', i) = At(pending, okp + i)
  <2>1. i \in 0 .. (Capacity - 1) BY <1>2, <1>4
  <2>2. QED BY <1>2, <1>3, <1>4, <2>1, AtPop
<1>6. ASSUME NEW p \in Done
      PROVE  \E k \in 0 .. (Size(pending) - 1) : p = At(pending, k) /\ ~completed[p]
  BY DoneAt DEF RefInv, LostInv
<1>7. ReadyInOrder' BY <1>3 DEF RefInv, ReadyInOrder
<1>8. PendingInOrder'
  <2>1. ASSUME NEW i \in 0 .. (Size(pending') - 1)
        PROVE  pslot'[At(pending', i)] \in 1 .. (nsub' - Size(ready'))
    BY <1>3, <1>5 DEF RefInv, PendingInOrder
  <2>2. ASSUME NEW i \in 0 .. (Size(pending') - 1), NEW k \in 0 .. (Size(pending') - 1),
               i < k
        PROVE  pslot'[At(pending', i)] < pslot'[At(pending', k)]
    <3>1. okp + i < okp + k BY <2>2, <1>2, <1>4
    <3>2. QED BY <1>3, <1>5, <3>1 DEF RefInv, PendingInOrder
  <2>3. QED BY <2>1, <2>2 DEF PendingInOrder
<1>9. FiredLaunched'
  <2>1. fired \subseteq Nat BY DEF RefInv, LostInv, TypeInv, TypeOK, Instr
  <2>2. ASSUME NEW p \in Done PROVE pslot[p] \in 1 .. base
    BY <1>6 DEF RefInv, PendingInOrder
  <2>3. QED BY <1>2, <1>3, <2>1, <2>2 DEF RefInv, FiredLaunched
<1>10. UncompletedUnfired'
  <2>1. SUFFICES ASSUME NEW i \in 0 .. (Size(pending') - 1),
                        ~completed'[At(pending', i)]
                 PROVE  pslot'[At(pending', i)] \notin fired'
    BY DEF UncompletedUnfired
  <2> DEFINE j == okp + i
             q == At(pending, j)
  <2>2. j \in 0 .. (Size(pending) - 1) /\ At(pending', i) = q BY <1>5
  <2>3. q \in Pos BY <1>2, <2>2, AtInPos
  <2>4. ~completed[q] /\ q \notin Done BY <1>3, <2>1, <2>2, <2>3
  <2>5. pslot[q] \notin fired BY <2>2, <2>4 DEF RefInv, UncompletedUnfired
  <2>6. ASSUME NEW p \in Done PROVE pslot[p] # pslot[q]
    <3>1. PICK k \in 0 .. (Size(pending) - 1) : p = At(pending, k) BY <1>6
    <3>2. k # j BY <2>4, <3>1
    <3>3. pslot[At(pending, k)] # pslot[At(pending, j)]
      <4>1. \A a, b \in 0 .. (Size(pending) - 1) :
               a < b => pslot[At(pending, a)] < pslot[At(pending, b)]
        BY DEF RefInv, PendingInOrder
      <4>2. \A a \in 0 .. (Size(pending) - 1) : pslot[At(pending, a)] \in Nat
        BY DEF RefInv, PendingInOrder
      <4>3. QED BY <2>2, <3>1, <3>2, <4>1, <4>2, <1>2
    <3>4. QED BY <3>1, <3>3
  <2>7. QED BY <1>3, <2>2, <2>5, <2>6
<1>11. QED BY <1>1, <1>7, <1>8, <1>9, <1>10 DEF RefInv
\* RefInv is inductive when the throttle keeps the stream below capacity.
LEMMA NextRefInv == NoOverflow => (RefInv /\ [Next]_vars => RefInv')
<1> SUFFICES ASSUME NoOverflow, RefInv, [Next]_vars PROVE RefInv' OBVIOUS
<1>1. CASE Submit BY <1>1, SubmitRefInv
<1>2. CASE LaunchReady BY <1>2, LaunchRefInv DEF LaunchReady
<1>3. CASE \E p \in Pos : DeviceComplete(p) BY <1>3, DeviceCompleteRefInv
<1>4. CASE ProgressPending BY <1>4, ProgressRefInv DEF ProgressPending
<1>5. CASE UNCHANGED vars
  <2>1. LostInv' BY <1>5, NextLostInv DEF RefInv
  <2>2. QED BY <1>5, <2>1 DEF vars, RefInv, ReadyInOrder, PendingInOrder,
                              FiredLaunched, UncompletedUnfired
<1>6. QED BY <1>1, <1>2, <1>3, <1>4, <1>5 DEF Next

\* The callbacks a progress pass runs are those of committed instructions
\* whose callback has not run.
LEMMA DoneUnfired ==
    ASSUME RefInv, NEW p \in Done
    PROVE  pslot[p] \in Contract!Unfired
<1>1. PICK k \in 0 .. (Size(pending) - 1) : p = At(pending, k) /\ ~completed[p]
  BY DoneAt DEF RefInv, LostInv
<1>2. pslot[p] \in 1 .. (nsub - Size(ready)) BY <1>1 DEF RefInv, PendingInOrder
<1>3. pslot[p] \notin fired BY <1>1 DEF RefInv, UncompletedUnfired
<1>4. Size(ready) \in Nat /\ nsub \in Nat
  BY SizeRange, CapacityAssumption DEF RefInv, LostInv, TypeInv, TypeOK
<1>5. QED BY <1>2, <1>3, <1>4 DEF Contract!Unfired

\* Every step of the stream is a step of its contract or leaves the
\* instruction count and the callbacks run unchanged.
LEMMA StepRefines == RefInv /\ [Next]_vars => [Contract!Next]_Contract!vars
<1> SUFFICES ASSUME RefInv, [Next]_vars PROVE [Contract!Next]_Contract!vars OBVIOUS
<1>1. CASE Submit BY <1>1 DEF Submit, Contract!Next, Contract!Submit
<1>2. CASE LaunchReady BY <1>2 DEF LaunchReady, LaunchMoves, Contract!vars
<1>3. CASE \E p \in Pos : DeviceComplete(p) BY <1>3 DEF DeviceComplete, Contract!vars
<1>4. CASE ProgressPending
  <2>1. PICK okp \in 0 .. Size(pending) : ProgressCommits(okp) BY <1>4 DEF ProgressPending
  <2> DEFINE S == {pslot[p] : p \in Done}
  <2>2. fired' = fired \cup S /\ nsub' = nsub BY <2>1 DEF ProgressCommits
  <2>3. CASE Done = {} BY <2>2, <2>3 DEF Contract!vars
  <2>4. CASE Done # {}
    <3>1. S \in SUBSET Contract!Unfired BY DoneUnfired
    <3>2. Contract!Complete(S) BY <2>2, <2>4, <3>1 DEF Contract!Complete
    <3>3. QED BY <3>1, <3>2 DEF Contract!Next
  <2>5. QED BY <2>3, <2>4
<1>5. CASE UNCHANGED vars BY <1>5 DEF vars, Contract!vars
<1>6. QED BY <1>1, <1>2, <1>3, <1>4, <1>5 DEF Next

\* The stream implements the safety part of its contract: however launch,
\* the GPU and progress interleave, stream_instructions_progress runs the
\* callback of committed instructions only, each at most once, for every
\* capacity above the concurrency.
THEOREM RefinesContract == NoOverflow => (Spec => Contract!SafetySpec)
<1> SUFFICES ASSUME NoOverflow PROVE Spec => Contract!SafetySpec OBVIOUS
<1>1. Init => RefInv BY InitRefInv
<1>2. RefInv /\ [Next]_vars => RefInv' BY NextRefInv
<1>3. Init => Contract!Init BY DEF Init, Contract!Init
<1>4. RefInv /\ [Next]_vars => [Contract!Next]_Contract!vars BY StepRefines
<1>5. QED BY <1>1, <1>2, <1>3, <1>4, PTL DEF Spec, Contract!SafetySpec
=============================================================================
