------------------------------- MODULE Stream -------------------------------
(***************************************************************************)
(* One stream (xkrt_stream_t) of a SYCL device, with its two queues of     *)
(* instructions: `ready' (committed, not yet launched) and `pending'       *)
(* (launched, awaiting completion), each an InstructionQueue of the same   *)
(* capacity.  The actors are                                               *)
(*   - the device thread, which submits instructions (instruction_new,     *)
(*     fill, commit), launches the ready ones and progresses the pending   *)
(*     ones in its cooperative loop;                                       *)
(*   - the SYCL runtime, which runs the launched commands.  The stream's   *)
(*     sycl::queue is built without the in_order property, so commands     *)
(*     finish in any order.                                                *)
(* An instruction is its number (its payload plays no part in the stream); *)
(* `fired' records the instructions whose completion callback has run.     *)
(***************************************************************************)
EXTENDS InstructionQueue

CONSTANTS
    Concurrency,   \* conf.device.offloader.streams[type].concurrency
    MaxInstr       \* the number of instructions the model submits

ASSUME StreamAssumption ==
    /\ Concurrency \in Nat \ {0}
    /\ MaxInstr \in Nat \ {0}

\* Instruction numbers; 0 marks a slot that never held one.
Instr == 1 .. MaxInstr
NoInstr == 0

\* The states of the sycl::event kept for each pending slot.
EventState == {"none", "running", "complete"}

VARIABLES
    ready,       \* cursors of the ready queue
    pending,     \* cursors of the pending queue
    rslot,       \* ready.instr[p]: the instruction held at position p
    pslot,       \* pending.instr[p]
    completed,   \* pending.instr[p].completed
    event,       \* stream->sycl.events.buffer[p]
    nsub,        \* the number of instructions submitted so far
    fired        \* instructions whose callback has run (history)

vars == <<ready, pending, rslot, pslot, completed, event, nsub, fired>>

-----------------------------------------------------------------------------
(* Derived state. *)

\* The instructions visible to the launch path and to the progress path.
InReady   == {rslot[p] : p \in Slots(ready)}
InPending == {pslot[p] : p \in Slots(pending)}

\* The instructions the stream holds, ready or pending.
Outstanding == Size(ready) + Size(pending)

-----------------------------------------------------------------------------
(* Operations. *)

Init ==
    /\ ready = [r |-> 0, w |-> 0]
    /\ pending = [r |-> 0, w |-> 0]
    /\ rslot = [p \in Pos |-> NoInstr]
    /\ pslot = [p \in Pos |-> NoInstr]
    /\ completed = [p \in Pos |-> FALSE]
    /\ event = [p \in Pos |-> "none"]
    /\ nsub = 0
    /\ fired = {}

\* The device thread submits one instruction: it is throttled while the
\* stream holds Concurrency instructions; instruction_new returns NULL when
\* the ready queue is_full() (the caller retries later, a stutter); else
\* the instruction is written at ready.w and commit() advances ready.w.
Submit ==
    /\ nsub < MaxInstr
    /\ Outstanding < Concurrency
    /\ ~IsFull(ready)
    /\ rslot' = [rslot EXCEPT ![ready.w] = nsub + 1]
    /\ ready' = [ready EXCEPT !.w = Advance(ready.w, 1)]
    /\ nsub' = nsub + 1
    /\ UNCHANGED <<pending, pslot, completed, event, fired>>

\* launch_ready_instructions() stops after n moves when the ready queue is
\* empty or the pending queue is_full() with its write cursor n positions on.
LaunchStopsAt(n) ==
    /\ \A j \in 0 .. (n - 1) :
          ~IsFull([pending EXCEPT !.w = Advance(pending.w, j)])
    /\ n = Size(ready) \/ IsFull([pending EXCEPT !.w = Advance(pending.w, n)])

\* Mutant: the backend's sycl::event is never constructed at idx.
LaunchMovesNoEvent(n) ==
    LET moved == {Advance(pending.w, j) : j \in 0 .. (n - 1)}
        src(p) == Advance(ready.r, (p - pending.w) % Capacity)
    IN  /\ LaunchStopsAt(n)
        /\ pslot' = [p \in Pos |-> IF p \in moved THEN rslot[src(p)] ELSE pslot[p]]
        /\ completed' = [p \in Pos |-> IF p \in moved THEN FALSE ELSE completed[p]]
        /\ pending' = [pending EXCEPT !.w = Advance(pending.w, n)]
        /\ ready' = [ready EXCEPT !.r = Advance(ready.r, n)]
        /\ UNCHANGED <<rslot, nsub, fired, event>>

\* Mutant: the launch loop runs one entry past the one where it stops.
LaunchMovesOnePast(n) ==
    LET moved == {Advance(pending.w, j) : j \in 0 .. n}
        src(p) == Advance(ready.r, (p - pending.w) % Capacity)
    IN  /\ LaunchStopsAt(n)
        /\ pslot' = [p \in Pos |-> IF p \in moved THEN rslot[src(p)] ELSE pslot[p]]
        /\ completed' = [p \in Pos |-> IF p \in moved THEN FALSE ELSE completed[p]]
        /\ event' = [p \in Pos |-> IF p \in moved THEN "running" ELSE event[p]]
        /\ pending' = [pending EXCEPT !.w = Advance(pending.w, n + 1)]
        /\ ready' = [ready EXCEPT !.r = Advance(ready.r, n + 1)]
        /\ UNCHANGED <<rslot, nsub, fired>>

\* launch_ready_instructions(), when its loop moves n instructions: each
\* ready instruction in turn is copied to pending.instr[pending.w], not
\* completed, and handed to the backend with idx = pending.w: a kernel
\* through its format function, a copy through q.memcpy /
\* ext_oneapi_memcpy2d; both construct the sycl::event at idx and return
\* EINPROGRESS.  Both cursors advance past the moved entries.
LaunchMoves(n) ==
    LET moved == {Advance(pending.w, j) : j \in 0 .. (n - 1)}
        src(p) == Advance(ready.r, (p - pending.w) % Capacity)
    IN  /\ LaunchStopsAt(n)
        /\ pslot' = [p \in Pos |-> IF p \in moved THEN rslot[src(p)] ELSE pslot[p]]
        /\ completed' = [p \in Pos |-> IF p \in moved THEN FALSE ELSE completed[p]]
        /\ event' = [p \in Pos |-> IF p \in moved THEN "running" ELSE event[p]]
        /\ pending' = [pending EXCEPT !.w = Advance(pending.w, n)]
        /\ ready' = [ready EXCEPT !.r = Advance(ready.r, n)]
        /\ UNCHANGED <<rslot, nsub, fired>>

\* A call of launch_ready_instructions() that moves at least one entry.
LaunchReady == \E n \in 1 .. Size(ready) : LaunchMoves(n)

\* The SYCL runtime finishes the command of a pending slot; the queue is
\* out-of-order, so any running command may finish first.
DeviceComplete(p) ==
    /\ event[p] = "running"
    /\ event' = [event EXCEPT ![p] = "complete"]
    /\ UNCHANGED <<ready, pending, rslot, pslot, completed, nsub, fired>>

\* Instructions whose event the progress pass finds complete.
Done == {p \in Slots(pending) : ~completed[p] /\ event[p] = "complete"}

\* progress_pending_instructions(), when ok_p lies okp positions past r:
\* the SYCL stream_instructions_progress visits every pending position,
\* skips completed instructions, and for each whose event reports
\* `complete' destroys the event and calls complete_instruction(p), which
\* marks it completed and runs its callback once.  Then the read cursor is
\* committed over the completed prefix only: complete_instructions(ok_p),
\* ok_p the first position not completed.
ProgressCommits(okp) ==
    LET comp == [p \in Pos |-> completed[p] \/ p \in Done]
    IN  /\ IterateExit(pending, okp, {p \in Pos : comp[p]})
        /\ Done # {} \/ okp > 0
        /\ completed' = comp
        /\ event' = [p \in Pos |-> IF p \in Done THEN "none" ELSE event[p]]
        /\ fired' = fired \cup {pslot[p] : p \in Done}
        /\ pending' = [pending EXCEPT !.r = Advance(pending.r, okp)]
        /\ UNCHANGED <<ready, rslot, pslot, nsub>>

\* Mutant: the read cursor is committed to the value iterate() returns for
\* the progress lambda, which always returns true: the whole pending range.
ProgressPendingCommitAll ==
    /\ Done # {} \/ Size(pending) > 0
    /\ completed' = [p \in Pos |-> completed[p] \/ p \in Done]
    /\ event' = [p \in Pos |-> IF p \in Done THEN "none" ELSE event[p]]
    /\ fired' = fired \cup {pslot[p] : p \in Done}
    /\ pending' = [pending EXCEPT !.r = Advance(pending.r, Size(pending))]
    /\ UNCHANGED <<ready, rslot, pslot, nsub>>

\* A call of progress_pending_instructions() that changes something.
ProgressPending == \E okp \in 0 .. Size(pending) : ProgressCommits(okp)

Next ==
    \/ Submit
    \/ LaunchReady
    \/ \E p \in Pos : DeviceComplete(p)
    \/ ProgressPending

\* The device thread's loop keeps launching and progressing, and the GPU
\* finishes every command it was given; submissions are the program's.
Fairness ==
    /\ WF_vars(LaunchReady)
    /\ WF_vars(ProgressPending)
    /\ \A p \in Pos : WF_vars(DeviceComplete(p))

Spec == Init /\ [][Next]_vars /\ Fairness

-----------------------------------------------------------------------------
(* Properties. *)

TypeOK ==
    /\ ready \in Queue
    /\ pending \in Queue
    /\ rslot \in [Pos -> Instr \cup {NoInstr}]
    /\ pslot \in [Pos -> Instr \cup {NoInstr}]
    /\ completed \in [Pos -> BOOLEAN]
    /\ event \in [Pos -> EventState]
    /\ nsub \in 0 .. MaxInstr
    /\ fired \subseteq Instr

\* No committed instruction is lost: every submitted instruction whose
\* callback has not yet run is still held by the ready or the pending
\* queue, where launch_ready_instructions / progress_pending_instructions
\* will find it.  This is what is_full() must guarantee when the cursors
\* wrap around.
NoLostInstruction ==
    \A i \in 1 .. nsub : i \notin fired => i \in InReady \cup InPending

\* Every submitted instruction eventually has its completion callback run.
EveryInstructionFires ==
    \A i \in Instr : (i <= nsub) ~> (i \in fired)

\* The stream's contract, with the instruction count and the callbacks run
\* of this stream.
Contract == INSTANCE StreamContract

\* The stream implements its contract: launch_ready_instructions and the
\* GPU's completions are invisible steps, and each progress pass runs the
\* callbacks of committed instructions whose callback has not run yet,
\* never one a second time and never one of a slot no instruction was
\* written to, and every committed one at some pass.
ImplementsContract == Contract!Spec

\* The completion callbacks run in submission order: an instruction is
\* never reported complete before one submitted earlier on the stream
\* (the stream contract: completion is committed from the head only).
FiredInOrder ==
    \A j \in fired : \A i \in 1 .. (j - 1) : i \in fired
=============================================================================
