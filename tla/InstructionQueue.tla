-------------------------- MODULE InstructionQueue --------------------------
(***************************************************************************)
(* The fixed-capacity circular buffer of stream instructions,              *)
(* xkrt_stream_instruction_queue_t (include/xkrt/driver/stream.h).  A      *)
(* queue is a pair of cursors: r, the first instruction to process, and w, *)
(* the next position for inserting one.  Both range over 0..Capacity-1.    *)
(* The operators below are the queue's methods, translated as written:     *)
(* in particular IsFull compares w with r - 1 as plain integers, exactly   *)
(* as the C expression `pos.w == pos.r - 1` does.                          *)
(***************************************************************************)
EXTENDS Naturals, Integers, FiniteSets

CONSTANT Capacity   \* xkrt_stream_instruction_queue_t::capacity

ASSUME CapacityAssumption == Capacity \in Nat /\ Capacity >= 2

\* The positions of the buffer.
Pos == 0 .. (Capacity - 1)

\* A queue: its two cursors (struct pos) over the buffer.
Queue == [r : Pos, w : Pos]

\* is_full(): `w == r - 1`, with no reduction modulo the capacity.
IsFull(q) == q.w = q.r - 1

\* size(): the number of positions from r up to, excluding, w.
Size(q) == IF q.r <= q.w THEN q.w - q.r ELSE Capacity - q.r + q.w

\* The positions iterate() visits: r .. w-1, or r .. Capacity-1 then 0 .. w-1.
Slots(q) == IF q.r <= q.w THEN q.r .. (q.w - 1)
                          ELSE (q.r .. (Capacity - 1)) \cup (0 .. (q.w - 1))

\* The j-th position iterate() visits, counting from 0.
At(q, j) == (q.r + j) % Capacity

\* The cursor moved forward by n positions (the (x + 1) % capacity step).
Advance(c, n) == (c + n) % Capacity

\* iterate(process) returns the position of offset n when n is its exit,
\* ok being the positions where process(i) returns true: process held at
\* every earlier offset, and n is size() or process fails at offset n.
\* There is exactly one such n.
IterateExit(q, n, ok) ==
    /\ \A j \in 0 .. (n - 1) : At(q, j) \in ok
    /\ n = Size(q) \/ At(q, n) \notin ok
=============================================================================
