----------------------- MODULE InstructionQueueProofs -----------------------
(***************************************************************************)
(* Facts about the cursor arithmetic of xkrt_stream_instruction_queue_t,   *)
(* for every capacity: where the i-th visited position lies, how size()    *)
(* changes when a cursor advances, and which positions iterate() visits.  *)
(***************************************************************************)
EXTENDS InstructionQueue, TLAPS

\* A value below the capacity is its own residue.
LEMMA ModSmall ==
    ASSUME NEW x \in 0 .. (Capacity - 1)
    PROVE  x % Capacity = x
BY CapacityAssumption

\* A value between the capacity and twice it wraps once.
LEMMA ModWrap ==
    ASSUME NEW x \in Capacity .. (2 * Capacity - 1)
    PROVE  x % Capacity = x - Capacity
BY CapacityAssumption

\* Advancing a cursor always lands on a position of the buffer.
LEMMA AdvanceInPos ==
    ASSUME NEW c \in Int, NEW n \in Int
    PROVE  Advance(c, n) \in Pos
BY CapacityAssumption DEF Advance, Pos

\* The j-th visited position is a position of the buffer.
LEMMA AtInPos ==
    ASSUME NEW q \in Queue, NEW j \in Int
    PROVE  At(q, j) \in Pos
BY CapacityAssumption DEF At, Pos, Queue

\* size() never reaches the capacity.
LEMMA SizeRange ==
    ASSUME NEW q \in Queue
    PROVE  Size(q) \in 0 .. (Capacity - 1)
BY CapacityAssumption DEF Size, Queue, Pos

\* A residue shifted back below zero wraps once upward.
LEMMA ModNeg ==
    ASSUME NEW x \in (-Capacity) .. (-1)
    PROVE  x % Capacity = x + Capacity
BY CapacityAssumption

\* A value between twice and three times the capacity wraps twice.
LEMMA ModWrap2 ==
    ASSUME NEW x \in (2 * Capacity) .. (3 * Capacity - 1)
    PROVE  x % Capacity = x - 2 * Capacity
BY CapacityAssumption

\* The write cursor is the position size() steps past the read cursor.
LEMMA WriteAt ==
    ASSUME NEW q \in Queue
    PROVE  q.w = At(q, Size(q))
<1>1. q.r \in 0 .. (Capacity - 1) /\ q.w \in 0 .. (Capacity - 1)
  BY DEF Queue, Pos
<1>2. CASE q.r <= q.w
  <2>1. q.r + Size(q) = q.w BY <1>1, <1>2, CapacityAssumption DEF Size
  <2>2. q.w % Capacity = q.w BY <1>1, ModSmall
  <2>3. QED BY <2>1, <2>2 DEF At
<1>3. CASE q.r > q.w
  <2>1. q.r + Size(q) = q.w + Capacity BY <1>1, <1>3, CapacityAssumption DEF Size
  <2>2. q.w + Capacity \in Capacity .. (2 * Capacity - 1)
    BY <1>1, CapacityAssumption
  <2>3. PICK y \in Capacity .. (2 * Capacity - 1) : y = q.w + Capacity BY <2>2
  <2>4. y % Capacity = y - Capacity BY ModWrap
  <2>5. At(q, Size(q)) = y % Capacity BY <2>1, <2>3 DEF At
  <2>6. QED BY <1>1, <2>3, <2>4, <2>5, CapacityAssumption
<1>4. QED BY <1>1, <1>2, <1>3, CapacityAssumption

\* Going j positions forward from c and then back to c leaves j.
LEMMA BackOffset ==
    ASSUME NEW c \in Pos, NEW j \in 0 .. (Capacity - 1)
    PROVE  (Advance(c, j) - c) % Capacity = j
<1>1. CASE c + j < Capacity
  <2>1. c + j \in 0 .. (Capacity - 1) BY <1>1, CapacityAssumption DEF Pos
  <2>2. (c + j) % Capacity = c + j BY <2>1, ModSmall
  <2>3. j % Capacity = j BY ModSmall
  <2>4. Advance(c, j) - c = j BY <2>2, CapacityAssumption DEF Advance, Pos
  <2>5. QED BY <2>3, <2>4
<1>2. CASE c + j >= Capacity
  <2>1. c + j \in Capacity .. (2 * Capacity - 1) BY <1>2, CapacityAssumption DEF Pos
  <2>2. PICK y \in Capacity .. (2 * Capacity - 1) : y = c + j BY <2>1
  <2>3. y % Capacity = y - Capacity BY ModWrap
  <2>4. PICK z \in (-Capacity) .. (-1) : z = j - Capacity BY CapacityAssumption
  <2>5. z % Capacity = z + Capacity BY ModNeg
  <2>6. (y - Capacity) - c = z BY <2>2, <2>4, CapacityAssumption DEF Pos
  <2>7. Advance(c, j) = y - Capacity BY <2>2, <2>3 DEF Advance
  <2>8. (Advance(c, j) - c) % Capacity = z % Capacity BY <2>6, <2>7
  <2>9. QED BY <2>4, <2>5, <2>8, CapacityAssumption
<1>3. QED BY <1>1, <1>2, CapacityAssumption DEF Pos

\* Two offsets below the capacity that visit the same position are equal.
LEMMA AtInjective ==
    ASSUME NEW q \in Queue, NEW j \in 0 .. (Capacity - 1),
           NEW k \in 0 .. (Capacity - 1), At(q, j) = At(q, k)
    PROVE  j = k
<1>1. q.r \in Pos BY DEF Queue
<1>2. (Advance(q.r, j) - q.r) % Capacity = j BY <1>1, BackOffset
<1>3. (Advance(q.r, k) - q.r) % Capacity = k BY <1>1, BackOffset
<1>4. Advance(q.r, j) = Advance(q.r, k) BY DEF At, Advance
<1>5. QED BY <1>2, <1>3, <1>4

\* The residue of a value of 0 .. 3 * Capacity - 1, case by case.
LEMMA ModCases ==
    ASSUME NEW x \in 0 .. (3 * Capacity - 1)
    PROVE  x % Capacity = IF x < Capacity THEN x
                          ELSE IF x < 2 * Capacity THEN x - Capacity
                          ELSE x - 2 * Capacity
<1>1. CASE x < Capacity
  <2>1. x \in 0 .. (Capacity - 1) BY <1>1, CapacityAssumption
  <2>2. QED BY <1>1, <2>1, ModSmall
<1>2. CASE x >= Capacity /\ x < 2 * Capacity
  <2>1. x \in Capacity .. (2 * Capacity - 1) BY <1>2, CapacityAssumption
  <2>2. QED BY <1>2, <2>1, CapacityAssumption
<1>3. CASE x >= 2 * Capacity
  <2>1. x \in (2 * Capacity) .. (3 * Capacity - 1) BY <1>3, CapacityAssumption
  <2>2. QED BY <1>3, <2>1, CapacityAssumption
<1>4. QED BY <1>1, <1>2, <1>3, CapacityAssumption

\* Moving a cursor j then k positions is moving it j + k positions.
LEMMA AdvanceAdd ==
    ASSUME NEW c \in Pos, NEW j \in 0 .. (Capacity - 1),
           NEW k \in 0 .. (Capacity - 1)
    PROVE  Advance(Advance(c, j), k) = Advance(c, j + k)
<1>1. c + j \in 0 .. (3 * Capacity - 1) BY CapacityAssumption DEF Pos
<1>2. (c + j) % Capacity = IF c + j < Capacity THEN c + j ELSE c + j - Capacity
  BY <1>1, ModCases, CapacityAssumption DEF Pos
<1>3. ((c + j) % Capacity) + k \in 0 .. (3 * Capacity - 1)
  BY <1>2, CapacityAssumption DEF Pos
<1>4. c + j + k \in 0 .. (3 * Capacity - 1) BY CapacityAssumption DEF Pos
<1>5. QED BY <1>2, <1>3, <1>4, ModCases, CapacityAssumption DEF Advance, Pos

\* A cursor moved by less than the capacity wraps at most once.
LEMMA AdvanceCases ==
    ASSUME NEW c \in Pos, NEW n \in 0 .. (Capacity - 1)
    PROVE  Advance(c, n) = IF c + n < Capacity THEN c + n ELSE c + n - Capacity
<1>1. CASE c + n < Capacity
  <2>1. PICK y \in 0 .. (Capacity - 1) : y = c + n BY <1>1, CapacityAssumption DEF Pos
  <2>2. y % Capacity = y BY ModSmall
  <2>3. QED BY <1>1, <2>1, <2>2 DEF Advance
<1>2. CASE c + n >= Capacity
  <2>1. PICK y \in Capacity .. (2 * Capacity - 1) : y = c + n
    BY <1>2, CapacityAssumption DEF Pos
  <2>2. y % Capacity = y - Capacity BY ModWrap
  <2>3. QED BY <1>2, <2>1, <2>2, CapacityAssumption DEF Advance, Pos
<1>3. QED BY <1>1, <1>2, CapacityAssumption DEF Pos

\* The j-th visited position is the read cursor moved j positions.
LEMMA AtAdvance ==
    ASSUME NEW q \in Queue, NEW j \in Int
    PROVE  At(q, j) = Advance(q.r, j)
BY DEF At, Advance

\* Writing n entries (commit() of n) grows size() by n, modulo the capacity:
\* when the write cursor catches up with the read cursor size() restarts.
LEMMA SizePush ==
    ASSUME NEW q \in Queue, NEW n \in 0 .. (Capacity - 1)
    PROVE  Size([q EXCEPT !.w = Advance(q.w, n)])
             = IF Size(q) + n < Capacity THEN Size(q) + n
                                         ELSE Size(q) + n - Capacity
<1>1. q.r \in Pos /\ q.w \in Pos BY DEF Queue
<1>2. Advance(q.w, n) = IF q.w + n < Capacity THEN q.w + n ELSE q.w + n - Capacity
  BY <1>1, AdvanceCases
<1>3. QED BY <1>1, <1>2, CapacityAssumption DEF Size, Pos

\* Consuming n <= size() entries (complete_instructions) shrinks size() by n.
LEMMA SizePop ==
    ASSUME NEW q \in Queue, NEW n \in 0 .. Size(q)
    PROVE  Size([q EXCEPT !.r = Advance(q.r, n)]) = Size(q) - n
<1>1. q.r \in Pos /\ q.w \in Pos BY DEF Queue
<1>2. Size(q) \in 0 .. (Capacity - 1) BY SizeRange
<1>3. n \in 0 .. (Capacity - 1) BY <1>2, CapacityAssumption
<1>4. Advance(q.r, n) = IF q.r + n < Capacity THEN q.r + n ELSE q.r + n - Capacity
  BY <1>1, <1>3, AdvanceCases
<1>5. QED BY <1>1, <1>2, <1>4, CapacityAssumption DEF Size, Pos

\* After consuming n entries, offset j visits what offset n + j visited.
LEMMA AtPop ==
    ASSUME NEW q \in Queue, NEW n \in 0 .. (Capacity - 1),
           NEW j \in 0 .. (Capacity - 1)
    PROVE  At([q EXCEPT !.r = Advance(q.r, n)], j) = At(q, n + j)
<1>1. q.r \in Pos BY DEF Queue
<1>2. Advance(Advance(q.r, n), j) = Advance(q.r, n + j) BY <1>1, AdvanceAdd
<1>3. QED BY <1>2 DEF At, Advance
\* The positions iterate() visits are the offsets 0 .. size()-1 from r.
LEMMA SlotsAt ==
    ASSUME NEW q \in Queue
    PROVE  Slots(q) = {At(q, j) : j \in 0 .. (Size(q) - 1)}
<1>1. q.r \in Pos /\ q.w \in Pos BY DEF Queue
<1>2. Size(q) \in 0 .. (Capacity - 1) BY SizeRange
<1>3. ASSUME NEW j \in 0 .. (Size(q) - 1)
      PROVE  At(q, j) = IF q.r + j < Capacity THEN q.r + j ELSE q.r + j - Capacity
  <2>1. j \in 0 .. (Capacity - 1) BY <1>2, CapacityAssumption
  <2>2. Advance(q.r, j) = IF q.r + j < Capacity THEN q.r + j ELSE q.r + j - Capacity
    BY <1>1, <2>1, AdvanceCases
  <2>3. QED BY <2>2 DEF At, Advance
<1>4. Slots(q) \subseteq {At(q, j) : j \in 0 .. (Size(q) - 1)}
  <2>1. SUFFICES ASSUME NEW p \in Slots(q)
                 PROVE  \E j \in 0 .. (Size(q) - 1) : At(q, j) = p
    OBVIOUS
  <2>2. CASE p >= q.r
    <3>1. p - q.r \in 0 .. (Size(q) - 1) BY <1>1, <2>2, CapacityAssumption DEF Slots, Size, Pos
    <3>2. At(q, p - q.r) = p BY <1>1, <1>3, <3>1, <2>2, CapacityAssumption DEF Slots, Pos
    <3>3. QED BY <3>1, <3>2
  <2>3. CASE p < q.r
    <3>1. p + Capacity - q.r \in 0 .. (Size(q) - 1)
      BY <1>1, <2>3, CapacityAssumption DEF Slots, Size, Pos
    <3>2. At(q, p + Capacity - q.r) = p
      BY <1>1, <1>3, <3>1, <2>3, CapacityAssumption DEF Slots, Pos
    <3>3. QED BY <3>1, <3>2
  <2>4. p \in Int /\ q.r \in Int BY <1>1, CapacityAssumption DEF Slots, Pos
  <2>5. QED BY <2>2, <2>3, <2>4
<1>5. {At(q, j) : j \in 0 .. (Size(q) - 1)} \subseteq Slots(q)
  <2>1. SUFFICES ASSUME NEW j \in 0 .. (Size(q) - 1)
                 PROVE  At(q, j) \in Slots(q)
    OBVIOUS
  <2>2. QED BY <1>1, <1>3, CapacityAssumption DEF Slots, Size, Pos
<1>6. QED BY <1>4, <1>5
=============================================================================
