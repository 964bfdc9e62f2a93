-------------------------------- MODULE VarDiff --------------------------------
(***************************************************************************)
(* The variable difficulty of one client (engine/lib/varDiff.js): a ring   *)
(* buffer of the times between its shares, and the difficulty a retarget   *)
(* asks for.  Times are in seconds; difficulties are in the smallest unit  *)
(* toFixed keeps.                                                          *)
(***************************************************************************)
EXTENDS Integers, Sequences, Functions

CONSTANTS
  TargetTime,      \* varDiffOptions.targetTime
  RetargetTime,    \* varDiffOptions.retargetTime
  VariancePercent, \* varDiffOptions.variancePercent
  MinDiff,         \* varDiffOptions.minDiff
  MaxDiff,         \* varDiffOptions.maxDiff
  X2Mode,          \* varDiffOptions.x2mode
  MaxGap           \* bound: longer times between shares are not told apart

ASSUME VarDiffAssumption ==
  /\ {TargetTime, RetargetTime, MinDiff, MaxDiff, MaxGap} \subseteq Nat \ {0}
  /\ VariancePercent \in 0 .. 100 /\ MinDiff <= MaxDiff /\ X2Mode \in BOOLEAN

\* retargetTime / targetTime * 4, which the buffer's length can only equal if
\* it is an integer.
BufferSize    == (4 * RetargetTime) \div TargetTime
SizeIsInteger == (4 * RetargetTime) % TargetTime = 0

\* data.length === maxSize
Fills(n) == SizeIsInteger /\ n = BufferSize

-------------------------------------------------------------------------------
(* RingBuffer *)

EmptyRing == [data |-> <<>>, cursor |-> 0, isFull |-> FALSE]

\* A slip: the slot after the oldest one is written.
RingAppendAhead(ring, x) ==
  IF ring.isFull
  THEN [ring EXCEPT !.data[((ring.cursor + 1) % BufferSize) + 1] = x,
                    !.cursor = (@ + 1) % BufferSize]
  ELSE LET full == Fills(Len(ring.data) + 1)
       IN  [data |-> Append(ring.data, x), isFull |-> full,
            cursor |-> IF full THEN 0 ELSE ring.cursor + 1]

RingAppend(ring, x) ==
  IF ring.isFull
  THEN [ring EXCEPT !.data[ring.cursor + 1] = x, !.cursor = (@ + 1) % BufferSize]
  ELSE LET full == Fills(Len(ring.data) + 1)
       IN  [data |-> Append(ring.data, x), isFull |-> full,
            cursor |-> IF full THEN 0 ELSE ring.cursor + 1]

RingSize(ring) == IF ring.isFull THEN BufferSize ELSE ring.cursor

RingSum(ring) == FoldFunction(+, 0, ring.data)

-------------------------------------------------------------------------------
(* manageClient *)

\* lastTs and lastRtc, as times ago; halves of a second for lastRtc, which
\* starts half a retargetTime back.
NewMeter == [started |-> FALSE, ring |-> EmptyRing, sinceLast |-> 0, halvesSinceRtc |-> 0]

Capped(x, limit) == IF x > limit THEN limit ELSE x

\* A second passes.
Aged(meter) ==
  IF ~meter.started THEN meter
  ELSE [meter EXCEPT !.sinceLast = Capped(@ + 1, MaxGap),
                     !.halvesSinceRtc = Capped(@ + 2, 2 * RetargetTime)]

\* avg > tMax and avg < tMin
TooSlow(ring) == 100 * RingSum(ring) > RingSize(ring) * TargetTime * (100 + VariancePercent)
TooFast(ring) == 100 * RingSum(ring) < RingSize(ring) * TargetTime * (100 - VariancePercent)

\* difficulty * targetTime / avg, rounded as toFixed does; no limit if avg is 0
Scaled(ring, difficulty) ==
  LET a == difficulty * TargetTime * RingSize(ring)
      b == RingSum(ring)
  IN  IF b = 0 THEN MaxDiff + 1 ELSE (2 * a + b) \div (2 * b)

\* A slip: a faster miner's difficulty has no upper end.
NewDifficultyUnbounded(ring, difficulty) ==
  IF TooSlow(ring) /\ difficulty > MinDiff
  THEN LET d == IF X2Mode THEN (difficulty + 1) \div 2 ELSE Scaled(ring, difficulty)
       IN  IF d < MinDiff THEN MinDiff ELSE d
  ELSE IF TooFast(ring) THEN IF X2Mode THEN 2 * difficulty ELSE Scaled(ring, difficulty)
  ELSE 0

\* The difficulty a retarget asks for, 0 for none.
NewDifficulty(ring, difficulty) ==
  IF TooSlow(ring) /\ difficulty > MinDiff
  THEN LET d == IF X2Mode THEN (difficulty + 1) \div 2 ELSE Scaled(ring, difficulty)
       IN  IF d < MinDiff THEN MinDiff ELSE d
  ELSE IF TooFast(ring)
  THEN Capped(IF X2Mode THEN 2 * difficulty ELSE Scaled(ring, difficulty), MaxDiff)
  ELSE 0

\* The meter's buffer with the share that arrives now.
Filled(meter) == RingAppend(meter.ring, meter.sinceLast)

Due(meter) == meter.started /\ meter.halvesSinceRtc >= 2 * RetargetTime

\* What the 'submit' listener emits, and what it leaves behind.
Retarget(meter, difficulty) ==
  IF Due(meter) THEN NewDifficulty(Filled(meter), difficulty) ELSE 0

Metered(meter, difficulty) ==
  IF ~meter.started
  THEN [started |-> TRUE, ring |-> EmptyRing, sinceLast |-> 0, halvesSinceRtc |-> RetargetTime]
  ELSE [meter EXCEPT
          !.ring = IF Retarget(meter, difficulty) = 0 THEN Filled(meter) ELSE EmptyRing,
          !.sinceLast = 0,
          !.halvesSinceRtc = IF Due(meter) THEN 0 ELSE @]
===============================================================================
