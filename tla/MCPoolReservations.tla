-------------------------- MODULE MCPoolReservations --------------------------
(* Two volumes that compete for parents with room for one. Requests for v1  *)
(* may be repeated and may name another pool than before.                   *)
EXTENDS PoolReservations

CONSTANTS v1, v2, f1, f2

MCPoolOf == [f \in Parents |-> IF f = f1 THEN 1 ELSE NPools]
\* One byte of every parent is kept free, and of the rest times 3/2 the code
\* offers one.
MCParentSize == [f \in Parents |-> 2]
MCRatio == [numerator |-> 3, denominator |-> 2]
MCSize == [v \in Volumes |-> 1]
MCPoolsFor == [v \in Volumes |-> IF v = v1 THEN Pools ELSE {1}]
MCMaxTries == [v \in Volumes |-> IF v = v1 THEN 2 ELSE 1]

\* The arithmetic against its definition, on sizes around zero, a multiple of
\* 100 and the largest word: a percentage is rounded up, and a product is
\* rounded down unless the quotient needs more than one word.
Sizes == 0..2 \cup 98..102 \cup (MaxUint - 102)..MaxUint
IsCeiling(r, value, percent) ==
  100 * r >= value * percent /\ 100 * (r - 1) < value * percent
IsFloor(r, value, ratio) ==
  IF r = Failed THEN value * ratio.numerator >= (MaxUint + 1) * ratio.denominator
  ELSE /\ r \in Word /\ r * ratio.denominator <= value * ratio.numerator
       /\ value * ratio.numerator < (r + 1) * ratio.denominator
ASSUME PercentIsExact ==
  \A value \in Sizes, percent \in Percent :
    IsCeiling(CeilPercent(value, percent), value, percent)
ASSUME RatioIsExact ==
  \A value \in Sizes, n, d \in {1, 2, 3, 7, 100, MaxUint - 1, MaxUint} :
    LET ratio == [numerator |-> n, denominator |-> d]
    IN IsFloor(FloorMultiplyRatio(value, ratio), value, ratio)
=============================================================================
