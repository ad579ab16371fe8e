------------------------- MODULE PoolAccountingProofs -------------------------
(***************************************************************************)
(* What the arithmetic of module PoolAccounting computes, for every word    *)
(* size.                                                                    *)
(***************************************************************************)
EXTENDS PoolAccounting, TLAPS

\* A number below the word size does not wrap.
LEMMA WrapIdentity == \A n \in Word : Wrap(n) = n
BY WordAssumption DEF Word, Wrap

\* The two parts of a percentage: of whole hundreds, and of what is left.
LEMMA PercentParts ==
  ASSUME NEW value \in Word, NEW percent \in Percent
  PROVE  LET q == value \div 100
             s == value % 100
         IN /\ q \in Nat /\ s \in 0..99 /\ value = 100 * q + s
            /\ q * percent \in Nat /\ q * percent <= 100 * q
            /\ s * percent \in Nat /\ s * percent <= 100 * s
<1> DEFINE q == value \div 100
           s == value % 100
<1>1. q \in Nat /\ s \in 0..99 /\ value = 100 * q + s
  BY WordAssumption DEF Word
<1>2. \A k \in Nat : k * percent \in Nat /\ k * percent <= 100 * k
  BY DEF Percent
<1>3. q * percent \in Nat /\ q * percent <= 100 * q
  <2> HIDE DEF q
  <2> QED BY <1>1, <1>2
<1>4. s * percent \in Nat /\ s * percent <= 100 * s
  <2> HIDE DEF s
  <2> QED BY <1>1, <1>2
<1> QED BY <1>1, <1>3, <1>4

\* ceilPercent is the exact ceiling, is at most the value and never fails: the
\* products do not wrap and the sum does not overflow, so the reserve of a
\* parent is what its configuration says whatever its size.
THEOREM CeilPercentExact ==
  ASSUME NEW value \in Word, NEW percent \in Percent
  PROVE  /\ CeilPercent(value, percent) \in 0..value
         /\ 100 * CeilPercent(value, percent) >= value * percent
         /\ 100 * (CeilPercent(value, percent) - 1) < value * percent
<1> DEFINE q == value \div 100
           s == value % 100
           a == q * percent
           b == s * percent
           up == IF b % 100 # 0 THEN b \div 100 + 1 ELSE b \div 100
<1>1. /\ q \in Nat /\ s \in 0..99 /\ value = 100 * q + s
      /\ a \in Nat /\ a <= 100 * q /\ b \in Nat /\ b <= 100 * s
  BY PercentParts
<1>2. value * percent = 100 * a + b
  <2>1. \A x, y \in Nat : (100 * x + y) * percent = 100 * (x * percent) + y * percent
    BY DEF Percent
  <2> HIDE DEF q, s
  <2> QED BY <1>1, <2>1
<1>3. a \in Word /\ b \in Word
  <2> HIDE DEF q, s, a, b
  <2> QED BY <1>1, WordAssumption DEF Word
<1>4. up \in Nat /\ 100 * up >= b /\ 100 * (up - 1) < b /\ up <= s
  <2> HIDE DEF a, b, s, q
  <2> QED BY <1>1
<1>5. a + up <= value /\ ~(a > MaxUint - up)
  <2> HIDE DEF q, s, a, b, up
  <2> QED BY <1>1, <1>4, WordAssumption DEF Word
<1>6. CeilPercent(value, percent) = a + up
  <2>1. Wrap(a) = a /\ Wrap(b) = b
    BY <1>3, WrapIdentity
  <2> QED BY <2>1, <1>5 DEF CeilPercent
<1> HIDE DEF q, s, a, b, up
<1> QED BY <1>1, <1>2, <1>4, <1>5, <1>6

\* Integer division, without the operator.
LEMMA Division ==
  \A n \in Nat, d \in Nat \ {0} :
    n \div d \in Nat /\ (n \div d) * d <= n /\ n < (n \div d + 1) * d
<1> SUFFICES ASSUME NEW n \in Nat, NEW d \in Nat \ {0}
             PROVE  n \div d \in Nat /\ (n \div d) * d <= n /\ n < (n \div d + 1) * d
  OBVIOUS
<1> DEFINE k == n \div d
           m == n % d
<1>1. k \in Int /\ m \in 0..(d - 1) /\ n = d * k + m
  OBVIOUS
<1> HIDE DEF k, m
<1>2. k >= 0
  <2> SUFFICES ASSUME k <= -1 PROVE FALSE
    BY <1>1
  <2>1. d * k <= -d
    BY <1>1
  <2> QED BY <2>1, <1>1
<1>3. (k + 1) * d = d * k + d /\ k * d = d * k
  BY <1>1
<1>4. k \in Nat /\ k * d <= n /\ n < (k + 1) * d
  BY <1>1, <1>2, <1>3
<1> QED BY <1>4 DEF k

Ratios == [numerator : Word \ {0}, denominator : Word \ {0}]

\* floorMultiplyRatio is the exact quotient rounded down, and fails exactly if
\* that needs more than one word: its test of the high word of the product
\* neither refuses a capacity that fits nor lets one wrap.
THEOREM FloorMultiplyExact ==
  ASSUME NEW value \in Word, NEW ratio \in Ratios
  PROVE  LET r == FloorMultiplyRatio(value, ratio)
             n == value * ratio.numerator
             d == ratio.denominator
         IN /\ r = Failed <=> n >= (MaxUint + 1) * d
            /\ r # Failed => r \in Word /\ r * d <= n /\ n < (r + 1) * d
<1> DEFINE n == value * ratio.numerator
           d == ratio.denominator
           W == MaxUint + 1
           high == n \div W
           k == n \div d
<1>1. n \in Nat /\ d \in Nat \ {0} /\ W \in Nat \ {0} /\ Failed = -1
  <2>1. value \in Nat /\ ratio.numerator \in Nat /\ d \in Nat \ {0}
    BY WordAssumption DEF Word, Ratios
  <2>2. \A x, y \in Nat : x * y \in Nat
    OBVIOUS
  <2> QED BY <2>1, <2>2, WordAssumption DEF Failed
<1>2. FloorMultiplyRatio(value, ratio) = IF high >= d THEN Failed ELSE k
  BY DEF FloorMultiplyRatio
<1> HIDE DEF n, d, W
<1>3. high \in Nat /\ high * W <= n /\ n < (high + 1) * W
  BY <1>1, Division
<1>4. k \in Nat /\ k * d <= n /\ n < (k + 1) * d
  BY <1>1, Division
<1> HIDE DEF high, k
<1>5. \A x, y, z \in Nat : x <= y => x * z <= y * z
  OBVIOUS
<1>6. high >= d <=> n >= W * d
  <2>1. CASE high >= d
    <3>1. d * W <= high * W
      BY <2>1, <1>1, <1>3, <1>5
    <3>2. d * W = W * d /\ d * W \in Nat /\ high * W \in Nat
      BY <1>1, <1>3
    <3> QED BY <2>1, <3>1, <3>2, <1>1, <1>3
  <2>2. CASE high < d
    <3>1. (high + 1) * W <= d * W
      <4>1. high + 1 \in Nat /\ high + 1 <= d
        BY <2>2, <1>1, <1>3
      <4> QED BY <4>1, <1>1, <1>5
    <3>2. d * W = W * d /\ d * W \in Nat /\ (high + 1) * W \in Nat
      BY <1>1, <1>3
    <3> QED BY <2>2, <3>1, <3>2, <1>1, <1>3
  <2> QED BY <2>1, <2>2, <1>1, <1>3
<1>7. ASSUME n < W * d PROVE k \in Word
  <2> SUFFICES ASSUME k >= W PROVE FALSE
    BY <1>1, <1>4, WordAssumption DEF Word, W
  <2>1. W * d <= k * d
    BY <1>1, <1>4, <1>5
  <2>2. W * d \in Nat /\ k * d \in Nat
    BY <1>1, <1>4
  <2> QED BY <2>1, <2>2, <1>4, <1>7, <1>1
<1>8. W * d \in Nat
  BY <1>1
<1>9. k # Failed
  BY <1>1, <1>4
<1>10. /\ FloorMultiplyRatio(value, ratio) = Failed <=> n >= W * d
       /\ FloorMultiplyRatio(value, ratio) # Failed =>
            /\ FloorMultiplyRatio(value, ratio) \in Word
            /\ FloorMultiplyRatio(value, ratio) * d <= n
            /\ n < (FloorMultiplyRatio(value, ratio) + 1) * d
  BY <1>1, <1>2, <1>4, <1>6, <1>7, <1>8, <1>9
<1> QED BY <1>10 DEF n, d, W

\* Placement admits a request only if all reservations, that one included, fit
\* the capacity, which is at most the configured ratio times what the parent
\* has above its reserve.  An overflow admits nothing.
THEOREM AdmittedFits ==
  ASSUME NEW size \in Word \ {0}, NEW minBytes \in Word, NEW minPercent \in Percent,
         NEW ratio \in Ratios, NEW allocated \in Nat, NEW requested \in Nat \ {0},
         requested <= LogicalAvailable(size, minBytes, minPercent, ratio, allocated)
  PROVE  LET reserve == Reserve(size, minBytes, minPercent)
             total == allocated + requested
         IN /\ total <= LogicalCapacity(size, minBytes, minPercent, ratio)
            /\ reserve < size
            /\ total * ratio.denominator <= (size - reserve) * ratio.numerator
<1> DEFINE reserve == Reserve(size, minBytes, minPercent)
           usable == Usable(size, minBytes, minPercent)
           capacity == LogicalCapacity(size, minBytes, minPercent, ratio)
           total == allocated + requested
           n == ratio.numerator
           d == ratio.denominator
<1>1. size \in Nat \ {0} /\ minBytes \in Nat /\ n \in Nat /\ d \in Nat \ {0}
  BY WordAssumption DEF Word, Ratios
<1>2. CeilPercent(size, minPercent) \in Nat
  <2>1. CeilPercent(size, minPercent) \in 0..size
    BY CeilPercentExact
  <2> QED BY <2>1, <1>1
<1>3. reserve \in Nat
  BY <1>1, <1>2 DEF Reserve, Larger
<1>4. usable \in Word /\ usable \in Nat /\ usable = IF size > reserve THEN size - reserve ELSE 0
  <2>1. usable = IF size > reserve THEN size - reserve ELSE 0
    BY DEF Usable, Difference
  <2> HIDE DEF usable, reserve
  <2> QED BY <2>1, <1>1, <1>3, WordAssumption DEF Word
<1>5. capacity = FloorMultiplyRatio(usable, ratio)
  BY DEF LogicalCapacity
<1>6. capacity = Failed \/ (capacity \in Nat /\ capacity * d <= usable * n)
  <2> HIDE DEF usable, capacity, n, d
  <2>1. FloorMultiplyRatio(usable, ratio) # Failed =>
          /\ FloorMultiplyRatio(usable, ratio) \in Word
          /\ FloorMultiplyRatio(usable, ratio) * d <= usable * n
    BY <1>4, FloorMultiplyExact DEF n, d
  <2> QED BY <2>1, <1>5, WordAssumption DEF Word
<1>7. requested <= IF capacity > allocated THEN capacity - allocated ELSE 0
  BY DEF LogicalAvailable, Difference
<1> HIDE DEF capacity, usable, reserve, n, d
<1>8. capacity \in Nat /\ total <= capacity /\ total \in Nat \ {0}
  BY <1>6, <1>7 DEF Failed
<1>9. total * d <= capacity * d /\ total * d \in Nat \ {0} /\ capacity * d \in Nat
  BY <1>1, <1>8
<1>10. capacity * d <= usable * n /\ usable * n \in Nat
  BY <1>1, <1>4, <1>6, <1>8 DEF Failed
<1>11. usable # 0
  BY <1>1, <1>9, <1>10
<1>12. reserve < size /\ usable = size - reserve
  BY <1>1, <1>3, <1>4, <1>11
<1>13. total * d <= (size - reserve) * n
  BY <1>9, <1>10, <1>12
<1> QED BY <1>8, <1>12, <1>13 DEF capacity, reserve, n, d

\* The physical check admits a request only if the space it leaves covers the
\* reserve, from a sample that is no larger than the parent: an overflowing or
\* implausible sample admits nothing.
THEOREM PhysicalFits ==
  ASSUME NEW size \in Word \ {0}, NEW minBytes \in Word, NEW minPercent \in Percent,
         NEW blockSize \in Word \ {0}, NEW blocks \in Word, NEW requested \in Nat,
         CheckPhysicalSpace(blockSize, blocks, size, requested, minBytes, minPercent)
  PROVE  /\ blocks * blockSize <= size
         /\ requested + Reserve(size, minBytes, minPercent) <= blocks * blockSize
<1>1. CeilPercent(size, minPercent) \in Nat /\ size \in Nat /\ minBytes \in Nat
  <2>1. CeilPercent(size, minPercent) \in 0..size /\ size \in Nat /\ minBytes \in Nat
    BY CeilPercentExact, WordAssumption DEF Word
  <2> QED BY <2>1
<1>2. Reserve(size, minBytes, minPercent) \in Nat
  BY <1>1 DEF Reserve, Larger
<1> DEFINE free == blocks * blockSize
           available == MeasurePhysicalSpace(blockSize, blocks, size)
<1>3. free \in Nat
  <2>1. blocks \in Nat /\ blockSize \in Nat
    BY WordAssumption DEF Word
  <2> QED BY <2>1
<1>4. available = Failed \/ (available = free /\ free <= size)
  <2>1. available = Failed \/ (available = free /\ ~(free > size))
    BY DEF MeasurePhysicalSpace
  <2> HIDE DEF available, free
  <2> QED BY <2>1, <1>1, <1>3
<1>5. requested <= available /\ available - requested >= Reserve(size, minBytes, minPercent)
  BY DEF CheckPhysicalSpace
<1> HIDE DEF free, available
<1>6. free <= size /\ requested + Reserve(size, minBytes, minPercent) <= free
  BY <1>2, <1>3, <1>4, <1>5 DEF Failed
<1> QED BY <1>6 DEF free

\* However the provider's reports go up and down, the size that placement uses
\* never shrinks, and after a smaller report nothing is placed until the size
\* is back.
THEOREM AcceptedNeverShrinks ==
  ASSUME NEW snapshot \in [accepted : Nat, observed : Nat, healthy : BOOLEAN],
         NEW size \in Nat
  PROVE  LET next == Observe(snapshot, size)
         IN /\ next \in [accepted : Nat, observed : Nat, healthy : BOOLEAN]
            /\ next.accepted >= snapshot.accepted /\ next.accepted >= size
            /\ PlacementAllowed(next) => size >= snapshot.accepted
BY DEF Observe, PlacementAllowed, Larger
=============================================================================
