---------------------------- MODULE PoolAccounting ----------------------------
(***************************************************************************)
(* The exact arithmetic behind placement (pkg/pool/accounting.go,           *)
(* refresh.go): the capacity that a parent offers to volumes, the space     *)
(* that its file system must keep free, and the parent size that placement  *)
(* trusts.  Bytes are unsigned integers of one machine word; a sum or a     *)
(* product that the code does not guard wraps.                              *)
(***************************************************************************)
EXTENDS Integers

CONSTANT MaxUint  \* math.MaxUint64

\* The remainder of a division by 100 times a percentage fits a word.
ASSUME WordAssumption == MaxUint \in Nat /\ MaxUint >= 9900

Word == 0..MaxUint
Wrap(n) == n % (MaxUint + 1)
Percent == 0..100
\* An operation that returned an error.
Failed == -1
Larger(a, b) == IF a >= b THEN a ELSE b
Difference(a, b) == IF a > b THEN a - b ELSE 0

-----------------------------------------------------------------------------
\* Logical capacity

CeilPercent(value, percent) ==
  LET first == Wrap((value \div 100) * percent)
      partial == Wrap((value % 100) * percent)
      second == IF partial % 100 # 0 THEN partial \div 100 + 1 ELSE partial \div 100
  IN IF first > MaxUint - second THEN Failed ELSE first + second

\* The product has two words; the quotient must have one.
FloorMultiplyRatio(value, ratio) ==
  LET product == value * ratio.numerator
      high == product \div (MaxUint + 1)
  IN IF high >= ratio.denominator THEN Failed ELSE product \div ratio.denominator

Reserve(size, minBytes, minPercent) ==
  Larger(minBytes, CeilPercent(size, minPercent))
Usable(size, minBytes, minPercent) ==
  Difference(size, Reserve(size, minBytes, minPercent))
LogicalCapacity(size, minBytes, minPercent, ratio) ==
  FloorMultiplyRatio(Usable(size, minBytes, minPercent), ratio)

\* CalculateCapacity, for allocations that sum up to allocated.
LogicalAvailable(size, minBytes, minPercent, ratio, allocated) ==
  Difference(LogicalCapacity(size, minBytes, minPercent, ratio), allocated)

-----------------------------------------------------------------------------
\* Physical space

\* A statfs sample of blocks free blocks, each of blockSize bytes.
MeasurePhysicalSpace(blockSize, blocks, size) ==
  IF blocks # 0 /\ blockSize > MaxUint \div blocks THEN Failed
  ELSE IF blocks * blockSize > size THEN Failed ELSE blocks * blockSize

CheckPhysicalSpace(blockSize, blocks, size, requested, minBytes, minPercent) ==
  LET available == MeasurePhysicalSpace(blockSize, blocks, size) IN
  /\ requested <= available
  /\ available - requested >= Reserve(size, minBytes, minPercent)

-----------------------------------------------------------------------------
\* The size of a parent, as the provider reports it from time to time

Unobserved == [accepted |-> 0, observed |-> 0, healthy |-> FALSE]

\* A report newer than the last one; others are dropped.  A smaller size is a
\* regression: the accepted one stays.
Observe(snapshot, size) ==
  [accepted |-> Larger(snapshot.accepted, size), observed |-> size,
   healthy |-> size >= snapshot.accepted]

PlacementAllowed(snapshot) ==
  /\ snapshot.healthy /\ snapshot.accepted > 0
  /\ snapshot.observed >= snapshot.accepted
=============================================================================
