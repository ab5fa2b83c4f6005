---------------------------- MODULE RelativeTime ----------------------------
(***************************************************************************)
(* parse_time of time.cpp, for a text that is a number with a unit: what   *)
(* it computes in 64-bit words, and when it refuses.                       *)
(***************************************************************************)
EXTENDS Integers

CONSTANTS
  MaxU64, MaxI64,  \* the largest uint64_t and the largest int64_t
  MaxScale,        \* a fraction has at most 18 digits: it is below 10^18
  Units,           \* "" is nanoseconds
  Multiplier       \* the nanoseconds of a unit

ASSUME WidthAssumption ==
  /\ MaxU64 \in Nat /\ MaxI64 \in 1..MaxU64 /\ MaxScale \in 1..MaxU64
  /\ Multiplier \in [Units -> 1..MaxI64]

\* A number as it is written: scale is the power of ten below which the digits
\* after the point are a number, 1 when there are none.
Decimals ==
  {n \in [whole: Nat, fraction: Nat, scale: Nat \ {0}, unit: Units] : n.fraction < n.scale}

\* Arithmetic of uint64_t.
Word(n) == n % (MaxU64 + 1)

\* A bug: a product is taken as it comes out.
Fits_Unchecked(left, right) == TRUE

\* checked_multiply
Fits(left, right) == left # 0 => right <= MaxU64 \div left

Multiplied(left, right) == Word(left * right)

WholeNs(n) == Multiplied(n.whole, Multiplier[n.unit])
ScaledFraction(n) == Multiplied(n.fraction, Multiplier[n.unit])
FractionNs(n) == ScaledFraction(n) \div n.scale

FractionAccepted(n) ==
  /\ n.scale <= MaxScale
  /\ Fits(n.fraction, Multiplier[n.unit])
  /\ ScaledFraction(n) % n.scale = 0
  /\ WholeNs(n) <= Word(MaxI64 - FractionNs(n))

Nanoseconds(n) == Word(WholeNs(n) + IF n.scale = 1 THEN 0 ELSE FractionNs(n))

TimeAccepted(n) ==
  /\ n.whole <= MaxU64
  /\ Fits(n.whole, Multiplier[n.unit])
  /\ n.scale # 1 => FractionAccepted(n)
  /\ Nanoseconds(n) <= MaxI64

-----------------------------------------------------------------------------

\* A number that parse_time takes is an instant of int64_t, exactly the one written,
\* in spite of every intermediate word; and one without a fraction is refused only
\* when that instant is beyond int64_t (time.cpp 60-109).  Of refused fractions
\* nothing is said: line 90 refuses some that are whole nanoseconds.
TimeIsExact(n) ==
  /\ TimeAccepted(n) =>
       /\ Nanoseconds(n) \in 0..MaxI64
       /\ Nanoseconds(n) * n.scale = (n.whole * n.scale + n.fraction) * Multiplier[n.unit]
  /\ n.scale = 1 /\ ~TimeAccepted(n) => n.whole * Multiplier[n.unit] > MaxI64
=============================================================================
