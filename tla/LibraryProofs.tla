--------------------------- MODULE LibraryProofs ---------------------------
(***************************************************************************)
(* Proofs about components every part of the library uses, for all         *)
(* constants:                                                              *)
(*                                                                         *)
(*   - durations (AvsTime): no operation overflows, and a result is exact  *)
(*     or invalid, for any width of seconds; a quotient, computed in       *)
(*     doubles, is off by less than one or two nanoseconds;                *)
(*   - vectors (AvsVector): they hold what was put in, at any size and     *)
(*     whichever allocations fail.                                         *)
(***************************************************************************)
EXTENDS AvsTime, AvsVector, SequenceTheorems, WellFoundedInduction, TLAPS

-----------------------------------------------------------------------------
\* Zenon proves most steps; those with arithmetic or sequences name SMT.
USE ZenonT(120)

\* Every set of naturals but the empty one has a smallest element.
LEMMA SmallestNat ==
    ASSUME NEW P \in SUBSET Nat, P # {}
    PROVE  \E i \in P : \A j \in P : i <= j
<1>1. IsWellFoundedOn(OpToRel(<, Nat), Nat)
      BY NatLessThanWellFounded
<1>2. PICK i \in P : \A j \in P : ~(<<j, i>> \in OpToRel(<, Nat))
      BY <1>1, WFMin
<1>3. ASSUME NEW j \in P PROVE i <= j
  <2>1. ~(<<j, i>> \in {ss \in Nat \X Nat : ss[1] < ss[2]})
        BY <1>2 DEF OpToRel
  <2> QED BY SMT, <2>1
<1> QED BY <1>3

-----------------------------------------------------------------------------
(* Time: the numbers                                                       *)

\* INT_MAX is not negative, and INT_MIN is one further from zero.
LEMMA Limits ==
    /\ INT_MAX \in Nat /\ INT_MIN \in Int /\ INT_MIN = -INT_MAX - 1
    /\ NS_IN_S \in Nat /\ NS_IN_S > 0 /\ NS_IN_S <= INT_MAX
<1>1. 2 ^ (TimeWidth - 1) \in Int /\ 2 ^ (TimeWidth - 1) > 0
      BY SMT, DurationAssumption
<1> DEFINE p == 2 ^ (TimeWidth - 1)
<1>2. INT_MIN = -p /\ INT_MAX = p - 1
      BY DEF INT_MIN, INT_MAX
<1> HIDE DEF p
<1>3. INT_MAX \in Nat /\ INT_MIN \in Int /\ INT_MIN = -INT_MAX - 1
      BY SMT, <1>1, <1>2 DEF p
<1>4. NS_IN_S \in Nat /\ NS_IN_S > 0 /\ NS_IN_S <= INT_MAX
      BY SMT, <1>3, DurationAssumption DEF Seconds
<1> QED
    BY <1>3, <1>4

\* A millisecond stands for half a second.
LEMMA HalfASecond ==
    /\ NS_IN_S \div 2 \in Nat /\ NS_IN_S \div 2 > 0
    /\ 2 * (NS_IN_S \div 2) = NS_IN_S
BY SMTT(30), Limits, DurationAssumption

\* The division of C cuts towards zero: the remainder has the sign of the
\* dividend and is smaller than the divisor.
LEMMA QuotFacts ==
    ASSUME NEW a \in Int, NEW b \in Int, b # 0
    PROVE  /\ Quot(a, b) \in Int /\ Rem(a, b) \in Int
           /\ a = b * Quot(a, b) + Rem(a, b)
           /\ Rem(a, b) < Abs(b) /\ -Rem(a, b) < Abs(b)
           /\ a >= 0 => Rem(a, b) >= 0
           /\ a <= 0 => Rem(a, b) <= 0
<1> DEFINE x == Abs(a)
           y == Abs(b)
           d == x \div y
<1>1. x \in Nat /\ y \in Nat /\ y > 0
      BY SMT DEF Abs
<1>2. d \in Nat /\ d * y <= x /\ x < d * y + y
  <2> HIDE DEF x, y
  <2> QED
      BY SMT, <1>1
<1>3. Quot(a, b) = IF (a < 0) = (b < 0) THEN d ELSE -d
      BY DEF Quot
<1>4. x = (IF a < 0 THEN -a ELSE a) /\ y = (IF b < 0 THEN -b ELSE b)
      BY DEF Abs
<1> HIDE DEF x, y, d
<1>5. Rem(a, b) = a - b * Quot(a, b)
      BY DEF Rem
<1>6. CASE a >= 0 /\ b > 0
      BY SMTT(30), <1>2, <1>3, <1>4, <1>5, <1>6 DEF y
<1>7. CASE a >= 0 /\ b < 0
      BY SMTT(30), <1>2, <1>3, <1>4, <1>5, <1>7 DEF y
<1>8. CASE a < 0 /\ b > 0
      BY SMTT(30), <1>2, <1>3, <1>4, <1>5, <1>8 DEF y
<1>9. CASE a < 0 /\ b < 0
      BY SMTT(30), <1>2, <1>3, <1>4, <1>5, <1>9 DEF y
<1> QED
    BY SMTT(30), <1>6, <1>7, <1>8, <1>9

\* Only one number is the quotient.
LEMMA QuotIs ==
    ASSUME NEW a \in Int, NEW b \in Int, b > 0, NEW q \in Int, NEW r \in Int,
           a = b * q + r, r < b, -r < b, a >= 0 => r >= 0, a <= 0 => r <= 0
    PROVE  Quot(a, b) = q /\ Rem(a, b) = r
<1> DEFINE p == Quot(a, b)
           s == Rem(a, b)
<1>1. /\ p \in Int /\ s \in Int /\ a = b * p + s /\ s < b /\ -s < b
      /\ a >= 0 => s >= 0
      /\ a <= 0 => s <= 0
      BY SMT, QuotFacts DEF Abs
<1> HIDE DEF p, s
<1>2. b * (p - q) = r - s
      BY SMT, <1>1
<1>3. r - s < b /\ s - r < b
      BY SMT, <1>1
<1>4. p = q
      BY SMTT(30), <1>1, <1>2, <1>3
<1> QED
    BY SMTT(30), <1>1, <1>2, <1>4 DEF p, s

\* A quotient without remainder.
LEMMA ExactQuot ==
    ASSUME NEW a \in Int, NEW b \in Int, b > 0, NEW q \in Int, a = b * q
    PROVE  Quot(a, b) = q
<1> DEFINE r == 0
<1>1. /\ r \in Int /\ a = b * q + r /\ r < b /\ -r < b
      /\ (a >= 0 => r >= 0) /\ (a <= 0 => r <= 0)
      BY SMT
<1> HIDE DEF r
<1> QED
    BY <1>1, QuotIs

\* safe_add_int64_t refuses exactly the sums that do not fit.
LEMMA SafeAddFacts ==
    ASSUME NEW a \in Seconds, NEW b \in Seconds
    PROVE  SafeAdd(a, b).v = a + b /\ (SafeAdd(a, b).ok <=> Fits(a + b))
<1>1. /\ a \in Int /\ a >= INT_MIN /\ a <= INT_MAX
      /\ b \in Int /\ b >= INT_MIN /\ b <= INT_MAX
      BY SMT, Limits DEF Seconds
<1>2. CASE a > 0 /\ b > 0
  <2> DEFINE e == a + b <= INT_MAX
  <2>1. SafeAdd(a, b) = [ok |-> e, v |-> a + b]
        BY <1>2 DEF SafeAdd
  <2>2. e <=> Fits(a + b)
        BY SMT, <1>1, <1>2, Limits DEF Fits
  <2> HIDE DEF e
  <2>3. SafeAdd(a, b).ok = e /\ SafeAdd(a, b).v = a + b
        BY SMT, <2>1
  <2> QED
      BY <2>2, <2>3
<1>3. CASE ~(a > 0 /\ b > 0) /\ a < 0 /\ b < 0
  <2> DEFINE e == INT_MIN \notin {a, b} /\ (-a) + (-b) <= INT_MAX + 1
  <2>1. SafeAdd(a, b) = [ok |-> e, v |-> a + b]
        BY <1>3 DEF SafeAdd
  <2>2. e <=> Fits(a + b)
        BY SMT, <1>1, <1>3, Limits DEF Fits
  <2> HIDE DEF e
  <2>3. SafeAdd(a, b).ok = e /\ SafeAdd(a, b).v = a + b
        BY SMT, <2>1
  <2> QED
      BY <2>2, <2>3
<1>4. CASE ~(a > 0 /\ b > 0) /\ ~(a < 0 /\ b < 0)
  <2>1. SafeAdd(a, b) = [ok |-> TRUE, v |-> a + b]
        BY <1>4 DEF SafeAdd
  <2>2. Fits(a + b)
        BY SMT, <1>1, <1>4, Limits DEF Fits
  <2>3. SafeAdd(a, b).ok = TRUE /\ SafeAdd(a, b).v = a + b
        BY SMT, <2>1
  <2> QED
      BY <2>2, <2>3
<1> QED
    BY <1>2, <1>3, <1>4

\* safe_mul_int64_t of two positive numbers refuses exactly the products
\* that do not fit,
LEMMA SafeMulPositiveFacts ==
    ASSUME NEW a \in Int, NEW k \in Int, k > 0
    PROVE  /\ SafeMulPositive(a, k).v = a * k
           /\ SafeMulPositive(a, k).ok <=> Fits(a * k)
<1> DEFINE h == Quot(INT_MAX, k)
           l == Quot(INT_MIN, k)
<1>1. h \in Int /\ h * k <= INT_MAX /\ INT_MAX < h * k + k
      BY SMT, QuotFacts, Limits DEF Abs
<1>2. l \in Int /\ l * k >= INT_MIN /\ INT_MIN > l * k - k
      BY SMTT(30), QuotFacts, Limits DEF Abs
<1> HIDE DEF h, l
<1>3. a > h => a * k > INT_MAX
      BY SMT, <1>1, Limits
<1>4. a <= h => a * k <= INT_MAX
      BY SMT, <1>1, Limits
<1>5. a < l => a * k < INT_MIN
      BY SMT, <1>2, Limits
<1>6. a >= l => a * k >= INT_MIN
      BY SMT, <1>2, Limits
<1>7. a * k \in Int
      BY SMT
<1>8. (~(a > h \/ a < l)) <=> Fits(a * k)
      BY SMTT(30), <1>1, <1>2, <1>3, <1>4, <1>5, <1>6, <1>7, Limits DEF Fits
<1> QED
    BY <1>8 DEF SafeMulPositive, h, l

\* and so it does for any two.
LEMMA SafeMulFacts ==
    ASSUME NEW a \in Seconds, NEW k \in Int
    PROVE  /\ SafeMul(a, k).ok <=> Fits(a * k)
           /\ SafeMul(a, k).ok => SafeMul(a, k).v = a * k
<1>1. a \in Int /\ a >= INT_MIN /\ a <= INT_MAX
      BY SMT, Limits DEF Seconds
<1>2. CASE a = 0 \/ k = 0
  <2>1. a * k = 0
        BY SMT, <1>1, <1>2
  <2> QED
      BY SMT, <1>2, <2>1, Limits DEF SafeMul, Fits
<1>3. CASE ~(a = 0 \/ k = 0) /\ ((a = INT_MIN /\ k = 1) \/ (a = 1 /\ k = INT_MIN))
  <2>1. a * k = INT_MIN
        BY SMT, <1>1, <1>3, Limits
  <2> QED
      BY SMT, <1>3, <2>1, Limits DEF SafeMul, Fits
<1>4. CASE /\ ~(a = 0 \/ k = 0) /\ ~((a = INT_MIN /\ k = 1) \/ (a = 1 /\ k = INT_MIN))
           /\ INT_MIN \in {a, k}
  <2>1. a * k > INT_MAX \/ a * k < INT_MIN
    <3>1. CASE a = INT_MIN /\ k > 0
          BY SMT, <1>4, <3>1, Limits
    <3>2. CASE a = INT_MIN /\ k < 0
          BY SMT, <1>4, <3>2, Limits
    <3>3. CASE k = INT_MIN /\ a > 0
          BY SMTT(30), <1>1, <1>4, <3>3, Limits
    <3>4. CASE k = INT_MIN /\ a < 0
          BY SMT, <1>1, <1>4, <3>4, Limits
    <3> QED
        BY SMTT(30), <1>1, <1>4, <3>1, <3>2, <3>3, <3>4
  <2>2. SafeMul(a, k) = [ok |-> FALSE, v |-> 0]
        BY <1>4 DEF SafeMul
  <2> QED
      BY SMT, <1>1, <2>1, <2>2, Limits DEF Fits
<1>5. CASE /\ ~(a = 0 \/ k = 0) /\ ~((a = INT_MIN /\ k = 1) \/ (a = 1 /\ k = INT_MIN))
           /\ INT_MIN \notin {a, k}
  <2>1. SafeMul(a, k) = IF k < 0 THEN SafeMulPositive(-a, -k) ELSE SafeMulPositive(a, k)
        BY <1>5 DEF SafeMul
  <2>2. (-a) * (-k) = a * k
        BY SMT, <1>1
  <2>3. CASE k < 0
    <3>1. -a \in Int /\ -k \in Int /\ -k > 0
          BY SMT, <1>1, <2>3
    <3> QED
        BY <2>1, <2>2, <2>3, <3>1, SafeMulPositiveFacts
  <2>4. CASE k > 0
    <3>1. ~(k < 0)
          BY SMTT(30), <2>4
    <3> QED
        BY <1>1, <2>1, <2>4, <3>1, SafeMulPositiveFacts
  <2> QED
      BY SMT, <1>5, <2>3, <2>4
<1> QED
    BY <1>2, <1>3, <1>4, <1>5

\* normalize(): the value is kept, and nanoseconds come into their range.
LEMMA NormalizeFacts ==
    ASSUME NEW s \in Seconds, NEW ns \in Int, -NS_IN_S <= ns, ns < 2 * NS_IN_S
    PROVE  LET n == Normalize([s |-> s, ns |-> ns]) IN
           /\ n.ok <=> ~(ns < 0 /\ s = INT_MIN) /\ ~(ns >= NS_IN_S /\ s = INT_MAX)
           /\ n.ok => n.t \in Durations /\ Value(n.t) = s * NS_IN_S + ns
           /\ ~n.ok => n.t = [s |-> s, ns |-> ns]
<1> DEFINE n == Normalize([s |-> s, ns |-> ns])
<1>0. s \in Int /\ s >= INT_MIN /\ s <= INT_MAX
      BY SMTT(30), Limits DEF Seconds
<1>1. CASE ns < 0 /\ s = INT_MIN
      BY SMTT(30), <1>0, <1>1, Limits DEF Normalize
<1>2. CASE ns >= NS_IN_S /\ s = INT_MAX
      BY SMTT(30), <1>0, <1>2, Limits DEF Normalize
<1>3. CASE ns < 0 /\ s # INT_MIN
  <2>1. n = [ok |-> TRUE, t |-> [s |-> s - 1, ns |-> ns + NS_IN_S]]
        BY <1>3 DEF Normalize
  <2>2. s - 1 \in Seconds /\ ns + NS_IN_S \in 0 .. (NS_IN_S - 1)
        BY SMTT(30), <1>0, <1>3, Limits DEF Seconds
  <2>3. (s - 1) * NS_IN_S + (ns + NS_IN_S) = s * NS_IN_S + ns
        BY SMT, <1>0, Limits
  <2> QED
      BY SMTT(30), <1>3, <2>1, <2>2, <2>3, Limits DEF Durations, Value
<1>4. CASE ns >= NS_IN_S /\ s # INT_MAX
  <2>1. n = [ok |-> TRUE, t |-> [s |-> s + 1, ns |-> ns - NS_IN_S]]
        BY SMT, <1>4, Limits DEF Normalize
  <2>2. s + 1 \in Seconds /\ ns - NS_IN_S \in 0 .. (NS_IN_S - 1)
        BY SMT, <1>0, <1>4, Limits DEF Seconds
  <2>3. (s + 1) * NS_IN_S + (ns - NS_IN_S) = s * NS_IN_S + ns
        BY SMTT(30), <1>0, Limits
  <2> QED
      BY SMTT(30), <1>4, <2>1, <2>2, <2>3, Limits DEF Durations, Value
<1>5. CASE ns >= 0 /\ ns < NS_IN_S
  <2>1. n = [ok |-> TRUE, t |-> [s |-> s, ns |-> ns]]
        BY SMT, <1>5, Limits DEF Normalize
  <2>2. ns \in 0 .. (NS_IN_S - 1)
        BY SMT, <1>5, Limits
  <2> QED
      BY SMTT(30), <1>5, <2>1, <2>2, Limits DEF Durations, Value
<1> QED
    BY SMTT(30), <1>1, <1>2, <1>3, <1>4, <1>5, Limits

\* What add, diff and mul end with
LEMMA NormalizedFacts ==
    ASSUME NEW x \in Seconds, NEW y \in Seconds,
           NEW ns \in Int, -NS_IN_S < ns, ns < 2 * NS_IN_S
    PROVE  LET t == Normalized(SafeAdd(x, y), ns)
               value == (x + y) * NS_IN_S + ns IN
           \/ t \in Durations /\ Value(t) = value
           \/ /\ t = INVALID_DURATION
              /\ \/ value < (INT_MIN + 1) * NS_IN_S
                 \/ value >= INT_MAX * NS_IN_S
              /\ x + y # 0 \/ ns # 0
<1> DEFINE t == Normalized(SafeAdd(x, y), ns)
           value == (x + y) * NS_IN_S + ns
           n == Normalize([s |-> x + y, ns |-> ns])
<1>0. x \in Int /\ y \in Int
      BY SMT, Limits DEF Seconds
<1>1. t = IF Fits(x + y) /\ n.ok THEN n.t ELSE INVALID_DURATION
      BY SafeAddFacts DEF Normalized
<1>2. CASE Fits(x + y)
  <2>1. x + y \in Seconds
        BY <1>2 DEF Fits, Seconds
  <2>2. /\ n.ok <=> ~(ns < 0 /\ x + y = INT_MIN) /\ ~(ns >= NS_IN_S /\ x + y = INT_MAX)
        /\ n.ok => n.t \in Durations /\ Value(n.t) = value
    <3>1. -NS_IN_S <= ns
          BY SMT, Limits
    <3> QED
        BY <2>1, <3>1, NormalizeFacts
  <2>3. CASE n.ok
        BY <1>1, <1>2, <2>2, <2>3
  <2>4. CASE ~n.ok
    <3>1. t = INVALID_DURATION
          BY <1>1, <2>4
    <3>2. \/ value < (INT_MIN + 1) * NS_IN_S
          \/ value >= INT_MAX * NS_IN_S
      <4>1. CASE ns < 0 /\ x + y = INT_MIN
            BY SMTT(30), <4>1, <1>0, Limits
      <4>2. CASE ns >= NS_IN_S /\ x + y = INT_MAX
            BY SMTT(30), <4>2, <1>0, Limits
      <4> QED
          BY <2>2, <2>4, <4>1, <4>2
    <3>3. ns # 0
          BY SMT, <2>2, <2>4, Limits
    <3> QED
        BY <3>1, <3>2, <3>3
  <2> QED
      BY <2>3, <2>4
<1>3. CASE ~Fits(x + y)
  <2>1. t = INVALID_DURATION
        BY <1>1, <1>3
  <2>2. x + y <= INT_MIN - 1 \/ x + y >= INT_MAX + 1
        BY SMT, <1>0, <1>3, Limits DEF Fits
  <2>3. \/ value < (INT_MIN + 1) * NS_IN_S
        \/ value >= INT_MAX * NS_IN_S
    <3> DEFINE z == x + y
    <3>0. z \in Int
          BY SMT, <1>0
    <3> HIDE DEF z
    <3>1. CASE z <= INT_MIN - 1
      <4>1. z * NS_IN_S <= (INT_MIN - 1) * NS_IN_S
            BY SMT, <3>0, <3>1, Limits
      <4> QED
          BY SMT, <3>0, <4>1, Limits DEF z
    <3>2. CASE z >= INT_MAX + 1
      <4>1. z * NS_IN_S >= (INT_MAX + 1) * NS_IN_S
            BY SMT, <3>0, <3>2, Limits
      <4> QED
          BY SMT, <3>0, <4>1, Limits DEF z
    <3> QED
        BY <2>2, <3>1, <3>2 DEF z
  <2>4. x + y # 0
        BY SMT, <2>2, Limits
  <2> QED
      BY <2>1, <2>3, <2>4
<1> QED
    BY <1>2, <1>3

\* A duration is valid, in its ranges, and determined by its two fields.
LEMMA DurationFacts ==
    /\ \A t \in Durations :
          /\ Valid(t) /\ t.s \in Int /\ t.ns \in Int /\ t.s \in Seconds
          /\ INT_MIN <= t.s /\ t.s <= INT_MAX /\ 0 <= t.ns /\ t.ns < NS_IN_S
          /\ Value(t) = t.s * NS_IN_S + t.ns /\ Value(t) \in Int
          /\ t = [s |-> t.s, ns |-> t.ns]
    /\ ~Valid(INVALID_DURATION)
<1>1. ASSUME NEW t \in Durations
      PROVE  /\ Valid(t) /\ t.s \in Int /\ t.ns \in Int /\ t.s \in Seconds
             /\ INT_MIN <= t.s /\ t.s <= INT_MAX /\ 0 <= t.ns /\ t.ns < NS_IN_S
             /\ Value(t) = t.s * NS_IN_S + t.ns /\ Value(t) \in Int
             /\ t = [s |-> t.s, ns |-> t.ns]
      BY SMT, Limits DEF Durations, Valid, Value, Seconds
<1>2. ~Valid(INVALID_DURATION)
      BY SMT DEF Valid, INVALID_DURATION
<1> QED
    BY <1>1, <1>2

\* A sum is exact, or invalid close to a limit.
LEMMA AddFacts ==
    ASSUME NEW a \in Durations, NEW b \in Durations
    PROVE  LET t == DurationAdd(a, b)
               value == Value(a) + Value(b) IN
           \/ t \in Durations /\ Value(t) = value
           \/ /\ t = INVALID_DURATION
              /\ \/ value < (INT_MIN + 1) * NS_IN_S
                 \/ value >= INT_MAX * NS_IN_S
<1> DEFINE x == a.s
           y == b.s
           ns == a.ns + b.ns
<1>1. x \in Seconds /\ y \in Seconds /\ ns \in Int /\ -NS_IN_S < ns /\ ns < 2 * NS_IN_S
      BY SMTT(30), DurationFacts, Limits
<1>2. Value(a) + Value(b) = (x + y) * NS_IN_S + ns
      BY SMT, DurationFacts, Limits
<1>3. DurationAdd(a, b) = Normalized(SafeAdd(x, y), ns)
      BY DurationFacts DEF DurationAdd
<1> HIDE DEF x, y, ns
<1> QED
    BY <1>1, <1>2, <1>3, NormalizedFacts

\* The negative of a duration, as diff uses it: not normalized for the negative
\* of INT64_MIN seconds, and still right.
LEMMA NegateFacts ==
    ASSUME NEW t \in Durations
    PROVE  LET n == Negate(t) IN
           /\ n.s \in Seconds /\ n.ns \in Int /\ 0 <= n.ns /\ n.ns <= NS_IN_S
           /\ n.s * NS_IN_S + n.ns = -Value(t)
<1> DEFINE x == t.s
           y == t.ns
           n == Negate(t)
<1>1. /\ x \in Int /\ y \in Int /\ INT_MIN <= x /\ x <= INT_MAX /\ 0 <= y /\ y < NS_IN_S
      /\ Value(t) = x * NS_IN_S + y
      BY DurationFacts
<1> DEFINE s == IF x < 0 THEN -(x + 1) ELSE -x
           ns == IF x < 0 THEN -(y - NS_IN_S) ELSE -y
           m == Normalize([s |-> s, ns |-> ns])
<1>2. n = m.t
  <2>1. CASE x < 0
        BY <2>1 DEF Negate
  <2>2. CASE ~(x < 0)
        BY <2>2 DEF Negate
  <2> QED
      BY <2>1, <2>2
<1> HIDE DEF x, y, n
<1>3. /\ s \in Seconds /\ ns \in Int /\ -NS_IN_S < ns /\ ns < 2 * NS_IN_S
      /\ s \in Int /\ ns <= NS_IN_S /\ (ns < 0 => s # INT_MIN)
      BY SMT, <1>1, Limits DEF Seconds
<1>4. s * NS_IN_S + ns = -(x * NS_IN_S + y)
      BY SMT, <1>1, Limits
<1> HIDE DEF s, ns
<1>5. /\ m.ok <=> ~(ns < 0 /\ s = INT_MIN) /\ ~(ns >= NS_IN_S /\ s = INT_MAX)
      /\ m.ok => m.t \in Durations /\ Value(m.t) = s * NS_IN_S + ns
      /\ ~m.ok => m.t = [s |-> s, ns |-> ns]
  <2>1. -NS_IN_S <= ns
        BY SMT, <1>3, Limits
  <2> QED
      BY <1>3, <2>1, NormalizeFacts
<1> HIDE DEF m
<1>6. CASE m.ok
  <2>1. n \in Durations /\ Value(n) = s * NS_IN_S + ns
        BY <1>2, <1>5, <1>6
  <2>2. n.s \in Seconds /\ n.ns \in Int /\ 0 <= n.ns /\ n.ns < NS_IN_S
        BY <2>1, DurationFacts
  <2>3. n.s * NS_IN_S + n.ns = s * NS_IN_S + ns
        BY <2>1, DurationFacts
  <2>4. n.ns <= NS_IN_S
        BY SMT, <2>2, Limits
  <2> QED
      BY <1>1, <1>4, <2>2, <2>3, <2>4 DEF n
<1>7. CASE ~m.ok
  <2>1. n.s = s /\ n.ns = ns
        BY SMTT(30), <1>2, <1>5, <1>7
  <2>2. 0 <= ns
        BY SMTT(30), <1>3, <1>5, <1>7, Limits
  <2> QED
      BY <1>1, <1>3, <1>4, <2>1, <2>2 DEF n
<1> QED
    BY <1>6, <1>7

\* A difference is exact, or invalid close to a limit.
LEMMA DiffFacts ==
    ASSUME NEW a \in Durations, NEW b \in Durations
    PROVE  LET t == DurationDiff(a, b)
               value == Value(a) - Value(b) IN
           \/ t \in Durations /\ Value(t) = value
           \/ /\ t = INVALID_DURATION
              /\ \/ value < (INT_MIN + 1) * NS_IN_S
                 \/ value >= INT_MAX * NS_IN_S
<1> DEFINE n == Negate(b)
           x == a.s
           y == n.s
           ns == a.ns + n.ns
<1>0. /\ n.s \in Seconds /\ n.ns \in Int /\ 0 <= n.ns /\ n.ns <= NS_IN_S
      /\ n.s * NS_IN_S + n.ns = -Value(b)
      BY NegateFacts
<1>3. DurationDiff(a, b) = Normalized(SafeAdd(x, y), ns)
      BY DurationFacts DEF DurationDiff
<1> HIDE DEF n
<1>1. x \in Seconds /\ y \in Seconds /\ ns \in Int /\ -NS_IN_S < ns /\ ns < 2 * NS_IN_S
      BY SMTT(30), <1>0, DurationFacts, Limits
<1>2. Value(a) - Value(b) = (x + y) * NS_IN_S + ns
  <2>1. y \in Int
        BY SMT, <1>0, Limits DEF Seconds
  <2>2. /\ x \in Int /\ a.ns \in Int /\ Value(a) = x * NS_IN_S + a.ns
        /\ Value(b) \in Int
        BY DurationFacts
  <2> HIDE DEF x, y
  <2>3. (x + y) * NS_IN_S = x * NS_IN_S + y * NS_IN_S
        BY SMTT(30), <2>1, <2>2, Limits
  <2>4. x * NS_IN_S \in Int /\ y * NS_IN_S \in Int
        BY SMT, <2>1, <2>2, Limits
  <2>5. y * NS_IN_S + n.ns = -Value(b)
        BY <1>0 DEF y
  <2> QED
      BY SMTT(30), <2>2, <2>3, <2>4, <2>5, <1>0
<1> HIDE DEF x, y, ns
<1> QED
    BY <1>1, <1>2, <1>3, NormalizedFacts

\* A product is exact, or invalid within as many seconds of a limit as the
\* multiplier.
LEMMA MulFacts ==
    ASSUME NEW a \in Durations, NEW k \in Seconds
    PROVE  LET t == DurationMul(a, k)
               value == Value(a) * k IN
           \/ t \in Durations /\ Value(t) = value
           \/ /\ t = INVALID_DURATION
              /\ \/ value < (INT_MIN + Abs(k)) * NS_IN_S
                 \/ value >= (INT_MAX + 1 - Abs(k)) * NS_IN_S
<1> DEFINE x == a.s
           z == a.ns
           ns == z * k
           p == SafeMul(x, k)
           y == Quot(ns, NS_IN_S)
           r == Rem(ns, NS_IN_S)
           t == DurationMul(a, k)
           value == Value(a) * k
           m == Abs(k)
<1>0. k \in Int /\ INT_MIN <= k /\ k <= INT_MAX
      BY SMT, Limits DEF Seconds
<1>1. /\ x \in Seconds /\ x \in Int /\ z \in Int /\ 0 <= z /\ z < NS_IN_S
      /\ Value(a) = x * NS_IN_S + z /\ Valid(a)
      BY DurationFacts
<1>2. t = IF ~p.ok THEN INVALID_DURATION ELSE Normalized(SafeAdd(p.v, y), r)
      BY <1>1 DEF DurationMul
<1>3. (p.ok <=> Fits(x * k)) /\ (p.ok => p.v = x * k)
      BY <1>0, <1>1, SafeMulFacts
<1>5. m \in Nat /\ m >= k /\ m >= -k /\ (k # 0 => m >= 1)
      BY SMT, <1>0 DEF Abs
<1>6. ns \in Int
      BY SMT, <1>1, <1>0
<1>7. /\ y \in Int /\ r \in Int /\ ns = NS_IN_S * y + r /\ r < NS_IN_S /\ -r < NS_IN_S
      /\ ns >= 0 => r >= 0
      /\ ns <= 0 => r <= 0
  <2> HIDE DEF ns
  <2>1. Abs(NS_IN_S) = NS_IN_S /\ NS_IN_S \in Int /\ NS_IN_S # 0
        BY SMTT(30), Limits DEF Abs
  <2> QED
      BY <1>6, <2>1, QuotFacts
<1>8. value = (x * k) * NS_IN_S + ns
  <2> HIDE DEF x, z
  <2> QED
      BY SMTT(30), <1>1, <1>0, Limits
<1> HIDE DEF x, z, p, y, r, t, value, m
<1>9. ns < m * NS_IN_S + 1 /\ ns >= -(m * NS_IN_S)
  <2>1. z * k <= z * m /\ z * k >= -(z * m)
        BY SMTT(30), <1>1, <1>0, <1>5
  <2>2. z * m <= NS_IN_S * m
        BY SMTT(30), <1>1, <1>5, Limits
  <2> QED
      BY SMTT(30), <1>1, <1>0, <1>5, <2>1, <2>2, Limits
<1>10. k = 0 \/ (ns < m * NS_IN_S /\ ns > -(m * NS_IN_S))
  <2>1. CASE k > 0
    <3>1. m = k
          BY SMTT(30), <1>0, <2>1 DEF m, Abs
    <3> QED
        BY SMTT(30), <1>1, <1>0, <2>1, <3>1, Limits
  <2>2. CASE k < 0
    <3>1. m = -k
          BY SMTT(30), <1>0, <2>2 DEF m, Abs
    <3> QED
        BY SMTT(30), <1>1, <1>0, <2>2, <3>1, Limits
  <2> QED
      BY SMTT(30), <1>0, <2>1, <2>2
<1>11. CASE p.ok
  <2> DEFINE q == x * k
  <2>1. t = Normalized(SafeAdd(q, y), r) /\ Fits(q)
        BY <1>2, <1>3, <1>11
  <2>2. q \in Seconds /\ q \in Int
        BY SMTT(30), <2>1, Limits DEF Fits, Seconds
  <2>3. y \in Seconds
    <3>1. CASE k = 0
      <4>1. ns = 0
            BY SMTT(30), <1>1, <3>1
      <4>2. y = 0
            BY SMTT(30), <1>7, <4>1, Limits
      <4> QED
          BY SMTT(30), <4>2, Limits DEF Seconds
    <3>2. CASE k > 0
      <4>1. m = k /\ ns >= 0
            BY SMTT(30), <1>1, <1>0, <3>2 DEF m, Abs
      <4>2. NS_IN_S * y < m * NS_IN_S + NS_IN_S
            BY SMTT(30), <1>5, <1>7, <1>10, <3>2, Limits
      <4>3. y <= m
            BY SMTT(30), <1>5, <1>7, <4>2, Limits
      <4>4. y >= 0
            BY SMT, <1>7, <4>1, Limits
      <4> QED
          BY SMTT(30), <1>0, <1>7, <4>1, <4>3, <4>4, Limits DEF Seconds
    <3>3. CASE k < 0
      <4>1. m = -k /\ ns <= 0
            BY SMT, <1>1, <1>0, <3>3 DEF m, Abs
      <4>2. NS_IN_S * y > -(m * NS_IN_S) - NS_IN_S
            BY SMTT(30), <1>5, <1>7, <1>10, <3>3, Limits
      <4>3. y >= -m
            BY SMTT(30), <1>5, <1>7, <4>2, Limits
      <4>4. y <= 0
            BY SMT, <1>7, <4>1, Limits
      <4> QED
          BY SMTT(30), <1>0, <1>7, <4>1, <4>3, <4>4, Limits DEF Seconds
    <3> QED
        BY SMTT(30), <1>0, <3>1, <3>2, <3>3
  <2> HIDE DEF q, ns
  <2>4. value = (q + y) * NS_IN_S + r
    <3>1. value = q * NS_IN_S + ns
          BY <1>8 DEF q
    <3> QED
        BY SMTT(30), <1>7, <2>2, <3>1, Limits
  <2>5. -NS_IN_S < r /\ r < 2 * NS_IN_S
        BY SMT, <1>7, Limits
  <2>6. \/ t \in Durations /\ Value(t) = value
        \/ /\ t = INVALID_DURATION
           /\ \/ value < (INT_MIN + 1) * NS_IN_S
              \/ value >= INT_MAX * NS_IN_S
           /\ q + y # 0 \/ r # 0
        BY <1>7, <2>1, <2>2, <2>3, <2>4, <2>5, NormalizedFacts
  <2>7. CASE k = 0
    <3>1. ns = 0 /\ q = 0
          BY SMT, <1>1, <2>7 DEF ns, q
    <3>2. y = 0 /\ r = 0
          BY SMT, <1>7, <3>1, Limits
    <3>3. q + y = 0 /\ r = 0
          BY SMT, <3>1, <3>2
    <3> QED
        BY <2>6, <3>3 DEF t, value
  <2>8. CASE k # 0
    <3>1. m >= 1
          BY <1>5, <2>8
    <3>2. (INT_MIN + 1) * NS_IN_S <= (INT_MIN + m) * NS_IN_S
          BY SMTT(30), <1>5, <3>1, Limits
    <3>3. INT_MAX * NS_IN_S >= (INT_MAX + 1 - m) * NS_IN_S
          BY SMTT(30), <1>5, <3>1, Limits
    <3>4. value \in Int
          BY SMTT(30), <1>7, <2>2, <2>4, Limits
    <3>5. value < (INT_MIN + 1) * NS_IN_S => value < (INT_MIN + m) * NS_IN_S
          BY SMTT(30), <1>5, <3>2, <3>4, Limits
    <3>6. value >= INT_MAX * NS_IN_S => value >= (INT_MAX + 1 - m) * NS_IN_S
          BY SMTT(30), <1>5, <3>3, <3>4, Limits
    <3> QED
        BY <2>6, <3>5, <3>6 DEF t, value, m
  <2> QED
      BY <2>7, <2>8
<1>12. CASE ~p.ok
  <2> DEFINE q == x * k
  <2>1. q \in Int
        BY SMTT(30), <1>1, <1>0
  <2>2. q <= INT_MIN - 1 \/ q >= INT_MAX + 1
        BY SMTT(30), <1>3, <1>12, <2>1, Limits DEF Fits
  <2>3. value = q * NS_IN_S + ns
        BY <1>8
  <2> HIDE DEF q, ns
  <2>4. \/ value < (INT_MIN + m) * NS_IN_S
        \/ value >= (INT_MAX + 1 - m) * NS_IN_S
    <3>1. CASE q <= INT_MIN - 1
      <4>1. q * NS_IN_S <= (INT_MIN - 1) * NS_IN_S
            BY SMTT(30), <2>1, <3>1, Limits
      <4> QED
          BY SMTT(30), <1>5, <1>6, <1>9, <2>1, <2>3, <4>1, Limits
    <3>2. CASE q >= INT_MAX + 1
      <4>1. q * NS_IN_S >= (INT_MAX + 1) * NS_IN_S
            BY SMTT(30), <2>1, <3>2, Limits
      <4> QED
          BY SMTT(30), <1>5, <1>6, <1>9, <2>1, <2>3, <4>1, Limits
    <3> QED
        BY <2>2, <3>1, <3>2
  <2> QED
      BY <1>2, <1>12, <2>4 DEF t, value, m
<1> QED
    BY <1>11, <1>12

\* x is a double that the integer n may be rounded to.
NearTo(x, n) ==
    /\ x \in Int /\ Abs(x - n) * DOUBLE_EXACT <= Abs(n)
    /\ Abs(n) < DOUBLE_EXACT => x = n

\* Rounding is off by one part in DOUBLE_EXACT, and exact below it.
LEMMA RoundedFacts ==
    ASSUME NEW n \in Int, NEW x \in Rounded(n)
    PROVE  NearTo(x, n)
<1> DEFINE P == DOUBLE_EXACT
           v == Abs(n)
           d == v \div P
           f == Abs(x - n)
<1>1. P \in Nat /\ P > 0
      BY SMT, Limits, DurationAssumption
<1>2. v \in Nat
      BY SMT DEF Abs
<1> HIDE DEF v, P
<1>3. d \in Nat /\ d * P <= v /\ v < d * P + P
      BY SMTT(30), <1>1, <1>2
<1>4. x \in (n - d) .. (n + d)
      BY DEF Rounded, v, P
<1> HIDE DEF d
<1>5. x \in Int /\ f \in Nat /\ f <= d
      BY SMTT(30), <1>3, <1>4 DEF Abs
<1>6. f * P <= d * P
  <2> HIDE DEF f
  <2> QED
      BY SMTT(30), <1>1, <1>3, <1>5
<1>7. f * P <= v
  <2> HIDE DEF f
  <2>1. f * P \in Int /\ d * P \in Int
        BY SMTT(30), <1>1, <1>3, <1>5
  <2> QED
      BY SMTT(30), <1>2, <1>3, <1>6, <2>1
<1>8. v < P => x = n
  <2> SUFFICES ASSUME v < P PROVE x = n
      OBVIOUS
  <2>1. d = 0
    <3>1. CASE d >= 1
      <4>1. d * P >= P
            BY SMTT(30), <1>1, <1>3, <3>1
      <4>2. d * P \in Int
            BY SMTT(30), <1>1, <1>3
      <4> QED
          BY SMTT(30), <1>1, <1>2, <1>3, <4>1, <4>2
    <3> QED
        BY SMTT(30), <1>3, <3>1
  <2> QED
      BY SMTT(30), <1>4, <2>1
<1> QED
    BY <1>5, <1>7, <1>8 DEF NearTo, f, v, P

\* y is the quotient of x and k, cut towards zero or rounded to the next integer.
QuotNear(y, x, k) ==
    LET u == Abs(y) * Abs(k) - Abs(x) IN
    /\ y \in Int /\ -Abs(k) < u /\ u <= Abs(k)
    /\ u > 0 => u * DOUBLE_EXACT <= Abs(x)
    /\ Abs(y * k - x) = Abs(u)

\* What division of doubles gives, cut to an integer
LEMMA RoundedQuotFacts ==
    ASSUME NEW x \in Int, NEW k \in Int, k # 0, NEW y \in RoundedQuot(x, k)
    PROVE  QuotNear(y, x, k)
<1> DEFINE P == DOUBLE_EXACT
           v == Abs(x)
           m == Abs(k)
           q == v \div m
           up == ((q + 1) * m - v) * P <= v
<1>1. v \in Nat /\ m \in Nat /\ m > 0
      BY SMT DEF Abs
<1>2. v = (IF x < 0 THEN -x ELSE x) /\ m = (IF k < 0 THEN -k ELSE k)
      BY DEF Abs
<1>3. PICK n \in q .. (IF up THEN q + 1 ELSE q) : y = IF (x < 0) = (k < 0) THEN n ELSE -n
      BY DEF RoundedQuot
<1> HIDE DEF v, m
<1>4. q \in Nat /\ q * m <= v /\ v < q * m + m
      BY SMTT(30), <1>1
<1> HIDE DEF q
<1>5. n \in Nat /\ (n = q \/ (n = q + 1 /\ up))
  <2>1. CASE up
        BY SMTT(30), <1>3, <1>4, <2>1
  <2>2. CASE ~up
        BY SMTT(30), <1>3, <1>4, <2>2
  <2> QED
      BY <2>1, <2>2
<1> DEFINE u == n * m - v
<1>6. u \in Int /\ -m < u /\ u <= m /\ (u > 0 => u * P <= v)
  <2>1. CASE n = q
    <3>1. q * m \in Int
          BY SMTT(30), <1>1, <1>4
    <3>2. u = q * m - v
          BY <2>1
    <3> HIDE DEF u
    <3> QED
        BY SMTT(30), <1>1, <1>4, <3>1, <3>2
  <2>2. CASE n = q + 1 /\ up
    <3>1. (q + 1) * m = q * m + m /\ q * m \in Int
          BY SMTT(30), <1>1, <1>4
    <3>2. u = (q * m + m) - v
          BY <2>2, <3>1
    <3>3. u * P <= v
          BY <2>2
    <3> HIDE DEF u
    <3> QED
        BY SMTT(30), <1>1, <1>4, <3>1, <3>2, <3>3
  <2> QED
      BY <1>5, <2>1, <2>2
<1>7. y \in Int /\ Abs(y) = n
      BY SMTT(30), <1>3, <1>5 DEF Abs
<1>8. Abs(y * k - x) = Abs(u)
  <2>1. n * m \in Int /\ n * k \in Int /\ (-n) * k = -(n * k)
        BY SMTT(30), <1>1, <1>5
  <2>2. n * k = IF k < 0 THEN -(n * m) ELSE n * m
        BY SMTT(30), <1>2, <1>5
  <2>3. CASE (x < 0) = (k < 0)
    <3>1. y * k = n * k
          BY <1>3, <2>3
    <3>2. y * k - x = u \/ y * k - x = -u
          BY SMTT(30), <1>2, <2>1, <2>2, <2>3, <3>1
    <3> QED
        BY SMTT(30), <1>6, <3>2 DEF Abs
  <2>4. CASE ~((x < 0) = (k < 0))
    <3>1. y * k = -(n * k)
          BY <1>3, <2>1, <2>4
    <3>2. y * k - x = u \/ y * k - x = -u
          BY SMTT(30), <1>2, <2>1, <2>2, <2>4, <3>1
    <3> QED
        BY SMTT(30), <1>6, <3>2 DEF Abs
  <2> QED
      BY <2>3, <2>4
<1> QED
    BY <1>6, <1>7, <1>8 DEF QuotNear, u, v, m, P

\* A part in DOUBLE_EXACT of b seconds is at most a quarter of b nanoseconds.
LEMMA SmallPart ==
    ASSUME NEW d \in Nat, NEW b \in Nat, d * DOUBLE_EXACT <= b * NS_IN_S
    PROVE  4 * d <= b
<1> DEFINE N == NS_IN_S
           P == DOUBLE_EXACT
<1>1. N \in Nat /\ N > 0 /\ P \in Nat /\ P >= 4 * N
      BY Limits, DurationAssumption
<1>2. d * P <= b * N
      OBVIOUS
<1> HIDE DEF N, P
<1>3. d * (4 * N) <= d * P
      BY SMTT(30), <1>1
<1>4. (4 * d) * N = d * (4 * N) /\ d * (4 * N) \in Int /\ d * P \in Int /\ b * N \in Int
      BY SMTT(30), <1>1
<1>5. (4 * d) * N <= b * N
      BY SMTT(30), <1>2, <1>3, <1>4
<1>6. CASE 4 * d >= b + 1
  <2>1. (4 * d) * N >= (b + 1) * N
        BY SMTT(30), <1>1, <1>6
  <2>2. (b + 1) * N = b * N + N
        BY SMTT(30), <1>1
  <2> QED
      BY SMTT(30), <1>1, <1>4, <1>5, <2>1, <2>2
<1> QED
    BY SMTT(30), <1>6

\* The nanoseconds that division in doubles gives
NsNear(ns, num, m) ==
    /\ ns \in Int /\ -NS_IN_S <= ns /\ ns <= NS_IN_S
    /\ m * NS_IN_S <= DOUBLE_EXACT => -NS_IN_S < ns /\ ns < NS_IN_S

\* ns times the divisor is close to the dividend.
ErrorBelow(ns, k, num) == Abs(ns * k - num) < QuotientError(k)

LEMMA DividedNsFacts ==
    ASSUME NEW z \in Int, 0 <= z, z < NS_IN_S, NEW k \in Int, k # 0,
           NEW e \in Int, e < Abs(k), -e < Abs(k), NEW ns \in DividedNs(z, e, k)
    PROVE  NsNear(ns, z + e * NS_IN_S, Abs(k)) /\ ErrorBelow(ns, k, z + e * NS_IN_S)
<1> DEFINE N == NS_IN_S
           P == DOUBLE_EXACT
           m == Abs(k)
           en == e * N
           num == z + en
<1>1. /\ m \in Nat /\ m >= 1 /\ N \in Nat /\ N >= 2 /\ P \in Nat /\ P >= 4 * N
      /\ e <= m - 1 /\ -e <= m - 1
  <2>1. N \in Nat /\ N > 0 /\ N % 2 = 0 /\ P \in Nat /\ P >= 4 * N
        BY Limits, DurationAssumption
  <2>2. N >= 2
    <3> HIDE DEF N
    <3> QED
        BY SMTT(30), <2>1
  <2>3. m \in Nat /\ m >= 1 /\ e <= m - 1 /\ -e <= m - 1
        BY SMTT(30) DEF Abs
  <2> QED
      BY <2>1, <2>2, <2>3
<1>2. PICK x \in Rounded(en) : ns \in UNION { RoundedQuot(w, k) : w \in Rounded(z + x) }
      BY DEF DividedNs
<1>3. PICK y \in Rounded(z + x) : ns \in RoundedQuot(y, k)
      BY <1>2
<1> DEFINE mn == m * N
<1>4. en \in Int /\ mn \in Nat /\ en <= mn - N /\ -en <= mn - N
  <2> HIDE DEF N, m
  <2>1. e * N <= (m - 1) * N /\ (-e) * N <= (m - 1) * N
        BY SMTT(30), <1>1
  <2>2. (m - 1) * N = m * N - N /\ (-e) * N = -(e * N) /\ m * N \in Nat /\ e * N \in Int
        BY SMTT(30), <1>1
  <2> QED
      BY SMTT(30), <1>1, <2>1, <2>2
<1> HIDE DEF en, mn
<1>5. NearTo(x, en)
      BY <1>2, <1>4, RoundedFacts
<1>6. x \in Int /\ Abs(x - en) * P <= Abs(en) /\ (Abs(en) < P => x = en)
      BY <1>5 DEF NearTo
<1>7. z + x \in Int
      BY SMT, <1>6
<1>8. NearTo(y, z + x)
      BY <1>3, <1>7, RoundedFacts
<1>9. y \in Int /\ Abs(y - (z + x)) * P <= Abs(z + x) /\ (Abs(z + x) < P => y = z + x)
      BY <1>8 DEF NearTo
<1>10. QuotNear(ns, y, k)
       BY <1>3, <1>9, RoundedQuotFacts
<1> DEFINE c == Abs(x - en)
           d == Abs(y - (z + x))
           u == Abs(ns) * m - Abs(y)
<1>11. /\ ns \in Int /\ -m < u /\ u <= m /\ (u > 0 => u * P <= Abs(y))
       /\ Abs(ns * k - y) = Abs(u)
       BY <1>10 DEF QuotNear
<1>12. c \in Nat /\ d \in Nat /\ Abs(en) \in Nat /\ Abs(z + x) \in Nat /\ Abs(y) \in Nat
       BY SMTT(30), <1>4, <1>6, <1>7, <1>9 DEF Abs
<1>13. u \in Int
  <2>1. Abs(ns) \in Nat
        BY SMT, <1>11 DEF Abs
  <2> HIDE DEF m
  <2> QED
      BY SMTT(30), <1>1, <1>12, <2>1
<1>14. num \in Int /\ num < mn /\ -num < mn /\ Abs(num) < mn
       BY SMTT(30), <1>1, <1>4 DEF Abs
<1>15. 4 * c <= m - 1
  <2>1. Abs(en) <= (m - 1) * N
    <3>1. (m - 1) * N = mn - N
      <4> HIDE DEF m, N
      <4> QED
          BY SMTT(30), <1>1 DEF mn
    <3> QED
        BY SMTT(30), <1>1, <1>4, <3>1 DEF Abs
  <2>2. c * P <= (m - 1) * N
    <3>1. c * P \in Int /\ (m - 1) * N \in Int
      <4> HIDE DEF c, m, N, P
      <4> QED
          BY SMTT(30), <1>1, <1>12
    <3> HIDE DEF m, N, P
    <3> QED
        BY SMTT(30), <1>6, <1>12, <2>1, <3>1 DEF c
  <2>3. m - 1 \in Nat
    <3> HIDE DEF m
    <3> QED
        BY SMT, <1>1
  <2> HIDE DEF c, m
  <2> QED
      BY <1>12, <2>2, <2>3, SmallPart DEF N, P
<1>16. Abs(z + x) <= mn + c /\ Abs(y) <= (mn + c) + d /\ Abs(y - num) <= c + d
       BY SMTT(30), <1>4, <1>6, <1>9, <1>14 DEF Abs
\* Twice a part in P of b seconds and c nanoseconds, c small
<1>17. ASSUME NEW v \in Nat, NEW w \in Nat, NEW g \in Nat, v * P <= w, w <= mn + g
       PROVE  8 * v <= 2 * m + g
  <2>1. (2 * v) * P = 2 * (v * P) /\ v * P \in Int
        BY SMTT(30), <1>1
  <2>2. (2 * m + g) * N = 2 * mn + g * N /\ g * N >= 2 * g /\ g * N \in Int /\ (2 * m + g) * N \in Int
    <3> HIDE DEF m, N, P
    <3>1. g * N >= g * 2
          BY SMTT(30), <1>1
    <3>2. (2 * m + g) * N = 2 * (m * N) + g * N /\ g * N \in Int
          BY SMTT(30), <1>1
    <3>3. (2 * m + g) * N \in Int /\ g * 2 = 2 * g
          BY SMTT(30), <1>1
    <3> QED
        BY <3>1, <3>2, <3>3 DEF mn
  <2>3. (2 * v) * P <= (2 * m + g) * N
    <3> HIDE DEF m, N, P
    <3> DEFINE vp == v * P
               gn == g * N
               r == (2 * m + g) * N
    <3>1. vp <= w /\ vp \in Int /\ gn >= 2 * g /\ gn \in Int /\ r = 2 * mn + gn
          BY <1>17, <2>1, <2>2
    <3> HIDE DEF vp, gn, r
    <3>2. 2 * vp <= r
          BY SMTT(30), <1>4, <1>17, <3>1
    <3> QED
        BY <2>1, <3>2 DEF vp, r
  <2>4. 2 * v \in Nat /\ 2 * m + g \in Nat
        BY SMT, <1>1
  <2> HIDE DEF m
  <2>5. 4 * (2 * v) <= 2 * m + g
        BY <2>3, <2>4, SmallPart DEF N, P
  <2> QED
      BY SMT, <1>1, <2>5
<1>18. 8 * d <= 2 * m + c
  <2> DEFINE w == Abs(z + x)
  <2>1. d * P <= w /\ w \in Nat /\ w <= mn + c
        BY <1>9, <1>12, <1>16
  <2> HIDE DEF w, d, c, m, P
  <2> QED
      BY <1>12, <1>17, <2>1
<1>19. u > 0 => 8 * u <= 2 * m + (c + d)
  <2> SUFFICES ASSUME u > 0 PROVE 8 * u <= 2 * m + (c + d)
      OBVIOUS
  <2> DEFINE w == Abs(y)
             g == c + d
  <2>1. u * P <= w /\ w \in Nat
        BY <1>11, <1>12
  <2>2. w <= mn + g /\ g \in Nat /\ u \in Nat
    <3> HIDE DEF c, d, u
    <3> QED
        BY SMT, <1>4, <1>12, <1>13, <1>16
  <2> HIDE DEF w, u, g, m, P
  <2>3. 8 * u <= 2 * m + g
        BY <1>17, <2>1, <2>2
  <2> QED
      BY <2>3 DEF g
<1> DEFINE a == Abs(ns)
           am == a * m
<1>20. a \in Nat /\ am \in Int /\ am = Abs(y) + u
  <2>1. a \in Nat
        BY SMT, <1>11 DEF Abs
  <2> HIDE DEF a, m
  <2>2. am \in Int
        BY SMTT(30), <1>1, <2>1
  <2>3. u = am - Abs(y)
        BY DEF a, m
  <2> HIDE DEF am, u
  <2> QED
      BY SMTT(30), <1>12, <1>13, <2>1, <2>2, <2>3
<1>21. Abs(ns * k - num) <= Abs(u) + (c + d) /\ Abs(ns * k - num) \in Nat
  <2>1. ns * k \in Int
        BY SMTT(30), <1>11
  <2> DEFINE nk == ns * k
  <2>2. nk \in Int /\ Abs(nk - y) = Abs(u)
        BY <1>11, <2>1
  <2> HIDE DEF nk, u, c, d, num
  <2>3. Abs(nk - num) <= Abs(nk - y) + Abs(y - num) /\ Abs(nk - num) \in Nat
        /\ Abs(nk - y) \in Nat /\ Abs(y - num) \in Nat
        BY SMTT(30), <1>9, <1>14, <2>2 DEF Abs
  <2> QED
      BY SMTT(30), <1>12, <1>16, <2>2, <2>3 DEF nk
<1>22. CASE mn <= P
  <2>1. x = en
    <3>1. Abs(en) < P
          BY SMTT(30), <1>1, <1>4, <1>22 DEF Abs
    <3> QED
        BY <1>6, <3>1
  <2>2. y = num
    <3>1. Abs(num) < P
          BY SMTT(30), <1>1, <1>4, <1>14, <1>22 DEF Abs
    <3> QED
        BY <1>9, <2>1, <3>1
  <2>3. u <= 0
    <3>1. CASE u >= 1
      <4> HIDE DEF u
      <4>1. u * P >= P
            BY SMTT(30), <1>1, <1>13, <3>1
      <4>2. u * P <= Abs(y) /\ u * P \in Int
        <5>1. u > 0
              BY SMT, <1>13, <3>1
        <5>2. u * P \in Int
              BY SMTT(30), <1>1, <1>13
        <5> QED
            BY <1>11, <5>1, <5>2
      <4>3. Abs(y) < mn
            BY <1>14, <2>2
      <4> QED
          BY SMTT(30), <1>1, <1>4, <1>12, <1>22, <4>1, <4>2, <4>3
    <3> HIDE DEF u
    <3> QED
        BY SMT, <1>13, <3>1
  <2>4. Abs(ns * k - num) < m
    <3>1. Abs(u) < m
      <4> HIDE DEF u, m
      <4> QED
          BY SMTT(30), <1>1, <1>11, <1>13, <2>3 DEF Abs
    <3> QED
        BY <1>11, <2>2, <3>1
  <2>5. a < N
    <3>1. am < mn
      <4>1. Abs(y) < mn
            BY <1>14, <2>2
      <4> HIDE DEF u, am
      <4> QED
          BY SMTT(30), <1>4, <1>12, <1>13, <1>20, <2>3, <4>1
    <3>2. CASE a >= N
      <4> HIDE DEF a, m, N
      <4>1. a * m >= N * m /\ N * m = m * N
            BY SMTT(30), <1>1, <1>20, <3>2
      <4> QED
          BY SMTT(30), <1>4, <1>20, <3>1, <4>1 DEF am, mn
    <3> HIDE DEF a, N
    <3> QED
        BY SMT, <1>1, <1>20, <3>2
  <2>6. -N < ns /\ ns < N
        BY SMTT(30), <1>1, <1>11, <2>5 DEF Abs
  <2>7. QuotientError(k) = m
        BY <1>22 DEF QuotientError, mn
  <2>8. -N <= ns /\ ns <= N
        BY SMT, <1>1, <1>11, <2>6
  <2> QED
      BY <1>11, <2>4, <2>6, <2>7, <2>8 DEF NsNear, ErrorBelow, num, en
<1>23. CASE ~(mn <= P)
  <2>1. Abs(ns * k - num) < 2 * m
    <3> DEFINE t == Abs(ns * k - num)
    <3>1. t <= Abs(u) + (c + d) /\ t \in Nat
          BY <1>21
    <3> HIDE DEF t, u, c, d, m
    <3>2. c + d < m /\ Abs(u) <= m
          BY SMTT(30), <1>1, <1>11, <1>12, <1>13, <1>15, <1>18 DEF Abs
    <3>3. Abs(u) \in Nat
          BY SMT, <1>13 DEF Abs
    <3>4. t < 2 * m
          BY SMTT(30), <1>1, <1>12, <3>1, <3>2, <3>3
    <3> QED
        BY <3>4 DEF t
  <2>2. a <= N
    <3>1. am < mn + m
      <4>1. Abs(y) <= mn - 1 + (c + d)
            BY SMTT(30), <1>4, <1>6, <1>9, <1>14 DEF Abs
      <4> HIDE DEF u, c, d, m, am
      <4> QED
          BY SMTT(30), <1>1, <1>4, <1>12, <1>13, <1>15, <1>18, <1>19, <1>20, <4>1
    <3>2. CASE a >= N + 1
      <4> HIDE DEF a, m, N
      <4>1. a * m >= (N + 1) * m /\ (N + 1) * m = m * N + m
            BY SMTT(30), <1>1, <1>20, <3>2
      <4> QED
          BY SMTT(30), <1>1, <1>4, <1>20, <3>1, <4>1 DEF am, mn
    <3> HIDE DEF a, N
    <3> QED
        BY SMTT(30), <1>1, <1>20, <3>2
  <2>3. -N <= ns /\ ns <= N
        BY SMTT(30), <1>1, <1>11, <2>2 DEF Abs
  <2>4. QuotientError(k) = 2 * m
        BY <1>23 DEF QuotientError, mn
  <2> QED
      BY <1>11, <1>23, <2>1, <2>3, <2>4 DEF NsNear, ErrorBelow, num, en, mn
<1> QED
    BY <1>22, <1>23

\* -1 has the absolute value 1.
LEMMA AbsOfMinusOne == Abs(-1) = 1
<1>1. \A k \in Int : k + 1 = 0 => Abs(k) = 1
      BY SMT DEF Abs
<1>2. -1 \in Int /\ -1 + 1 = 0
      BY SMT
<1> QED
    BY <1>1, <1>2

\* A quotient exists unless the divisor is zero or it is the negative of
\* INT64_MIN seconds, and is cut to whole nanoseconds or close to that.
LEMMA DivFacts ==
    ASSUME NEW a \in Durations, NEW k \in Int, NEW t \in DurationDiv(a, k)
    PROVE  \/ /\ t \in Durations
              /\ Abs(Value(t) * k - Value(a)) < QuotientError(k)
           \/ /\ t = INVALID_DURATION
              /\ k = 0 \/ (a.s = INT_MIN /\ k = -1)
<1> DEFINE x == a.s
           z == a.ns
           s == Quot(x, k)
           e == Rem(x, k)
           num == z + e * NS_IN_S
           m == Abs(k)
           T(ns) == Normalize([s |-> s, ns |-> ns])
<1>1. /\ x \in Int /\ z \in Int /\ 0 <= z /\ z < NS_IN_S
      /\ INT_MIN <= x /\ x <= INT_MAX
      /\ Value(a) = x * NS_IN_S + z /\ Valid(a)
      BY DurationFacts
<1>2. DurationDiv(a, k) = IF k = 0 \/ (x = INT_MIN /\ k = -1) THEN {INVALID_DURATION}
                          ELSE { T(ns).t : ns \in DividedNs(z, e, k) }
      BY <1>1 DEF DurationDiv
<1>3. CASE k = 0 \/ (x = INT_MIN /\ k = -1)
  <2>1. t = INVALID_DURATION
        BY <1>2, <1>3
  <2> QED
      BY <1>3, <2>1
<1>4. CASE ~(k = 0 \/ (x = INT_MIN /\ k = -1))
  <2>0. m \in Nat /\ m >= 1 /\ (k > 0 => m = k) /\ (k < 0 => m = -k) /\ k # 0
        BY SMTT(30), <1>4 DEF Abs
  <2>a. k = -1 => m = 1
        BY AbsOfMinusOne
  <2>1. s \in Int /\ e \in Int /\ x = k * s + e /\ e < m /\ -e < m
        /\ (x >= 0 => e >= 0) /\ (x <= 0 => e <= 0)
        BY <1>1, <2>0, QuotFacts
  <2>2. PICK ns \in DividedNs(z, e, k) : t = T(ns).t
        BY <1>2, <1>4
  <2> HIDE DEF x, z, s, e
  <2>3. NsNear(ns, num, m) /\ ErrorBelow(ns, k, num)
        BY <1>1, <2>0, <2>1, <2>2, DividedNsFacts
  <2>4. /\ ns \in Int /\ -NS_IN_S <= ns /\ ns <= NS_IN_S
        /\ m * NS_IN_S <= DOUBLE_EXACT => -NS_IN_S < ns /\ ns < NS_IN_S
        /\ Abs(ns * k - num) < QuotientError(k)
        BY <2>3 DEF NsNear, ErrorBelow
  <2> HIDE DEF m
  <2>5. s * NS_IN_S * k = x * NS_IN_S - e * NS_IN_S
        BY SMTT(30), <2>1, Limits
  <2>6. INT_MAX >= 2
    <3>1. NS_IN_S >= 2
      <4>1. NS_IN_S \in Nat /\ NS_IN_S > 0 /\ NS_IN_S % 2 = 0
            BY Limits, DurationAssumption
      <4> QED
          BY SMTT(30), <4>1
    <3> QED
        BY SMT, <3>1, Limits
  <2>7. /\ INT_MIN <= s /\ s <= INT_MAX
        /\ s = INT_MIN => k = 1
        /\ s = INT_MAX => m = 1
    <3>1. CASE k = 1
          BY SMTT(30), <1>1, <2>0, <2>1, <2>6, <3>1, Limits
    <3>2. CASE k = -1
      <4>1. m = 1 /\ e = 0
        <5>1. m = 1
              BY <2>a, <3>2
        <5>2. e \in Int /\ e < 1 /\ -e < 1
              BY <2>1, <5>1
        <5> HIDE DEF e
        <5>3. e = 0
              BY SMT, <5>2
        <5> QED
            BY <5>1, <5>3
      <4>2. x # INT_MIN
            BY <1>4, <3>2
      <4>3. (-1) * s = -s
            BY SMT, <2>1
      <4>4. x = -s
            BY SMTT(30), <2>1, <3>2, <4>1, <4>3
      <4> QED
          BY SMTT(30), <1>1, <2>1, <2>6, <4>1, <4>2, <4>4, Limits
    <3>3. CASE k >= 2
      <4>1. CASE s >= 0
        <5>1. k * s >= 2 * s /\ k * s \in Int
              BY SMTT(30), <2>1, <3>3, <4>1
        <5>2. CASE s = 0
              BY SMT, <2>6, <5>2, Limits
        <5>3. CASE s >= 1
          <6>1. k * s >= k
                BY SMTT(30), <2>1, <3>3, <5>3
          <6>2. x > 0
                BY SMTT(30), <1>1, <2>0, <2>1, <3>3, <5>1, <6>1
          <6> QED
              BY SMTT(30), <1>1, <2>0, <2>1, <2>6, <3>3, <5>1, <5>3, <6>2, Limits
        <5> QED
            BY SMT, <2>1, <4>1, <5>2, <5>3
      <4>2. CASE s < 0
        <5>1. k * s <= 2 * s
              BY SMTT(30), <2>1, <3>3, <4>2
        <5> QED
            BY SMTT(30), <1>1, <2>0, <2>1, <2>6, <3>3, <4>2, <5>1, Limits
      <4> QED
          BY SMTT(30), <2>1, <4>1, <4>2
    <3>4. CASE k <= -2
      <4>1. CASE s > 0
        <5>1. k * s <= -2 * s
              BY SMTT(30), <2>1, <3>4, <4>1
        <5> QED
            BY SMTT(30), <1>1, <2>0, <2>1, <2>6, <3>4, <4>1, <5>1, Limits
      <4>2. CASE s <= 0
        <5>1. k * s >= -2 * s
              BY SMTT(30), <2>1, <3>4, <4>2
        <5> QED
            BY SMTT(30), <1>1, <2>0, <2>1, <2>6, <3>4, <4>2, <5>1, Limits
      <4> QED
          BY SMTT(30), <2>1, <4>1, <4>2
    <3> QED
        BY SMTT(30), <2>0, <3>1, <3>2, <3>3, <3>4
  <2>8. s \in Seconds /\ -NS_IN_S <= ns /\ ns < 2 * NS_IN_S
        BY SMTT(30), <2>1, <2>4, <2>7, Limits DEF Seconds
  <2>9. ~(ns < 0 /\ s = INT_MIN) /\ ~(ns >= NS_IN_S /\ s = INT_MAX)
    <3>1. CASE m = 1
      <4>1. e = 0 /\ num = z
        <5>1. e = 0
              BY SMTT(30), <2>1, <3>1
        <5> QED
            BY SMTT(30), <1>1, <5>1, Limits
      <4>2. m * NS_IN_S <= DOUBLE_EXACT
            BY SMTT(30), <3>1, Limits, DurationAssumption
      <4>3. ns < NS_IN_S
            BY <2>4, <4>2
      <4>4. k = 1 => ns >= 0
        <5> SUFFICES ASSUME k = 1 PROVE ns >= 0
            OBVIOUS
        <5>1. QuotientError(k) = 1
              BY <3>1, <4>2 DEF QuotientError, m
        <5>2. ns * k = ns
              BY SMT, <2>4
        <5>3. Abs(ns - z) < 1
              BY <2>4, <4>1, <5>1, <5>2
        <5> QED
            BY SMTT(30), <1>1, <2>4, <5>3 DEF Abs
      <4> QED
          BY SMTT(30), <2>4, <2>7, <4>3, <4>4, Limits
    <3>2. CASE m # 1
      <4>1. k # 1
            BY SMT, <2>0, <3>2
      <4> QED
          BY <2>7, <3>2, <4>1
    <3> QED
        BY <3>1, <3>2
  <2> DEFINE n == T(ns)
  <2>10. n.t \in Durations /\ Value(n.t) = s * NS_IN_S + ns
        BY <2>4, <2>8, <2>9, NormalizeFacts
  <2>11. t = n.t
        BY <2>2
  <2> HIDE DEF n
  <2>12. Value(t) * k - Value(a) = ns * k - num
    <3>1. (s * NS_IN_S + ns) * k = s * NS_IN_S * k + ns * k
          BY SMTT(30), <2>1, <2>4, Limits
    <3>2. Value(t) = s * NS_IN_S + ns
          BY <2>10, <2>11
    <3>3. /\ s * NS_IN_S * k \in Int /\ ns * k \in Int
          /\ x * NS_IN_S \in Int /\ e * NS_IN_S \in Int
          BY SMTT(30), <1>1, <2>1, <2>4, Limits
    <3> QED
        BY SMTT(30), <1>1, <2>5, <3>1, <3>2, <3>3
  <2> QED
      BY <2>4, <2>10, <2>11, <2>12
<1> QED
    BY <1>3, <1>4

\* Comparing seconds first and nanoseconds then compares the durations.
LEMMA ComparisonFacts ==
    ASSUME NEW a \in Durations, NEW b \in Durations
    PROVE  /\ Less(a, b) <=> Value(a) < Value(b)
           /\ Equal(a, b) <=> Value(a) = Value(b)
<1> DEFINE x == a.s
           y == b.s
           p == x * NS_IN_S
           q == y * NS_IN_S
<1>1. /\ x \in Int /\ a.ns \in Int /\ 0 <= a.ns /\ a.ns < NS_IN_S /\ Valid(a)
      /\ y \in Int /\ b.ns \in Int /\ 0 <= b.ns /\ b.ns < NS_IN_S /\ Valid(b)
      /\ Value(a) = p + a.ns /\ Value(b) = q + b.ns
      BY DurationFacts
<1> HIDE DEF x, y
<1>2. p \in Int /\ q \in Int
      BY SMTT(30), <1>1, Limits
<1>3. (x < y => p + NS_IN_S <= q) /\ (y < x => q + NS_IN_S <= p) /\ (x = y => p = q)
      BY SMTT(30), <1>1, Limits
<1> HIDE DEF p, q
<1>4. (x < y \/ (x = y /\ a.ns < b.ns)) <=> Value(a) < Value(b)
      BY SMTT(30), <1>1, <1>2, <1>3, Limits
<1>5. (x = y /\ a.ns = b.ns) <=> Value(a) = Value(b)
      BY SMTT(30), <1>1, <1>2, <1>3, Limits
<1> QED
    BY <1>1, <1>4, <1>5 DEF Less, Equal, x, y

\* The text has the size of the duration.
LEMMA TextFacts ==
    ASSUME NEW t \in Durations
    PROVE  LET text == AsString(t) IN
           /\ text.whole * NS_IN_S + text.fraction = Abs(Value(t))
           /\ text.minus = (Value(t) <= -NS_IN_S)
<1> DEFINE x == t.s
           z == t.ns
<1>1. /\ x \in Int /\ z \in Int /\ 0 <= z /\ z < NS_IN_S
      /\ Value(t) = x * NS_IN_S + z
      BY DurationFacts
<1>2. CASE x < 0 /\ z > 0
  <2> DEFINE w == x + 1
             e == w < 0
  <2>1. AsString(t) = [minus |-> e, whole |-> Abs(w), fraction |-> NS_IN_S - z]
        BY <1>2 DEF AsString
  <2>2. Abs(w) = -w
        BY SMT, <1>1, <1>2 DEF Abs
  <2> HIDE DEF x, z
  <2>3. (-w) * NS_IN_S + (NS_IN_S - z) = -(x * NS_IN_S + z)
        BY SMTT(30), <1>1, Limits
  <2>4. x * NS_IN_S <= -NS_IN_S
        BY SMTT(30), <1>1, <1>2, Limits
  <2>5. Abs(Value(t)) = -(x * NS_IN_S + z)
        BY SMTT(30), <1>1, <2>4, Limits DEF Abs
  <2>6. e = (Value(t) <= -NS_IN_S)
    <3>1. CASE x = -1
          BY SMTT(30), <1>1, <1>2, <3>1, Limits
    <3>2. CASE x <= -2
      <4>1. x * NS_IN_S <= -2 * NS_IN_S
            BY SMTT(30), <1>1, <3>2, Limits
      <4> QED
          BY SMTT(30), <1>1, <3>2, <4>1, Limits
    <3> QED
        BY SMTT(30), <1>1, <1>2, <3>1, <3>2
  <2> HIDE DEF e, w
  <2>7. /\ AsString(t).minus = e /\ AsString(t).whole = Abs(w)
        /\ AsString(t).fraction = NS_IN_S - z
        BY SMT, <2>1
  <2> QED
      BY <2>2, <2>3, <2>5, <2>6, <2>7
<1>3. CASE ~(x < 0 /\ z > 0)
  <2> DEFINE e == x < 0
  <2>1. AsString(t) = [minus |-> e, whole |-> Abs(x), fraction |-> z]
        BY <1>3 DEF AsString
  <2> HIDE DEF x, z
  <2>2. Abs(x) * NS_IN_S + z = Abs(Value(t)) /\ e = (Value(t) <= -NS_IN_S)
    <3>1. CASE x >= 0
      <4>1. x * NS_IN_S >= 0
            BY SMTT(30), <1>1, <3>1, Limits
      <4> QED
          BY SMTT(30), <1>1, <3>1, <4>1, Limits DEF Abs
    <3>2. CASE x < 0
      <4>1. x * NS_IN_S <= -NS_IN_S /\ z = 0
            BY SMTT(30), <1>1, <1>3, <3>2, Limits
      <4>2. (-x) * NS_IN_S = -(x * NS_IN_S)
            BY SMTT(30), <1>1, Limits
      <4>3. Abs(x) = -x /\ Abs(Value(t)) = -(x * NS_IN_S)
            BY SMTT(30), <1>1, <3>2, <4>1, Limits DEF Abs
      <4>4. Abs(x) * NS_IN_S + z = Abs(Value(t))
            BY SMTT(30), <1>1, <4>1, <4>2, <4>3, Limits
      <4> QED
          BY SMTT(30), <1>1, <3>2, <4>1, <4>4, Limits
    <3> QED
        BY SMTT(30), <1>1, <3>1, <3>2
  <2> HIDE DEF e
  <2>3. /\ AsString(t).minus = e /\ AsString(t).whole = Abs(x)
        /\ AsString(t).fraction = z
        BY SMT, <2>1
  <2> QED
      BY <2>2, <2>3
<1> QED
    BY <1>2, <1>3

\* What avs_time_duration_to_scalar converts: seconds and nanoseconds of the
\* same sign.
LEMMA ScalarParts ==
    ASSUME NEW t \in Durations, NEW unit
    PROVE  \E s \in Seconds, ns \in Seconds :
              LET x == Forward(s, unit.s)
                  y == Forward(ns, unit.ns)
                  sum == SafeAdd(x.v, y.v) IN
              /\ -NS_IN_S < ns /\ ns < NS_IN_S
              /\ (s > 0 => ns >= 0) /\ (s < 0 => ns <= 0)
              /\ Value(t) = s * NS_IN_S + ns
              /\ ToScalar(t, unit) = [ok |-> x.ok /\ y.ok /\ sum.ok, v |-> sum.v]
<1>1. /\ t.s \in Int /\ t.ns \in Int /\ 0 <= t.ns /\ t.ns < NS_IN_S /\ Valid(t)
      /\ INT_MIN <= t.s /\ t.s <= INT_MAX
      /\ Value(t) = t.s * NS_IN_S + t.ns
      BY DurationFacts
<1> DEFINE moved == t.s < 0 /\ t.ns > 0
           s == IF moved THEN t.s + 1 ELSE t.s
           ns == IF moved THEN t.ns - NS_IN_S ELSE t.ns
           x == Forward(s, unit.s)
           y == Forward(ns, unit.ns)
           sum == SafeAdd(x.v, y.v)
<1>2. ToScalar(t, unit) = [ok |-> Valid(t) /\ x.ok /\ y.ok /\ sum.ok, v |-> sum.v]
      BY DEF ToScalar
<1>3. (Valid(t) /\ x.ok /\ y.ok /\ sum.ok) = (x.ok /\ y.ok /\ sum.ok)
      BY <1>1
<1>4. ToScalar(t, unit) = [ok |-> x.ok /\ y.ok /\ sum.ok, v |-> sum.v]
      BY <1>2, <1>3
<1>5. /\ s \in Int /\ ns \in Int /\ INT_MIN <= s /\ s <= INT_MAX
      /\ -NS_IN_S < ns /\ ns < NS_IN_S
      /\ (s > 0 => ns >= 0) /\ (s < 0 => ns <= 0)
      BY SMTT(30), <1>1, Limits
<1>6. Value(t) = s * NS_IN_S + ns
  <2>1. (t.s + 1) * NS_IN_S + (t.ns - NS_IN_S) = t.s * NS_IN_S + t.ns
        BY SMTT(30), <1>1, Limits
  <2>2. CASE moved
        BY <1>1, <2>1, <2>2
  <2>3. CASE ~moved
        BY <1>1, <2>3
  <2> QED
      BY <2>2, <2>3
<1> HIDE DEF s, ns
<1>7. s \in Seconds /\ ns \in Seconds
      BY SMTT(30), <1>5, Limits DEF Seconds
<1> QED
    BY <1>4, <1>5, <1>6, <1>7

\* The quotient is at most as large as the dividend, on its side of zero.
LEMMA QuotSize ==
    ASSUME NEW a \in Int, NEW b \in Int, b > 0
    PROVE  /\ Quot(a, b) \in Int /\ Rem(a, b) \in Int
           /\ a = b * Quot(a, b) + Rem(a, b) /\ Rem(a, b) < b /\ -Rem(a, b) < b
           /\ a >= 0 => /\ 0 <= Quot(a, b) /\ Quot(a, b) <= a /\ Rem(a, b) >= 0
                        /\ 0 <= Quot(a, b) * b /\ Quot(a, b) * b <= a
           /\ a <= 0 => /\ Quot(a, b) <= 0 /\ a <= Quot(a, b) /\ Rem(a, b) <= 0
                        /\ Quot(a, b) * b <= 0 /\ a <= Quot(a, b) * b
<1> DEFINE q == Quot(a, b)
           r == Rem(a, b)
<1>0. b # 0 /\ Abs(b) = b
      BY SMT DEF Abs
<1>1. /\ q \in Int /\ r \in Int /\ a = b * q + r /\ r < b /\ -r < b
      /\ a >= 0 => r >= 0
      /\ a <= 0 => r <= 0
      BY <1>0, QuotFacts
<1> HIDE DEF q, r
<1>2. q * b = b * q /\ b * q \in Int
      BY SMT, <1>1
<1>3. a >= 0 => q >= 0
      BY SMTT(30), <1>1
<1>4. a <= 0 => q <= 0
      BY SMTT(30), <1>1
<1>5. q >= 0 => b * q >= q
      BY SMTT(30), <1>1
<1>6. q <= 0 => b * q <= q
      BY SMTT(30), <1>1
<1>7. /\ a >= 0 => 0 <= q /\ q <= a /\ r >= 0 /\ 0 <= q * b /\ q * b <= a
      /\ a <= 0 => q <= 0 /\ a <= q /\ r <= 0 /\ q * b <= 0 /\ a <= q * b
      BY SMTT(30), <1>1, <1>2, <1>3, <1>4, <1>5, <1>6
<1> QED
    BY <1>1, <1>7 DEF q, r

\* Seconds, and the units that a second has a whole number of: the result is
\* the quotient, and overflow is reported exactly.
LEMMA ToSmallUnit ==
    ASSUME NEW t \in Durations, NEW B \in Nat, NEW P \in Nat, B > 0, P > 0,
           B * P = NS_IN_S, NEW unit,
           \/ unit = Unit(FALSE, B, TRUE, P)
           \/ unit = Unit(FALSE, B, FALSE, 1) /\ P = 1
    PROVE  LET x == ToScalar(t, unit)
               q == Quot(Value(t), P) IN
           /\ x.ok <=> Fits(q)
           /\ x.ok => x = [ok |-> TRUE, v |-> q]
<1>1. PICK s \in Seconds, ns \in Seconds :
              LET x == Forward(s, unit.s)
                  y == Forward(ns, unit.ns)
                  sum == SafeAdd(x.v, y.v) IN
              /\ -NS_IN_S < ns /\ ns < NS_IN_S
              /\ (s > 0 => ns >= 0) /\ (s < 0 => ns <= 0)
              /\ Value(t) = s * NS_IN_S + ns
              /\ ToScalar(t, unit) = [ok |-> x.ok /\ y.ok /\ sum.ok, v |-> sum.v]
      BY ScalarParts
<1> DEFINE x == Forward(s, unit.s)
           y == Forward(ns, unit.ns)
           sum == SafeAdd(x.v, y.v)
           j == B * s
           q == Quot(ns, P)
           r == Rem(ns, P)
<1>2. /\ s \in Int /\ ns \in Int /\ INT_MIN <= s /\ s <= INT_MAX
      /\ INT_MIN <= ns /\ ns <= INT_MAX /\ B \in Int /\ P \in Int
      BY SMT, Limits DEF Seconds
<1>3. x = SafeMul(s, B)
  <2>1. unit.s.div = FALSE /\ unit.s.by = B
        BY SMT DEF Unit
  <2> QED
      BY <2>1 DEF Forward, UnitConv
<1>4. (x.ok <=> Fits(j)) /\ (x.ok => x.v = j)
  <2>1. s * B = B * s
        BY SMT, <1>2
  <2> QED
      BY <1>2, <1>3, <2>1, SafeMulFacts
<1>5. /\ q \in Int /\ r \in Int /\ ns = P * q + r /\ r < P /\ -r < P
      /\ ns >= 0 => 0 <= q /\ q <= ns /\ r >= 0
      /\ ns <= 0 => q <= 0 /\ ns <= q /\ r <= 0
      BY <1>2, QuotSize
<1>6. y.ok /\ y.v = q
  <2>1. CASE unit = Unit(FALSE, B, TRUE, P)
    <3>1. unit.ns.div = TRUE /\ unit.ns.by = P
          BY SMTT(30), <2>1 DEF Unit
    <3>2. y = [ok |-> TRUE, v |-> q]
          BY <3>1 DEF Forward, UnitConv
    <3> QED
        BY SMTT(30), <3>2
  <2>2. CASE unit = Unit(FALSE, B, FALSE, 1) /\ P = 1
    <3>1. unit.ns.div = FALSE /\ unit.ns.by = 1
          BY SMTT(30), <2>2 DEF Unit
    <3>2. y = SafeMul(ns, 1)
          BY <3>1 DEF Forward, UnitConv
    <3>3. ns * 1 = ns /\ Fits(ns) /\ 1 \in Int
          BY SMTT(30), <1>2, Limits DEF Fits
    <3>4. y.ok /\ y.v = ns
          BY <3>2, <3>3, SafeMulFacts
    <3>5. q = ns
      <4> HIDE DEF q, r
      <4> QED
          BY SMTT(30), <1>2, <1>5, <2>2
    <3> QED
        BY <3>4, <3>5
  <2> QED
      BY <2>1, <2>2
<1>7. q \in Seconds
  <2> HIDE DEF q, r
  <2> QED
      BY SMTT(30), <1>2, <1>5, Limits DEF Seconds
<1> HIDE DEF x, y, q, r
<1>8. j \in Int
      BY SMT, <1>2
<1>9. Quot(Value(t), P) = j + q
  <2>1. s * NS_IN_S = P * j
        BY SMT, <1>2, Limits
  <2>2. P * (j + q) = P * j + P * q
        BY SMT, <1>2, <1>5, <1>8
  <2>3. Value(t) = P * (j + q) + r /\ Value(t) \in Int /\ j + q \in Int
        BY SMTT(30), <1>1, <1>2, <1>5, <1>8, <2>1, <2>2, Limits
  <2>4. (s > 0 => s * NS_IN_S >= NS_IN_S) /\ (s < 0 => s * NS_IN_S <= -NS_IN_S)
        BY SMTT(30), <1>2, Limits
  <2>5. (s = 0 => s * NS_IN_S = 0) /\ s * NS_IN_S \in Int
        BY SMTT(30), <1>2, Limits
  <2>6. /\ -NS_IN_S < ns /\ ns < NS_IN_S
        /\ (s > 0 => ns >= 0) /\ (s < 0 => ns <= 0)
        /\ Value(t) = s * NS_IN_S + ns
        BY <1>1
  <2>7. (Value(t) >= 0 => r >= 0) /\ (Value(t) <= 0 => r <= 0)
        BY SMTT(30), <1>2, <1>5, <2>4, <2>5, <2>6, Limits
  <2> QED
      BY <1>2, <1>5, <2>3, <2>7, QuotIs
<1>10. Fits(j + q) => Fits(j)
  <2>1. (s > 0 => j > 0) /\ (s < 0 => j < 0) /\ (s = 0 => j = 0)
        BY SMTT(30), <1>2
  <2>2. (s > 0 => q >= 0) /\ (s < 0 => q <= 0)
        BY SMTT(30), <1>1, <1>2, <1>5
  <2> HIDE DEF j
  <2> QED
      BY SMTT(30), <1>2, <1>5, <1>8, <2>1, <2>2, Limits DEF Fits
<1> HIDE DEF j
<1>11. Fits(j) => sum.v = j + q /\ (sum.ok <=> Fits(j + q))
  <2> SUFFICES ASSUME Fits(j)
               PROVE  sum.v = j + q /\ (sum.ok <=> Fits(j + q))
      OBVIOUS
  <2>1. j \in Seconds
        BY DEF Fits, Seconds
  <2>2. sum = SafeAdd(j, q)
        BY <1>4, <1>6
  <2> QED
      BY <1>7, <2>1, <2>2, SafeAddFacts
<1>12. ToScalar(t, unit) = [ok |-> x.ok /\ y.ok /\ sum.ok, v |-> sum.v]
      BY <1>1 DEF x, y
<1> DEFINE e == x.ok /\ y.ok /\ sum.ok
<1>13. e <=> Fits(j + q)
      BY <1>4, <1>6, <1>10, <1>11
<1>14. e \in BOOLEAN
      OBVIOUS
<1> HIDE DEF e, sum
<1>15. ToScalar(t, unit).ok = e /\ ToScalar(t, unit) = [ok |-> e, v |-> sum.v]
      BY SMT, <1>12 DEF e
<1>16. e => e = TRUE /\ sum.v = j + q
      BY <1>10, <1>11, <1>13, <1>14
<1> QED
    BY <1>9, <1>13, <1>15, <1>16

\* A minute is four seconds here: the seconds are cut to minutes, what the
\* nanoseconds add is less than one.
LEMMA ToMinutes ==
    ASSUME NEW t \in Durations
    PROVE  LET x == ToScalar(t, Unit(TRUE, 4, TRUE, 4 * NS_IN_S))
               P == 4 * NS_IN_S IN
           /\ x.ok
           /\ Abs(Value(t) - x.v * P) < 2 * P
           /\ Abs(x.v * P) <= Abs(Value(t))
           /\ t.ns = 0 => x = [ok |-> TRUE, v |-> Quot(t.s, 4)]
<1> DEFINE unit == Unit(TRUE, 4, TRUE, 4 * NS_IN_S)
           P == 4 * NS_IN_S
<1>1. PICK s \in Seconds, ns \in Seconds :
              LET x == Forward(s, unit.s)
                  y == Forward(ns, unit.ns)
                  sum == SafeAdd(x.v, y.v) IN
              /\ -NS_IN_S < ns /\ ns < NS_IN_S
              /\ (s > 0 => ns >= 0) /\ (s < 0 => ns <= 0)
              /\ Value(t) = s * NS_IN_S + ns
              /\ ToScalar(t, unit) = [ok |-> x.ok /\ y.ok /\ sum.ok, v |-> sum.v]
      BY ScalarParts
<1> DEFINE x == Forward(s, unit.s)
           y == Forward(ns, unit.ns)
           sum == SafeAdd(x.v, y.v)
           q == Quot(s, 4)
           r == Rem(s, 4)
           e == x.ok /\ y.ok /\ sum.ok
<1>2. /\ s \in Int /\ ns \in Int /\ INT_MIN <= s /\ s <= INT_MAX
      /\ INT_MIN <= ns /\ ns <= INT_MAX /\ P \in Int /\ P > 0
      BY SMT, Limits DEF Seconds
<1>3. /\ q \in Int /\ r \in Int /\ s = 4 * q + r /\ r < 4 /\ -r < 4
      /\ s >= 0 => 0 <= q /\ q <= s /\ r >= 0 /\ 0 <= q * 4 /\ q * 4 <= s
      /\ s <= 0 => q <= 0 /\ s <= q /\ r <= 0 /\ q * 4 <= 0 /\ s <= q * 4
  <2>1. 4 \in Int /\ 4 > 0
        BY SMT
  <2> QED
      BY <1>2, <2>1, QuotSize
<1>4. x.ok /\ x.v = q
  <2>1. unit.s.div = TRUE /\ unit.s.by = 4
        BY SMT DEF Unit
  <2>2. x = [ok |-> TRUE, v |-> q]
        BY <2>1 DEF Forward, UnitConv
  <2> HIDE DEF x
  <2> QED
      BY SMT, <2>2
<1>5. y.ok /\ y.v = 0
  <2>1. unit.ns.div = TRUE /\ unit.ns.by = P
        BY SMT DEF Unit
  <2>2. Quot(ns, P) = 0
    <3>1. ns = P * 0 + ns /\ ns < P /\ -ns < P
          BY SMTT(30), <1>1, <1>2, Limits
    <3>2. 0 \in Int
          BY SMT
    <3> HIDE DEF P
    <3> QED
        BY <1>2, <3>1, <3>2, QuotIs
  <2>3. y = [ok |-> TRUE, v |-> 0]
        BY <2>1, <2>2 DEF Forward, UnitConv
  <2> HIDE DEF y
  <2> QED
      BY SMTT(30), <2>3
<1> HIDE DEF x, y, q, r
<1>6. q \in Seconds /\ 0 \in Seconds /\ Fits(q + 0) /\ q + 0 = q
      BY SMTT(30), <1>2, <1>3, Limits DEF Seconds, Fits
<1>7. sum.ok /\ sum.v = q
      BY <1>4, <1>5, <1>6, SafeAddFacts
<1>8. e = TRUE
      BY <1>4, <1>5, <1>7
<1>9. ToScalar(t, unit) = [ok |-> e, v |-> sum.v]
      BY <1>1 DEF x, y
<1> HIDE DEF e, sum, unit
<1>10. ToScalar(t, unit) = [ok |-> TRUE, v |-> q]
      BY <1>7, <1>8, <1>9
<1>11. ToScalar(t, unit).ok /\ ToScalar(t, unit).v = q
      BY SMT, <1>10
<1> DEFINE j == q * P
<1>12. /\ -NS_IN_S < ns /\ ns < NS_IN_S
       /\ (s > 0 => ns >= 0) /\ (s < 0 => ns <= 0)
       /\ Value(t) = s * NS_IN_S + ns
      BY <1>1
<1>13. /\ s * NS_IN_S = j + r * NS_IN_S /\ j \in Int /\ r * NS_IN_S \in Int
       /\ r * NS_IN_S <= 3 * NS_IN_S /\ r * NS_IN_S >= -3 * NS_IN_S
  <2>1. s * NS_IN_S = q * (4 * NS_IN_S) + r * NS_IN_S
        BY SMTT(30), <1>3, Limits
  <2>2. r * NS_IN_S <= 3 * NS_IN_S /\ r * NS_IN_S >= -3 * NS_IN_S
        BY SMTT(30), <1>3, Limits
  <2>3. j \in Int /\ r * NS_IN_S \in Int
        BY SMTT(30), <1>3, Limits
  <2> QED
      BY <2>1, <2>2, <2>3
<1>14. /\ s >= 0 => j >= 0 /\ r * NS_IN_S >= 0
       /\ s <= 0 => j <= 0 /\ r * NS_IN_S <= 0
       /\ s = 0 => q = 0 /\ r = 0
      BY SMTT(30), <1>2, <1>3, Limits
<1>15. q = 0 => j = 0
      BY SMT, <1>2
<1>16. r = 0 => r * NS_IN_S = 0
      BY SMTT(30), Limits
<1> HIDE DEF j
<1>17. Abs(Value(t) - j) < 2 * P
      BY SMTT(30), <1>2, <1>12, <1>13, Limits DEF Abs, P
<1>18. Abs(j) <= Abs(Value(t))
      BY SMTT(30), <1>2, <1>12, <1>13, <1>14, <1>15, <1>16, Limits DEF Abs
<1>19. t.ns = 0 => s = t.s
  <2>1. t.s \in Int /\ Value(t) = t.s * NS_IN_S + t.ns
        BY DurationFacts
  <2>2. t.s > s => t.s * NS_IN_S >= s * NS_IN_S + NS_IN_S
        BY SMTT(30), <1>2, <2>1, Limits
  <2>3. t.s < s => t.s * NS_IN_S <= s * NS_IN_S - NS_IN_S
        BY SMTT(30), <1>2, <2>1, Limits
  <2>4. t.s * NS_IN_S \in Int /\ s * NS_IN_S \in Int
        BY SMTT(30), <1>2, <2>1, Limits
  <2> QED
      BY SMTT(30), <1>2, <1>12, <2>1, <2>2, <2>3, <2>4, Limits
<1> QED
    BY <1>10, <1>11, <1>17, <1>18, <1>19 DEF j, q, unit

\* From seconds and smaller units nothing is lost.
LEMMA FromSmallUnit ==
    ASSUME NEW x \in Seconds, NEW B \in Nat, NEW P \in Nat, B > 0, P > 0,
           B * P = NS_IN_S, NEW unit,
           \/ unit = Unit(FALSE, B, TRUE, P)
           \/ unit = Unit(FALSE, B, FALSE, 1) /\ P = 1
    PROVE  LET t == FromScalar(x, unit) IN
           \/ t = INVALID_DURATION
           \/ t \in Durations /\ ToScalar(t, unit) = [ok |-> TRUE, v |-> x]
<1> DEFINE s == Backward(x, unit.s)
           back == Forward(s.v, unit.s)
           ns == Backward(x - back.v, unit.ns)
           n == Normalize([s |-> s.v, ns |-> ns.v])
           t == FromScalar(x, unit)
           q == Quot(x, B)
           r == Rem(x, B)
<1>1. t = IF s.ok /\ back.ok /\ ns.ok /\ ns.v > -NS_IN_S /\ ns.v < NS_IN_S /\ n.ok
          THEN n.t ELSE INVALID_DURATION
      BY DEF FromScalar
<1>2. x \in Int /\ INT_MIN <= x /\ x <= INT_MAX /\ B \in Int /\ P \in Int
      BY SMT, Limits DEF Seconds
<1>3. /\ q \in Int /\ r \in Int /\ x = B * q + r /\ r < B /\ -r < B
      /\ x >= 0 => 0 <= q /\ q <= x /\ r >= 0 /\ 0 <= q * B /\ q * B <= x
      /\ x <= 0 => q <= 0 /\ x <= q /\ r <= 0 /\ q * B <= 0 /\ x <= q * B
      BY <1>2, QuotSize
<1>4. unit.s.div = FALSE /\ unit.s.by = B
      BY SMTT(30) DEF Unit
<1>5. s.v = q
  <2>1. s = [ok |-> TRUE, v |-> q]
        BY <1>4 DEF Backward, UnitConv
  <2> QED
      BY SMTT(30), <2>1
<1>6. back = SafeMul(q, B)
      BY <1>4, <1>5 DEF Forward, UnitConv
<1> HIDE DEF q, r, s
<1>7. q \in Seconds /\ r \in Seconds /\ Fits(q * B) /\ x - q * B = r
  <2>1. q * B = B * q /\ B * q \in Int
        BY SMTT(30), <1>2, <1>3
  <2> QED
      BY SMTT(30), <1>2, <1>3, <2>1, Limits DEF Seconds, Fits
<1>8. back.v = q * B
      BY <1>2, <1>6, <1>7, SafeMulFacts
<1>9. ns = Backward(r, unit.ns)
      BY <1>7, <1>8
<1> HIDE DEF back
<1>10. ns.ok => ns.v = r * P
  <2>1. CASE unit = Unit(FALSE, B, TRUE, P)
    <3>1. unit.ns.div = TRUE /\ unit.ns.by = P
          BY SMT, <2>1 DEF Unit
    <3>2. ns = SafeMul(r, P)
          BY <1>9, <3>1 DEF Backward, UnitConv
    <3> QED
        BY <1>2, <1>7, <3>2, SafeMulFacts
  <2>2. CASE unit = Unit(FALSE, B, FALSE, 1) /\ P = 1
    <3>1. unit.ns.div = FALSE /\ unit.ns.by = 1
          BY SMT, <2>2 DEF Unit
    <3>2. ns = [ok |-> TRUE, v |-> Quot(r, 1)]
          BY <1>9, <3>1 DEF Backward, UnitConv
    <3>3. Quot(r, 1) = r
      <4>1. r = 1 * r /\ 1 \in Int /\ 1 > 0
            BY SMTT(30), <1>3
      <4> QED
          BY <1>3, <4>1, ExactQuot
    <3>4. r * P = r
          BY SMTT(30), <1>3, <2>2
    <3> QED
        BY SMTT(30), <3>2, <3>3, <3>4
  <2> QED
      BY <2>1, <2>2
<1> HIDE DEF ns, t
<1>11. CASE t # INVALID_DURATION
  <2>1. ns.ok /\ ns.v > -NS_IN_S /\ ns.v < NS_IN_S /\ n.ok /\ t = n.t
        BY <1>1, <1>11
  <2> DEFINE w == r * P
  <2>2. ns.v = w /\ w \in Int
    <3>1. ns.v = w
          BY <1>10, <2>1
    <3>2. w \in Int
          BY SMTT(30), <1>2, <1>3
    <3> QED
        BY <3>1, <3>2
  <2> HIDE DEF w
  <2>3. -NS_IN_S <= w /\ w < 2 * NS_IN_S
        BY SMTT(30), <2>1, <2>2, Limits
  <2>4. n = Normalize([s |-> q, ns |-> w])
        BY <1>5, <2>2
  <2> HIDE DEF n
  <2>5. t \in Durations /\ Value(t) = q * NS_IN_S + w
        BY <1>7, <2>1, <2>2, <2>3, <2>4, NormalizeFacts
  <2>6. q * NS_IN_S + w = P * x /\ P * x \in Int
        BY SMTT(30), <1>2, <1>3, Limits DEF w
  <2>7. Quot(Value(t), P) = x
        BY <1>2, <2>5, <2>6, ExactQuot
  <2>8. Fits(x)
        BY DEF Fits, Seconds
  <2>9. ToScalar(t, unit) = [ok |-> TRUE, v |-> x]
        BY <2>5, <2>7, <2>8, ToSmallUnit
  <2> QED
      BY <2>5, <2>9 DEF t
<1> QED
    BY <1>11 DEF t

\* From minutes nothing is lost.
LEMMA FromMinutes ==
    ASSUME NEW x \in Seconds
    PROVE  LET unit == Unit(TRUE, 4, TRUE, 4 * NS_IN_S)
               t == FromScalar(x, unit) IN
           \/ t = INVALID_DURATION
           \/ t \in Durations /\ ToScalar(t, unit) = [ok |-> TRUE, v |-> x]
<1> DEFINE unit == Unit(TRUE, 4, TRUE, 4 * NS_IN_S)
           s == Backward(x, unit.s)
           back == Forward(s.v, unit.s)
           ns == Backward(x - back.v, unit.ns)
           n == Normalize([s |-> s.v, ns |-> ns.v])
           t == FromScalar(x, unit)
<1>1. t = IF s.ok /\ back.ok /\ ns.ok /\ ns.v > -NS_IN_S /\ ns.v < NS_IN_S /\ n.ok
          THEN n.t ELSE INVALID_DURATION
      BY DEF FromScalar
<1>2. x \in Int /\ INT_MIN <= x /\ x <= INT_MAX /\ 4 \in Int /\ x * 4 \in Int
      BY SMT, Limits DEF Seconds
<1>3. unit.s.div = TRUE /\ unit.s.by = 4 /\ unit.ns.div = TRUE /\ unit.ns.by = 4 * NS_IN_S
      BY SMT DEF Unit
<1>4. s = SafeMul(x, 4)
      BY <1>3 DEF Backward, UnitConv
<1>5. back = [ok |-> TRUE, v |-> Quot(s.v, 4)]
      BY <1>3 DEF Forward, UnitConv
<1>6. ns = SafeMul(x - back.v, 4 * NS_IN_S)
      BY <1>3 DEF Backward, UnitConv
<1> HIDE DEF s, back, ns, t, unit
<1>7. CASE t # INVALID_DURATION
  <2>1. s.ok /\ t = n.t
        BY <1>1, <1>7
  <2>2. s.v = x * 4 /\ Fits(x * 4)
        BY <1>2, <1>4, <2>1, SafeMulFacts
  <2>3. Quot(x * 4, 4) = x
    <3>1. x * 4 = 4 * x /\ 4 > 0
          BY SMTT(30), <1>2
    <3> QED
        BY <1>2, <3>1, ExactQuot
  <2>4. back.v = x
        BY SMTT(30), <1>5, <2>2, <2>3
  <2>5. x - x = 0
        BY SMT, <1>2
  <2>6. ns.v = 0
    <3>1. ns = [ok |-> TRUE, v |-> 0]
          BY <1>6, <2>4, <2>5 DEF SafeMul
    <3> QED
        BY SMT, <3>1
  <2>7. n = [ok |-> TRUE, t |-> [s |-> x * 4, ns |-> 0]]
        BY SMTT(30), <2>2, <2>6, Limits DEF Normalize
  <2>8. t = [s |-> x * 4, ns |-> 0]
        BY SMT, <2>1, <2>7
  <2>9. t \in Durations
    <3>1. x * 4 \in Seconds
          BY <2>2 DEF Fits, Seconds
    <3>2. 0 \in 0..(NS_IN_S - 1)
          BY SMT, Limits
    <3> QED
        BY <2>8, <3>1, <3>2 DEF Durations
  <2>10. t.s = x * 4 /\ t.ns = 0
        BY SMT, <2>8
  <2>11. ToScalar(t, unit) = [ok |-> TRUE, v |-> x]
        BY <2>3, <2>9, <2>10, ToMinutes DEF unit
  <2> QED
      BY <2>9, <2>11 DEF t, unit
<1> QED
    BY <1>7 DEF t, unit

-----------------------------------------------------------------------------
(* Time: the operations keep the promise                                   *)

\* ScalarsRoundTrip of one duration and unit
Converts(t, unit) ==
    LET x == ToScalar(t, unit)
        perUnit == IF unit.ns.div THEN unit.ns.by ELSE 1
    IN  IF x.ok
        THEN /\ Abs(Value(t) - x.v * perUnit) < 2 * perUnit
             /\ unit.s.div = FALSE => Abs(Value(t) - x.v * perUnit) < perUnit
             /\ Abs(x.v * perUnit) <= Abs(Value(t))
        ELSE ~Fits(Quot(Value(t), perUnit))

\* The units that are a whole part of a second
SmallUnit(unit, B, P) ==
    /\ B \in Nat /\ P \in Nat /\ B > 0 /\ P > 0 /\ B * P = NS_IN_S
    /\ \/ unit = Unit(FALSE, B, TRUE, P)
       \/ unit = Unit(FALSE, B, FALSE, 1) /\ P = 1

\* Every unit that the code converts from and to is minutes or divides a
\* second.
LEMMA Units ==
    ASSUME NEW unit \in Conversions
    PROVE  \/ unit = Unit(TRUE, 4, TRUE, 4 * NS_IN_S)
           \/ \E B, P \in Nat : SmallUnit(unit, B, P)
<1>1. CASE unit = Unit(FALSE, 1, TRUE, NS_IN_S)
  <2>1. 1 \in Nat /\ 1 > 0 /\ 1 * NS_IN_S = NS_IN_S
        BY SMT, Limits
  <2> QED
      BY <1>1, <2>1, Limits DEF SmallUnit
<1>2. CASE unit = Unit(FALSE, 2, TRUE, NS_IN_S \div 2)
  <2>1. 2 \in Nat /\ 2 > 0
        BY SMT
  <2> QED
      BY <1>2, <2>1, HalfASecond DEF SmallUnit
<1>3. CASE unit = Unit(FALSE, NS_IN_S, FALSE, 1)
  <2>1. 1 \in Nat /\ 1 > 0 /\ NS_IN_S * 1 = NS_IN_S
        BY SMT, Limits
  <2> QED
      BY <1>3, <2>1, Limits DEF SmallUnit
<1> QED
    BY <1>1, <1>2, <1>3 DEF Conversions

\* Every conversion to a unit is exact up to a unit, or refused.
LEMMA ConvertsFacts ==
    ASSUME NEW t \in Durations, NEW unit \in Conversions
    PROVE  Converts(t, unit)
<1>1. CASE unit = Unit(TRUE, 4, TRUE, 4 * NS_IN_S)
  <2>1. unit.s.div = TRUE /\ unit.ns.div = TRUE /\ unit.ns.by = 4 * NS_IN_S
        BY SMT, <1>1 DEF Unit
  <2> QED
      BY <1>1, <2>1, ToMinutes DEF Converts
<1>2. ASSUME NEW B \in Nat, NEW P \in Nat, SmallUnit(unit, B, P)
      PROVE  Converts(t, unit)
  <2> DEFINE x == ToScalar(t, unit)
             q == Quot(Value(t), P)
             r == Rem(Value(t), P)
             perUnit == IF unit.ns.div THEN unit.ns.by ELSE 1
  <2>1. perUnit = P
        BY SMT, <1>2 DEF Unit, SmallUnit
  <2>2. (x.ok <=> Fits(q)) /\ (x.ok => x = [ok |-> TRUE, v |-> q])
        BY <1>2, ToSmallUnit DEF SmallUnit
  <2>3. Value(t) \in Int /\ P \in Int /\ P > 0
    <3>1. Value(t) \in Int /\ P > 0
          BY <1>2, DurationFacts DEF SmallUnit
    <3> QED
        BY SMT, <3>1
  <2>4. /\ q \in Int /\ r \in Int /\ Value(t) = P * q + r /\ r < P /\ -r < P
        /\ Value(t) >= 0 => 0 <= q * P /\ q * P <= Value(t)
        /\ Value(t) <= 0 => q * P <= 0 /\ Value(t) <= q * P
        BY <2>3, QuotSize
  <2> DEFINE j == q * P
  <2> HIDE DEF q, r
  <2>5. j = P * q /\ j \in Int
        BY SMTT(30), <2>3, <2>4
  <2> HIDE DEF j
  <2>6. Abs(Value(t) - j) < P /\ Abs(Value(t) - j) < 2 * P /\ Abs(j) <= Abs(Value(t))
        BY SMTT(30), <2>3, <2>4, <2>5 DEF Abs, j
  <2> HIDE DEF x, perUnit
  <2>7. x.ok => x.v = q
        BY SMT, <2>2
  <2>8. CASE x.ok
        BY <2>1, <2>6, <2>7, <2>8 DEF Converts, x, perUnit, j
  <2>9. CASE ~x.ok
        BY <2>1, <2>2, <2>9 DEF Converts, x, perUnit, q
  <2> QED
      BY <2>8, <2>9
<1> QED
    BY <1>1, <1>2, Units

\* A duration made of a number of units converts back to that number.
LEMMA FromScalarFacts ==
    ASSUME NEW x \in Seconds, NEW unit \in Conversions
    PROVE  LET t == FromScalar(x, unit) IN
           \/ t = INVALID_DURATION
           \/ t \in Durations /\ ToScalar(t, unit) = [ok |-> TRUE, v |-> x]
<1>1. CASE unit = Unit(TRUE, 4, TRUE, 4 * NS_IN_S)
      BY <1>1, FromMinutes
<1>2. ASSUME NEW B \in Nat, NEW P \in Nat, SmallUnit(unit, B, P)
      PROVE  LET t == FromScalar(x, unit) IN
             \/ t = INVALID_DURATION
             \/ t \in Durations /\ ToScalar(t, unit) = [ok |-> TRUE, v |-> x]
      BY <1>2, FromSmallUnit DEF SmallUnit
<1> QED
    BY <1>1, <1>2, Units

\* What a duration variable of the program holds
Held == Durations \cup {INVALID_DURATION}

\* The operations.
TmOps == {"new", "add", "diff", "mul", "div", "from"}

\* The operation that gave the result, and its operands
TmInv ==
    /\ tm \in [op : TmOps, a : Held, b : Held, k : Int, unit : Conversions, result : Held]
    /\ \/ tm.op = "new" /\ tm.result = tm.a /\ tm.b = tm.a
       \/ tm.op = "add" /\ tm.b \in Durations /\ tm.result = DurationAdd(tm.a, tm.b)
       \/ tm.op = "diff" /\ tm.b \in Durations /\ tm.result = DurationDiff(tm.a, tm.b)
       \/ /\ tm.op = "mul" /\ tm.b = tm.a /\ tm.k \in Seconds
          /\ tm.result = DurationMul(tm.a, tm.k)
       \/ /\ tm.op = "div" /\ tm.b = tm.a /\ tm.k \in Seconds
          /\ tm.result \in DurationDiv(tm.a, tm.k)
       \/ /\ tm.op = "from" /\ tm.k \in Seconds /\ tm.unit \in Conversions
          /\ tm.result = FromScalar(tm.k, tm.unit)

\* An operation on an invalid duration gives an invalid one, and any other a
\* duration or the invalid one.
LEMMA HeldFacts ==
    ASSUME NEW a \in Held, NEW b \in Durations, NEW k \in Seconds
    PROVE  /\ DurationAdd(a, b) \in Held /\ DurationDiff(a, b) \in Held
           /\ DurationMul(a, k) \in Held /\ DurationDiv(a, k) \subseteq Held
           /\ a = INVALID_DURATION =>
                 /\ DurationAdd(a, b) = a /\ DurationDiff(a, b) = a
                 /\ DurationMul(a, k) = a /\ DurationDiv(a, k) = {a}
<1>1. k \in Int
      BY SMT, Limits DEF Seconds
<1>2. CASE a \in Durations
  <2>1. a # INVALID_DURATION
        BY <1>2, DurationFacts
  <2> QED
      BY <1>1, <1>2, <2>1, AddFacts, DiffFacts, MulFacts, DivFacts DEF Held
<1>3. CASE a = INVALID_DURATION
  <2>1. ~Valid(a)
        BY <1>3, DurationFacts
  <2>2. /\ DurationAdd(a, b) = a /\ DurationDiff(a, b) = a
        /\ DurationMul(a, k) = a /\ DurationDiv(a, k) = {a}
        BY <1>3, <2>1 DEF DurationAdd, DurationDiff, DurationMul, DurationDiv
  <2> QED
      BY <1>3, <2>2
<1> QED
    BY <1>2, <1>3 DEF Held

\* TmInv holds at first,
LEMMA TmInvInit == TmInit => TmInv
<1> SUFFICES ASSUME TmInit PROVE TmInv
    OBVIOUS
<1> DEFINE z == [s |-> 0, ns |-> 0]
<1>1. z \in Durations
      BY SMT, Limits DEF Durations, Seconds
<1>2. z \in Held /\ NANOSECONDS \in Conversions
      BY <1>1 DEF Held, NANOSECONDS, Conversions
<1> HIDE DEF z
<1>3. tm = [op |-> "new", a |-> z, b |-> z, k |-> 0, unit |-> NANOSECONDS, result |-> z]
      BY DEF TmInit, NewDuration, z
<1>4. 0 \in Int /\ "new" \in TmOps
      BY SMT DEF TmOps
<1> QED
    BY SMTT(30), <1>2, <1>3, <1>4 DEF TmInv

\* every operation keeps it,
LEMMA TmInvStep == TmInv /\ [TmNext]_tm => TmInv'
<1> SUFFICES ASSUME TmInv, [TmNext]_tm PROVE TmInv'
    OBVIOUS
<1> DEFINE Rec == [op : TmOps, a : Held, b : Held, k : Int, unit : Conversions,
                   result : Held]
<1>0. /\ tm.a \in Held /\ tm.result \in Held /\ tm.b \in Held
      /\ tm.op = "new" => tm.result = tm.a
      BY DEF TmInv
<1>r. tm \in Rec
      BY DEF TmInv
<1>s. /\ "new" \in TmOps /\ "add" \in TmOps /\ "diff" \in TmOps
      /\ "mul" \in TmOps /\ "div" \in TmOps /\ "from" \in TmOps
      BY DEF TmOps
<1>z. 0 \in Int /\ 0 \in Seconds /\ Durations \subseteq Held
      BY SMT, Limits DEF Seconds, Held
<1>1. CASE UNCHANGED tm
      BY <1>1 DEF TmInv
<1>2. ASSUME NEW b \in Durations, tm.op = "new", TmAdd(b)
      PROVE  TmInv'
  <2> DEFINE res == DurationAdd(tm.result, b)
  <2>1. res \in Held /\ b \in Held
        BY <1>0, <1>z, HeldFacts
  <2>2. tm' = [tm EXCEPT !.op = "add", !.b = b, !.k = 0, !.result = res]
        BY <1>2 DEF TmAdd, TmStep
  <2> HIDE DEF res
  <2>3. tm' \in Rec
        BY <1>r, <1>s, <1>z, <2>1, <2>2
  <2>4. /\ tm'.op = "add" /\ tm'.a = tm.a /\ tm'.b = b /\ tm'.result = res
        BY SMTT(30), <1>r, <1>s, <1>z, <2>1, <2>2
  <2> QED
      BY <1>0, <1>2, <2>3, <2>4 DEF TmInv, res
<1>3. ASSUME NEW b \in Durations, tm.op = "new", TmDiff(b)
      PROVE  TmInv'
  <2> DEFINE res == DurationDiff(tm.result, b)
  <2>1. res \in Held /\ b \in Held
        BY <1>0, <1>z, HeldFacts
  <2>2. tm' = [tm EXCEPT !.op = "diff", !.b = b, !.k = 0, !.result = res]
        BY <1>3 DEF TmDiff, TmStep
  <2> HIDE DEF res
  <2>3. tm' \in Rec
        BY <1>r, <1>s, <1>z, <2>1, <2>2
  <2>4. /\ tm'.op = "diff" /\ tm'.a = tm.a /\ tm'.b = b /\ tm'.result = res
        BY SMTT(30), <1>r, <1>s, <1>z, <2>1, <2>2
  <2> QED
      BY <1>0, <1>3, <2>3, <2>4 DEF TmInv, res
<1>b. PICK d \in Durations : TRUE
  <2>1. [s |-> 0, ns |-> 0] \in Durations
        BY SMTT(30), Limits DEF Durations, Seconds
  <2> QED
      BY <2>1
<1>4. ASSUME NEW k \in Multipliers, tm.op = "new", TmMul(k)
      PROVE  TmInv'
  <2> DEFINE res == DurationMul(tm.result, k)
  <2>0. k \in Seconds /\ k \in Int
        BY SMTT(30), DurationAssumption, Limits DEF Seconds
  <2>1. res \in Held
        BY <1>0, <1>b, <2>0, HeldFacts
  <2>2. tm' = [tm EXCEPT !.op = "mul", !.b = tm.result, !.k = k, !.result = res]
        BY <1>4 DEF TmMul, TmStep
  <2> HIDE DEF res
  <2>3. tm' \in Rec
        BY <1>r, <1>s, <2>0, <2>1, <2>2
  <2>4. /\ tm'.op = "mul" /\ tm'.a = tm.a /\ tm'.b = tm.result
        /\ tm'.k = k /\ tm'.result = res
        BY SMTT(30), <1>r, <1>s, <2>0, <2>1, <2>2
  <2> QED
      BY <1>0, <1>4, <2>0, <2>3, <2>4 DEF TmInv, res
<1>5. ASSUME NEW k \in Multipliers, tm.op = "new", TmDiv(k)
      PROVE  TmInv'
  <2>0. k \in Seconds /\ k \in Int
        BY SMTT(30), DurationAssumption, Limits DEF Seconds
  <2>5. PICK res \in DurationDiv(tm.result, k) : TmStep("div", tm.result, k, res)
        BY <1>5 DEF TmDiv
  <2>1. res \in Held
        BY <1>0, <1>b, <2>0, <2>5, HeldFacts
  <2>2. tm' = [tm EXCEPT !.op = "div", !.b = tm.result, !.k = k, !.result = res]
        BY <2>5 DEF TmStep
  <2>3. tm' \in Rec
        BY <1>r, <1>s, <2>0, <2>1, <2>2
  <2>4. /\ tm'.op = "div" /\ tm'.a = tm.a /\ tm'.b = tm.result
        /\ tm'.k = k /\ tm'.result = res
        BY SMTT(30), <1>r, <1>s, <2>0, <2>1, <2>2
  <2> QED
      BY <1>0, <1>5, <2>0, <2>3, <2>4, <2>5 DEF TmInv
<1>6. ASSUME NEW x \in Seconds, NEW unit \in Conversions, TmFromScalar(x, unit)
      PROVE  TmInv'
  <2> DEFINE res == FromScalar(x, unit)
  <2>0. x \in Int
        BY SMT, Limits DEF Seconds
  <2>1. res \in Held
        BY FromScalarFacts DEF Held
  <2>2. tm' = [tm EXCEPT !.op = "from", !.k = x, !.unit = unit, !.result = res]
        BY <1>6 DEF TmFromScalar
  <2> HIDE DEF res
  <2>3. tm' \in Rec
        BY <1>r, <1>s, <2>0, <2>1, <2>2
  <2>4. /\ tm'.op = "from" /\ tm'.k = x /\ tm'.unit = unit
        /\ tm'.result = res
        BY SMTT(30), <1>r, <1>s, <2>0, <2>1, <2>2
  <2> QED
      BY <1>0, <1>6, <2>0, <2>3, <2>4 DEF TmInv, res
<1>7. CASE TmGoesOn
  <2>1. tm' = [op |-> "new", a |-> tm.result, b |-> tm.result, k |-> 0,
               unit |-> NANOSECONDS, result |-> tm.result]
        BY <1>7 DEF TmGoesOn, NewDuration
  <2>2. NANOSECONDS \in Conversions
        BY DEF NANOSECONDS, Conversions
  <2>3. /\ tm' \in Rec /\ tm'.op = "new" /\ tm'.result = tm'.a /\ tm'.b = tm'.a
        BY SMTT(30), <1>r, <1>s, <1>z, <2>1, <2>2
  <2> QED
      BY <2>3 DEF TmInv
<1> QED
    BY <1>1, <1>2, <1>3, <1>4, <1>5, <1>6, <1>7 DEF TmNext

\* and it implies what the run checks.
LEMMA TmInvCorrect == TmInv => TimeCorrect
<1> SUFFICES ASSUME TmInv PROVE TimeCorrect
    OBVIOUS
<1> DEFINE a == tm.a
           b == tm.b
           k == tm.k
           res == tm.result
<1>0. a \in Held /\ res \in Held /\ b \in Held
      BY DEF TmInv
<1>1. \A t \in Held : Valid(t) <=> t \in Durations
      BY DurationFacts DEF Held
<1>2. ASSUME Valid(a), Valid(b), tm.op = "new"
      PROVE  Valid(res) /\ Value(res) = Exact
      BY <1>2 DEF TmInv, Exact
<1>3. ASSUME Valid(a), Valid(b), tm.op = "add"
      PROVE  IF Valid(res) THEN Value(res) = Exact
             ELSE \/ Exact < (INT_MIN + 1) * NS_IN_S
                  \/ Exact >= INT_MAX * NS_IN_S
  <2>1. res = DurationAdd(a, b) /\ a \in Durations /\ b \in Durations
        BY <1>0, <1>1, <1>3 DEF TmInv
  <2>2. Exact = Value(a) + Value(b)
        BY <1>3 DEF Exact
  <2> QED
      BY <1>0, <1>1, <2>1, <2>2, AddFacts, DurationFacts
<1>4. ASSUME Valid(a), Valid(b), tm.op = "diff"
      PROVE  IF Valid(res) THEN Value(res) = Exact
             ELSE \/ Exact < (INT_MIN + 1) * NS_IN_S
                  \/ Exact >= INT_MAX * NS_IN_S
  <2>1. res = DurationDiff(a, b) /\ a \in Durations /\ b \in Durations
        BY <1>0, <1>1, <1>4 DEF TmInv
  <2>2. Exact = Value(a) - Value(b)
        BY <1>4 DEF Exact
  <2> QED
      BY <1>0, <1>1, <2>1, <2>2, DiffFacts, DurationFacts
<1>5. ASSUME Valid(a), tm.op = "mul"
      PROVE  IF Valid(res) THEN Value(res) = Exact
             ELSE \/ Exact < (INT_MIN + Abs(k)) * NS_IN_S
                  \/ Exact >= (INT_MAX + 1 - Abs(k)) * NS_IN_S
  <2>1. res = DurationMul(a, k) /\ a \in Durations /\ k \in Seconds
        BY <1>0, <1>1, <1>5 DEF TmInv
  <2>2. Exact = Value(a) * k
        BY <1>5 DEF Exact
  <2> QED
      BY <1>0, <1>1, <2>1, <2>2, MulFacts, DurationFacts
<1>6. ASSUME Valid(a), tm.op = "div"
      PROVE  IF Valid(res) THEN Abs(Value(res) * k - Value(a)) < QuotientError(k)
             ELSE k = 0 \/ (a.s = INT_MIN /\ k = -1)
  <2>1. res \in DurationDiv(a, k) /\ a \in Durations /\ k \in Seconds
        BY <1>0, <1>1, <1>6 DEF TmInv
  <2>2. k \in Int
        BY SMT, <2>1, Limits DEF Seconds
  <2> QED
      BY <1>0, <1>1, <2>1, <2>2, DivFacts, DurationFacts
<1>7. tm.op \in {"new", "add", "diff", "mul", "div", "from"}
      BY DEF TmInv
<1>8. ArithmeticIsExact
  <2> SUFFICES ASSUME Valid(a), Valid(b), Valid(res), tm.op # "from"
               PROVE  IF tm.op = "div" THEN Abs(Value(res) * k - Value(a)) < QuotientError(k)
                      ELSE Value(res) = Exact
      BY DEF ArithmeticIsExact
  <2> QED
      BY <1>2, <1>3, <1>4, <1>5, <1>6, <1>7
<1>9. InvalidOnlyAtTheLimits
  <2> DEFINE margin == IF tm.op = "mul" THEN Abs(k) ELSE 1
  <2> SUFFICES ASSUME Valid(a), Valid(b), ~Valid(res), tm.op # "from"
               PROVE  IF tm.op = "div" THEN k = 0 \/ (a.s = INT_MIN /\ k = -1)
                      ELSE \/ Exact < (INT_MIN + margin) * NS_IN_S
                           \/ Exact >= (INT_MAX + 1 - margin) * NS_IN_S
      BY DEF InvalidOnlyAtTheLimits
  <2>1. INT_MAX + 1 - 1 = INT_MAX
        BY SMT, Limits
  <2>2. CASE tm.op = "mul"
        BY <1>5, <2>2
  <2>3. CASE tm.op = "div"
        BY <1>6, <2>3
  <2>4. CASE tm.op \in {"add", "diff"}
        BY <1>3, <1>4, <2>1, <2>4
  <2> QED
      BY <1>2, <1>7, <2>2, <2>3, <2>4
<1>10. ComparisonsAgree
  <2>1. CASE Valid(a) /\ Valid(res)
        BY <1>0, <1>1, <2>1, ComparisonFacts DEF ComparisonsAgree
  <2>2. CASE ~(Valid(a) /\ Valid(res))
        BY <2>2 DEF ComparisonsAgree, Less, Equal
  <2> QED
      BY <2>1, <2>2
<1>11. ScalarsRoundTrip
  <2>1. \A unit \in Conversions : Valid(res) => Converts(res, unit)
        BY <1>0, <1>1, ConvertsFacts
  <2>2. tm.op = "from" /\ Valid(res) => ToScalar(res, tm.unit) = [ok |-> TRUE, v |-> k]
    <3> SUFFICES ASSUME tm.op = "from", Valid(res)
                 PROVE  ToScalar(res, tm.unit) = [ok |-> TRUE, v |-> k]
        OBVIOUS
    <3>1. k \in Seconds /\ tm.unit \in Conversions /\ res = FromScalar(k, tm.unit)
          BY DEF TmInv
    <3> QED
        BY <3>1, FromScalarFacts, DurationFacts
  <2> QED
      BY <2>1, <2>2 DEF ScalarsRoundTrip, Converts
<1>12. TextIsTheDuration
      BY <1>0, <1>1, TextFacts DEF TextIsTheDuration
<1> QED
    BY <1>8, <1>9, <1>10, <1>11, <1>12 DEF TimeCorrect

\* TimeCorrect: addition, difference and multiplication of durations give the
\* exact result or an invalid duration and never overflow, division, done in
\* doubles, is less than a nanosecond off while the divisor in nanoseconds is
\* exact as a double and less than two for any other divisor, comparison is that
\* of the values, conversions to units and back and the text of a duration are
\* faithful, for any width of the integers.
THEOREM TimeAlwaysCorrect == TmSpec => []TimeCorrect
<1>1. TmSpec => []TmInv
      BY TmInvInit, TmInvStep, PTL DEF TmSpec
<1> QED
    BY <1>1, TmInvCorrect, PTL

-----------------------------------------------------------------------------
(* Vectors: cells                                                          *)

\* The first n cells of d, and a vector of given parts
Cells(d, n) == [i \in 1 .. n |-> d[i]]
Vec(s, c, d) == [size |-> s, capacity |-> c, data |-> d]

\* The length of a sequence of n cells, whatever they hold
LEMMA CellsLen ==
    ASSUME NEW n \in Nat, NEW d, d = Cells(d, n)
    PROVE  Len(d) = n /\ DOMAIN d = 1 .. n
<1> DEFINE R == {d[i] : i \in 1 .. n}
<1>1. d \in [1 .. n -> R] /\ DOMAIN d = 1 .. n
      BY DEF Cells
<1>2. d \in Seq(R)
      BY SMTT(30), <1>1
<1> HIDE DEF R
<1>3. DOMAIN d = 1 .. Len(d) /\ Len(d) \in Nat
      BY SMT, <1>2
<1>4. Len(d) = n
  <2>1. \A a, b \in Nat : 1 .. a = 1 .. b => a = b
        BY SMT
  <2> QED
      BY <1>1, <1>3, <2>1
<1> QED
    BY <1>1, <1>4

\* A function on 1 .. n is the sequence of its n cells.
LEMMA CellsIs ==
    ASSUME NEW n \in Nat, NEW f, DOMAIN f = 1 .. n, f = [i \in DOMAIN f |-> f[i]]
    PROVE  f = Cells(f, n)
BY DEF Cells

\* A sequence of cells is a sequence over some set.
LEMMA CellsSeq ==
    ASSUME NEW n \in Nat, NEW d, d = Cells(d, n)
    PROVE  \E R : d \in Seq(R)
<1> DEFINE R == {d[i] : i \in 1 .. n}
<1>1. d \in [1 .. n -> R]
      BY DEF Cells
<1>2. d \in Seq(R)
      BY SMT, <1>1
<1> QED
    BY <1>2

\* t is the n cells of d after the first g.
PartOf(t, d, g, n) == Len(t) = n /\ t = Cells(t, n) /\ \A i \in 1 .. n : t[i] = d[g + i]

\* A part of a sequence of cells
LEMMA CellsSubSeq ==
    ASSUME NEW n \in Nat, NEW d, d = Cells(d, n), NEW g \in Nat, NEW h \in Nat, g <= h, h <= n,
           NEW t, t = SubSeq(d, g + 1, h)
    PROVE  PartOf(t, d, g, h - g)
<1>1. PICK R : d \in Seq(R)
      BY CellsSeq
<1>2. Len(d) = n
      BY CellsLen
<1>3. t \in Seq(R) /\ Len(t) = h - g /\ \A i \in 1 .. h - g : t[i] = d[g + i]
      BY SMTT(60), <1>1, <1>2
<1>4. t = [i \in 1 .. Len(t) |-> t[i]]
      BY <1>3, LenProperties
<1> QED
    BY <1>3, <1>4 DEF Cells, PartOf

\* The beginning of a sequence of cells
LEMMA CellsPrefix ==
    ASSUME NEW n \in Nat, NEW d, d = Cells(d, n), NEW h \in Nat, h <= n
    PROVE  SubSeq(d, 1, h) = Cells(d, h)
<1> DEFINE t == SubSeq(d, 1, h)
<1>1. 0 \in Nat /\ 0 <= h /\ 0 + 1 = 1 /\ h - 0 = h
      BY SMT
<1> HIDE DEF t
<1>2. t = SubSeq(d, 0 + 1, h)
      BY SMT, <1>1 DEF t
<1>3. t = Cells(t, h) /\ \A i \in 1 .. h : t[i] = d[0 + i]
  <2>1. PartOf(t, d, 0, h - 0)
        BY <1>1, <1>2, CellsSubSeq
  <2> QED
      BY <1>1, <2>1 DEF PartOf
<1>4. \A i \in 1 .. h : t[i] = d[i]
  <2>1. \A i \in 1 .. h : 0 + i = i
        BY SMT
  <2> QED
      BY <1>3, <2>1
<1> QED
    BY <1>3, <1>4 DEF Cells, t

\* t is the m cells of a and then the n of b.
Concatenates(a, m, b, n, t) ==
    /\ Len(t) = m + n /\ t = Cells(t, m + n)
    /\ \A i \in 1 .. m + n : t[i] = IF i <= m THEN a[i] ELSE b[i - m]

\* Two sequences of cells one after the other
LEMMA CellsCat ==
    ASSUME NEW m \in Nat, NEW n \in Nat, NEW a, NEW b, a = Cells(a, m), b = Cells(b, n),
           NEW t, t = a \o b
    PROVE  Concatenates(a, m, b, n, t)
<1>1. PICK R : a \in Seq(R)
      BY CellsSeq
<1>2. PICK Q : b \in Seq(Q)
      BY CellsSeq
<1>3. Len(a) = m /\ Len(b) = n
      BY CellsLen
<1>4. a \in Seq(R \cup Q) /\ b \in Seq(R \cup Q)
      BY SMT, <1>1, <1>2
<1>5. t \in Seq(R \cup Q) /\ Len(t) = m + n
      /\ \A i \in 1 .. m + n : t[i] = IF i <= m THEN a[i] ELSE b[i - m]
      BY <1>3, <1>4, ConcatProperties
<1>6. t = [i \in 1 .. Len(t) |-> t[i]]
      BY <1>5, LenProperties
<1> QED
    BY <1>5, <1>6 DEF Cells, Concatenates

-----------------------------------------------------------------------------
(* Vectors: swapping                                                       *)

\* Two cells exchanged
Swapped(d, n, i, j) ==
    [k \in 1 .. n |-> IF k = i + 1 THEN d[j + 1] ELSE IF k = j + 1 THEN d[i + 1] ELSE d[k]]

\* Swapping i and j exchanges the two cells and nothing else.
Exchanges(s, c, d, i, j) == VectorSwap(Vec(s, c, d), i, j) = Vec(s, c, Swapped(d, c, i, j))

\* avs_vector_swap exchanges two cells.
LEMMA VectorSwapFacts ==
    ASSUME NEW s, NEW c \in Nat, NEW d, d = Cells(d, c), NEW i \in Nat, NEW j \in Nat, i < c, j < c
    PROVE  Exchanges(s, c, d, i, j)
<1> DEFINE e == [d EXCEPT ![i + 1] = d[j + 1], ![j + 1] = d[i + 1]]
<1>1. VectorSwap(Vec(s, c, d), i, j) = Vec(s, c, e)
  <2> DEFINE v == Vec(s, c, d)
             f == [d EXCEPT ![i + 1] = d[j + 1]]
  <2>1. v.data = d
        BY DEF Vec
  <2>2. [v EXCEPT !.data[i + 1] = d[j + 1]] = Vec(s, c, f)
        BY SMT DEF Vec
  <2>3. [Vec(s, c, f) EXCEPT !.data[j + 1] = d[i + 1]] = Vec(s, c, e)
    <3> HIDE DEF f
    <3>1. [Vec(s, c, f) EXCEPT !.data[j + 1] = d[i + 1]] = Vec(s, c, [f EXCEPT ![j + 1] = d[i + 1]])
          BY SMT DEF Vec
    <3> QED
        BY <3>1 DEF f
  <2>4. VectorSwap(v, i, j) = [[v EXCEPT !.data[i + 1] = d[j + 1]] EXCEPT !.data[j + 1] = d[i + 1]]
    <3> HIDE DEF v
    <3> QED
        BY SMT, <2>1 DEF VectorSwap, Cell
  <2> QED
      BY <2>2, <2>3, <2>4
<1>2. e = Swapped(d, c, i, j)
      BY SMTT(30) DEF Cells, Swapped
<1> QED
    BY <1>1, <1>2 DEF Exchanges

-----------------------------------------------------------------------------
(* Vectors: loops                                                          *)

\* f and g agree up to n, and take the same steps.
AgreeUpTo(f, g, n) == \A k \in 0 .. n : f[k] = g[k]
SameSteps(f, g, n) == f[0] = g[0] /\ \A k \in 1 .. n : f[k - 1] = g[k - 1] => f[k] = g[k]

\* Two functions that take the same steps agree.
LEMMA Agree ==
    ASSUME NEW n \in Nat, NEW f, NEW g, SameSteps(f, g, n)
    PROVE  AgreeUpTo(f, g, n)
<1> USE DEF SameSteps, AgreeUpTo
<1> DEFINE P == {k \in Nat : k <= n /\ f[k] # g[k]}
<1>1. P = {}
  <2> SUFFICES ASSUME P # {} PROVE FALSE
      OBVIOUS
  <2>1. PICK k \in P : \A j \in P : k <= j
        BY SmallestNat
  <2>2. k \in Nat /\ k <= n /\ f[k] # g[k]
        OBVIOUS
  <2>3. k # 0
        BY <2>2
  <2>4. k \in 1 .. n /\ k - 1 \in Nat /\ k - 1 <= n /\ ~(k <= k - 1)
        BY SMT, <2>2, <2>3
  <2>5. f[k - 1] = g[k - 1]
        BY <2>1, <2>4
  <2> QED
      BY <2>2, <2>4, <2>5
<1>2. ASSUME NEW k \in 0 .. n PROVE k \in Nat /\ k <= n
      BY SMT
<1> QED
    BY <1>1, <1>2

\* d with the cell after the first i moved k places up
Rotated(d, n, i, k) ==
    [x \in 1 .. n |-> IF x \in i + 1 .. i + k THEN d[x + 1]
                      ELSE IF x = (i + k) + 1 THEN d[i + 1] ELSE d[x]]

\* The swaps move the cell after the first i up to that of last.
Rotates(s, c, d, i, last) ==
    SwapToEnd(Vec(s, c, d), i, last)[last - i] = Vec(s, c, Rotated(d, c, i, last - i))

\* The swaps of avs_vector_remove without memory
LEMMA SwapToEndFacts ==
    ASSUME NEW s, NEW c \in Nat, NEW d, d = Cells(d, c), NEW i \in Nat, NEW last \in Nat,
           i <= last, last < c
    PROVE  Rotates(s, c, d, i, last)
<1> DEFINE n == last - i
           v == Vec(s, c, d)
           g == [k \in 0 .. n |-> Vec(s, c, Rotated(d, c, i, k))]
           Step(f, k) == VectorSwap(f[k - 1], i + (k - 1), i + k)
           Solves(f) == f = [k \in 0 .. n |-> IF k = 0 THEN v ELSE Step(f, k)]
<1>1. n \in Nat /\ i + n = last /\ 0 \in 0 .. n /\ n \in 0 .. n
      BY SMT
<1> HIDE DEF n
<1>2. g[0] = v
  <2>1. Rotated(d, c, i, 0) = Cells(d, c)
    <3>1. ASSUME NEW x \in 1 .. c
          PROVE  (IF x \in i + 1 .. i + 0 THEN d[x + 1] ELSE IF x = (i + 0) + 1 THEN d[i + 1] ELSE d[x])
                     = d[x]
          BY SMT
    <3> QED
        BY <3>1 DEF Rotated, Cells
  <2> QED
      BY <1>1, <2>1
<1>3. ASSUME NEW k \in 1 .. n
      PROVE  VectorSwap(g[k - 1], i + (k - 1), i + k) = g[k] /\ k # 0 /\ k \in 0 .. n
  <2> DEFINE e == Rotated(d, c, i, k - 1)
  <2>1. /\ k \in 0 .. n /\ k - 1 \in 0 .. n /\ k # 0 /\ k - 1 \in Nat
        /\ i + (k - 1) \in Nat /\ i + k \in Nat /\ i + (k - 1) < c /\ i + k < c
        BY SMT, <1>1
  <2>2. e = Cells(e, c)
        BY DEF Rotated, Cells
  <2>3. Swapped(e, c, i + (k - 1), i + k) = Rotated(d, c, i, k)
    <3>1. \A x \in 1 .. c : e[x] = IF x \in i + 1 .. i + (k - 1) THEN d[x + 1]
                                   ELSE IF x = (i + (k - 1)) + 1 THEN d[i + 1] ELSE d[x]
          BY DEF Rotated
    <3> HIDE DEF e
    <3>2. ASSUME NEW x \in 1 .. c
          PROVE  (IF x = (i + (k - 1)) + 1 THEN e[(i + k) + 1]
                  ELSE IF x = (i + k) + 1 THEN e[(i + (k - 1)) + 1] ELSE e[x])
                 = (IF x \in i + 1 .. i + k THEN d[x + 1]
                    ELSE IF x = (i + k) + 1 THEN d[i + 1] ELSE d[x])
          BY SMTT(30), <2>1, <3>1
    <3> QED
        BY <3>2 DEF Swapped, Rotated
  <2> HIDE DEF e
  <2>4. VectorSwap(Vec(s, c, e), i + (k - 1), i + k) = Vec(s, c, Swapped(e, c, i + (k - 1), i + k))
    <3> DEFINE a == i + (k - 1)
               b == i + k
    <3>1. a \in Nat /\ b \in Nat /\ a < c /\ b < c
          BY <2>1
    <3> HIDE DEF a, b
    <3>2. Exchanges(s, c, e, a, b)
          BY <2>2, <3>1, VectorSwapFacts
    <3> QED
        BY <3>2 DEF a, b, Exchanges
  <2>5. g[k - 1] = Vec(s, c, e) /\ g[k] = Vec(s, c, Rotated(d, c, i, k))
        BY <2>1 DEF e
  <2> QED
      BY <2>1, <2>3, <2>4, <2>5
<1>4. Solves(g)
  <2>1. \A k \in 0 .. n : k = 0 \/ k \in 1 .. n
        BY SMT, <1>1
  <2>2. \A k \in 0 .. n : g[k] = IF k = 0 THEN v ELSE Step(g, k)
        BY <1>2, <1>3, <2>1
  <2>3. g = [k \in 0 .. n |-> g[k]]
        OBVIOUS
  <2> HIDE DEF g
  <2> QED
      BY <2>2, <2>3
<1> DEFINE f == CHOOSE h : Solves(h)
<1>5. Solves(f)
      BY <1>4
<1>6. SwapToEnd(v, i, last) = f
      BY DEF SwapToEnd, n
<1> HIDE DEF f, g
<1>7. f[0] = g[0]
      BY <1>1, <1>2, <1>5
<1>8. ASSUME NEW k \in 1 .. n, f[k - 1] = g[k - 1] PROVE f[k] = g[k]
      BY <1>3, <1>5, <1>8
<1>9. AgreeUpTo(f, g, n)
  <2>1. SameSteps(f, g, n)
        BY <1>7, <1>8 DEF SameSteps
  <2> QED
      BY <1>1, <2>1, Agree
<1> QED
    BY <1>1, <1>6, <1>9 DEF n, g, AgreeUpTo, Rotates

\* d with the k outermost pairs of the cells after beg up to end exchanged
Mirrored(d, n, beg, end, k) ==
    [x \in 1 .. n |-> IF x \in beg + 1 .. beg + k \/ x \in (end - k) + 1 .. end
                      THEN d[((beg + end) + 1) - x] ELSE d[x]]

\* n swaps of the loop exchange the n outermost pairs.
MirrorsRange(s, c, d, beg, end, n) ==
    ReverseLoop(Vec(s, c, d), beg, end)[n] = Vec(s, c, Mirrored(d, c, beg, end, n))

\* The swaps of avs_vector_reverse_range
LEMMA ReverseLoopFacts ==
    ASSUME NEW s, NEW c \in Nat, NEW d, d = Cells(d, c), NEW beg \in Nat, NEW end \in Nat,
           beg <= end, end <= c, NEW n \in Nat, n = (end - beg) \div 2, 2 * n <= end - beg
    PROVE  MirrorsRange(s, c, d, beg, end, n)
<1> DEFINE v == Vec(s, c, d)
           g == [k \in 0 .. n |-> Vec(s, c, Mirrored(d, c, beg, end, k))]
           Step(f, k) == VectorSwap(f[k - 1], beg + (k - 1), end - k)
           Solves(f) == f = [k \in 0 .. n |-> IF k = 0 THEN v ELSE Step(f, k)]
<1>1. 0 \in 0 .. n /\ n \in 0 .. n
      BY SMT
<1>2. g[0] = v
  <2>1. Mirrored(d, c, beg, end, 0) = Cells(d, c)
    <3>1. ASSUME NEW x \in 1 .. c
          PROVE  ~(x \in beg + 1 .. beg + 0 \/ x \in (end - 0) + 1 .. end)
          BY SMT
    <3> QED
        BY <3>1 DEF Mirrored, Cells
  <2> QED
      BY <1>1, <2>1
<1>3. ASSUME NEW k \in 1 .. n
      PROVE  VectorSwap(g[k - 1], beg + (k - 1), end - k) = g[k] /\ k # 0 /\ k \in 0 .. n
  <2> DEFINE e == Mirrored(d, c, beg, end, k - 1)
  <2>1. /\ k \in 0 .. n /\ k - 1 \in 0 .. n /\ k # 0 /\ k - 1 \in Nat
        /\ beg + (k - 1) \in Nat /\ end - k \in Nat /\ beg + (k - 1) < c /\ end - k < c
        /\ beg + (k - 1) < end - k
        BY SMT, <1>1
  <2>2. e = Cells(e, c)
        BY DEF Mirrored, Cells
  <2>3. Swapped(e, c, beg + (k - 1), end - k) = Mirrored(d, c, beg, end, k)
    <3>1. \A x \in 1 .. c : e[x] = IF \/ x \in beg + 1 .. beg + (k - 1)
                                      \/ x \in (end - (k - 1)) + 1 .. end
                                   THEN d[((beg + end) + 1) - x] ELSE d[x]
          BY DEF Mirrored
    <3> HIDE DEF e
    <3>2. ASSUME NEW x \in 1 .. c
          PROVE  (IF x = (beg + (k - 1)) + 1 THEN e[(end - k) + 1]
                  ELSE IF x = (end - k) + 1 THEN e[(beg + (k - 1)) + 1] ELSE e[x])
                 = (IF x \in beg + 1 .. beg + k \/ x \in (end - k) + 1 .. end
                    THEN d[((beg + end) + 1) - x] ELSE d[x])
      <4>1. CASE x = (beg + (k - 1)) + 1
        <5>1. e[(end - k) + 1] = d[(end - k) + 1]
              BY SMTT(30), <2>1, <3>1
        <5> QED
            BY SMTT(30), <2>1, <4>1, <5>1
      <4>2. CASE x = (end - k) + 1
        <5>1. e[(beg + (k - 1)) + 1] = d[(beg + (k - 1)) + 1]
              BY SMTT(30), <2>1, <3>1
        <5> QED
            BY SMTT(30), <2>1, <4>2, <5>1
      <4>3. CASE x # (beg + (k - 1)) + 1 /\ x # (end - k) + 1
            BY SMTT(30), <2>1, <3>1, <4>3
      <4> QED
          BY <4>1, <4>2, <4>3
    <3> QED
        BY <3>2 DEF Swapped, Mirrored
  <2> HIDE DEF e
  <2>4. VectorSwap(Vec(s, c, e), beg + (k - 1), end - k)
            = Vec(s, c, Swapped(e, c, beg + (k - 1), end - k))
    <3> DEFINE a == beg + (k - 1)
               b == end - k
    <3>1. a \in Nat /\ b \in Nat /\ a < c /\ b < c
          BY <2>1
    <3> HIDE DEF a, b
    <3>2. Exchanges(s, c, e, a, b)
          BY <2>2, <3>1, VectorSwapFacts
    <3> QED
        BY <3>2 DEF a, b, Exchanges
  <2>5. g[k - 1] = Vec(s, c, e) /\ g[k] = Vec(s, c, Mirrored(d, c, beg, end, k))
        BY <2>1 DEF e
  <2> QED
      BY <2>1, <2>3, <2>4, <2>5
<1>4. Solves(g)
  <2>1. \A k \in 0 .. n : k = 0 \/ k \in 1 .. n
        BY SMT, <1>1
  <2>2. \A k \in 0 .. n : g[k] = IF k = 0 THEN v ELSE Step(g, k)
        BY <1>2, <1>3, <2>1
  <2>3. g = [k \in 0 .. n |-> g[k]]
        OBVIOUS
  <2> HIDE DEF g
  <2> QED
      BY <2>2, <2>3
<1> DEFINE f == CHOOSE h : Solves(h)
<1>5. Solves(f)
      BY <1>4
<1>6. ReverseLoop(v, beg, end) = f
      BY DEF ReverseLoop
<1> HIDE DEF f, g
<1>7. f[0] = g[0]
      BY <1>1, <1>2, <1>5
<1>8. ASSUME NEW k \in 1 .. n, f[k - 1] = g[k - 1] PROVE f[k] = g[k]
      BY <1>3, <1>5, <1>8
<1>9. AgreeUpTo(f, g, n)
  <2>1. SameSteps(f, g, n)
        BY <1>7, <1>8 DEF SameSteps
  <2> QED
      BY <1>1, <2>1, Agree
<1> QED
    BY <1>1, <1>6, <1>9 DEF g, AgreeUpTo, MirrorsRange

\* e is d with the cells after beg up to end in the opposite order.
Reverses(s, c, d, beg, end, e) ==
    /\ ReverseRange(Vec(s, c, d), beg, end) = Vec(s, c, e) /\ e = Cells(e, c)
    /\ \A x \in 1 .. c : e[x] = IF x \in beg + 1 .. end THEN d[((beg + end) + 1) - x] ELSE d[x]

\* avs_vector_reverse_range turns the cells of the range around.
LEMMA ReverseRangeFacts ==
    ASSUME NEW s, NEW c \in Nat, NEW d, d = Cells(d, c), NEW beg \in Nat, NEW end \in Nat,
           beg <= end, end <= c
    PROVE  \E e : Reverses(s, c, d, beg, end, e)
<1>1. CASE beg = end
  <2>1. beg >= end /\ \A x \in 1 .. c : ~(x \in beg + 1 .. end)
        BY SMT, <1>1
  <2>2. ReverseRange(Vec(s, c, d), beg, end) = Vec(s, c, d)
        BY <2>1 DEF ReverseRange
  <2> QED
      BY <2>1, <2>2 DEF Reverses
<1>2. CASE beg # end
  <2> DEFINE n == (end - beg) \div 2
             e == Mirrored(d, c, beg, end, n)
  <2>1. ~(beg >= end) /\ n \in Nat /\ 2 * n <= end - beg /\ end - beg <= 2 * n + 1
        BY SMT, <1>2
  <2>2. n = (end - beg) \div 2
        OBVIOUS
  <2> HIDE DEF n
  <2>3. ReverseLoop(Vec(s, c, d), beg, end)[n] = Vec(s, c, e)
    <3>1. MirrorsRange(s, c, d, beg, end, n)
          BY <2>1, <2>2, ReverseLoopFacts
    <3> QED
        BY <3>1 DEF MirrorsRange
  <2>4. ReverseRange(Vec(s, c, d), beg, end) = Vec(s, c, e)
        BY <2>1, <2>2, <2>3 DEF ReverseRange
  <2>5. e = Cells(e, c)
        BY DEF Mirrored, Cells
  <2>6. \A x \in 1 .. c : e[x] = IF x \in beg + 1 .. beg + n \/ x \in (end - n) + 1 .. end
                                 THEN d[((beg + end) + 1) - x] ELSE d[x]
        BY DEF Mirrored
  <2> HIDE DEF e
  <2>7. ASSUME NEW x \in 1 .. c
        PROVE  e[x] = IF x \in beg + 1 .. end THEN d[((beg + end) + 1) - x] ELSE d[x]
        BY SMTT(30), <2>1, <2>6
  <2> QED
      BY <2>4, <2>5, <2>7 DEF Reverses
<1> QED
    BY <1>1, <1>2


-----------------------------------------------------------------------------
(* Vectors: the calls                                                      *)

\* The contents are the cells that are in use, of those allocated.
VecHolds(v, used) ==
    \E s \in Nat, c \in Nat : \E d :
        s <= c /\ v = Vec(s, c, d) /\ d = Cells(d, c) /\ used = Cells(d, s)

\* A vector that has a cell for every element
VecWhole == VecHolds(vec, contents) /\ RemovedIsReturned

\* What the parts of such a vector are
HasParts(v, used, s, c, d) ==
    /\ s <= c /\ v = Vec(s, c, d) /\ d = Cells(d, c) /\ used = Cells(d, s)
    /\ v.size = s /\ v.capacity = c /\ v.data = d
    /\ Len(d) = c /\ Len(used) = s /\ DOMAIN used = 1 .. s /\ DOMAIN d = 1 .. c

LEMMA VecParts ==
    ASSUME NEW v, NEW used, VecHolds(v, used)
    PROVE  \E s \in Nat, c \in Nat : \E d : HasParts(v, used, s, c, d)
<1>0. PICK s \in Nat, c \in Nat : \E d :
          s <= c /\ v = Vec(s, c, d) /\ d = Cells(d, c) /\ used = Cells(d, s)
      BY DEF VecHolds
<1>1. PICK d :
          s <= c /\ v = Vec(s, c, d) /\ d = Cells(d, c) /\ used = Cells(d, s)
      BY <1>0
<1>2. v.size = s /\ v.capacity = c /\ v.data = d
      BY <1>1 DEF Vec
<1>3. used = Cells(used, s)
      BY <1>1 DEF Cells
<1>4. Len(d) = c /\ DOMAIN d = 1 .. c
      BY <1>1, CellsLen
<1>5. Len(used) = s /\ DOMAIN used = 1 .. s
      BY <1>3, CellsLen
<1> QED
    BY <1>1, <1>2, <1>4, <1>5 DEF HasParts

\* A new vector
LEMMA VecInitWhole == VecInit => VecWhole
<1> SUFFICES ASSUME VecInit PROVE VecWhole
    OBVIOUS
<1>1. vec = Vec(0, 0, <<>>) /\ contents = <<>> /\ vecCall = Quiet
      BY DEF VecInit, VectorNew, Vec
<1>2. <<>> = Cells(<<>>, 0) /\ 0 \in Nat /\ 0 <= 0
      BY SMT DEF Cells
<1>3. VecHolds(vec, contents)
      BY <1>1, <1>2 DEF VecHolds
<1>4. vecCall.got = vecCall.want
      BY <1>1 DEF Quiet
<1> QED
    BY <1>3, <1>4 DEF VecWhole, RemovedIsReturned

\* A call that gives nothing back has nothing to get wrong.
LEMMA QuietCall ==
    ASSUME vecCall' = Quiet
    PROVE  RemovedIsReturned'
<1>1. vecCall'.got = vecCall'.want
      BY DEF Quiet
<1> QED
    BY <1>1 DEF RemovedIsReturned

\* With n cells the first s are what they were.
Resizes(s, c, d, n) ==
    \E e : /\ EnsureCapacity(Vec(s, c, d), n, TRUE) = Vec(s, n, e)
           /\ e = Cells(e, n) /\ Cells(e, s) = Cells(d, s)

\* ensure_capacity keeps the contents.
LEMMA EnsureCapacityFacts ==
    ASSUME NEW s \in Nat, NEW c \in Nat, NEW d, s <= c, d = Cells(d, c), NEW n \in Nat, s <= n
    PROVE  Resizes(s, c, d, n)
<1> DEFINE e == [i \in 1 .. n |-> IF i <= Len(d) THEN d[i] ELSE ANY]
<1>1. EnsureCapacity(Vec(s, c, d), n, TRUE) = Vec(s, n, e)
  <2> DEFINE v == Vec(s, c, d)
  <2>1. v.data = d
        BY DEF Vec
  <2>2. [v EXCEPT !.capacity = n, !.data = e] = Vec(s, n, e)
    <3> DEFINE w == Vec(s, n, d)
    <3> HIDE DEF e
    <3>1. [v EXCEPT !.capacity = n] = w
          BY SMT DEF Vec
    <3>2. [w EXCEPT !.data = e] = Vec(s, n, e)
          BY SMT DEF Vec
    <3> HIDE DEF v, w
    <3>3. [v EXCEPT !.capacity = n, !.data = e] = [[v EXCEPT !.capacity = n] EXCEPT !.data = e]
          BY SMT
    <3> QED
        BY <3>1, <3>2, <3>3
  <2> HIDE DEF v
  <2>3. EnsureCapacity(v, n, TRUE) = [v EXCEPT !.capacity = n, !.data = e]
        BY <2>1 DEF EnsureCapacity
  <2> QED
      BY <2>2, <2>3 DEF v
<1>2. e = Cells(e, n)
      BY DEF Cells
<1>3. Len(d) = c
      BY CellsLen
<1>4. ASSUME NEW i \in 1 .. s PROVE i \in 1 .. n /\ i <= c
      BY SMT
<1>5. Cells(e, s) = Cells(d, s)
      BY <1>3, <1>4 DEF Cells
<1> QED
    BY <1>1, <1>2, <1>5 DEF Resizes

\* A push into a vector that has room
LEMMA PushFacts ==
    ASSUME NEW s \in Nat, NEW c \in Nat, NEW d, s < c, d = Cells(d, c), NEW x
    PROVE  VecHolds([Vec(s, c, d) EXCEPT !.data[s + 1] = x, !.size = s + 1],
                    Append(Cells(d, s), x))
<1> DEFINE e == [d EXCEPT ![s + 1] = x]
<1>1. [Vec(s, c, d) EXCEPT !.data[s + 1] = x, !.size = s + 1] = Vec(s + 1, c, e)
  <2> DEFINE v == Vec(s, c, d)
             w == Vec(s, c, e)
  <2>1. [v EXCEPT !.data[s + 1] = x] = w
        BY SMT DEF Vec
  <2>2. [w EXCEPT !.size = s + 1] = Vec(s + 1, c, e)
    <3> HIDE DEF e
    <3> QED
        BY SMT DEF Vec
  <2> HIDE DEF v, w, e
  <2>3. [v EXCEPT !.data[s + 1] = x, !.size = s + 1] = [[v EXCEPT !.data[s + 1] = x] EXCEPT !.size = s + 1]
        BY SMT
  <2>4. [v EXCEPT !.data[s + 1] = x, !.size = s + 1] = Vec(s + 1, c, e)
        BY <2>1, <2>2, <2>3
  <2> QED
      BY <2>4 DEF v
<1>2. s + 1 \in Nat /\ s + 1 <= c
      BY SMT
<1>3. e = Cells(e, c)
      BY DEF Cells
<1>4. Append(Cells(d, s), x) = Cells(e, s + 1)
  <2> DEFINE u == Cells(d, s)
  <2>1. u = Cells(u, s)
        BY DEF Cells
  <2>2. PICK R : u \in Seq(R)
    <3> HIDE DEF u
    <3> QED
        BY <2>1, CellsSeq
  <2>3. Len(u) = s
    <3> HIDE DEF u
    <3> QED
        BY <2>1, CellsLen
  <2>4. ASSUME NEW i \in 1 .. s PROVE u[i] = d[i] /\ i # s + 1 /\ i \in 1 .. c
    <3>1. i # s + 1 /\ i \in 1 .. c
          BY SMT
    <3> QED
        BY <3>1 DEF Cells
  <2>5. \A i \in 1 .. s : e[i] = d[i]
        BY <2>4 DEF Cells
  <2>6. e[s + 1] = x
    <3>1. s + 1 \in 1 .. c
          BY SMT
    <3> QED
        BY <3>1 DEF Cells
  <2> HIDE DEF u, e
  <2>7. u \in Seq(R \cup {x}) /\ x \in R \cup {x}
        BY SMT, <2>2
  <2> DEFINE a == Append(u, x)
  <2>8. /\ a \in Seq(R \cup {x}) /\ Len(a) = s + 1
        /\ \A i \in 1 .. s : a[i] = u[i]
        /\ a[s + 1] = x
        BY <2>3, <2>7, AppendProperties
  <2> HIDE DEF a
  <2>9. \A i \in 1 .. s + 1 : i \in 1 .. s \/ i = s + 1
        BY SMT
  <2>10. a = [i \in 1 .. s + 1 |-> a[i]]
         BY <2>8, LenProperties
  <2>11. \A i \in 1 .. s + 1 : a[i] = e[i]
         BY <2>4, <2>5, <2>6, <2>8, <2>9
  <2> QED
      BY <2>10, <2>11 DEF Cells, u, a
<1> QED
    BY <1>1, <1>2, <1>3, <1>4 DEF VecHolds

\* avs_vector_push keeps the elements and adds one, or nothing.
LEMMA VecPushStep ==
    ASSUME VecWhole, NEW e \in VecValues, NEW memory \in BOOLEAN, VecPush(e, memory)
    PROVE  VecWhole'
<1>0. PICK s \in Nat, c \in Nat : \E d : HasParts(vec, contents, s, c, d)
      BY VecParts DEF VecWhole
<1>1. PICK d :
          /\ s <= c /\ vec = Vec(s, c, d) /\ d = Cells(d, c) /\ contents = Cells(d, s)
          /\ vec.size = s /\ vec.capacity = c /\ vec.data = d
          /\ Len(d) = c /\ Len(contents) = s /\ DOMAIN contents = 1 .. s /\ DOMAIN d = 1 .. c
      BY <1>0 DEF HasParts
<1> DEFINE r == VectorPush(vec, e, memory)
           Put(v) == [v EXCEPT !.data[s + 1] = e, !.size = s + 1]
<1>2. vec' = r.v /\ contents' = IF r.ok THEN Append(contents, e) ELSE contents
      BY DEF VecPush
<1>3. RemovedIsReturned'
      BY QuietCall DEF VecPush
<1>4. VecHolds(r.v, IF r.ok THEN Append(contents, e) ELSE contents)
  <2>1. CASE c = s /\ ~memory
    <3>1. r = [ok |-> FALSE, v |-> vec]
          BY <1>1, <2>1 DEF VectorPush
    <3> HIDE DEF r
    <3>2. ~r.ok /\ r.v = vec
          BY SMT, <3>1
    <3> QED
        BY <3>2 DEF VecWhole
  <2>2. CASE c = s /\ memory
    <3> DEFINE n == NeededFor(vec)
    <3>1. n \in Nat /\ s < n /\ s <= n
          BY SMT, <1>1 DEF NeededFor
    <3> HIDE DEF n
    <3>2. PICK f : /\ EnsureCapacity(Vec(s, c, d), n, TRUE) = Vec(s, n, f)
                   /\ f = Cells(f, n) /\ Cells(f, s) = Cells(d, s)
      <4>1. Resizes(s, c, d, n)
            BY <1>1, <3>1, EnsureCapacityFacts
      <4> QED
          BY <4>1 DEF Resizes
    <3>3. memory = TRUE
          BY <2>2
    <3>4. r = [ok |-> TRUE, v |-> Put(Vec(s, n, f))]
          BY <1>1, <2>2, <3>2, <3>3 DEF VectorPush, n
    <3>5. r.ok /\ r.v = Put(Vec(s, n, f))
      <4> DEFINE w == Put(Vec(s, n, f))
      <4>1. r = [ok |-> TRUE, v |-> w]
            BY <3>4
      <4> HIDE DEF w, r
      <4>2. r.ok = TRUE /\ r.v = w
            BY <4>1
      <4> QED
          BY <4>2 DEF w
    <3>6. VecHolds(Put(Vec(s, n, f)), Append(Cells(f, s), e))
          BY <3>1, <3>2, PushFacts
    <3> HIDE DEF r
    <3> QED
        BY <1>1, <3>2, <3>5, <3>6
  <2>3. CASE c # s
    <3>1. s < c
          BY SMTT(30), <1>1, <2>3
    <3>2. r = [ok |-> TRUE, v |-> Put(Vec(s, c, d))]
          BY <1>1, <2>3 DEF VectorPush
    <3>3. r.ok /\ r.v = Put(Vec(s, c, d))
      <4> DEFINE w == Put(Vec(s, c, d))
      <4>1. r = [ok |-> TRUE, v |-> w]
            BY <3>2
      <4> HIDE DEF w, r
      <4>2. r.ok = TRUE /\ r.v = w
            BY <4>1
      <4> QED
          BY <4>2 DEF w
    <3>4. VecHolds(Put(Vec(s, c, d)), Append(Cells(d, s), e))
          BY <1>1, <3>1, PushFacts
    <3> HIDE DEF r
    <3> QED
        BY <1>1, <3>3, <3>4
  <2> QED
      BY <2>1, <2>2, <2>3
<1> HIDE DEF r
<1> QED
    BY <1>2, <1>3, <1>4 DEF VecWhole

\* vector_pop_internal of a vector that is not empty
LEMMA PopFacts ==
    ASSUME NEW s \in Nat \ {0}, NEW c, NEW d
    PROVE  VectorPop(Vec(s, c, d)) = Vec(s - 1, c, d)
BY SMT DEF VectorPop, Vec

\* avs_vector_pop takes the last element and gives it out.
LEMMA VecPopStep ==
    ASSUME VecWhole, VecPop
    PROVE  VecWhole'
<1>0. PICK s \in Nat, c \in Nat : \E d : HasParts(vec, contents, s, c, d)
      BY VecParts DEF VecWhole
<1>1. PICK d :
          /\ s <= c /\ vec = Vec(s, c, d) /\ d = Cells(d, c) /\ contents = Cells(d, s)
          /\ vec.size = s /\ vec.capacity = c /\ vec.data = d
          /\ Len(d) = c /\ Len(contents) = s /\ DOMAIN contents = 1 .. s /\ DOMAIN d = 1 .. c
      BY <1>0 DEF HasParts
<1> DEFINE want == IF contents = <<>> THEN NoElement ELSE contents[s]
<1>2. /\ vec' = VectorPop(vec) /\ contents' = SubSeq(contents, 1, s - 1)
      /\ vecCall' = [op |-> "pop", got |-> VectorBack(vec), want |-> want]
      BY <1>1 DEF VecPop
<1>3. contents = Cells(contents, s)
      BY <1>1 DEF Cells
<1>4. CASE s = 0
  <2>1. VectorPop(vec) = vec
        BY SMTT(30), <1>1, <1>4 DEF VectorPop, Vec
  <2>2. contents = <<>>
        BY SMTT(30), <1>1, <1>4 DEF Cells
  <2>3. SubSeq(contents, 1, s - 1) = <<>>
        BY SMTT(30), <1>4, SubSeqEmpty
  <2>4. VectorBack(vec) = want
        BY <1>1, <1>4, <2>2 DEF VectorBack
  <2> HIDE DEF want
  <2>5. RemovedIsReturned'
        BY SMTT(30), <1>2, <2>4 DEF RemovedIsReturned
  <2> QED
      BY <1>2, <2>1, <2>2, <2>3, <2>5 DEF VecWhole
<1>5. CASE s # 0
  <2>1. s \in Nat \ {0} /\ s - 1 \in Nat /\ s - 1 <= s /\ s - 1 <= c /\ s \in 1 .. s /\ (s - 1) + 1 = s
        BY SMTT(30), <1>1, <1>5
  <2>2. VectorPop(vec) = Vec(s - 1, c, d)
        BY <1>1, <2>1, PopFacts
  <2>3. SubSeq(contents, 1, s - 1) = Cells(contents, s - 1)
        BY <1>3, <2>1, CellsPrefix
  <2>4. Cells(contents, s - 1) = Cells(d, s - 1)
    <3>1. \A x \in 1 .. s - 1 : x \in 1 .. s
          BY SMTT(30), <2>1
    <3> QED
        BY <1>1, <3>1 DEF Cells
  <2>5. VecHolds(vec', contents')
        BY <1>1, <1>2, <2>1, <2>2, <2>3, <2>4 DEF VecHolds
  <2>6. contents # <<>>
        BY SMTT(30), <1>1, <1>5
  <2>7. VectorBack(vec) = want
        BY <1>1, <1>5, <2>1, <2>6 DEF VectorBack, Cell, Cells
  <2> HIDE DEF want
  <2>8. RemovedIsReturned'
        BY SMT, <1>2, <2>7 DEF RemovedIsReturned
  <2> QED
      BY <2>5, <2>8 DEF VecWhole
<1> QED
    BY <1>4, <1>5

\* The element at i is moved behind the others.
Removes(s, c, d, i, memory) ==
    VectorRemove(Vec(s, c, d), i, memory) = Vec(s - 1, c, Rotated(d, c, i, (s - 1) - i))

\* Both ways of avs_vector_remove leave the same cells.
LEMMA RemoveFacts ==
    ASSUME NEW s \in Nat \ {0}, NEW c \in Nat, NEW d, s <= c, d = Cells(d, c), NEW i \in Nat, i < s,
           NEW memory \in BOOLEAN
    PROVE  Removes(s, c, d, i, memory)
<1> DEFINE v == Vec(s, c, d)
           e == Rotated(d, c, i, (s - 1) - i)
           m == [k \in DOMAIN d |-> IF k \in (i + 1)..(s - 1) THEN d[k + 1]
                                    ELSE IF k = s THEN d[i + 1] ELSE d[k]]
<1>1. v.size = s /\ v.data = d
      BY DEF Vec
<1>2. DOMAIN d = 1 .. c
      BY DEF Cells
<1>3. s # 0 /\ s - 1 \in Nat /\ i <= s - 1 /\ s - 1 < c
      BY SMT
<1>4. VectorPop(Vec(s, c, e)) = Vec(s - 1, c, e)
      BY PopFacts
<1>5. m = e
  <2>1. i + ((s - 1) - i) = s - 1 /\ (s - 1) + 1 = s
        BY SMT
  <2> QED
      BY <1>2, <2>1 DEF Rotated
<1>6. CASE memory
  <2>1. [v EXCEPT !.data = m] = Vec(s, c, m)
    <3> HIDE DEF m
    <3> QED
        BY SMT DEF Vec
  <2> HIDE DEF v
  <2>2. VectorRemove(v, i, memory) = VectorPop([v EXCEPT !.data = m])
        BY <1>1, <1>3, <1>6 DEF VectorRemove
  <2> HIDE DEF m, e
  <2>3. VectorRemove(v, i, memory) = Vec(s - 1, c, e)
        BY <1>4, <1>5, <2>1, <2>2
  <2> QED
      BY <2>3 DEF v, e, Removes
<1>7. CASE ~memory
  <2>1. SwapToEnd(v, i, s - 1)[(s - 1) - i] = Vec(s, c, e)
    <3>1. Rotates(s, c, d, i, s - 1)
          BY <1>3, SwapToEndFacts
    <3> QED
        BY <3>1 DEF Rotates
  <2> HIDE DEF v, e
  <2>2. VectorRemove(v, i, memory) = VectorPop(SwapToEnd(v, i, s - 1)[(s - 1) - i])
        BY <1>1, <1>3, <1>7 DEF VectorRemove
  <2>3. VectorRemove(v, i, memory) = Vec(s - 1, c, e)
        BY <1>4, <2>1, <2>2
  <2> QED
      BY <2>3 DEF v, e, Removes
<1> QED
    BY <1>6, <1>7 DEF Removes

\* avs_vector_remove takes one element out, closes the gap and gives it out.
LEMMA VecRemoveStep ==
    ASSUME VecWhole, NEW i \in 0 .. MaxVec, NEW memory \in BOOLEAN, VecRemove(i, memory)
    PROVE  VecWhole'
<1>0. PICK s \in Nat, c \in Nat : \E d : HasParts(vec, contents, s, c, d)
      BY VecParts DEF VecWhole
<1>1. PICK d :
          /\ s <= c /\ vec = Vec(s, c, d) /\ d = Cells(d, c) /\ contents = Cells(d, s)
          /\ vec.size = s /\ vec.capacity = c /\ vec.data = d
          /\ Len(d) = c /\ Len(contents) = s /\ DOMAIN contents = 1 .. s /\ DOMAIN d = 1 .. c
      BY <1>0 DEF HasParts
<1> DEFINE e == Rotated(d, c, i, (s - 1) - i)
           removed == VectorRemove(vec, i, memory)
           a == SubSeq(contents, 1, i)
           b == SubSeq(contents, (i + 1) + 1, s)
           all == a \o b
<1>2. /\ i \in Nat /\ i < s /\ s \in Nat \ {0} /\ s - 1 \in Nat /\ s - 1 <= c
      /\ i <= s /\ i + 1 \in Nat /\ i + 1 <= s /\ i + 2 = (i + 1) + 1 /\ s \in 1 .. c
      /\ s - (i + 1) \in Nat /\ i + (s - (i + 1)) = s - 1 /\ i + 1 \in 1 .. s
      BY SMTT(30), <1>1, VecAssumption DEF VecRemove
<1>3. /\ vec' = removed /\ contents' = all
      /\ vecCall' = [op |-> "remove", got |-> Cell(removed, removed.size), want |-> contents[i + 1]]
      BY <1>1, <1>2 DEF VecRemove
<1>4. removed = Vec(s - 1, c, e)
  <2>1. Removes(s, c, d, i, memory)
        BY <1>1, <1>2, RemoveFacts
  <2> QED
      BY <1>1, <2>1 DEF Removes
<1>5. e = Cells(e, c)
      BY DEF Cells, Rotated
<1>6. contents = Cells(contents, s)
      BY <1>1 DEF Cells
<1>7. \A x \in 1 .. s : contents[x] = d[x]
      BY <1>1 DEF Cells
<1>8. a = Cells(contents, i)
      BY <1>2, <1>6, CellsPrefix
<1>9. a = Cells(a, i) /\ \A x \in 1 .. i : a[x] = contents[x]
      BY <1>8 DEF Cells
<1>10. PartOf(b, contents, i + 1, s - (i + 1))
  <2> HIDE DEF b
  <2>1. s <= s
        BY SMT
  <2> QED
      BY <1>2, <1>6, <2>1, CellsSubSeq DEF b
<1> HIDE DEF a, b
<1>11. /\ all = Cells(all, s - 1)
       /\ \A x \in 1 .. s - 1 : all[x] = IF x <= i THEN a[x] ELSE b[x - i]
  <2>1. b = Cells(b, s - (i + 1))
        BY <1>10 DEF PartOf
  <2>2. Concatenates(a, i, b, s - (i + 1), all)
        BY <1>2, <1>9, <2>1, CellsCat
  <2> QED
      BY <1>2, <2>2 DEF Concatenates
<1> HIDE DEF all
<1>12. \A x \in 1 .. c : e[x] = IF x \in i + 1 .. i + ((s - 1) - i) THEN d[x + 1]
                                ELSE IF x = (i + ((s - 1) - i)) + 1 THEN d[i + 1] ELSE d[x]
       BY DEF Rotated
<1> HIDE DEF e
<1>13. ASSUME NEW x \in 1 .. s - 1 PROVE all[x] = e[x]
  <2>1. CASE x <= i
    <3>1. x \in 1 .. i /\ x \in 1 .. s /\ x \in 1 .. c /\ all[x] = a[x]
          BY SMTT(30), <1>1, <1>2, <1>11, <2>1
    <3>2. e[x] = d[x]
      <4>1. ~(x \in i + 1 .. i + ((s - 1) - i)) /\ x # (i + ((s - 1) - i)) + 1
            BY SMT, <1>2, <2>1, <3>1
      <4> QED
          BY <1>12, <3>1, <4>1
    <3> QED
        BY <1>7, <1>9, <3>1, <3>2
  <2>2. CASE ~(x <= i)
    <3>1. x - i \in 1 .. s - (i + 1) /\ x \in 1 .. c /\ (i + 1) + (x - i) = x + 1 /\ x + 1 \in 1 .. s
          BY SMTT(30), <1>1, <1>2, <2>2
    <3>2. all[x] = b[x - i]
          BY <1>11, <2>2
    <3>3. b[x - i] = contents[(i + 1) + (x - i)]
          BY <1>10, <3>1 DEF PartOf
    <3>4. e[x] = d[x + 1]
      <4>1. x \in i + 1 .. i + ((s - 1) - i)
            BY SMTT(30), <1>2, <2>2, <3>1
      <4> QED
          BY <1>12, <3>1, <4>1
    <3> QED
        BY <1>7, <3>1, <3>2, <3>3, <3>4
  <2> QED
      BY <2>1, <2>2
<1>14. all = Cells(e, s - 1)
       BY <1>11, <1>13 DEF Cells
<1>15. VecHolds(vec', contents')
       BY <1>2, <1>3, <1>4, <1>5, <1>14 DEF VecHolds
<1>16. Cell(removed, removed.size) = contents[i + 1]
  <2> HIDE DEF removed
  <2>1. removed.size = s - 1 /\ removed.data = e
        BY <1>4 DEF Vec
  <2>2. (s - 1) + 1 = s /\ e[s] = d[i + 1]
        BY SMTT(30), <1>2, <1>12
  <2> QED
      BY <1>2, <1>7, <2>1, <2>2 DEF Cell
<1> HIDE DEF removed
<1>17. RemovedIsReturned'
  <2> DEFINE x == Cell(removed, removed.size)
             y == contents[i + 1]
  <2>1. vecCall' = [op |-> "remove", got |-> x, want |-> y] /\ x = y
        BY <1>3, <1>16
  <2> HIDE DEF x, y
  <2> QED
      BY SMTT(30), <2>1 DEF RemovedIsReturned
<1> QED
    BY <1>15, <1>17 DEF VecWhole

\* avs_vector_reverse_range
LEMMA VecReverseStep ==
    ASSUME VecWhole, NEW beg \in 0 .. MaxVec, NEW end \in 0 .. MaxVec, VecReverse(beg, end)
    PROVE  VecWhole'
<1>0. PICK s \in Nat, c \in Nat : \E d : HasParts(vec, contents, s, c, d)
      BY VecParts DEF VecWhole
<1>1. PICK d :
          /\ s <= c /\ vec = Vec(s, c, d) /\ d = Cells(d, c) /\ contents = Cells(d, s)
          /\ vec.size = s /\ vec.capacity = c /\ vec.data = d
          /\ Len(d) = c /\ Len(contents) = s /\ DOMAIN contents = 1 .. s /\ DOMAIN d = 1 .. c
      BY <1>0 DEF HasParts
<1>2. beg \in Nat /\ end \in Nat /\ beg <= end /\ end <= s /\ end <= c
      BY SMTT(30), <1>1, VecAssumption DEF VecReverse
<1>3. PICK e : Reverses(s, c, d, beg, end, e)
      BY <1>1, <1>2, ReverseRangeFacts
<1>4. vec' = Vec(s, c, e) /\ e = Cells(e, c)
      BY <1>1, <1>3 DEF VecReverse, Reverses
<1>5. ASSUME NEW x \in 1 .. s
      PROVE  e[x] = IF x \in (beg + 1)..end THEN contents[beg + end + 1 - x] ELSE contents[x]
  <2>1. x \in 1 .. c
        BY SMTT(30), <1>1
  <2>2. e[x] = IF x \in beg + 1 .. end THEN d[((beg + end) + 1) - x] ELSE d[x]
        BY <1>3, <2>1 DEF Reverses
  <2>3. x \in beg + 1 .. end => ((beg + end) + 1) - x \in 1 .. s
        BY SMTT(30), <1>2
  <2>4. \A y \in 1 .. s : contents[y] = d[y]
        BY <1>1 DEF Cells
  <2>5. beg + end + 1 - x = ((beg + end) + 1) - x
        BY SMTT(30), <1>2
  <2> QED
      BY <2>2, <2>3, <2>4, <2>5
<1>6. contents' = Cells(e, s)
      BY <1>1, <1>5 DEF VecReverse, Cells
<1>7. RemovedIsReturned'
      BY QuietCall DEF VecReverse
<1> QED
    BY <1>1, <1>4, <1>6, <1>7 DEF VecWhole, VecHolds

\* avs_vector_swap
LEMMA VecSwapStep ==
    ASSUME VecWhole, NEW i \in 0 .. MaxVec, NEW j \in 0 .. MaxVec, VecSwap(i, j)
    PROVE  VecWhole'
<1>0. PICK s \in Nat, c \in Nat : \E d : HasParts(vec, contents, s, c, d)
      BY VecParts DEF VecWhole
<1>1. PICK d :
          /\ s <= c /\ vec = Vec(s, c, d) /\ d = Cells(d, c) /\ contents = Cells(d, s)
          /\ vec.size = s /\ vec.capacity = c /\ vec.data = d
          /\ Len(d) = c /\ Len(contents) = s /\ DOMAIN contents = 1 .. s /\ DOMAIN d = 1 .. c
      BY <1>0 DEF HasParts
<1> DEFINE e == Swapped(d, c, i, j)
<1>2. /\ i \in Nat /\ j \in Nat /\ i < c /\ j < c /\ i + 1 \in 1 .. s /\ j + 1 \in 1 .. s
      BY SMTT(30), <1>1, VecAssumption DEF VecSwap
<1>3. vec' = Vec(s, c, e)
  <2>1. Exchanges(s, c, d, i, j)
        BY <1>1, <1>2, VectorSwapFacts
  <2> QED
      BY <1>1, <2>1 DEF Exchanges, VecSwap
<1>4. e = Cells(e, c)
      BY DEF Swapped, Cells
<1>5. contents' = Cells(e, s)
  <2>1. \A y \in 1 .. s : contents[y] = d[y] /\ y \in 1 .. c
    <3>1. \A y \in 1 .. s : y \in 1 .. c
          BY SMTT(30), <1>1
    <3> QED
        BY <1>1, <3>1 DEF Cells
  <2>2. contents' = [contents EXCEPT ![i + 1] = contents[j + 1], ![j + 1] = contents[i + 1]]
        BY DEF VecSwap
  <2>3. contents = [y \in 1 .. s |-> contents[y]]
        BY <1>1 DEF Cells
  <2>4. contents' = [y \in 1 .. s |-> IF y = j + 1 THEN contents[i + 1]
                                      ELSE IF y = i + 1 THEN contents[j + 1] ELSE contents[y]]
        BY <1>2, <2>2, <2>3
  <2>5. \A y \in 1 .. s : e[y] = IF y = i + 1 THEN d[j + 1] ELSE IF y = j + 1 THEN d[i + 1] ELSE d[y]
        BY <2>1 DEF Swapped
  <2> HIDE DEF e
  <2>6. \A y \in 1 .. s : e[y] = contents'[y]
        BY <1>2, <2>1, <2>4, <2>5
  <2> QED
      BY <2>4, <2>6 DEF Cells
<1>6. RemovedIsReturned'
      BY QuietCall DEF VecSwap
<1> QED
    BY <1>1, <1>3, <1>4, <1>5, <1>6 DEF VecWhole, VecHolds

\* avs_vector_sort_range puts something into the cells of the range; what that
\* is, is qsort's.
LEMMA VecSortStep ==
    ASSUME VecWhole, NEW beg \in 0 .. MaxVec, NEW end \in 0 .. MaxVec, VecSort(beg, end)
    PROVE  VecWhole'
<1>0. PICK s \in Nat, c \in Nat : \E d : HasParts(vec, contents, s, c, d)
      BY VecParts DEF VecWhole
<1>1. PICK d :
          /\ s <= c /\ vec = Vec(s, c, d) /\ d = Cells(d, c) /\ contents = Cells(d, s)
          /\ vec.size = s /\ vec.capacity = c /\ vec.data = d
          /\ Len(d) = c /\ Len(contents) = s /\ DOMAIN contents = 1 .. s /\ DOMAIN d = 1 .. c
      BY <1>0 DEF HasParts
<1>2. PICK e : vec' = [vec EXCEPT !.data = e] /\ e = [x \in DOMAIN d |-> e[x]]
  <2> DEFINE part == SubSeq(vec.data, beg + 1, end)
             places == DOMAIN part
             values == VecValues \cup {ANY}
             sorted == CHOOSE t \in [places -> values] :
                     /\ \A i, j \in places : i < j => t[i] <= t[j]
                     /\ \A x \in values : Cardinality({ i \in places : t[i] = x })
                                          = Cardinality({ i \in places : part[i] = x })
             e == [x \in DOMAIN vec.data |->
                      IF x \in (beg + 1)..end THEN sorted[x - beg] ELSE vec.data[x]]
  <2>1. vec' = [vec EXCEPT !.data = e]
        BY DEF VecSort, SortRange
  <2>2. e = [x \in DOMAIN vec.data |-> e[x]]
    <3> HIDE DEF sorted
    <3> QED
        OBVIOUS
  <2> HIDE DEF e
  <2> QED
      BY <1>1, <2>1, <2>2
<1>3. e = Cells(e, c)
      BY <1>1, <1>2 DEF Cells
<1>4. vec' = Vec(s, c, e)
  <2>1. [Vec(s, c, d) EXCEPT !.data = e] = Vec(s, c, e)
        BY SMT DEF Vec
  <2> QED
      BY <1>1, <1>2, <2>1
<1>5. contents' = SubSeq(e, 1, s)
  <2>1. vec'.data = e
        BY <1>4 DEF Vec
  <2> QED
      BY <1>1, <2>1 DEF VecSort
<1>6. contents' = Cells(e, s)
      BY <1>1, <1>3, <1>5, CellsPrefix
<1>7. RemovedIsReturned'
      BY QuietCall DEF VecSort
<1> QED
    BY <1>1, <1>3, <1>4, <1>6, <1>7 DEF VecWhole, VecHolds

\* avs_vector_fit
LEMMA VecFitStep ==
    ASSUME VecWhole, NEW memory \in BOOLEAN, VecFit(memory)
    PROVE  VecWhole'
<1>0. PICK s \in Nat, c \in Nat : \E d : HasParts(vec, contents, s, c, d)
      BY VecParts DEF VecWhole
<1>1. PICK d :
          /\ s <= c /\ vec = Vec(s, c, d) /\ d = Cells(d, c) /\ contents = Cells(d, s)
          /\ vec.size = s /\ vec.capacity = c /\ vec.data = d
          /\ Len(d) = c /\ Len(contents) = s /\ DOMAIN contents = 1 .. s /\ DOMAIN d = 1 .. c
      BY <1>0 DEF HasParts
<1> DEFINE e == SubSeq(d, 1, s)
<1>2. vec' = VectorFit(vec, memory) /\ contents' = contents
      BY DEF VecFit
<1>3. RemovedIsReturned'
      BY QuietCall DEF VecFit
<1>4. CASE vec' = vec
      BY <1>2, <1>3, <1>4 DEF VecWhole
<1>5. CASE vec' # vec
  <2>1. vec' = [vec EXCEPT !.capacity = s, !.data = e]
        BY <1>1, <1>2, <1>5 DEF VectorFit
  <2>2. e = Cells(d, s)
        BY <1>1, CellsPrefix
  <2>3. e = Cells(e, s) /\ Cells(e, s) = Cells(d, s) /\ s <= s
    <3>1. s <= s
          BY SMT
    <3> QED
        BY <2>2, <3>1 DEF Cells
  <2> HIDE DEF e
  <2>4. vec' = Vec(s, s, e)
    <3> DEFINE w == Vec(s, s, d)
    <3>1. [vec EXCEPT !.capacity = s] = w
          BY SMTT(30), <1>1 DEF Vec
    <3>2. [w EXCEPT !.data = e] = Vec(s, s, e)
          BY SMT DEF Vec
    <3> HIDE DEF w
    <3>3. [vec EXCEPT !.capacity = s, !.data = e] = [[vec EXCEPT !.capacity = s] EXCEPT !.data = e]
          BY SMT
    <3> QED
        BY <2>1, <3>1, <3>2, <3>3
  <2> QED
      BY <1>1, <1>2, <1>3, <2>3, <2>4 DEF VecWhole, VecHolds
<1> QED
    BY <1>4, <1>5

-----------------------------------------------------------------------------
(* Vectors: reserve, which may leave fewer cells than elements             *)

\* The s elements: what the l cells hold, and nothing of those without one
Kept(d, s, l) == [i \in 1 .. s |-> IF i <= l THEN d[i] ELSE ANY]

VecKeeps(v, used, s, c, l, d) ==
    v = Vec(s, c, d) /\ d = Cells(d, l) /\ used = Kept(d, s, l)

VecInv ==
    /\ \E s, c, l \in Nat : \E d : VecKeeps(vec, contents, s, c, l, d)
    /\ vecCall.op # "shrink" => Intact(vec)
    /\ RemovedIsReturned

\* What the parts of such a vector are
KeepsParts(v, used, s, c, l, d) ==
    /\ v.size = s /\ v.capacity = c /\ v.data = d
    /\ Len(d) = l /\ Len(used) = s /\ DOMAIN used = 1 .. s

LEMMA VecKeepsParts ==
    ASSUME NEW s \in Nat, NEW c \in Nat, NEW l \in Nat, NEW d, NEW v, NEW used,
           VecKeeps(v, used, s, c, l, d)
    PROVE  KeepsParts(v, used, s, c, l, d)
<1>1. v.size = s /\ v.capacity = c /\ v.data = d
      BY DEF VecKeeps, Vec
<1>2. Len(d) = l
      BY CellsLen DEF VecKeeps
<1>3. used = Cells(used, s)
      BY DEF VecKeeps, Kept, Cells
<1>4. Len(used) = s /\ DOMAIN used = 1 .. s
      BY <1>3, CellsLen
<1> QED
    BY <1>1, <1>2, <1>4 DEF KeepsParts

\* An intact vector is a whole one,
LEMMA IntactIsWhole ==
    ASSUME VecInv, Intact(vec)
    PROVE  VecWhole
<1>0. PICK s, c, l \in Nat : \E d : VecKeeps(vec, contents, s, c, l, d)
      BY DEF VecInv
<1>1. PICK d : VecKeeps(vec, contents, s, c, l, d)
      BY <1>0
<1>2. vec.size = s /\ vec.capacity = c /\ vec.data = d /\ Len(d) = l
  <2>1. KeepsParts(vec, contents, s, c, l, d)
        BY <1>1, VecKeepsParts
  <2> QED
      BY <1>1, <2>1 DEF KeepsParts, VecKeeps
<1>3. s <= c /\ c = l
      BY <1>2 DEF Intact
<1>4. contents = Cells(d, s)
  <2>1. \A i \in 1 .. s : i <= l
        BY SMTT(30), <1>3
  <2> QED
      BY <1>1, <2>1 DEF VecKeeps, Kept, Cells
<1>5. VecHolds(vec, contents)
      BY <1>1, <1>3, <1>4 DEF VecKeeps, VecHolds
<1> QED
    BY <1>5 DEF VecWhole, VecInv

\* and a whole one satisfies the invariant.
LEMMA WholeIsInv == VecWhole => VecInv
<1> SUFFICES ASSUME VecWhole PROVE VecInv
    OBVIOUS
<1>0. PICK s \in Nat, c \in Nat : \E d : HasParts(vec, contents, s, c, d)
      BY VecParts DEF VecWhole
<1>1. PICK d : HasParts(vec, contents, s, c, d)
      BY <1>0
<1>2. Intact(vec)
      BY <1>1 DEF HasParts, Intact
<1>3. contents = Kept(d, s, c)
  <2>1. s <= c /\ contents = Cells(d, s)
        BY <1>1 DEF HasParts
  <2>2. \A i \in 1 .. s : i <= c
        BY SMTT(30), <2>1
  <2> QED
      BY <2>1, <2>2 DEF Kept, Cells
<1>4. VecKeeps(vec, contents, s, c, c, d)
      BY <1>1, <1>3 DEF HasParts, VecKeeps
<1>5. \E x, y, z \in Nat : \E w : VecKeeps(vec, contents, x, y, z, w)
      BY <1>4
<1> QED
    BY <1>2, <1>5 DEF VecInv, VecWhole

LEMMA WholeIsInvLater == VecWhole' => VecInv'
<1>1. VecWhole => VecInv
      BY WholeIsInv
<1> QED
    BY <1>1, PTL

\* The invariant is what VectorCorrect claims, and more.
LEMMA VecInvIsCorrect == VecInv => VectorCorrect
<1> SUFFICES ASSUME VecInv PROVE VectorCorrect
    OBVIOUS
<1>0. PICK s, c, l \in Nat : \E d : VecKeeps(vec, contents, s, c, l, d)
      BY DEF VecInv
<1>1. PICK d : VecKeeps(vec, contents, s, c, l, d)
      BY <1>0
<1>2. /\ vec.size = s /\ vec.data = d /\ Len(d) = l /\ Len(contents) = s
      /\ contents = Kept(d, s, l)
  <2>1. KeepsParts(vec, contents, s, c, l, d)
        BY <1>1, VecKeepsParts
  <2> QED
      BY <1>1, <2>1 DEF KeepsParts, VecKeeps
<1>3. ASSUME NEW i \in 0 .. s - 1
      PROVE  contents[i + 1] = IF i < Len(vec.data) THEN VectorAt(vec, i) ELSE ANY
  <2>1. ~(i >= s) /\ i + 1 \in 1 .. s /\ (i < l <=> i + 1 <= l)
        BY SMT
  <2>2. VectorAt(vec, i) = d[i + 1]
        BY <1>2, <2>1 DEF VectorAt, Cell
  <2>3. contents[i + 1] = IF i + 1 <= l THEN d[i + 1] ELSE ANY
        BY <1>2, <2>1 DEF Kept
  <2> QED
      BY <1>2, <2>1, <2>2, <2>3
<1>4. VectorAt(vec, s) = NoElement
  <2>1. s >= s
        BY SMT
  <2> QED
      BY <1>2, <2>1 DEF VectorAt
<1> QED
    BY <1>2, <1>3, <1>4 DEF VecInv, VectorCorrect, VectorHoldsContents

\* The call that a reserve leaves behind
LEMMA ReserveCall ==
    ASSUME NEW op, vecCall' = [Quiet EXCEPT !.op = op]
    PROVE  vecCall'.op = op /\ RemovedIsReturned'
<1>1. vecCall'.op = op /\ vecCall'.got = NoElement /\ vecCall'.want = NoElement
      BY DEF Quiet
<1> QED
    BY <1>1 DEF RemovedIsReturned

\* avs_vector_reserve keeps what has a cell before and after.
LEMMA VecReserveStep ==
    ASSUME VecInv, NEW n \in 0 .. MaxVec, NEW memory \in BOOLEAN, VecReserve(n, memory)
    PROVE  VecInv'
<1>0. PICK s, c, l \in Nat : \E d : VecKeeps(vec, contents, s, c, l, d)
      BY DEF VecInv
<1>1. PICK d : VecKeeps(vec, contents, s, c, l, d)
      BY <1>0
<1>2. /\ vec = Vec(s, c, d) /\ d = Cells(d, l) /\ contents = Kept(d, s, l)
      /\ vec.size = s /\ vec.data = d /\ Len(d) = l /\ DOMAIN contents = 1 .. s
  <2>1. KeepsParts(vec, contents, s, c, l, d)
        BY <1>1, VecKeepsParts
  <2> QED
      BY <1>1, <2>1 DEF KeepsParts, VecKeeps
<1>3. n \in Nat /\ c \in Nat
      BY SMTT(30), VecAssumption
<1>4. vec' = EnsureCapacity(vec, n, memory)
      BY DEF VecReserve
<1>5. CASE ~memory /\ n # 0
  <2>1. vec' = vec /\ contents' = contents /\ vecCall' = vecCall
        BY <1>4, <1>5 DEF EnsureCapacity, VecReserve
  <2> QED
      BY <2>1 DEF VecInv, Intact, RemovedIsReturned
<1>6. CASE memory \/ n = 0
  <2> DEFINE op == IF n < s \/ n = 0 THEN "shrink" ELSE "none"
  <2>1. /\ contents' = [i \in 1 .. s |-> IF i <= n THEN contents[i] ELSE ANY]
        /\ vecCall' = [Quiet EXCEPT !.op = op]
        BY <1>2, <1>6 DEF VecReserve
  <2> HIDE DEF op
  <2>2. vecCall'.op = op /\ RemovedIsReturned'
        BY <2>1, ReserveCall
  <2>3. CASE memory
    <3> DEFINE e == [i \in 1 .. n |-> IF i <= l THEN d[i] ELSE ANY]
    <3>1. vec' = Vec(s, n, e)
      <4>1. memory = TRUE
            BY <2>3
      <4>2. vec' = [vec EXCEPT !.capacity = n, !.data = e]
            BY <1>2, <1>4, <4>1 DEF EnsureCapacity
      <4> DEFINE w == Vec(s, n, d)
      <4> HIDE DEF e
      <4>3. [vec EXCEPT !.capacity = n] = w
            BY SMTT(30), <1>2 DEF Vec
      <4>4. [w EXCEPT !.data = e] = Vec(s, n, e)
            BY SMT DEF Vec
      <4> HIDE DEF w
      <4>5. [vec EXCEPT !.capacity = n, !.data = e] = [[vec EXCEPT !.capacity = n] EXCEPT !.data = e]
            BY SMT
      <4> QED
          BY <4>2, <4>3, <4>4, <4>5
    <3>2. e = Cells(e, n)
          BY DEF Cells
    <3>3. contents' = Kept(e, s, n)
      <4>1. ASSUME NEW i \in 1 .. s
            PROVE  (IF i <= n THEN contents[i] ELSE ANY) = IF i <= n THEN e[i] ELSE ANY
        <5>1. i <= n => i \in 1 .. n
              BY SMTT(30), <1>3
        <5>2. contents[i] = IF i <= l THEN d[i] ELSE ANY
              BY <1>2 DEF Kept
        <5> QED
            BY <5>1, <5>2
      <4> QED
          BY <2>1, <4>1 DEF Kept
    <3> HIDE DEF e
    <3>4. VecKeeps(vec', contents', s, n, n, e)
          BY <3>1, <3>2, <3>3 DEF VecKeeps
    <3>5. vec'.size = s /\ vec'.capacity = n /\ Len(vec'.data) = n
      <4> DEFINE v == vec'
                 u == contents'
      <4> HIDE DEF v, u
      <4>1. KeepsParts(v, u, s, n, n, e)
            BY <1>3, <3>4, VecKeepsParts DEF v, u
      <4> QED
          BY <4>1 DEF KeepsParts, v, u
    <3>6. op # "shrink" => Intact(vec')
      <4>1. op # "shrink" => s <= n
            BY SMTT(30), <1>3 DEF op
      <4> QED
          BY <3>5, <4>1 DEF Intact
    <3> DEFINE v == vec'
               u == contents'
    <3> HIDE DEF v, u
    <3>7. \E x, y, z \in Nat : \E w : VecKeeps(v, u, x, y, z, w)
          BY <1>3, <3>4 DEF v, u
    <3> QED
        BY <2>2, <3>6, <3>7 DEF VecInv, Intact, v, u
  <2>4. CASE ~memory
    <3>1. n = 0 /\ op = "shrink"
          BY <1>6, <2>4 DEF op
    <3>2. vec' = Vec(s, c, <<>>)
      <4>1. vec' = [vec EXCEPT !.data = <<>>]
            BY <1>4, <2>4, <3>1 DEF EnsureCapacity
      <4> QED
          BY SMTT(30), <1>2, <4>1 DEF Vec
    <3>3. <<>> = Cells(<<>>, 0) /\ 0 \in Nat
          BY SMT DEF Cells
    <3>4. contents' = Kept(<<>>, s, 0)
      <4>1. \A i \in 1 .. s : ~(i <= 0)
            BY SMT
      <4> QED
          BY <2>1, <3>1, <4>1 DEF Kept
    <3>5. VecKeeps(vec', contents', s, c, 0, <<>>)
          BY <3>2, <3>3, <3>4 DEF VecKeeps
    <3> DEFINE v == vec'
               u == contents'
    <3> HIDE DEF v, u
    <3>6. \E x, y, z \in Nat : \E w : VecKeeps(v, u, x, y, z, w)
          BY <1>3, <3>3, <3>5 DEF v, u
    <3> QED
        BY <2>2, <3>1, <3>6 DEF VecInv, v, u
  <2> QED
      BY <2>3, <2>4
<1> QED
    BY <1>5, <1>6

\* avs_vector.c: whatever calls are made and whichever allocations fail, a vector of any
\* size holds exactly the elements put in it, in their places, but for those that a reserve
\* below its size gave up; unless that just happened it has a cell for each of them, and pop
\* and remove give the element that left it.
THEOREM VectorAlwaysCorrect == VecSpec => []VectorCorrect
<1>1. VecInv /\ [VecNext]_vecVars => VecInv'
  <2> SUFFICES ASSUME VecInv, [VecNext]_vecVars PROVE VecInv'
      OBVIOUS
  <2>1. CASE UNCHANGED vecVars
        BY <2>1 DEF vecVars, VecInv, Intact, RemovedIsReturned
  <2>2. CASE VecPop
    <3>1. VecWhole
          BY <2>2, IntactIsWhole DEF VecPop
    <3>2. VecWhole'
          BY <2>2, <3>1, VecPopStep
    <3> QED
        BY <3>2, WholeIsInvLater
  <2>3. ASSUME NEW memory \in BOOLEAN, NEW e \in VecValues, VecPush(e, memory) PROVE VecInv'
    <3>1. VecWhole
          BY <2>3, IntactIsWhole DEF VecPush
    <3>2. VecWhole'
          BY <2>3, <3>1, VecPushStep
    <3> QED
        BY <3>2, WholeIsInvLater
  <2>4. ASSUME NEW memory \in BOOLEAN, NEW i \in 0 .. MaxVec, VecRemove(i, memory) PROVE VecInv'
    <3>1. VecWhole
          BY <2>4, IntactIsWhole DEF VecRemove
    <3>2. VecWhole'
          BY <2>4, <3>1, VecRemoveStep
    <3> QED
        BY <3>2, WholeIsInvLater
  <2>5. ASSUME NEW memory \in BOOLEAN, NEW i \in 0 .. MaxVec, VecReserve(i, memory) PROVE VecInv'
        BY <2>5, VecReserveStep
  <2>6. ASSUME NEW memory \in BOOLEAN, VecFit(memory) PROVE VecInv'
    <3>1. VecWhole
          BY <2>6, IntactIsWhole DEF VecFit
    <3>2. VecWhole'
          BY <2>6, <3>1, VecFitStep
    <3> QED
        BY <3>2, WholeIsInvLater
  <2>7. ASSUME NEW i \in 0 .. MaxVec, NEW j \in 0 .. MaxVec, VecReverse(i, j) PROVE VecInv'
    <3>1. VecWhole
          BY <2>7, IntactIsWhole DEF VecReverse
    <3>2. VecWhole'
          BY <2>7, <3>1, VecReverseStep
    <3> QED
        BY <3>2, WholeIsInvLater
  <2>8. ASSUME NEW i \in 0 .. MaxVec, NEW j \in 0 .. MaxVec, VecSwap(i, j) PROVE VecInv'
    <3>1. VecWhole
          BY <2>8, IntactIsWhole DEF VecSwap
    <3>2. VecWhole'
          BY <2>8, <3>1, VecSwapStep
    <3> QED
        BY <3>2, WholeIsInvLater
  <2>9. ASSUME NEW i \in 0 .. MaxVec, NEW j \in 0 .. MaxVec, VecSort(i, j) PROVE VecInv'
    <3>1. VecWhole
          BY <2>9, IntactIsWhole DEF VecSort
    <3>2. VecWhole'
          BY <2>9, <3>1, VecSortStep
    <3> QED
        BY <3>2, WholeIsInvLater
  <2> QED
      BY <2>1, <2>2, <2>3, <2>4, <2>5, <2>6, <2>7, <2>8, <2>9 DEF VecNext, VecQuery
<1>2. VecInit => VecInv
      BY VecInitWhole, WholeIsInv
<1> QED
    BY <1>1, <1>2, VecInvIsCorrect, PTL DEF VecSpec


=============================================================================
