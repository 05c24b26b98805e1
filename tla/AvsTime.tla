------------------------------- MODULE AvsTime -------------------------------
(***************************************************************************)
(* The arithmetic of time intervals of src/src/utils/avs_time.c: seconds   *)
(* and nanoseconds in two's complement words, every overflow caught and    *)
(* answered with the invalid duration.  The word is TimeWidth bits and a   *)
(* second has NS_IN_S nanoseconds, so that every value near both ends of   *)
(* the range is tried.  A program computes with one duration, tm.result.   *)
(* Division goes through floating point, which rounds numbers above        *)
(* DOUBLE_EXACT; the functions with a floating-point argument or result    *)
(* are left out.                                                           *)
(***************************************************************************)
EXTENDS Integers, Sequences

CONSTANTS
    TimeWidth,      \* bits of the seconds
    NS_IN_S,
    DOUBLE_EXACT,   \* 2^53: up to it every integer is a double
    Multipliers     \* second operands of mul and div

INT_MIN == -(2 ^ (TimeWidth - 1))
INT_MAX == 2 ^ (TimeWidth - 1) - 1
Fits(x) == x \in INT_MIN..INT_MAX

Seconds == INT_MIN..INT_MAX
Durations == [s : Seconds, ns : 0..(NS_IN_S - 1)]

\* The powers of two are positive, a second has a whole number of each smaller
\* unit, and what has 32 bits in the code, NS_IN_S and the multipliers, fits a
\* word.  A double can tell nanoseconds apart within a few seconds.
ASSUME DurationAssumption ==
    /\ TimeWidth \in Nat \ {0} /\ 2 ^ (TimeWidth - 1) > 0
    /\ NS_IN_S \in Seconds /\ NS_IN_S > 0 /\ NS_IN_S % 2 = 0
    /\ Multipliers \subseteq Seconds
    /\ DOUBLE_EXACT \in Nat /\ DOUBLE_EXACT >= 4 * NS_IN_S

INVALID_DURATION == [s |-> 0, ns |-> -1]

Abs(x) == IF x < 0 THEN -x ELSE x

\* The integer division and remainder of C go towards zero.
Quot(a, b) ==
    LET q == Abs(a) \div Abs(b)
    IN  IF (a < 0) = (b < 0) THEN q ELSE -q
Rem(a, b) == a - b * Quot(a, b)

Valid(t) == t.ns >= 0 /\ t.ns < NS_IN_S

Less(a, b) == Valid(a) /\ Valid(b) /\ (a.s < b.s \/ (a.s = b.s /\ a.ns < b.ns))

Equal(a, b) == Valid(a) /\ Valid(b) /\ a.s = b.s /\ a.ns = b.ns

\* safe_add_int64_t and safe_mul_int64_t as written for compilers without the
\* overflow builtins: the sum or product, or fails
SafeAdd(a, b) ==
    IF a > 0 /\ b > 0 THEN [ok |-> a + b <= INT_MAX, v |-> a + b]
    ELSE IF a < 0 /\ b < 0
    THEN [ok |-> INT_MIN \notin {a, b} /\ (-a) + (-b) <= INT_MAX + 1, v |-> a + b]
    ELSE [ok |-> TRUE, v |-> a + b]

SafeMulPositive(input, m) ==
    [ok |-> ~(input > Quot(INT_MAX, m) \/ input < Quot(INT_MIN, m)), v |-> input * m]

SafeMul(input, m) ==
    IF input = 0 \/ m = 0 THEN [ok |-> TRUE, v |-> 0]
    ELSE IF (input = INT_MIN /\ m = 1) \/ (input = 1 /\ m = INT_MIN)
    THEN [ok |-> TRUE, v |-> INT_MIN]
    ELSE IF INT_MIN \in {input, m} THEN [ok |-> FALSE, v |-> 0]
    ELSE IF m < 0 THEN SafeMulPositive(-input, -m)
    ELSE SafeMulPositive(input, m)

\* A failed normalize leaves its argument as it was.
Normalize(t) ==
    IF t.ns < 0
    THEN IF t.s = INT_MIN THEN [ok |-> FALSE, t |-> t]
         ELSE [ok |-> TRUE, t |-> [s |-> t.s - 1, ns |-> t.ns + NS_IN_S]]
    ELSE IF t.ns >= NS_IN_S
    THEN IF t.s = INT_MAX THEN [ok |-> FALSE, t |-> t]
         ELSE [ok |-> TRUE, t |-> [s |-> t.s + 1, ns |-> t.ns - NS_IN_S]]
    ELSE [ok |-> TRUE, t |-> t]

Normalized(sum, ns) ==
    LET n == Normalize([s |-> sum.v, ns |-> ns])
    IN  IF sum.ok /\ n.ok THEN n.t ELSE INVALID_DURATION

DurationAdd(a, b) ==
    IF ~Valid(a) \/ ~Valid(b) THEN INVALID_DURATION
    ELSE Normalized(SafeAdd(a.s, b.s), a.ns + b.ns)

\* negate: one second moves to the nanoseconds first, since -INT_MIN does not
\* exist; its result is used even when it could not be normalized.
Negate(t) ==
    LET moved == IF t.s < 0 THEN [s |-> t.s + 1, ns |-> t.ns - NS_IN_S] ELSE t
    IN  Normalize([s |-> -moved.s, ns |-> -moved.ns]).t

DurationDiff(a, b) ==
    IF ~Valid(a) \/ ~Valid(b) THEN INVALID_DURATION
    ELSE LET n == Negate(b) IN Normalized(SafeAdd(a.s, n.s), a.ns + n.ns)

DurationMul(a, k) ==
    LET ns == a.ns * k
        product == SafeMul(a.s, k)
        sum == SafeAdd(product.v, Quot(ns, NS_IN_S))
    IN  IF ~Valid(a) \/ ~product.ok THEN INVALID_DURATION
        ELSE Normalized(sum, Rem(ns, NS_IN_S))

\* The doubles that an integer may be rounded to: off by at most one part in
\* DOUBLE_EXACT, whichever way the machine rounds within that
Rounded(n) ==
    LET error == Abs(n) \div DOUBLE_EXACT IN (n - error)..(n + error)

\* The quotient of two doubles cut to an integer.  One that lies closely below
\* the next integer may have been rounded up to it.
RoundedQuot(x, k) ==
    LET q == Abs(x) \div Abs(k)
        up == ((q + 1) * Abs(k) - Abs(x)) * DOUBLE_EXACT <= Abs(x)
    IN  { IF (x < 0) = (k < 0) THEN n ELSE -n : n \in q..(IF up THEN q + 1 ELSE q) }

\* (double) ns + (double) s_rest * NS_IN_S, over k
DividedNs(ns, rest, k) ==
    UNION { UNION { RoundedQuot(y, k) : y \in Rounded(ns + x) } : x \in Rounded(rest * NS_IN_S) }

\* The durations that the division may give
DurationDivForgettingRest(a, k) ==
    IF ~Valid(a) \/ k = 0 \/ (a.s = INT_MIN /\ k = -1) THEN {INVALID_DURATION}
    ELSE {Normalize([s |-> Quot(a.s, k), ns |-> Quot(a.ns, k)]).t}

DurationDiv(a, k) ==
    IF ~Valid(a) \/ k = 0 \/ (a.s = INT_MIN /\ k = -1) THEN {INVALID_DURATION}
    ELSE { Normalize([s |-> Quot(a.s, k), ns |-> ns]).t : ns \in DividedNs(a.ns, Rem(a.s, k), k) }

------------------------------------------------------------------------------
(* avs_x_time_conv.h: durations and whole numbers of a unit                 *)

\* CONVERSIONS with a minute of 4 seconds and a millisecond between a second
\* and a nanosecond; factors are [div, by].
Unit(sDiv, sBy, nsDiv, nsBy) ==
    [s |-> [div |-> sDiv, by |-> sBy], ns |-> [div |-> nsDiv, by |-> nsBy]]
Conversions ==
    { Unit(TRUE, 4, TRUE, 4 * NS_IN_S), Unit(FALSE, 1, TRUE, NS_IN_S),
      Unit(FALSE, 2, TRUE, NS_IN_S \div 2), Unit(FALSE, NS_IN_S, FALSE, 1) }

UnitConv(input, div, by) ==
    IF div THEN [ok |-> TRUE, v |-> Quot(input, by)] ELSE SafeMul(input, by)
Forward(input, conv) == UnitConv(input, conv.div, conv.by)
Backward(input, conv) == UnitConv(input, ~conv.div, conv.by)

ToScalar(t, unit) ==
    LET moved == t.s < 0 /\ t.ns > 0
        s == Forward(IF moved THEN t.s + 1 ELSE t.s, unit.s)
        ns == Forward(IF moved THEN t.ns - NS_IN_S ELSE t.ns, unit.ns)
        sum == SafeAdd(s.v, ns.v)
    IN  [ok |-> Valid(t) /\ s.ok /\ ns.ok /\ sum.ok, v |-> sum.v]

FromScalar(x, unit) ==
    LET s == Backward(x, unit.s)
        back == Forward(s.v, unit.s)
        ns == Backward(x - back.v, unit.ns)
        t == Normalize([s |-> s.v, ns |-> ns.v])
    IN  IF s.ok /\ back.ok /\ ns.ok /\ ns.v > -NS_IN_S /\ ns.v < NS_IN_S /\ t.ok
        THEN t.t ELSE INVALID_DURATION

\* avs_time_duration_as_string_impl__: the sign is that of the whole part's
\* text, and a zero has none.
AsString(t) ==
    LET moved == t.s < 0 /\ t.ns > 0
        whole == IF moved THEN t.s + 1 ELSE t.s
    IN  [minus |-> whole < 0, whole |-> Abs(whole),
         fraction |-> IF moved THEN NS_IN_S - t.ns ELSE t.ns]

------------------------------------------------------------------------------

VARIABLE tm     \* [op, a, b, k, unit, result]: the last operation

NANOSECONDS == Unit(FALSE, NS_IN_S, FALSE, 1)
NewDuration(t) ==
    [op |-> "new", a |-> t, b |-> t, k |-> 0, unit |-> NANOSECONDS, result |-> t]

TmInit == tm = NewDuration([s |-> 0, ns |-> 0])

TmStep(op, b, k, result) ==
    tm' = [tm EXCEPT !.op = op, !.b = b, !.k = k, !.result = result]

TmAdd(b) == TmStep("add", b, 0, DurationAdd(tm.result, b))
TmDiff(b) == TmStep("diff", b, 0, DurationDiff(tm.result, b))
TmMul(k) == TmStep("mul", tm.result, k, DurationMul(tm.result, k))
TmDiv(k) == \E t \in DurationDiv(tm.result, k) : TmStep("div", tm.result, k, t)
TmFromScalar(x, unit) ==
    tm' = [tm EXCEPT !.op = "from", !.k = x, !.unit = unit, !.result = FromScalar(x, unit)]

\* The program goes on with the result.
TmGoesOn == tm.op # "new" /\ tm' = NewDuration(tm.result)

TmNext ==
    \/ /\ tm.op = "new"
       /\ \/ \E b \in Durations : TmAdd(b) \/ TmDiff(b)
          \/ \E k \in Multipliers : TmMul(k) \/ TmDiv(k)
          \/ \E x \in Seconds, unit \in Conversions : TmFromScalar(x, unit)
    \/ TmGoesOn

TmSpec == TmInit /\ [][TmNext]_tm

------------------------------------------------------------------------------

\* The number of nanoseconds that a duration stands for
Value(t) == t.s * NS_IN_S + t.ns

Exact ==
    CASE tm.op = "add" -> Value(tm.a) + Value(tm.b)
      [] tm.op = "diff" -> Value(tm.a) - Value(tm.b)
      [] tm.op = "mul" -> Value(tm.a) * tm.k
      [] OTHER -> Value(tm.a)

\* What a quotient, times its divisor, may be off by
QuotientError(k) == IF Abs(k) * NS_IN_S <= DOUBLE_EXACT THEN Abs(k) ELSE 2 * Abs(k)

\* A sum, difference or product is exact or invalid: nothing wraps around, at
\* INT64_MIN and INT64_MAX too.  A quotient is off by less than a nanosecond when
\* as many seconds as the divisor, in nanoseconds, are exact in a double, and by
\* less than two with a larger divisor.
ArithmeticIsExact ==
    Valid(tm.a) /\ Valid(tm.b) /\ Valid(tm.result) /\ tm.op # "from"
      => IF tm.op = "div" THEN Abs(Value(tm.result) * tm.k - Value(tm.a)) < QuotientError(tm.k)
         ELSE Value(tm.result) = Exact

\* The comparisons order durations as the numbers they stand for, and an invalid
\* one is neither less than another nor equal to any, itself included.
ComparisonsAgree ==
    IF Valid(tm.a) /\ Valid(tm.result)
    THEN /\ Less(tm.a, tm.result) <=> Value(tm.a) < Value(tm.result)
         /\ Equal(tm.a, tm.result) <=> Value(tm.a) = Value(tm.result)
    ELSE ~Less(tm.a, tm.result) /\ ~Equal(tm.a, tm.result)

\* What two valid operands give is invalid only when it does not fit or is
\* close to a limit: within a second, and for a product within as many seconds
\* as the multiplier, because the overflow of the seconds alone is final even
\* if the nanoseconds would bring the result back.  A quotient is invalid when
\* the divisor is zero or it would be the negative of INT64_MIN seconds.
InvalidOnlyAtTheLimits ==
    LET margin == IF tm.op = "mul" THEN Abs(tm.k) ELSE 1
    IN  Valid(tm.a) /\ Valid(tm.b) /\ ~Valid(tm.result) /\ tm.op # "from"
          => IF tm.op = "div" THEN tm.k = 0 \/ (tm.a.s = INT_MIN /\ tm.k = -1)
             ELSE \/ Exact < (INT_MIN + margin) * NS_IN_S
                  \/ Exact >= (INT_MAX + 1 - margin) * NS_IN_S

\* Converting to a unit cuts towards zero and reports overflow exactly; what
\* is converted from a unit is exact, and coming back to the unit gives the
\* number again.
ScalarsRoundTrip ==
    /\ \A unit \in Conversions :
          LET x == ToScalar(tm.result, unit)
              perUnit == IF unit.ns.div THEN unit.ns.by ELSE 1
          IN  Valid(tm.result) =>
                 IF x.ok
                 THEN /\ Abs(Value(tm.result) - x.v * perUnit) < 2 * perUnit
                      /\ unit.s.div = FALSE
                           => Abs(Value(tm.result) - x.v * perUnit) < perUnit
                      /\ Abs(x.v * perUnit) <= Abs(Value(tm.result))
                 ELSE ~Fits(Quot(Value(tm.result), perUnit))
    /\ tm.op = "from" /\ Valid(tm.result)
          => ToScalar(tm.result, tm.unit) = [ok |-> TRUE, v |-> tm.k]

\* The text of a duration, read as a decimal number of seconds, is the duration:
\* the fraction of a negative one is that of its size, not its nanoseconds.
\* Between -1 s and 0 the whole part is zero and the text has no sign, so that
\* only the size can be read.
TextIsTheDuration ==
    LET text == AsString(tm.result)
        size == text.whole * NS_IN_S + text.fraction
    IN  Valid(tm.result)
          => /\ size = Abs(Value(tm.result))
             /\ text.minus = (Value(tm.result) <= -NS_IN_S)

\* Durations behave as the numbers they stand for, in arithmetic (division: to a
\* nanosecond or two), comparison and conversion, and are invalid where they cannot.
TimeCorrect ==
    /\ ArithmeticIsExact
    /\ InvalidOnlyAtTheLimits
    /\ ComparisonsAgree
    /\ ScalarsRoundTrip
    /\ TextIsTheDuration

=============================================================================
