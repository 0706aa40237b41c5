----------------------------- MODULE Conversions -----------------------------
(***************************************************************************)
(* Conversions between BSON values and Rust types:                            *)
(* mongo_common/src/bson/convert.rs, and wirebson/src/convert.rs, which       *)
(* forwards to it.  The integer types are ranges of numbers, scaled down with *)
(* their proportions kept; a Double is given by twice its value, an integer,  *)
(* so that fractions are among them; AsF64 and AsF32 round.  A point in time   *)
(* is a number of ticks since the epoch, several to the millisecond.          *)
(***************************************************************************)
EXTENDS TextForms

CONSTANTS
  MaxI64,
  Native,       \* the values of the integer types, by name
  AsF64(_),     \* `as f64`: the Double nearest to an integer, as twice its value
  AsF32(_),     \* `as f32`: the f32 nearest to a Double, both as twice their values
  TicksPerMs,
  UuidLen       \* bytes of a Uuid, 16 in the code

MinI64 == -MaxI64 - 1

ASSUME RangeAssumption ==
  /\ MaxI64 \in Nat
  /\ Native.i64 = MinI64..MaxI64
  /\ \A type \in DOMAIN Native : Native[type] \subseteq Int
  /\ TicksPerMs \in Nat \ {0}

\* A bound of i64 becomes the Double next to it, never one within the range; the
\* lower bound is a power of two and stays what it is.
ASSUME RoundingAssumption ==
  /\ AsF64(MinI64) = 2 * MinI64
  /\ AsF64(MaxI64) \in Int /\ AsF64(MaxI64) >= 2 * MaxI64

Composite(v) == v.tag \in {"Document", "Array", "JavaScriptScope"}

Ok(v) == [ok |-> TRUE, v |-> v]
NotConvertible == [ok |-> FALSE, error |-> "NotConvertible"]
OutOfRange     == [ok |-> FALSE, error |-> "OutOfRange"]

\* From<T> for Scalar, by type: the variant that holds the value.
ScalarFrom ==
  [i8 |-> "Int32", i16 |-> "Int32", u8 |-> "Int32", u16 |-> "Int32", i32 |-> "Int32",
   i64 |-> "Int64", f64 |-> "Double", bool |-> "Bool", String |-> "String", str |-> "String",
   ObjectId |-> "ObjectId", Binary |-> "Binary"]

\* From<T> for Bson is a table of its own.
BsonFrom ==
  [i8 |-> "Int32", i16 |-> "Int32", u8 |-> "Int32", u16 |-> "Int32", i32 |-> "Int32",
   i64 |-> "Int64", f64 |-> "Double", bool |-> "Bool", String |-> "String", str |-> "String",
   ObjectId |-> "ObjectId", Binary |-> "Binary", Regex |-> "Regex", Timestamp |-> "Timestamp"]

FromUuid(u) == [tag |-> "Binary", subtype |-> "Uuid", v |-> u]

\* `f as i64` saturates.
Saturate(n) == IF n < MinI64 THEN MinI64 ELSE IF n > MaxI64 THEN MaxI64 ELSE n

\* Mutant of HoldsI64: a fraction is cut off.
HoldsI64AnyFraction(f) == f >= AsF64(MinI64) /\ f <= AsF64(MaxI64)

\* The guard on a Double: no fraction, and within the bounds of i64 as Doubles.
HoldsI64(f) == f % 2 = 0 /\ f >= AsF64(MinI64) /\ f <= AsF64(MaxI64)

\* The value as an i64; NaN and the infinities have the tag "NotFinite".
Wide(s) ==
  CASE s.tag \in {"Int32", "Int64"} -> Ok(s.v)
    [] s.tag = "Bool" -> Ok(s.v)
    [] s.tag = "Double" -> IF HoldsI64(s.v) THEN Ok(Saturate(s.v \div 2)) ELSE NotConvertible
    [] OTHER -> NotConvertible

TryFromNumeric(type, s) ==
  LET wide == Wide(s)
  IN  IF ~wide.ok THEN NotConvertible
      ELSE IF wide.v \in Native[type] THEN wide ELSE OutOfRange

TryF64(s) ==
  CASE s.tag = "Double" -> Ok(s.v)
    [] s.tag = "NotFinite" -> Ok("NotFinite")
    [] s.tag \in {"Int32", "Int64"} -> Ok(AsF64(s.v))
    [] OTHER -> NotConvertible

\* By way of f64, so that an Int64 is rounded twice.
TryF32(s) ==
  LET f == TryF64(s)
  IN  IF f.ok /\ s.tag # "NotFinite" THEN Ok(AsF32(f.v)) ELSE f

TryBool(s) == IF s.tag = "Bool" THEN Ok(s.v) ELSE NotConvertible

\* Texts, and an ObjectId as hex.
TryString(s) ==
  CASE s.tag \in {"String", "JavaScript", "Symbol"} -> Ok(s.v)
    [] s.tag = "ObjectId" -> Ok(ToHex(s.v))
    [] OTHER -> NotConvertible

TryUuid(s) ==
  IF s.tag # "Binary" THEN NotConvertible
  ELSE IF s.subtype = "Uuid" /\ Len(s.v) = UuidLen THEN Ok(s.v) ELSE NotConvertible

\* Milliseconds, of an Int64 only.
TryDuration(s) ==
  IF s.tag = "Int64" /\ s.v >= 0 THEN Ok(s.v * TicksPerMs) ELSE NotConvertible

\* TryFrom<&Scalar>
TryFromScalar(type, s) ==
  CASE type = "f64" -> TryF64(s)
    [] type = "f32" -> TryF32(s)
    [] type = "bool" -> TryBool(s)
    [] type = "String" -> TryString(s)
    [] type = "Uuid" -> TryUuid(s)
    [] type = "Duration" -> TryDuration(s)
    [] OTHER -> TryFromNumeric(type, s)

\* TryFrom<&Bson>: composites are not scalars.
TryFromBson(type, v) == IF Composite(v) THEN NotConvertible ELSE TryFromScalar(type, v)

-----------------------------------------------------------------------------
(* Time *)

\* `as i64` keeps the low 64 bits.
WrapI64(n) == MinI64 + ((n - MinI64) % (MaxI64 - MinI64 + 1))

Abs(n) == IF n < 0 THEN -n ELSE n

TrySystemTime(v) == IF v.tag = "DateTime" THEN Ok(v.v * TicksPerMs) ELSE NotConvertible

Panic == [tag |-> "panic"]

\* Mutant of FromSystemTime: rounds down instead of towards the epoch.
FromSystemTimeFloor(t, checks) == [tag |-> "DateTime", v |-> WrapI64(t \div TicksPerMs)]

\* Duration::as_millis cuts off the part below a millisecond.  Negating the least i64
\* panics where the build checks for overflow and leaves it as it is elsewhere.
FromSystemTime(t, checks) ==
  LET ms == WrapI64(Abs(t) \div TicksPerMs)
  IN  IF t >= 0 THEN [tag |-> "DateTime", v |-> ms]
      ELSE IF ms # MinI64 THEN [tag |-> "DateTime", v |-> -ms]
      ELSE IF checks THEN Panic
      ELSE [tag |-> "DateTime", v |-> MinI64]

-----------------------------------------------------------------------------
(* What is to hold, of one value or one time *)

\* Twice the number a value stands for.
Twice(s) == IF s.tag = "Double" THEN s.v ELSE 2 * s.v

Numeric(s) == s.tag \in {"Int32", "Int64", "Bool", "Double"}

\* A Double at the upper bound of the guard: 2^63, one more than i64::MAX.
PastMaxI64(s) == s.tag = "Double" /\ s.v > 2 * MaxI64

\* A conversion to an integer that succeeds yields the same number, or the Double was
\* 2^63; it fails for no number that both i64 and the type hold.
ExactTo(type, s) ==
  LET r == TryFromBson(type, s)
  IN  /\ r.ok => /\ r.v \in Native[type]
                 /\ 2 * r.v = Twice(s) \/ PastMaxI64(s)
      /\ Numeric(s) /\ (\E n \in Native[type] \cap Native.i64 : 2 * n = Twice(s)) => r.ok
      /\ ~r.ok /\ Numeric(s) /\ s.tag # "Double" => r = OutOfRange

\* An integer that a Double holds survives the way there and back.  A number that an f32
\* holds becomes that f32 although it is rounded to a Double first, and of others each
\* becomes one that the rounding leaves alone.
FloatReturns(s) ==
  LET f == TryFromBson("f64", s)
      g == TryFromBson("f32", s)
  IN  /\ s.tag \in {"Int32", "Int64"} =>
           f.ok /\ (f.v = Twice(s) => TryFromBson("i64", [tag |-> "Double", v |-> f.v]) = Ok(s.v))
      /\ s.tag \in {"Int32", "Int64", "Double"} =>
           g.ok /\ AsF32(g.v) = g.v /\ (AsF32(Twice(s)) = Twice(s) => g.v = Twice(s))

\* A Duration is as many milliseconds as the value converts to as a u64.
DurationAgrees(s) ==
  LET r == TryFromScalar("Duration", s)
      n == TryFromScalar("u64", s)
  IN  r.ok => n.ok /\ r.v = n.v * TicksPerMs

\* What From made of a value, TryFrom turns into that value again, in both crates.
FromReturns(type, v) ==
  IF type = "Uuid" THEN TryUuid(FromUuid(v)) = Ok(v)
  ELSE /\ TryFromScalar(type, [tag |-> ScalarFrom[type], v |-> v]) = Ok(v)
       /\ TryFromBson(type, [tag |-> BsonFrom[type], v |-> v]) = Ok(v)

\* A date survives the way to SystemTime and back, but for the least one.
DateReturns(ms, checks) ==
  LET back == FromSystemTime(TrySystemTime([tag |-> "DateTime", v |-> ms]).v, checks)
  IN  IF ms = MinI64 /\ checks THEN back = Panic ELSE back = [tag |-> "DateTime", v |-> ms]

\* A time whose milliseconds fit loses less than a millisecond, towards the epoch.
TimeTruncated(t, checks) ==
  Abs(t) \div TicksPerMs <= MaxI64 =>
    LET back == TrySystemTime(FromSystemTime(t, checks)).v
    IN  /\ Abs(back) <= Abs(t) /\ Abs(t) - Abs(back) < TicksPerMs
        /\ back # 0 => (back < 0 <=> t < 0)

\* A SystemTime comes back from the DateTime it became if and only if it is a whole
\* number of milliseconds that an i64 holds, the least one only without overflow checks:
\* From panics there, wraps beyond the bounds, and drops what is below a millisecond.
LosslessOnlyFor(t, checks) ==
  LET d == FromSystemTime(t, checks)
  IN  (d # Panic /\ TrySystemTime(d) = Ok(t))
        <=> \E ms \in Native.i64 : t = ms * TicksPerMs /\ ~(checks /\ ms = MinI64)
=============================================================================
