------------------------------ MODULE TextForms ------------------------------
(***************************************************************************)
(* The text forms of bytes and dates: ObjectId::to_hex and from_hex of        *)
(* mongo_common/src/bson/scalar.rs, and base64, format_datetime and           *)
(* civil_from_days of wirebson/src/encode.rs, each beside a reference         *)
(* definition that undoes it.  A text is a sequence of one-character strings; *)
(* base64 digits are their positions in the alphabet.                         *)
(***************************************************************************)
EXTENDS Integers, Sequences, SequencesExt

CONSTANT IdLen   \* bytes of an ObjectId, 12 in the code

Bad == [ok |-> FALSE]

Lower == <<"0", "1", "2", "3", "4", "5", "6", "7", "8", "9", "a", "b", "c", "d", "e", "f">>
Upper == <<"0", "1", "2", "3", "4", "5", "6", "7", "8", "9", "A", "B", "C", "D", "E", "F">>

ToHex(bytes) ==
  [i \in 1..(2 * Len(bytes)) |->
     LET byte == bytes[(i + 1) \div 2]
     IN  Lower[1 + (IF i % 2 = 1 THEN byte \div 16 ELSE byte % 16)]]

\* The digit's value, or -1.
HexDigit(c) == IF Contains(Lower, c) THEN SelectInSeq(Lower, LAMBDA x : x = c) - 1
               ELSE SelectInSeq(Upper, LAMBDA x : x = c) - 1

\* Mutant of FromHex: a longer text is accepted and its end ignored.
FromHexPrefix(s) ==
  IF Len(s) < 2 * IdLen \/ \E i \in 1..(2 * IdLen) : HexDigit(s[i]) < 0 THEN Bad
  ELSE [ok |-> TRUE, id |-> [i \in 1..IdLen |-> 16 * HexDigit(s[2 * i - 1]) + HexDigit(s[2 * i])]]

FromHex(s) ==
  IF Len(s) # 2 * IdLen \/ \E i \in DOMAIN s : HexDigit(s[i]) < 0 THEN Bad
  ELSE [ok |-> TRUE, id |-> [i \in 1..IdLen |-> 16 * HexDigit(s[2 * i - 1]) + HexDigit(s[2 * i])]]

ToLower(s) == [i \in DOMAIN s |-> IF HexDigit(s[i]) >= 0 THEN Lower[1 + HexDigit(s[i])] ELSE s[i]]

\* What from_hex accepts is to_hex of the result, in either case of letters.
HexInverse(s) ==
  IF Len(s) = 2 * IdLen /\ \A i \in DOMAIN s : HexDigit(s[i]) >= 0
  THEN FromHex(s).ok /\ ToHex(FromHex(s).id) = ToLower(s)
  ELSE ~FromHex(s).ok

-----------------------------------------------------------------------------
(* base64 *)

Pad == 64

\* Chunks of three bytes give four digits; the missing bytes of the last count as 0.
Base64(data) ==
  LET chunks  == (Len(data) + 2) \div 3
      byte(i) == IF i <= Len(data) THEN data[i] ELSE 0
      n(k)    == byte(3 * k + 1) * 65536 + byte(3 * k + 2) * 256 + byte(3 * k + 3)
  IN  [j \in 1..(4 * chunks) |->
         LET k == (j - 1) \div 4
         IN  CASE j % 4 = 1 -> n(k) \div 262144
               [] j % 4 = 2 -> (n(k) \div 4096) % 64
               [] j % 4 = 3 -> IF 3 * k + 2 <= Len(data) THEN (n(k) \div 64) % 64 ELSE Pad
               [] j % 4 = 0 -> IF 3 * k + 3 <= Len(data) THEN n(k) % 64 ELSE Pad]

\* Reference: six bits to a digit, eight to a byte, padding only where bytes lack.
Decode64(s) ==
  LET pads   == Len(SelectSeq(s, LAMBDA d : d = Pad))
      bit(b) == IF s[b \div 6 + 1] = Pad THEN 0 ELSE (s[b \div 6 + 1] \div 2 ^ (5 - (b % 6))) % 2
  IN  [i \in 1..((3 * Len(s)) \div 4 - pads) |->
         LET at == 8 * (i - 1)
         IN  128 * bit(at) + 64 * bit(at + 1) + 32 * bit(at + 2) + 16 * bit(at + 3)
               + 8 * bit(at + 4) + 4 * bit(at + 5) + 2 * bit(at + 6) + bit(at + 7)]

-----------------------------------------------------------------------------
(* Dates *)

\* Rust's `/` rounds towards zero.
Quot(a, b) == IF a >= 0 THEN a \div b ELSE -((-a) \div b)

\* Mutant of Era: `/` on a negative number without the correction.
EraTowardsZero(z) == Quot(z, 146097)

Era(z) == Quot(IF z >= 0 THEN z ELSE z - 146096, 146097)

CivilFromDays(days) ==
  LET z   == days + 719468
      era == Era(z)
      doe == z - era * 146097
      yoe == Quot(doe - Quot(doe, 1460) + Quot(doe, 36524) - Quot(doe, 146096), 365)
      doy == doe - (365 * yoe + Quot(yoe, 4) - Quot(yoe, 100))
      mp  == Quot(5 * doy + 2, 153)
      m   == IF mp < 10 THEN mp + 3 ELSE mp - 9
  IN  [year  |-> yoe + era * 400 + (IF m <= 2 THEN 1 ELSE 0), month |-> m,
       day   |-> doy - Quot(153 * mp + 2, 5) + 1]

\* div_euclid and rem_euclid are the flooring \div and %.
FormatDatetime(ms) ==
  LET secs == ms \div 1000
      sod  == secs % 86400
  IN  [date |-> CivilFromDays(secs \div 86400), hh |-> sod \div 3600,
       mm |-> (sod \div 60) % 60, ss |-> sod % 60, millis |-> ms % 1000]

\* Reference: the Gregorian rules, counted from the year 1.
LeapYear(y) == y % 4 = 0 /\ (y % 100 # 0 \/ y % 400 = 0)

MonthLength(y, m) == <<31, IF LeapYear(y) THEN 29 ELSE 28, 31, 30, 31, 30, 31, 31, 30, 31, 30, 31>>[m]

DaysTo(y, m) == FoldLeft(+, 0, [i \in 1..(m - 1) |-> MonthLength(y, i)])

DaysFromCivil(date) ==
  LET y == date.year - 1
  IN  365 * y + y \div 4 - y \div 100 + y \div 400 + DaysTo(date.year, date.month)
        + date.day - 1 - 719162

\* civil_from_days yields a date there is, and the one that many days from the epoch.
DateExact(days) ==
  LET date == CivilFromDays(days)
  IN  /\ date.month \in 1..12 /\ date.day \in 1..MonthLength(date.year, date.month)
      /\ DaysFromCivil(date) = days

\* A rendered DateTime names the very millisecond, before the epoch too.
DatetimeExact(ms) ==
  LET f == FormatDatetime(ms)
  IN  /\ f.hh \in 0..23 /\ f.mm \in 0..59 /\ f.ss \in 0..59 /\ f.millis \in 0..999
      /\ (((DaysFromCivil(f.date) * 24 + f.hh) * 60 + f.mm) * 60 + f.ss) * 1000 + f.millis = ms
=============================================================================
