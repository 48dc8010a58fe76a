---------------------------- MODULE ArrowValues ----------------------------
(***************************************************************************)
(* arrow_value_to_column_value (bulk_arrow.rs): one cell of an Arrow array *)
(* on its way into a bulk copy, and what a reader of the loaded row sees   *)
(* (row.rs).  Dates are days since 0001-01-01; units are those of          *)
(* TemporalUnits, and 64-bit integers are -(MaxInt64 + 1) .. MaxInt64.     *)
(***************************************************************************)
EXTENDS TemporalUnits, Sequences

CONSTANTS
  NanosPerMicro,   \* (1000)
  EpochDay,        \* ARROW_EPOCH_OFFSET_DAYS, 1970-01-01 (719162)
  MaxInt64,
  Amounts,         \* the integers that cells of temporal arrays hold
  Coefficients,    \* the raw values of Decimal128 arrays
  MaxDigits        \* digits a Decimal128 array declares at most (38)

ASSUME ArrowAssumption ==
  /\ NanosPerMicro \in Nat \ {0} /\ NanosPerMilli % NanosPerMicro = 0
  /\ EpochDay \in 0..LastDay /\ MaxInt64 \in Nat
  \* nanoseconds in 64 bits reach neither 0001-01-01 nor 9999-12-31
  /\ MaxInt64 \div NanosPerDay < EpochDay
  /\ EpochDay + MaxInt64 \div NanosPerDay < LastDay
  /\ Amounts \subseteq (-(MaxInt64 + 1))..MaxInt64
  /\ MaxDigits \in Nat \ {0}
  \* an i128 has a digit more than a Decimal128 array declares, at most
  /\ Coefficients \subseteq Int
  /\ \A raw \in Coefficients : raw < 10^(MaxDigits + 1) /\ -raw < 10^(MaxDigits + 1)

\* A fact of arithmetic, stated because its induction is out of the provers' reach.
ASSUME PowersOfTen == \A n \in 0..MaxDigits : 10^(n + 1) = 10 * 10^n

IntegerTypes == {"Boolean", "Int8", "Int16", "Int32", "Int64",
                 "UInt8", "UInt16", "UInt32"}
Units == {"s", "ms", "us", "ns"}

\* Arrays: their data type and, for the cell, a value or NULL.  The value of an
\* integer, string or binary array is taken over as it is: only its type counts.
PlainTypes == IntegerTypes \cup {"Float32", "Float64", "Utf8", "LargeUtf8", "Binary",
                                 "LargeBinary", "FixedSizeBinary"}
Arrays ==
       [type : PlainTypes \cup {"List"}, cell : {0, 1, NULL}]
  \cup [type : {"Date32"}, cell : Amounts \cup {NULL}]
  \cup [type : {"Time64"}, unit : Units, cell : Amounts \cup {NULL}]
  \cup [type : {"Timestamp"}, unit : Units, cell : Amounts \cup {NULL}]
  \cup [type : {"Decimal128"}, precision : 1..MaxDigits, scale : -1..MaxDigits,
        cell : Coefficients \cup {NULL}]

VARIABLES
  array,  \* the array and the cell that is converted
  out     \* NULL before the conversion, then a ColumnValues or an error

vars == <<array, out>>

Init == array \in Arrays /\ out = NULL

Error == [type |-> "error"]
Plain(type, value) == [type |-> type, value |-> value]

-----------------------------------------------------------------------------

\* The ColumnValues of the arrays whose values are taken over.
ColumnType(type) ==
  CASE type = "Boolean" -> "Bit" [] type \in {"Int8", "Int16"} -> "SmallInt"
    [] type \in {"Int32", "UInt16"} -> "Int" [] type \in {"Int64", "UInt32"} -> "BigInt"
    [] type = "UInt8" -> "TinyInt"
    [] type = "Float32" -> "Real" [] type = "Float64" -> "Float"
    [] type \in {"Utf8", "LargeUtf8"} -> "String"
    [] OTHER -> "Bytes"

\* The zero, or the empty string or bytes, of the type.
NullForArrowType(type) == Plain(ColumnType(type), 0)

\* checked_add, u32::try_from and SqlDate::create: each of them an error.
Date(days) ==
  IF days + EpochDay \in 0..LastDay THEN [type |-> "Date", day |-> days + EpochDay]
  ELSE Error

NanosPer(unit) ==
  CASE unit = "s" -> NanosPerSecond [] unit = "ms" -> NanosPerMilli
    [] unit = "us" -> NanosPerMicro [] unit = "ns" -> 1

Time(unit, amount) ==
  IF unit \notin {"us", "ns"} \/ amount < 0 \/ amount * NanosPer(unit) >= NanosPerDay
  THEN Error
  ELSE [type |-> "Time", time |-> amount * NanosPer(unit)]

\* i64::saturating_mul
SaturatingMul(amount, factor) ==
  IF amount * factor > MaxInt64 THEN MaxInt64
  ELSE IF amount * factor < -(MaxInt64 + 1) THEN -(MaxInt64 + 1)
  ELSE amount * factor

\* Rust's / instead of div_euclid.
SlipTimestamp(unit, amount) ==
  LET nanos == SaturatingMul(amount, NanosPer(unit))
      quotient == IF nanos < 0 THEN -((-nanos) \div NanosPerDay) ELSE nanos \div NanosPerDay
  IN [type |-> "DateTime2", day |-> quotient + EpochDay,
      time |-> nanos % NanosPerDay]

\* The \div and % of TLA+ are div_euclid and rem_euclid for a positive divisor.
Timestamp(unit, amount) ==
  LET nanos == SaturatingMul(amount, NanosPer(unit))
      day == nanos \div NanosPerDay + EpochDay
  IN IF day < 0 THEN Error
     ELSE [type |-> "DateTime2", day |-> day, time |-> nanos % NanosPerDay]

\* The decimal digits of n, most significant first; "0" has one.
Digits(n) ==
  LET width == CHOOSE w \in 1..(MaxDigits + 1) :
                 (10^(w - 1) <= n /\ n < 10^w) \/ (n = 0 /\ w = 1)
  IN [k \in 1..width |-> (n \div 10^(width - k)) % 10]
NumberOf(digits) ==
  LET upto[k \in 0..Len(digits)] == IF k = 0 THEN 0 ELSE 10 * upto[k - 1] + digits[k]
  IN upto[Len(digits)]
Zeros(n) == [k \in 1..n |-> 0]

\* No zeros are put between the point and a short coefficient.
SlipFormatDecimal128(raw, scale) ==
  LET digits == Digits(IF raw < 0 THEN -raw ELSE raw)
      split == Len(digits) - scale
  IN [negative |-> raw < 0,
      integer  |-> IF split > 0 THEN SubSeq(digits, 1, split) ELSE <<0>>,
      fraction |-> IF split > 0 THEN SubSeq(digits, split + 1, Len(digits)) ELSE digits]

\* format_decimal128: sign, integer digits and fraction digits of the string.
FormatDecimal128(raw, scale) ==
  LET digits == Digits(IF raw < 0 THEN -raw ELSE raw)
      split == Len(digits) - scale
  IN [negative |-> raw < 0,
      integer  |-> IF split > 0 THEN SubSeq(digits, 1, split) ELSE <<0>>,
      fraction |-> IF split > 0 THEN SubSeq(digits, split + 1, Len(digits))
                   ELSE Zeros(-split) \o digits]

\* DecimalParts::from_string (external): the digits with their scale, or an
\* error when the declared precision does not hold them.
FromString(string, precision, scale) ==
  LET magnitude == NumberOf(string.integer) * 10^scale + NumberOf(string.fraction)
  IN IF scale > precision \/ magnitude >= 10^precision THEN Error
     ELSE [type |-> "Decimal", negative |-> string.negative, magnitude |-> magnitude,
           places |-> Len(string.fraction), precision |-> precision, scale |-> scale]

Decimal(raw, precision, scale) ==
  IF scale < 0 THEN Error
  ELSE FromString(FormatDecimal128(raw, scale), precision, scale)

Value ==
  CASE array.type \in PlainTypes   -> Plain(ColumnType(array.type), array.cell)
    [] array.type = "Date32"       -> Date(array.cell)
    [] array.type = "Time64"       -> Time(array.unit, array.cell)
    [] array.type = "Timestamp"    -> Timestamp(array.unit, array.cell)
    [] array.type = "Decimal128"   -> Decimal(array.cell, array.precision, array.scale)
    [] OTHER                       -> Error

\* is_null comes before any look at the type.
Convert ==
  /\ out = NULL
  /\ out' = IF array.cell = NULL THEN NullForArrowType(array.type) ELSE Value
  /\ UNCHANGED array

Next == Convert

Spec == Init /\ [][Next]_vars

-----------------------------------------------------------------------------

Converted == out # NULL /\ array.cell # NULL

\* The bits of the two kinds of integers; Bit holds what Boolean holds.
Bits == [Boolean |-> 1, Int8 |-> 8, Int16 |-> 16, Int32 |-> 32, Int64 |-> 64,
         UInt8 |-> 8, UInt16 |-> 16, UInt32 |-> 32,
         Bit |-> 1, TinyInt |-> 8, SmallInt |-> 16, Int |-> 32, BigInt |-> 64]
Unsigned == {"Boolean", "UInt8", "UInt16", "UInt32", "Bit", "TinyInt"}

\* The instant a Timestamp cell stands for, in nanoseconds since 1970-01-01.
Instant == array.cell * NanosPer(array.unit)
SameInstant ==
  /\ out.type = "DateTime2"
  /\ out.day \in 0..LastDay /\ out.time \in 0..(NanosPerDay - 1)
  /\ (out.day - EpochDay) * NanosPerDay + out.time = Instant

\* A Date32 or Time64 cell is converted to the same day or nanosecond, or to an
\* error exactly when the destination has no such day or time, or the unit is
\* not one of Time64's; a Timestamp whose nanoseconds fit in 64 bits is converted
\* to the same instant, before 1970 as after it.  A timestamp further away is
\* clamped by saturating_mul: see FarTimestampsRejected.
TimesExact ==
  Converted =>
    /\ array.type = "Date32" =>
         IF array.cell + EpochDay \in 0..LastDay
         THEN out.type = "Date" /\ out.day - EpochDay = array.cell
         ELSE out = Error
    /\ array.type = "Time64" =>
         IF array.unit \in {"us", "ns"} /\ array.cell * NanosPer(array.unit) \in 0..(NanosPerDay - 1)
         THEN out.type = "Time" /\ out.time = array.cell * NanosPer(array.unit)
         ELSE out = Error
    /\ array.type = "Timestamp" /\ Instant \in (-(MaxInt64 + 1))..MaxInt64 => SameInstant

\* No widening loses a value or its sign: every integer array fits the SQL type
\* chosen for it.  And a Decimal128 cell has the same value, to the last digit and
\* with all its places, or is an error when scale or precision do not allow it.
NumbersExact ==
  Converted =>
    /\ array.type \in IntegerTypes =>
         CASE array.type \in Unsigned /\ out.type \notin Unsigned ->
                Bits[array.type] < Bits[out.type]
           [] array.type \notin Unsigned /\ out.type \in Unsigned -> FALSE
           [] OTHER -> Bits[array.type] <= Bits[out.type]
    /\ array.type = "Decimal128" =>
         LET magnitude == IF array.cell < 0 THEN -array.cell ELSE array.cell
         IN IF array.scale \notin 0..array.precision \/ magnitude >= 10^array.precision
            THEN out = Error
            ELSE /\ out.type = "Decimal" /\ out.magnitude = magnitude
                 /\ out.places = array.scale /\ out.negative = (array.cell < 0)

-----------------------------------------------------------------------------
(* What comments say and the code does otherwise *)

\* "we emit a typed null" (arrow_value_to_column_value): what a null cell becomes
\* is not what a value of the same array becomes.
NullsStayNull ==
  array.cell = NULL /\ out # NULL /\ array.type \in PlainTypes =>
    \A value \in {0, 1} : out # Plain(ColumnType(array.type), value)

\* "time_nanoseconds is actually in 100-nanosecond units" (query.rs, row.rs): a
\* loaded Time64 cell is read as the time it was, to the tick.
TimesReadBack ==
  Converted /\ out.type = "Time" =>
    LET nanos == array.cell * NanosPer(array.unit)
        read == TimeOfTicks(out.time)
    IN read # NULL /\ SinceMidnight(read) = nanos - (nanos % NanosPerTick)

\* An error for "values outside the destination type's range": a Timestamp
\* before 0001-01-01 or after 9999-12-31 is not converted.
FarTimestampsRejected ==
  Converted /\ array.type = "Timestamp" /\ Instant \div NanosPerDay + EpochDay \notin 0..LastDay =>
    out = Error
=============================================================================
