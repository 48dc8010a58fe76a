----------------------------- MODULE SqlValues -----------------------------
(***************************************************************************)
(* The vocabulary of the conversions: how the values that travel between   *)
(* Rust, parameters and rows are written down.                             *)
(*                                                                         *)
(* A value is a tuple: the name of its variant and, unless it is a typed   *)
(* NULL, a payload.  <<"Int", 3>> is SqlType::Int(Some(3)), <<"Int">> is   *)
(* SqlType::Int(None).  Payloads:                                          *)
(*                                                                         *)
(*   integers       the integer; the widths are a model parameter          *)
(*   floats         <<m, FloatScale>>, the float m / 10^FloatScale, or     *)
(*                  <<"inf">>, <<"-inf">>: SQL Server has no infinities,    *)
(*                  but a cast may give one                                *)
(*   decimals       <<m, s, p>>: DecimalParts, p its precision             *)
(*   Money          <<msb, lsb>>: the signed halves of SqlMoney            *)
(*   text           a string of the model                                  *)
(*   the others     one token for each variant                             *)
(***************************************************************************)
EXTENDS Integers, Sequences, FiniteSets

CONSTANTS
  ByteBits,    \* bits of u8 and i8 (8)
  MaxUnits,    \* UTF-16 units a sized string parameter holds (4000)
  MaxDigits,   \* largest precision of a decimal (38)
  MaxMantissa, \* largest mantissa of a Rust Decimal (2^96 - 1)
  MaxScale,    \* and its largest scale (28)
  MoneyScale,  \* decimals of money (4)
  FloatScale,  \* decimals in which every f64 can be written (1074)
  Floats,      \* Floats.f32, Floats.f64: the finite floats, times 10^FloatScale
  Beyond,      \* Beyond[type]: where the exponent of a float type ends
  Ints,        \* the integers that occur
  Texts,       \* the texts that occur
  Mantissas, Scales,  \* of the Decimals that occur
  Halves       \* halves of the Money values that occur

ASSUME SqlValuesAssumption ==
  /\ ByteBits \in Nat \ {0, 1} /\ MaxUnits \in Nat
  /\ MaxDigits \in Nat \ {0} /\ MaxMantissa \in Nat /\ MaxMantissa < 10^MaxDigits
  /\ Ints \subseteq Int /\ Mantissas \subseteq Int /\ Scales \subseteq 0..MaxDigits
  /\ MaxScale \in 0..MaxDigits /\ MoneyScale \in Nat /\ FloatScale \in Nat
  /\ MoneyScale <= FloatScale
  /\ \A t \in Texts : Len(t) \in Nat
  /\ Halves \subseteq -(2^(4 * ByteBits - 1))..(2^(4 * ByteBits - 1) - 1)

\* Facts of arithmetic, stated because their induction is out of the provers' reach.
ASSUME PowersOfTen ==
  /\ \A n \in 0..MaxDigits : 10^n > 0
  /\ \A n \in {MoneyScale, FloatScale, FloatScale - MoneyScale} : 10^n > 0
  /\ 10^FloatScale = 10^MoneyScale * 10^(FloatScale - MoneyScale)

Kind(x) == x[1]
IsNone(x) == Len(x) = 1
Payload(x) == x[2]

\* The value under another name: what a match arm of the code does.
Retag(table, x) == <<table[Kind(x)]>> \o Tail(x)

-----------------------------------------------------------------------------
(* Integers of Rust's widths *)

Bits == [u8 |-> ByteBits, u16 |-> 2 * ByteBits, u32 |-> 4 * ByteBits, u64 |-> 8 * ByteBits,
         i8 |-> ByteBits, i16 |-> 2 * ByteBits, i32 |-> 4 * ByteBits, i64 |-> 8 * ByteBits]
IntTypes == DOMAIN Bits \cup {"u128", "i128"}
Unsigned == {"u8", "u16", "u32", "u64"}

\* Every integer of the model is an i128.
Fits(type, n) ==
  CASE type = "i128"     -> TRUE
    [] type = "u128"     -> n >= 0
    [] type \in Unsigned -> n >= 0 /\ n < 2^Bits[type]
    [] OTHER             -> n >= -(2^(Bits[type] - 1)) /\ n < 2^(Bits[type] - 1)
IntsOf(type) == {n \in Ints : Fits(type, n)}

\* Digits of an integer, one for zero.
Magnitude(n) == IF n < 0 THEN -n ELSE n
Digits(n) == CHOOSE d \in 1..(MaxDigits + 1) :
  Magnitude(n) < 10^d /\ (d = 1 \/ Magnitude(n) >= 10^(d - 1))

\* SqlMoney keeps the upper half of a 64-bit integer before the lower one.
SlipRaw(msb, lsb) == msb * 2^Bits["u32"] + lsb

\* The lower half is reinterpreted as unsigned before it is added.
Raw(msb, lsb) ==
  msb * 2^Bits["u32"] + (IF lsb < 0 THEN lsb + 2^Bits["u32"] ELSE lsb)

-----------------------------------------------------------------------------
(* Rust's floats *)

\* An f32 is an f64, and so is an i32; every integer of the model lies between
\* two of f64's floats.
ASSUME FloatsAssumption ==
  /\ \A type \in {"f32", "f64"} :
       /\ Floats[type] \subseteq Int /\ Beyond[type] \in Nat
       /\ \A f \in Floats[type] : -Beyond[type] < f /\ f < Beyond[type]
  /\ Floats["f32"] \subseteq Floats["f64"]
  /\ \A n \in IntsOf("i32") : n * 10^FloatScale \in Floats["f64"]
  /\ \A n \in Ints : \E f, g \in Floats["f64"] :
       f <= n * 10^FloatScale /\ n * 10^FloatScale <= g

Infinities == {<<"inf">>, <<"-inf">>}
PayloadsIn(type) == {<<f, FloatScale>> : f \in Floats[type]}

\* The floats that no other is nearer to than to x / d, one past the end counted in.
Nearby(type, x, d) ==
  LET ends == Floats[type] \cup {Beyond[type], -Beyond[type]}
  IN {f \in ends : \A g \in ends : Magnitude((f * d) - x) <= Magnitude((g * d) - x)}

\* "as f32", "as f64" and "/": the nearest float, and infinity past the end.
\* Of two as near it is the even one, here either.
Cast(type, x, d) ==
  LET f == CHOOSE g \in Nearby(type, x, d) : TRUE
  IN IF f = Beyond[type] THEN <<"inf">>
     ELSE IF f = -Beyond[type] THEN <<"-inf">> ELSE <<f, FloatScale>>
CastInt(type, n) == Cast(type, n * 10^FloatScale, 1)
CastFloat(type, p) == IF p \in Infinities THEN p ELSE Cast(type, p[1], 1)

-----------------------------------------------------------------------------
(* Rows of the driver (ColumnValues) *)

Temporals == {"Date", "Time", "DateTime", "DateTime2", "DateTimeOffset", "SmallDateTime"}
TextKinds == {"String", "Xml", "Json"}

\* The cells the driver can hand over, NULL aside.
Parts == {d \in Mantissas \X Scales \X (1..MaxDigits) :
            Digits(d[1]) <= d[3] /\ d[2] <= d[3]}
Cells ==
       {<<"Bit", b>> : b \in BOOLEAN}
  \cup {<<"TinyInt", n>> : n \in IntsOf("u8")} \cup {<<"SmallInt", n>> : n \in IntsOf("i16")}
  \cup {<<"Int", n>> : n \in IntsOf("i32")} \cup {<<"BigInt", n>> : n \in IntsOf("i64")}
  \cup {<<"Real", p>> : p \in PayloadsIn("f32")} \cup {<<"Float", p>> : p \in PayloadsIn("f64")}
  \cup {<<kind, d>> : kind \in {"Decimal", "Numeric"}, d \in Parts}
  \cup {<<"Money", <<high, low>>>> : high \in Halves, low \in Halves}
  \cup {<<"SmallMoney", n>> : n \in IntsOf("i32")}
  \cup {<<kind, t>> : kind \in TextKinds, t \in Texts}
  \cup {<<"Bytes", "bytes">>, <<"Uuid", "uuid">>, <<"Vector", "vector">>}
  \cup {<<kind, "time">> : kind \in Temporals}

Null == <<"Null">>
=============================================================================
