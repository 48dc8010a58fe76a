---------------------------- MODULE ArrowProofs ----------------------------
(***************************************************************************)
(* Proofs about ArrowValues for all units, widths and coefficients: a      *)
(* date, a time of day or a number is converted to itself, or is an error  *)
(* where its SQL type has none; a timestamp is converted to the same       *)
(* instant where 64 bits hold its nanoseconds.                             *)
(***************************************************************************)
EXTENDS ArrowValues, WellFoundedInduction, SequenceTheorems, TLAPS

\* A cell is converted as its type says, once.
AInv == array \in Arrays /\ (out # NULL /\ array.cell # NULL => out = Value)

LEMMA InitA == Init => AInv
BY DEF Init, AInv

LEMMA ConvertKeeps == AInv /\ Convert => AInv'
BY DEF AInv, Convert, Value

LEMMA NextA == AInv /\ [Next]_vars => AInv'
<1>1. AInv /\ UNCHANGED vars => AInv'
  BY DEF AInv, vars, Value
<1>2. QED BY <1>1, ConvertKeeps DEF Next

\* A converted cell is what arrow_value_to_column_value makes of a value of its
\* array (bulk_arrow.rs).
LEMMA ArrowInvariance == Spec => []AInv
BY InitA, NextA, PTL DEF Spec

-----------------------------------------------------------------------------
(* Quotients *)

LEMMA Mono ==
  ASSUME NEW a \in Int, NEW b \in Int, NEW c \in Nat
  PROVE  a * c \in Int /\ (a <= b => a * c <= b * c)
OBVIOUS

LEMMA Div ==
  ASSUME NEW a \in Int, NEW d \in Nat \ {0}
  PROVE  /\ a \div d \in Int /\ a % d \in 0..(d - 1)
         /\ a = (a \div d) * d + (a % d) /\ (a \div d) * d \in Int
<1>1. a \div d \in Int
  OBVIOUS
<1>2. a % d \in 0..(d - 1)
  OBVIOUS
<1>3. a = d * (a \div d) + (a % d)
  OBVIOUS
<1>4. d * (a \div d) = (a \div d) * d /\ (a \div d) * d \in Int
  BY <1>1
<1>5. QED BY <1>1, <1>2, <1>3, <1>4

LEMMA DivIs ==
  ASSUME NEW q \in Int, NEW d \in Nat \ {0}, NEW r \in 0..(d - 1)
  PROVE  (q * d + r) \div d = q /\ (q * d + r) % d = r
OBVIOUS

\* A bound of a number bounds its quotient.
LEMMA DivMono ==
  ASSUME NEW a \in Int, NEW b \in Int, NEW d \in Nat \ {0}, a <= b
  PROVE  a \div d <= b \div d
<1> DEFINE p == a \div d
           q == b \div d
<1>1. /\ p \in Int /\ q \in Int /\ p * d \in Int /\ q * d \in Int
      /\ p * d <= a /\ b < q * d + d
  <2>1. a % d \in 0..(d - 1) /\ a = p * d + (a % d) /\ p \in Int /\ p * d \in Int
    BY Div
  <2>2. b % d \in 0..(d - 1) /\ b = q * d + (b % d) /\ q \in Int /\ q * d \in Int
    BY Div
  <2> HIDE DEF p, q
  <2> DEFINE x == p * d
             y == q * d
             u == a % d
             v == b % d
  <2>3. x \in Int /\ y \in Int /\ u \in 0..(d - 1) /\ v \in 0..(d - 1) /\ a = x + u /\ b = y + v
    BY <2>1, <2>2
  <2> HIDE DEF x, y, u, v
  <2>4. x <= a /\ b < y + d
    BY <2>3
  <2>5. QED BY <2>1, <2>2, <2>4 DEF x, y
<1> HIDE DEF p, q
<1>2. ASSUME q < p PROVE FALSE
  <2>1. (q + 1) * d <= p * d
    BY <1>1, <1>2, Mono
  <2>2. (q + 1) * d = q * d + d
    BY <1>1
  <2>3. QED BY <1>1, <2>1, <2>2
<1>3. QED BY <1>1, <1>2 DEF p, q

LEMMA DivSmall ==
  ASSUME NEW d \in Nat \ {0}, NEW r \in 0..(d - 1)
  PROVE  r \div d = 0 /\ r % d = r
<1>1. r = 0 * d + r
  OBVIOUS
<1>2. QED BY <1>1, DivIs

LEMMA DivDiv ==
  ASSUME NEW a \in Nat, NEW c \in Nat \ {0}, NEW d \in Nat \ {0}
  PROVE  a \div (c * d) = (a \div d) \div c
<1> DEFINE p == a \div d
           q == p \div c
           r == p % c
           t == a % d
<1>1. a = p * d + t /\ p \in Int /\ t \in 0..(d - 1)
  BY Div
<1>2. p = q * c + r /\ q \in Int /\ r \in 0..(c - 1)
  BY <1>1, Div
<1> HIDE DEF p, q, r, t
<1>3. a = q * (c * d) + (r * d + t)
  BY <1>1, <1>2
<1>4. c * d \in Nat \ {0} /\ r * d + t \in 0..(c * d - 1)
  <2>1. (r + 1) * d <= c * d /\ c * d \in Int /\ r * d \in Int
    BY <1>2, Mono
  <2>2. (r + 1) * d = r * d + d
    BY <1>2
  <2>3. 0 * d <= r * d /\ 0 * d = 0
    BY <1>2, Mono
  <2> DEFINE x == r * d
             y == c * d
  <2>4. x \in Int /\ y \in Int /\ x + d <= y /\ 0 <= x
    BY <2>1, <2>2, <2>3
  <2> HIDE DEF x, y
  <2>5. y \in Nat \ {0} /\ x + t \in 0..(y - 1)
    BY <1>1, <2>4
  <2>6. QED BY <2>5 DEF x, y
<1>5. (q * (c * d) + (r * d + t)) \div (c * d) = q
  BY <1>2, <1>4, DivIs
<1>6. QED BY <1>3, <1>5 DEF q, p

\* One digit more.
LEMMA ModStep ==
  ASSUME NEW a \in Nat, NEW m \in Nat \ {0}
  PROVE  a % (10 * m) = 10 * ((a \div 10) % m) + (a % 10)
<1> DEFINE b == a \div 10
           q == b \div m
           t == b % m
           r == a % 10
<1>1. a = b * 10 + r /\ b \in Int /\ r \in 0..9
  BY Div
<1>2. b = q * m + t /\ q \in Int /\ t \in 0..(m - 1)
  BY <1>1, Div
<1> HIDE DEF b, q, t, r
<1>3. a = q * (10 * m) + (10 * t + r)
  BY <1>1, <1>2
<1>4. 10 * m \in Nat \ {0} /\ 10 * t + r \in 0..(10 * m - 1)
  BY <1>1, <1>2
<1>5. (q * (10 * m) + (10 * t + r)) % (10 * m) = 10 * t + r
  BY <1>2, <1>4, DivIs
<1>6. a % (10 * m) = 10 * t + r
  BY <1>3, <1>5, Zenon
<1>7. t = (a \div 10) % m /\ r = a % 10
  BY DEF t, r, b
<1>8. QED BY <1>6, <1>7

-----------------------------------------------------------------------------
(* Days and times *)

LEMMA UnitsPositive ==
  /\ NanosPerDay \in Nat \ {0} /\ LastDay \in Nat
  /\ \A unit \in Units : NanosPer(unit) \in Nat \ {0}
<1>1. /\ HoursPerDay \in Nat \ {0} /\ MinutesPerHour \in Nat \ {0}
      /\ SecondsPerMinute \in Nat \ {0} /\ NanosPerMilli \in Nat \ {0}
      /\ MillisPerSecond \in Nat \ {0} /\ NanosPerMicro \in Nat \ {0} /\ LastDay \in Nat
  BY UnitsAssumption, ArrowAssumption
<1>2. \A a, b \in Nat \ {0} : a * b \in Nat \ {0}
  OBVIOUS
<1>3. NanosPerSecond \in Nat \ {0} /\ HoursPerDay * MinutesPerHour \in Nat \ {0}
  BY <1>1, <1>2 DEF NanosPerSecond
<1>4. SecondsPerDay \in Nat \ {0}
  BY <1>1, <1>2, <1>3 DEF SecondsPerDay
<1>5. NanosPerDay \in Nat \ {0}
  BY <1>2, <1>3, <1>4 DEF NanosPerDay
<1>6. QED BY <1>1, <1>3, <1>5 DEF Units, NanosPer

\* An instant of 64 bits of nanoseconds is on a day that SQL Server has.
LEMMA TimestampIs ==
  ASSUME NEW unit \in Units, NEW amount \in Int,
         amount * NanosPer(unit) \in (-(MaxInt64 + 1))..MaxInt64
  PROVE  LET x == Timestamp(unit, amount)
         IN /\ x.type = "DateTime2"
            /\ x.day \in 0..LastDay /\ x.time \in 0..(NanosPerDay - 1)
            /\ (x.day - EpochDay) * NanosPerDay + x.time = amount * NanosPer(unit)
<1> DEFINE nanos == amount * NanosPer(unit)
           d == NanosPerDay
           q == nanos \div d
           t == nanos % d
           far == MaxInt64 \div d
<1>1. /\ d \in Nat \ {0} /\ NanosPer(unit) \in Nat \ {0} /\ LastDay \in Nat /\ EpochDay \in Int
      /\ MaxInt64 \in Nat /\ far < EpochDay /\ EpochDay + far < LastDay
  BY UnitsPositive, ArrowAssumption
<1>2. nanos \in Int /\ nanos <= MaxInt64 /\ nanos >= -(MaxInt64 + 1)
  BY <1>1
<1>3. SaturatingMul(amount, NanosPer(unit)) = nanos
  BY <1>1, <1>2 DEF SaturatingMul
<1>4. Timestamp(unit, amount) =
        IF q + EpochDay < 0 THEN Error
        ELSE [type |-> "DateTime2", day |-> q + EpochDay, time |-> t]
  BY <1>3 DEF Timestamp
<1> HIDE DEF nanos, d
<1>5. q \in Int /\ t \in 0..(d - 1) /\ nanos = q * d + t
  BY <1>1, <1>2, Div
<1>6. q <= far /\ far \in Int
  <2>1. MaxInt64 \in Int
    BY <1>1
  <2>2. far \in Int
    BY <1>1, <2>1, Div
  <2>3. q <= far
    BY <1>1, <1>2, <2>1, DivMono
  <2>4. QED BY <2>2, <2>3
<1>7. q >= -far - 1
  <2>1. MaxInt64 = far * d + (MaxInt64 % d) /\ MaxInt64 % d \in 0..(d - 1) /\ far * d \in Int
    BY <1>1, Div
  <2> HIDE DEF far
  <2>2. (-far - 1) * d + (d - 1 - (MaxInt64 % d)) = -(MaxInt64 + 1)
    <3> DEFINE r == MaxInt64 % d
               y == far * d
    <3>1. (-far - 1) * d = -y - d
      BY <1>1, <1>6
    <3>2. MaxInt64 = y + r /\ r \in 0..(d - 1) /\ y \in Int
      BY <2>1
    <3> HIDE DEF r, y
    <3>3. (-y - d) + (d - 1 - r) = -(MaxInt64 + 1)
      BY <1>1, <3>2
    <3>4. QED BY <3>1, <3>3 DEF r
  <2>3. d - 1 - (MaxInt64 % d) \in 0..(d - 1) /\ -far - 1 \in Int
    BY <1>1, <1>6, <2>1
  <2>4. (-(MaxInt64 + 1)) \div d = -far - 1
    <3> DEFINE p == -far - 1
               r == d - 1 - (MaxInt64 % d)
    <3>1. p * d + r = -(MaxInt64 + 1) /\ r \in 0..(d - 1) /\ p \in Int
      BY <2>2, <2>3
    <3> HIDE DEF p, r
    <3>2. (p * d + r) \div d = p
      BY <1>1, <3>1, DivIs
    <3>3. QED BY <3>1, <3>2, Zenon DEF p
  <2>5. -(MaxInt64 + 1) \in Int
    BY <1>1
  <2>6. QED BY <1>1, <1>2, <2>4, <2>5, DivMono
<1> HIDE DEF q, t, far
<1>8. q + EpochDay \in 0..LastDay
  BY <1>1, <1>5, <1>6, <1>7
<1>9. ((q + EpochDay) - EpochDay) * d + t = nanos
  <2>1. (q + EpochDay) - EpochDay = q
    BY <1>1, <1>5
  <2>2. QED BY <1>5, <2>1
<1>10. Timestamp(unit, amount) = [type |-> "DateTime2", day |-> q + EpochDay, time |-> t]
  BY <1>4, <1>8
<1>11. QED BY <1>5, <1>8, <1>9, <1>10 DEF nanos, d

LEMMA TimeIs ==
  ASSUME NEW unit \in Units, NEW amount \in Int
  PROVE  LET x == Time(unit, amount)
         IN IF unit \in {"us", "ns"} /\ amount * NanosPer(unit) \in 0..(NanosPerDay - 1)
            THEN x.type = "Time" /\ x.time = amount * NanosPer(unit)
            ELSE x = Error
<1> DEFINE n == NanosPer(unit)
           nanos == amount * n
<1>1. n \in Nat \ {0} /\ NanosPerDay \in Nat /\ nanos \in Int
  BY UnitsPositive
<1>2. nanos >= 0 <=> amount >= 0
  <2> HIDE DEF n
  <2>1. CASE amount >= 0
    BY <1>1, <2>1
  <2>2. CASE amount < 0
    <3>1. amount * n <= (-1) * n
      BY <1>1, <2>2, Mono
    <3>2. QED BY <1>1, <2>2, <3>1
  <2>3. QED BY <2>1, <2>2
<1>3. Time(unit, amount) =
        IF unit \notin {"us", "ns"} \/ amount < 0 \/ nanos >= NanosPerDay THEN Error
        ELSE [type |-> "Time", time |-> nanos]
  BY DEF Time
<1> HIDE DEF n, nanos
<1>4. unit \in {"us", "ns"} /\ nanos \in 0..(NanosPerDay - 1)
        <=> ~(unit \notin {"us", "ns"} \/ amount < 0 \/ nanos >= NanosPerDay)
  BY <1>1, <1>2
<1>5. QED BY <1>3, <1>4 DEF nanos, n

\* An array by its type.
LEMMA ArrayIs ==
  ASSUME AInv, array.cell # NULL
  PROVE  /\ array.type = "Date32" => array.cell \in Amounts
         /\ array.type \in {"Time64", "Timestamp"} => array.cell \in Amounts /\ array.unit \in Units
         /\ array.type = "Decimal128" =>
              /\ array.cell \in Coefficients /\ array.precision \in 1..MaxDigits
              /\ array.scale \in -1..MaxDigits
BY DEF AInv, Arrays, PlainTypes, IntegerTypes

LEMMA ValueIs ==
  /\ array.type \in PlainTypes => Value = Plain(ColumnType(array.type), array.cell)
  /\ array.type = "Date32" => Value = Date(array.cell)
  /\ array.type = "Time64" => Value = Time(array.unit, array.cell)
  /\ array.type = "Timestamp" => Value = Timestamp(array.unit, array.cell)
  /\ array.type = "Decimal128" => Value = Decimal(array.cell, array.precision, array.scale)
BY DEF Value, PlainTypes, IntegerTypes

LEMMA TimesFound == ASSUME AInv PROVE TimesExact
<1> SUFFICES ASSUME Converted PROVE TimesExact
  BY DEF TimesExact
<1>1. out = Value /\ array.cell # NULL
  BY DEF AInv, Converted
<1>2. \A amount \in Amounts : amount \in Int
  BY ArrowAssumption
<1>3. CASE array.type = "Date32"
  <2>1. out = Date(array.cell) /\ array.cell \in Int
    BY <1>1, <1>2, <1>3, ArrayIs, ValueIs
  <2>2. EpochDay \in Int
    BY ArrowAssumption
  <2>3. QED BY <1>3, <2>1, <2>2 DEF TimesExact, Date
<1>4. CASE array.type = "Time64"
  <2>1. out = Time(array.unit, array.cell) /\ array.cell \in Int /\ array.unit \in Units
    BY <1>1, <1>2, <1>4, ArrayIs, ValueIs
  <2>2. QED BY <1>4, <2>1, TimeIs DEF TimesExact
<1>5. CASE array.type = "Timestamp"
  <2>1. out = Timestamp(array.unit, array.cell) /\ array.cell \in Int /\ array.unit \in Units
    BY <1>1, <1>2, <1>5, ArrayIs, ValueIs
  <2>2. Instant \in (-(MaxInt64 + 1))..MaxInt64 => SameInstant
    BY <2>1, TimestampIs DEF Instant, SameInstant
  <2>3. QED BY <1>5, <2>2 DEF TimesExact
<1>6. QED BY <1>3, <1>4, <1>5 DEF TimesExact

\* For all units and all 64-bit integers, a Date32 or Time64 cell is converted to
\* the same day or nanosecond, or to an error just where there is no such day from
\* 0001-01-01 to 9999-12-31 or no such time of day; a Timestamp cell whose
\* nanoseconds fit in 64 bits is converted to the same instant, before 1970 as
\* after it.  Of other timestamps, which saturating_mul clamps, it says nothing
\* (arrow_value_to_column_value in bulk_arrow.rs).
THEOREM TimesAlwaysExact == Spec => []TimesExact
BY TimesFound, ArrowInvariance, PTL

-----------------------------------------------------------------------------
(* Digits *)

LEMMA LeastOf ==
  ASSUME NEW S, S \subseteq Nat, S # {}
  PROVE  \E n \in S : \A m \in S : n <= m
<1>1. PICK n \in S : \A m \in S : ~(<<m, n>> \in OpToRel(<, Nat))
  BY NatLessThanWellFounded, WFMin
<1>2. \A m \in S : ~(m < n)
  BY <1>1 DEF OpToRel
<1>3. \A m \in S : n <= m
  <2>1. \A j, k \in Nat : ~(j < k) => k <= j
    OBVIOUS
  <2>2. QED BY <1>2, <2>1
<1>4. QED BY <1>3

\* Powers of ten grow.
LEMMA Tens ==
  /\ MaxDigits \in Nat
  /\ \A n \in 0..(MaxDigits + 1) : 10^n \in Nat \ {0}
  /\ \A m, n \in 0..(MaxDigits + 1) : m <= n => 10^m <= 10^n
<1>1. MaxDigits \in Nat /\ 10^0 = 1 /\ \A n \in Nat : 10^n \in Int
  BY ArrowAssumption
<1>2. ASSUME NEW n \in 0..(MaxDigits + 1), n # 0
      PROVE  n - 1 \in 0..(MaxDigits + 1) /\ 10^n = 10 * 10^(n - 1)
  <2>1. n - 1 \in 0..MaxDigits /\ (n - 1) + 1 = n
    BY <1>1, <1>2
  <2>2. 10^((n - 1) + 1) = 10 * 10^(n - 1)
    BY <2>1, PowersOfTen
  <2>3. QED BY <1>1, <2>1, <2>2
<1>3. \A n \in 0..(MaxDigits + 1) : 10^n > 0
  <2> DEFINE bad == {n \in 0..(MaxDigits + 1) : ~(10^n > 0)}
  <2>1. SUFFICES ASSUME bad # {} PROVE FALSE
    OBVIOUS
  <2>2. PICK n \in bad : \A m \in bad : n <= m
    <3>1. bad \subseteq Nat
      OBVIOUS
    <3> HIDE DEF bad
    <3>2. QED BY <2>1, <3>1, LeastOf
  <2>3. n # 0 /\ n \in 0..(MaxDigits + 1)
    <3>1. n \in 0..(MaxDigits + 1) /\ ~(10^n > 0)
      BY <2>2
    <3>2. 10^0 > 0
      BY <1>1
    <3>3. QED BY <3>1, <3>2
  <2>4. n - 1 \notin bad /\ n - 1 \in 0..(MaxDigits + 1) /\ 10^n = 10 * 10^(n - 1)
    BY <1>2, <2>2, <2>3
  <2>5. 10^(n - 1) > 0
    BY <2>4
  <2>6. QED BY <1>1, <2>2, <2>4, <2>5
<1>4. ASSUME NEW m \in 0..(MaxDigits + 1)
      PROVE  \A n \in 0..(MaxDigits + 1) : m <= n => 10^m <= 10^n
  <2> DEFINE bad == {n \in 0..(MaxDigits + 1) : m <= n /\ ~(10^m <= 10^n)}
  <2>1. SUFFICES ASSUME bad # {} PROVE FALSE
    OBVIOUS
  <2>2. PICK n \in bad : \A k \in bad : n <= k
    <3>1. bad \subseteq Nat
      OBVIOUS
    <3> HIDE DEF bad
    <3>2. QED BY <2>1, <3>1, LeastOf
  <2>3. n # m /\ n # 0 /\ n \in 0..(MaxDigits + 1)
    BY <1>1, <2>2
  <2>4. n - 1 \notin bad /\ n - 1 \in 0..(MaxDigits + 1) /\ 10^n = 10 * 10^(n - 1) /\ m <= n - 1
    BY <1>2, <2>2, <2>3
  <2>5. 10^m <= 10^(n - 1) /\ 10^(n - 1) > 0
    BY <1>3, <2>4
  <2>6. QED BY <1>1, <2>2, <2>4, <2>5
<1>5. QED BY <1>1, <1>3, <1>4

\* The steps of NumberOf, digit by digit.
Steps(s, g) == g = [k \in 0..Len(s) |-> IF k = 0 THEN 0 ELSE 10 * g[k - 1] + s[k]]

\* They lead to one number only.
LEMMA NumberIs ==
  ASSUME NEW s, Len(s) \in Nat, NEW g, Steps(s, g)
  PROVE  NumberOf(s) = g[Len(s)]
<1> DEFINE f == CHOOSE f : Steps(s, f)
           bad == {k \in 0..Len(s) : f[k] # g[k]}
<1>1. Steps(s, f)
  OBVIOUS
<1>2. NumberOf(s) = f[Len(s)]
  BY DEF NumberOf, Steps
<1> HIDE DEF f
<1>3. ASSUME NEW h, Steps(s, h)
      PROVE  /\ h[0] = 0
             /\ \A k \in 0..Len(s) : k # 0 => h[k] = 10 * h[k - 1] + s[k]
  BY <1>3 DEF Steps
<1>4. bad = {}
  <2>1. SUFFICES ASSUME bad # {} PROVE FALSE
    OBVIOUS
  <2>2. PICK k \in bad : \A j \in bad : k <= j
    <3>1. bad \subseteq Nat
      OBVIOUS
    <3> HIDE DEF bad
    <3>2. QED BY <2>1, <3>1, LeastOf
  <2>3. k # 0 /\ k \in 0..Len(s)
    BY <1>1, <1>3, <2>2
  <2>4. k - 1 \in 0..Len(s) /\ k - 1 \notin bad
    BY <2>2, <2>3
  <2>5. f[k - 1] = g[k - 1]
    BY <2>4
  <2>6. QED BY <1>1, <1>3, <2>2, <2>3, <2>5
<1>5. QED BY <1>2, <1>4

\* The first digits of a number are that number without the others.
LEMMA FirstDigits ==
  ASSUME NEW n \in Nat, NEW s, NEW lo \in Nat, Len(s) \in Nat,
         lo + Len(s) <= MaxDigits + 1, n < 10^(lo + Len(s)),
         \A k \in 1..Len(s) : s[k] = (n \div 10^(lo + Len(s) - k)) % 10
  PROVE  NumberOf(s) = n \div 10^lo
<1> DEFINE len == Len(s)
           G(k) == n \div 10^(lo + len - k)
<1>1. G(0) = 0
  <2>1. lo + len - 0 = lo + len /\ lo + len \in 0..(MaxDigits + 1)
    BY Tens
  <2>2. 10^(lo + len) \in Nat \ {0}
    BY <2>1, Tens
  <2>3. n \div 10^(lo + len) = 0
    BY <2>2, DivSmall
  <2>4. QED BY <2>1, <2>3
<1>2. ASSUME NEW k \in 1..len PROVE G(k) = 10 * G(k - 1) + s[k]
  <2> DEFINE x == lo + len - k
             d == 10^x
             a == n \div d
  <2>1. x \in 0..MaxDigits /\ x \in 0..(MaxDigits + 1) /\ lo + len - (k - 1) = x + 1
    BY Tens
  <2>2. d \in Nat \ {0}
    BY <2>1, Tens
  <2>3. 10^(x + 1) = 10 * d
    BY <2>1, PowersOfTen
  <2>4. G(k - 1) = n \div (10 * d)
    BY <2>1, <2>3
  <2>5. n \div (10 * d) = a \div 10
    <3> HIDE DEF d
    <3>1. 10 \in Nat \ {0}
      OBVIOUS
    <3>2. QED BY <2>2, <3>1, DivDiv
  <2>6. a \in Int
    BY <2>2, Div
  <2>7. s[k] = a % 10
    OBVIOUS
  <2> HIDE DEF a, d, x
  <2>8. a = 10 * (a \div 10) + (a % 10)
    BY <2>6
  <2>9. G(k) = a
    BY DEF a, d, x
  <2> HIDE DEF G
  <2>10. QED BY <2>4, <2>5, <2>7, <2>8, <2>9
<1> HIDE DEF G
<1> DEFINE g == [k \in 0..len |-> G(k)]
<1>3. NumberOf(s) = G(len)
  <2>1. \A k \in 0..len : k # 0 => k \in 1..len /\ k - 1 \in 0..len
    OBVIOUS
  <2>2. \A k \in 0..len : G(k) = IF k = 0 THEN 0 ELSE 10 * g[k - 1] + s[k]
    BY <1>1, <1>2, <2>1
  <2>3. Steps(s, g)
    BY <2>2 DEF Steps
  <2> HIDE DEF g
  <2>4. NumberOf(s) = g[len]
    BY <2>3, NumberIs
  <2>5. QED BY <2>4 DEF g
<1>4. lo + len - len = lo
  OBVIOUS
<1>5. QED BY <1>3, <1>4 DEF G

\* Its last digits are what the others leave.
LEMMA LastDigits ==
  ASSUME NEW n \in Nat, NEW s, Len(s) \in Nat, Len(s) <= MaxDigits + 1,
         \A k \in 1..Len(s) : s[k] = (n \div 10^(Len(s) - k)) % 10
  PROVE  NumberOf(s) = n % 10^Len(s)
<1> DEFINE len == Len(s)
           G(k) == (n \div 10^(len - k)) % 10^k
<1>0. \A x \in 0..len : n \div 10^x \in Nat
  <2>1. ASSUME NEW x \in 0..len PROVE n \div 10^x \in Nat
    <3>1. 10^x \in Nat \ {0}
      BY Tens
    <3>2. 0 \div 10^x = 0 /\ n \div 10^x \in Int
      BY <3>1, DivSmall, Div
    <3>3. 0 \div 10^x <= n \div 10^x
      BY <3>1, DivMono
    <3>4. QED BY <3>2, <3>3
  <2>2. QED BY <2>1
<1>1. G(0) = 0
  <2>1. 10^0 = 1 /\ len - 0 \in 0..len
    OBVIOUS
  <2>2. \A a \in Nat : a % 1 = 0
    OBVIOUS
  <2>3. QED BY <1>0, <2>1, <2>2
<1>2. ASSUME NEW k \in 1..len PROVE G(k) = 10 * G(k - 1) + s[k]
  <2> DEFINE x == len - k
             d == 10^x
             m == 10^(k - 1)
             a == n \div d
  <2>1. /\ x \in 0..len /\ x \in 0..MaxDigits /\ x \in 0..(MaxDigits + 1)
        /\ len - (k - 1) = x + 1 /\ k - 1 \in 0..MaxDigits /\ k - 1 \in 0..(MaxDigits + 1)
        /\ (k - 1) + 1 = k
    BY Tens
  <2>2. d \in Nat \ {0} /\ m \in Nat \ {0}
    BY <2>1, Tens
  <2>3. 10^(x + 1) = 10 * d
    BY <2>1, PowersOfTen
  <2>4. 10^k = 10 * m
    <3>1. 10^((k - 1) + 1) = 10 * 10^(k - 1)
      BY <2>1, PowersOfTen
    <3>2. QED BY <2>1, <3>1
  <2>5. n \div (10 * d) = a \div 10
    <3> HIDE DEF d
    <3>1. 10 \in Nat \ {0}
      OBVIOUS
    <3>2. QED BY <2>2, <3>1, DivDiv
  <2>6. a \in Nat
    BY <1>0, <2>1
  <2>7. a % (10 * m) = 10 * ((a \div 10) % m) + (a % 10)
    BY <2>2, <2>6, ModStep
  <2>8. G(k) = a % (10 * m)
    BY <2>4
  <2>9. G(k - 1) = (a \div 10) % m
    BY <2>1, <2>3, <2>5
  <2>10. s[k] = a % 10
    OBVIOUS
  <2> HIDE DEF a, d, m, x, G
  <2>11. QED BY <2>7, <2>8, <2>9, <2>10
<1> HIDE DEF G
<1> DEFINE g == [k \in 0..len |-> G(k)]
<1>3. NumberOf(s) = G(len)
  <2>1. \A k \in 0..len : k # 0 => k \in 1..len /\ k - 1 \in 0..len
    OBVIOUS
  <2>2. \A k \in 0..len : G(k) = IF k = 0 THEN 0 ELSE 10 * g[k - 1] + s[k]
    BY <1>1, <1>2, <2>1
  <2>3. Steps(s, g)
    BY <2>2 DEF Steps
  <2> HIDE DEF g
  <2>4. NumberOf(s) = g[len]
    BY <2>3, NumberIs
  <2>5. QED BY <2>4 DEF g
<1>4. G(len) = n % 10^len
  <2>1. len - len = 0 /\ 10^0 = 1 /\ n \div 1 = n
    OBVIOUS
  <2>2. QED BY <2>1 DEF G
<1>5. QED BY <1>3, <1>4

-----------------------------------------------------------------------------
(* Decimals *)

LEMMA Width ==
  ASSUME NEW n \in Nat, n < 10^(MaxDigits + 1)
  PROVE  \E w \in 1..(MaxDigits + 1) :
           n < 10^w /\ Digits(n) = [k \in 1..w |-> (n \div 10^(w - k)) % 10]
<1> DEFINE P(w) == (10^(w - 1) <= n /\ n < 10^w) \/ (n = 0 /\ w = 1)
           width == CHOOSE w \in 1..(MaxDigits + 1) : P(w)
           long == {w \in 1..(MaxDigits + 1) : n < 10^w}
<1>1. MaxDigits + 1 \in long /\ long \subseteq Nat
  BY Tens
<1>2. \E w \in 1..(MaxDigits + 1) : P(w)
  <2>1. CASE n = 0
    <3>1. 1 \in 1..(MaxDigits + 1)
      BY Tens
    <3>2. QED BY <2>1, <3>1
  <2>2. CASE n # 0
    <3>1. PICK w \in long : \A v \in long : w <= v
      <4> HIDE DEF long
      <4>1. QED BY <1>1, LeastOf
    <3>2. w \in 1..(MaxDigits + 1) /\ n < 10^w
      BY <3>1
    <3>3. w - 1 \notin long
      BY <3>1, <3>2
    <3>4. CASE w = 1
      <4>1. 10^(w - 1) = 1
        BY <3>4
      <4>2. QED BY <2>2, <3>2, <4>1
    <3>5. CASE w # 1
      <4>1. w - 1 \in 1..(MaxDigits + 1) /\ w - 1 \in 0..(MaxDigits + 1)
        BY <3>2, <3>5, Tens
      <4>2. 10^(w - 1) \in Nat /\ ~(n < 10^(w - 1))
        BY <3>3, <4>1, Tens
      <4>3. 10^(w - 1) <= n
        BY <4>2
      <4>4. QED BY <3>2, <4>3
    <3>6. QED BY <3>4, <3>5
  <2>3. QED BY <2>1, <2>2
<1>3. width \in 1..(MaxDigits + 1) /\ P(width)
  <2> HIDE DEF P
  <2>1. QED BY <1>2
<1>4. Digits(n) = [k \in 1..width |-> (n \div 10^(width - k)) % 10]
  BY DEF Digits
<1> HIDE DEF width
<1>5. n < 10^width
  <2>1. width \in 0..(MaxDigits + 1)
    BY <1>3
  <2>2. 10^width \in Nat \ {0}
    BY <2>1, Tens
  <2>3. QED BY <1>3, <2>2
<1>6. QED BY <1>3, <1>4, <1>5

\* The string has the sign, the places and the number of the cell.
LEMMA Formatted ==
  ASSUME NEW raw \in Coefficients, NEW scale \in 0..MaxDigits
  PROVE  LET n == IF raw < 0 THEN -raw ELSE raw
             string == FormatDecimal128(raw, scale)
         IN /\ n \in Nat /\ string.negative = (raw < 0)
            /\ Len(string.fraction) = scale
            /\ NumberOf(string.integer) = n \div 10^scale
            /\ NumberOf(string.fraction) = n % 10^scale
<1> DEFINE n == IF raw < 0 THEN -raw ELSE raw
           string == FormatDecimal128(raw, scale)
           digits == Digits(n)
           split == Len(digits) - scale
<1>1. n \in Nat /\ n < 10^(MaxDigits + 1)
  BY ArrowAssumption
<1>2. PICK w \in 1..(MaxDigits + 1) :
        n < 10^w /\ digits = [k \in 1..w |-> (n \div 10^(w - k)) % 10]
  <2> HIDE DEF n
  <2>1. QED BY <1>1, Width
<1>3. string =
        [negative |-> raw < 0,
         integer  |-> IF split > 0 THEN SubSeq(digits, 1, split) ELSE <<0>>,
         fraction |-> IF split > 0 THEN SubSeq(digits, split + 1, Len(digits))
                      ELSE Zeros(-split) \o digits]
  BY DEF FormatDecimal128
<1> HIDE DEF n, string, digits
<1>4. \A k \in 0..(MaxDigits + 1) : n \div 10^k \in Int /\ (n \div 10^k) % 10 \in Int
  <2>1. ASSUME NEW k \in 0..(MaxDigits + 1)
        PROVE  n \div 10^k \in Int /\ (n \div 10^k) % 10 \in Int
    <3>1. 10^k \in Nat \ {0}
      BY Tens
    <3>2. n \div 10^k \in Int
      BY <1>1, <3>1, Div
    <3>3. \A a \in Int : a % 10 \in Int
      OBVIOUS
    <3>4. QED BY <3>2, <3>3
  <2>2. QED BY <2>1
<1>5. /\ digits \in Seq(Int) /\ Len(digits) = w
      /\ \A k \in 1..w : digits[k] = (n \div 10^(w - k)) % 10 /\ digits[k] \in Int
  <2>1. \A k \in 1..w : (n \div 10^(w - k)) % 10 \in Int
    <3>1. \A k \in 1..w : w - k \in 0..(MaxDigits + 1)
      BY Tens
    <3>2. QED BY <1>4, <3>1
  <2>2. \A k \in 1..w : digits[k] = (n \div 10^(w - k)) % 10
    BY <1>2
  <2>3. digits \in [1..w -> Int]
    BY <1>2, <2>1
  <2>4. w \in Nat
    OBVIOUS
  <2>5. digits \in Seq(Int) /\ Len(digits) = w
    BY <2>3, <2>4
  <2>6. QED BY <2>1, <2>2, <2>5
<1>6. split = w - scale /\ split \in Int /\ MaxDigits \in Nat /\ scale \in Nat
  BY <1>5, Tens
<1>7. CASE split > 0
  <2> DEFINE whole == SubSeq(digits, 1, split)
             rest == SubSeq(digits, split + 1, Len(digits))
  <2>1. string.integer = whole /\ string.fraction = rest /\ string.negative = (raw < 0)
    BY <1>3, <1>7
  <2> HIDE DEF split
  <2>2. /\ Len(whole) = split
        /\ \A k \in 1..split : whole[k] = digits[k]
    <3>1. 1 \in Int /\ \A i \in 1..split : digits[i] \in Int
      BY <1>5, <1>6
    <3>2. /\ Len(whole) = IF 1 <= split THEN split - 1 + 1 ELSE 0
          /\ \A i \in 1..(split - 1 + 1) : whole[i] = digits[1 + i - 1]
      BY <1>6, <3>1, SubSeqProperties
    <3>3. split - 1 + 1 = split /\ 1 <= split /\ \A i \in 1..split : 1 + i - 1 = i
      BY <1>6, <1>7
    <3>4. QED BY <3>2, <3>3
  <2>3. /\ Len(rest) = scale
        /\ \A k \in 1..scale : rest[k] = digits[split + k]
    <3>1. split + 1 \in Int /\ Len(digits) \in Int /\ \A i \in (split + 1)..Len(digits) : digits[i] \in Int
      BY <1>5, <1>6, <1>7
    <3>2. /\ Len(rest) = IF split + 1 <= Len(digits) THEN Len(digits) - (split + 1) + 1 ELSE 0
          /\ \A i \in 1..(Len(digits) - (split + 1) + 1) : rest[i] = digits[(split + 1) + i - 1]
      BY <3>1, SubSeqProperties
    <3>3. /\ Len(digits) - (split + 1) + 1 = scale
          /\ split + 1 <= Len(digits) <=> scale # 0
          /\ \A i \in 1..scale : (split + 1) + i - 1 = split + i
      BY <1>5, <1>6
    <3>4. QED BY <3>2, <3>3
  <2> HIDE DEF whole, rest
  <2>4. NumberOf(whole) = n \div 10^scale
    <3>1. scale + Len(whole) = w /\ w <= MaxDigits + 1 /\ Len(whole) \in Nat
      BY <1>6, <1>7, <2>2
    <3>2. \A k \in 1..Len(whole) : whole[k] = (n \div 10^(scale + Len(whole) - k)) % 10
      <4>1. ASSUME NEW k \in 1..split
            PROVE  whole[k] = (n \div 10^(scale + Len(whole) - k)) % 10
        <5>1. k \in 1..w
          BY <1>6
        <5>2. scale + Len(whole) - k = w - k
          BY <3>1
        <5>3. whole[k] = (n \div 10^(w - k)) % 10
          BY <1>5, <2>2, <5>1
        <5>4. QED BY <5>2, <5>3
      <4>2. QED BY <2>2, <4>1
    <3>3. n < 10^(scale + Len(whole)) /\ scale + Len(whole) <= MaxDigits + 1
      BY <1>2, <3>1
    <3>4. QED BY <1>1, <1>6, <3>1, <3>2, <3>3, FirstDigits
  <2>5. NumberOf(rest) = n % 10^scale
    <3>1. \A k \in 1..scale : split + k \in 1..w /\ w - (split + k) = scale - k
      BY <1>6, <1>7
    <3>2. \A k \in 1..scale : rest[k] = (n \div 10^(scale - k)) % 10
      BY <1>5, <2>3, <3>1
    <3>3. Len(rest) \in Nat /\ Len(rest) <= MaxDigits + 1
      BY <1>6, <2>3
    <3>4. \A k \in 1..Len(rest) : rest[k] = (n \div 10^(Len(rest) - k)) % 10
      BY <2>3, <3>2
    <3>5. NumberOf(rest) = n % 10^Len(rest)
      BY <1>1, <3>3, <3>4, LastDigits
    <3>6. QED BY <2>3, <3>5
  <2>6. QED BY <1>1, <2>1, <2>3, <2>4, <2>5 DEF n, string
<1>8. CASE ~(split > 0)
  <2> DEFINE rest == Zeros(-split) \o digits
             zeros == Zeros(-split)
  <2>1. string.integer = <<0>> /\ string.fraction = rest /\ string.negative = (raw < 0)
    BY <1>3, <1>8
  <2> HIDE DEF split
  <2>2. -split \in Nat /\ -split = scale - w /\ w <= scale
    BY <1>6, <1>8
  <2>3. zeros \in Seq(Int) /\ Len(zeros) = -split /\ \A k \in 1..(-split) : zeros[k] = 0
    BY <2>2 DEF Zeros
  <2> HIDE DEF zeros
  <2>4. /\ Len(rest) = scale
        /\ \A k \in 1..scale : rest[k] = IF k <= -split THEN 0 ELSE digits[k + split]
    <3>1. /\ Len(zeros \o digits) = Len(zeros) + Len(digits)
          /\ \A i \in 1..(Len(zeros) + Len(digits)) :
               (zeros \o digits)[i] = IF i <= Len(zeros) THEN zeros[i] ELSE digits[i - Len(zeros)]
      BY <1>5, <2>3, ConcatProperties
    <3>2. Len(zeros) + Len(digits) = scale
      BY <1>5, <1>6, <2>2, <2>3
    <3>3. \A i \in 1..scale : (i <= -split => i \in 1..(-split)) /\ i - (-split) = i + split
      BY <1>6, <2>2
    <3>4. rest = zeros \o digits
      BY DEF zeros
    <3>5. QED BY <2>3, <3>1, <3>2, <3>3, <3>4
  <2> HIDE DEF rest
  <2>5. n < 10^scale /\ 10^scale \in Nat \ {0}
    <3>1. w \in 0..(MaxDigits + 1) /\ scale \in 0..(MaxDigits + 1)
      BY <1>6
    <3>2. 10^w <= 10^scale /\ 10^w \in Nat /\ 10^scale \in Nat \ {0}
      BY <2>2, <3>1, Tens
    <3>3. QED BY <1>1, <1>2, <3>2
  <2>6. n \div 10^scale = 0
    BY <1>1, <2>5, DivSmall
  <2>7. NumberOf(<<0>>) = 0
    <3> DEFINE s == <<0>>
               g == [k \in 0..Len(s) |-> 0]
    <3>1. Len(s) = 1 /\ s[1] = 0
      OBVIOUS
    <3> HIDE DEF s
    <3>2. \A k \in 0..Len(s) : k # 0 => k = 1 /\ k - 1 \in 0..Len(s)
      BY <3>1
    <3>3. \A k \in 0..Len(s) : 0 = IF k = 0 THEN 0 ELSE 10 * g[k - 1] + s[k]
      BY <3>1, <3>2
    <3>4. Steps(s, g)
      BY <3>3 DEF Steps
    <3>5. Len(s) \in Nat /\ g[Len(s)] = 0
      BY <3>1
    <3> HIDE DEF g
    <3>6. NumberOf(s) = 0
      BY <3>4, <3>5, NumberIs
    <3>7. QED BY <3>6 DEF s
  <2>8. NumberOf(rest) = n % 10^scale
    <3>1. ASSUME NEW k \in 1..scale
          PROVE  rest[k] = (n \div 10^(scale - k)) % 10
      <4>1. CASE k <= -split
        <5>1. /\ w \in 0..(MaxDigits + 1) /\ scale - k \in 0..(MaxDigits + 1) /\ w <= scale - k
          BY <1>6, <2>2, <4>1
        <5>2. 10^w <= 10^(scale - k) /\ 10^w \in Nat /\ 10^(scale - k) \in Nat \ {0}
          BY <5>1, Tens
        <5>3. n \in 0..(10^(scale - k) - 1)
          BY <1>1, <1>2, <5>2
        <5>4. n \div 10^(scale - k) = 0 /\ 0 % 10 = 0
          BY <5>2, <5>3, DivSmall
        <5>5. QED BY <2>4, <4>1, <5>4
      <4>2. CASE ~(k <= -split)
        <5>1. k + split \in 1..w /\ w - (k + split) = scale - k
          BY <1>6, <2>2, <4>2
        <5>2. QED BY <1>5, <2>4, <4>2, <5>1
      <4>3. QED BY <4>1, <4>2
    <3>2. Len(rest) \in Nat /\ Len(rest) <= MaxDigits + 1
      BY <1>6, <2>4
    <3>3. \A k \in 1..Len(rest) : rest[k] = (n \div 10^(Len(rest) - k)) % 10
      BY <2>4, <3>1
    <3>4. NumberOf(rest) = n % 10^Len(rest)
      BY <1>1, <3>2, <3>3, LastDigits
    <3>5. QED BY <2>4, <3>4
  <2>9. QED BY <1>1, <2>1, <2>4, <2>6, <2>7, <2>8 DEF n, string
<1>9. QED BY <1>7, <1>8

-----------------------------------------------------------------------------
(* Numbers *)

LEMMA DecimalIs ==
  ASSUME NEW raw \in Coefficients, NEW precision \in 1..MaxDigits, NEW scale \in -1..MaxDigits
  PROVE  LET magnitude == IF raw < 0 THEN -raw ELSE raw
             x == Decimal(raw, precision, scale)
         IN IF scale \notin 0..precision \/ magnitude >= 10^precision
            THEN x = Error
            ELSE /\ x.type = "Decimal" /\ x.magnitude = magnitude
                 /\ x.places = scale /\ x.negative = (raw < 0)
<1> DEFINE n == IF raw < 0 THEN -raw ELSE raw
           string == FormatDecimal128(raw, scale)
           magnitude == NumberOf(string.integer) * 10^scale + NumberOf(string.fraction)
<1>1. MaxDigits \in Nat /\ scale \in Int /\ precision \in Nat
  BY Tens
<1>2. CASE scale < 0
  <2>1. Decimal(raw, precision, scale) = Error
    BY <1>2 DEF Decimal
  <2>2. scale \notin 0..precision
    BY <1>1, <1>2
  <2>3. QED BY <2>1, <2>2
<1>3. CASE ~(scale < 0)
  <2>1. scale \in 0..MaxDigits
    BY <1>1, <1>3
  <2>2. /\ n \in Nat /\ string.negative = (raw < 0)
        /\ Len(string.fraction) = scale
        /\ NumberOf(string.integer) = n \div 10^scale
        /\ NumberOf(string.fraction) = n % 10^scale
    BY <2>1, Formatted
  <2>3. Decimal(raw, precision, scale) =
          IF scale > precision \/ magnitude >= 10^precision THEN Error
          ELSE [type |-> "Decimal", negative |-> string.negative, magnitude |-> magnitude,
                places |-> Len(string.fraction), precision |-> precision, scale |-> scale]
    BY <1>3 DEF Decimal, FromString
  <2>4. magnitude = n
    <3>1. scale \in 0..(MaxDigits + 1)
      BY <1>1, <2>1
    <3>2. 10^scale \in Nat \ {0}
      BY <3>1, Tens
    <3>3. n \in Int
      BY <2>2
    <3> HIDE DEF n, string
    <3>4. n = (n \div 10^scale) * 10^scale + (n % 10^scale)
      BY <3>2, <3>3, Div
    <3>5. QED BY <2>2, <3>4
  <2>5. scale \notin 0..precision <=> scale > precision
    BY <1>1, <2>1
  <2> HIDE DEF n, string, magnitude
  <2>6. IF scale \notin 0..precision \/ n >= 10^precision
        THEN Decimal(raw, precision, scale) = Error
        ELSE /\ Decimal(raw, precision, scale).type = "Decimal"
             /\ Decimal(raw, precision, scale).magnitude = n
             /\ Decimal(raw, precision, scale).places = scale
             /\ Decimal(raw, precision, scale).negative = (raw < 0)
    BY <2>2, <2>3, <2>4, <2>5
  <2>7. QED BY <2>6 DEF n
<1>4. QED BY <1>2, <1>3

\* The SQL integer types hold the Arrow ones they are chosen for.
LEMMA WideEnough ==
  ASSUME NEW type \in IntegerTypes
  PROVE  LET chosen == ColumnType(type)
         IN /\ type \in Unsigned /\ chosen \notin Unsigned => Bits[type] < Bits[chosen]
            /\ ~(type \notin Unsigned /\ chosen \in Unsigned)
            /\ Bits[type] <= Bits[chosen]
<1>1. CASE type = "Boolean" BY <1>1 DEF ColumnType, Bits, Unsigned
<1>2. CASE type = "Int8" BY <1>2 DEF ColumnType, Bits, Unsigned
<1>3. CASE type = "Int16" BY <1>3 DEF ColumnType, Bits, Unsigned
<1>4. CASE type = "Int32" BY <1>4 DEF ColumnType, Bits, Unsigned
<1>5. CASE type = "Int64" BY <1>5 DEF ColumnType, Bits, Unsigned
<1>6. CASE type = "UInt8" BY <1>6 DEF ColumnType, Bits, Unsigned
<1>7. CASE type = "UInt16" BY <1>7 DEF ColumnType, Bits, Unsigned
<1>8. CASE type = "UInt32" BY <1>8 DEF ColumnType, Bits, Unsigned
<1>9. QED
  BY <1>1, <1>2, <1>3, <1>4, <1>5, <1>6, <1>7, <1>8 DEF IntegerTypes

LEMMA NumbersFound == ASSUME AInv PROVE NumbersExact
<1> SUFFICES ASSUME Converted PROVE NumbersExact
  BY DEF NumbersExact
<1>1. out = Value /\ array.cell # NULL
  BY DEF AInv, Converted
<1>2. CASE array.type \in IntegerTypes
  <2>1. array.type \in PlainTypes /\ array.type # "Decimal128"
    BY <1>2 DEF PlainTypes, IntegerTypes
  <2>2. out.type = ColumnType(array.type)
    BY <1>1, <2>1, ValueIs DEF Plain
  <2>3. /\ array.type \in Unsigned /\ out.type \notin Unsigned => Bits[array.type] < Bits[out.type]
        /\ ~(array.type \notin Unsigned /\ out.type \in Unsigned)
        /\ Bits[array.type] <= Bits[out.type]
    BY <1>2, <2>2, WideEnough
  <2>4. QED BY <2>1, <2>3 DEF NumbersExact
<1>3. CASE array.type = "Decimal128"
  <2>1. array.type \notin IntegerTypes
    BY <1>3 DEF IntegerTypes
  <2>2. /\ out = Decimal(array.cell, array.precision, array.scale)
        /\ array.cell \in Coefficients /\ array.precision \in 1..MaxDigits
        /\ array.scale \in -1..MaxDigits
    BY <1>1, <1>3, ArrayIs, ValueIs
  <2>3. LET magnitude == IF array.cell < 0 THEN -array.cell ELSE array.cell
        IN IF array.scale \notin 0..array.precision \/ magnitude >= 10^array.precision
           THEN out = Error
           ELSE /\ out.type = "Decimal" /\ out.magnitude = magnitude
                /\ out.places = array.scale /\ out.negative = (array.cell < 0)
    BY <2>2, DecimalIs
  <2>4. QED BY <2>1, <2>3 DEF NumbersExact
<1>4. QED BY <1>2, <1>3 DEF NumbersExact

\* A cell of an integer array gets a SQL type that holds it with its sign, and a
\* Decimal128 cell keeps every digit, its places and its sign, or is an error just
\* when scale or precision do not allow it, for all coefficients of an i128
\* (arrow_value_to_column_value, format_decimal128 in bulk_arrow.rs).
THEOREM NumbersAlwaysExact == Spec => []NumbersExact
BY NumbersFound, ArrowInvariance, PTL

=============================================================================
