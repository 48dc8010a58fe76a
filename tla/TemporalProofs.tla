--------------------------- MODULE TemporalProofs ---------------------------
(***************************************************************************)
(* Proofs about Temporal for every proportion of the units, the real ones  *)
(* among them, and for all values: what a value loses on its way to SQL    *)
(* Server and back, what is rejected, and that later datetime cells read   *)
(* as later times.                                                         *)
(***************************************************************************)
EXTENDS TemporalInv, TLAPS

-----------------------------------------------------------------------------
(* Quotients *)

LEMMA Mono ==
  ASSUME NEW a \in Int, NEW b \in Int, NEW c \in Nat
  PROVE  /\ a * c \in Int
         /\ a <= b => a * c <= b * c
         /\ a < b /\ c > 0 => a * c < b * c
OBVIOUS

LEMMA Ring ==
  ASSUME NEW a \in Int, NEW b \in Int, NEW c \in Int
  PROVE  /\ a * b \in Int /\ a * b = b * a /\ (a * b) * c = a * (b * c)
         /\ (a + b) * c = a * c + b * c /\ (a - b) * c = a * c - b * c
OBVIOUS

LEMMA Euclid ==
  ASSUME NEW a \in Int, NEW d \in Int, d > 0
  PROVE  a = d * (a \div d) + (a % d)
OBVIOUS

LEMMA Div ==
  ASSUME NEW a \in Int, NEW d \in Nat \ {0}
  PROVE  /\ a \div d \in Int /\ a % d \in 0..(d - 1) /\ a = (a \div d) * d + (a % d)
         /\ a \in Nat => a \div d \in Nat
<1>1. a \div d \in Int /\ a % d \in 0..(d - 1)
  <2>1. a \div d \in Int
    OBVIOUS
  <2>2. a % d \in 0..(d - 1)
    OBVIOUS
  <2>3. QED BY <2>1, <2>2
<1>2. a = d * (a \div d) + (a % d)
  BY Euclid
<1>3. d * (a \div d) = (a \div d) * d
  BY <1>1, Ring
<1>4. ASSUME a \in Nat, a \div d < 0 PROVE FALSE
  <2>1. a \div d <= -1
    BY <1>1, <1>4
  <2>2. (a \div d) * d <= -d
    BY <1>1, <2>1, Mono
  <2>3. QED BY <1>1, <1>2, <1>3, <1>4, <2>2
<1>5. QED BY <1>1, <1>2, <1>3, <1>4

LEMMA DivIs ==
  ASSUME NEW q \in Int, NEW d \in Nat \ {0}, NEW r \in 0..(d - 1)
  PROVE  (q * d + r) \div d = q /\ (q * d + r) % d = r
OBVIOUS

\* The quotient is the whole part.
LEMMA DivBelow ==
  ASSUME NEW a \in Int, NEW b \in Int, NEW d \in Nat \ {0}
  PROVE  a \div d < b <=> a < b * d
<1> DEFINE q == a \div d
           r == a % d
<1>1. q \in Int /\ r \in 0..(d - 1) /\ a = q * d + r
  BY Div
<1> HIDE DEF q, r
<1>2. ASSUME q < b PROVE a < b * d
  <2>1. (q + 1) * d <= b * d /\ (q + 1) * d = q * d + 1 * d
    BY <1>1, <1>2, Mono, Ring
  <2>2. q * d \in Int /\ b * d \in Int
    BY <1>1, Ring
  <2>3. QED BY <1>1, <2>1, <2>2
<1>3. ASSUME b <= q PROVE b * d <= a
  <2>1. b * d <= q * d /\ q * d \in Int /\ b * d \in Int
    BY <1>1, <1>3, Mono
  <2>2. QED BY <1>1, <2>1
<1>4. b * d \in Int
  BY Ring
<1>5. QED BY <1>1, <1>2, <1>3, <1>4 DEF q

\* Dividing twice.
LEMMA DivDiv ==
  ASSUME NEW a \in Int, NEW c \in Nat \ {0}, NEW d \in Nat \ {0}
  PROVE  a \div (c * d) = (a \div d) \div c
<1> DEFINE q == a \div d
           r == a % d
           p == q \div c
           s == q % c
<1>1. q \in Int /\ r \in 0..(d - 1) /\ a = q * d + r
  BY Div
<1> HIDE DEF q, r
<1>2. p \in Int /\ s \in 0..(c - 1) /\ q = p * c + s
  BY <1>1, Div
<1> HIDE DEF p, s
<1>3. q * d = p * (c * d) + s * d /\ c * d \in Int /\ p * (c * d) \in Int /\ s * d \in Int
  <2>1. q * d = (p * c) * d + s * d
    BY <1>2, Ring
  <2>2. (p * c) * d = p * (c * d)
    BY <1>2, Ring
  <2>3. QED BY <1>2, <2>1, <2>2, Ring
<1>4. s * d + r \in 0..(c * d - 1) /\ c * d \in Nat \ {0}
  <2>1. s * d <= (c - 1) * d /\ (c - 1) * d = c * d - 1 * d /\ 0 * d <= s * d
    BY <1>2, Mono, Ring
  <2>2. 1 * d <= c * d
    BY Mono
  <2>3. QED BY <1>1, <1>3, <2>1, <2>2
<1>5. a = p * (c * d) + (s * d + r)
  BY <1>1, <1>3
<1>6. a \div (c * d) = p
  BY <1>2, <1>4, <1>5, DivIs
<1>7. QED BY <1>6 DEF p, q

-----------------------------------------------------------------------------
(* Times of day *)

LEMMA Units ==
  /\ HoursPerDay \in Nat \ {0} /\ MinutesPerHour \in Nat \ {0} /\ SecondsPerMinute \in Nat \ {0}
  /\ NanosPerTick \in Nat \ {0} /\ NanosPerMilli \in Nat \ {0} /\ MillisPerSecond \in Nat \ {0}
  /\ NanosPerSecond \in Nat \ {0} /\ SecondsPerDay \in Nat \ {0} /\ NanosPerDay \in Nat \ {0}
  /\ MinutesPerHour * SecondsPerMinute \in Nat \ {0}
  /\ SecondsPerDay = HoursPerDay * (MinutesPerHour * SecondsPerMinute)
  /\ TicksPerDay \in Nat /\ NanosPerDay = TicksPerDay * NanosPerTick
<1>1. /\ HoursPerDay \in Nat \ {0} /\ MinutesPerHour \in Nat \ {0} /\ SecondsPerMinute \in Nat \ {0}
      /\ NanosPerTick \in Nat \ {0} /\ NanosPerMilli \in Nat \ {0} /\ MillisPerSecond \in Nat \ {0}
      /\ NanosPerMilli % NanosPerTick = 0
  BY UnitsAssumption
<1>2. ASSUME NEW a \in Nat \ {0}, NEW b \in Nat \ {0} PROVE a * b \in Nat \ {0}
  <2>1. 1 * b <= a * b /\ a * b \in Int
    BY Mono
  <2>2. QED BY <2>1
<1>3. MinutesPerHour * SecondsPerMinute \in Nat \ {0} /\ NanosPerSecond \in Nat \ {0}
  BY <1>1, <1>2 DEF NanosPerSecond
<1>4. SecondsPerDay = HoursPerDay * (MinutesPerHour * SecondsPerMinute)
  BY <1>1, Ring DEF SecondsPerDay
<1>5. SecondsPerDay \in Nat \ {0} /\ NanosPerDay \in Nat \ {0}
  BY <1>1, <1>2, <1>3, <1>4 DEF NanosPerDay
<1>6. NanosPerDay = TicksPerDay * NanosPerTick /\ TicksPerDay \in Nat
  <2> DEFINE p == NanosPerMilli \div NanosPerTick
             k == SecondsPerDay * (p * MillisPerSecond)
  <2>1. p \in Int /\ NanosPerMilli = p * NanosPerTick
    BY <1>1, Div
  <2> HIDE DEF p
  <2>2. p * MillisPerSecond \in Int /\ k \in Int
    BY <1>1, <1>5, <2>1, Ring
  <2>3. NanosPerSecond = (p * MillisPerSecond) * NanosPerTick
    <3>1. NanosPerSecond = (p * NanosPerTick) * MillisPerSecond
      BY <2>1 DEF NanosPerSecond
    <3>2. (p * NanosPerTick) * MillisPerSecond = p * (NanosPerTick * MillisPerSecond)
      BY <1>1, <2>1, Ring
    <3>3. (p * MillisPerSecond) * NanosPerTick = p * (MillisPerSecond * NanosPerTick)
      BY <1>1, <2>1, Ring
    <3>4. NanosPerTick * MillisPerSecond = MillisPerSecond * NanosPerTick
      BY <1>1, Ring
    <3>5. QED BY <3>1, <3>2, <3>3, <3>4
  <2>4. NanosPerDay = k * NanosPerTick
    BY <1>1, <1>5, <2>2, <2>3, Ring DEF NanosPerDay
  <2> HIDE DEF k
  <2>5. k * NanosPerTick + 0 = k * NanosPerTick
    BY <1>1, <2>2, Ring
  <2>6. TicksPerDay = k
    BY <1>1, <2>2, <2>4, <2>5, DivIs DEF TicksPerDay
  <2>7. TicksPerDay \in Nat
    BY <1>1, <1>5, Div DEF TicksPerDay
  <2>8. QED BY <2>4, <2>6, <2>7
<1>7. QED BY <1>1, <1>3, <1>4, <1>5, <1>6

\* A time of day comes back from its seconds and nanoseconds.
LEMMA SecondsBack ==
  ASSUME NEW seconds \in Nat, NEW nano \in Nat, seconds < SecondsPerDay
  PROVE  /\ TimeOfSeconds(seconds, nano) \in TimeOfDay /\ TimeOfSeconds(seconds, nano) # NULL
         /\ SinceMidnight(TimeOfSeconds(seconds, nano)) = seconds * NanosPerSecond + nano
<1> DEFINE M == MinutesPerHour
           S == SecondsPerMinute
           t == TimeOfSeconds(seconds, nano)
<1>1. M \in Nat \ {0} /\ S \in Nat \ {0} /\ NanosPerSecond \in Nat \ {0} /\ M * S \in Nat \ {0}
  BY Units
<1>2. t = [hour |-> seconds \div (M * S), minute |-> (seconds \div S) % M,
           second |-> seconds % S, nano |-> nano]
  <2>1. SecondsPerDay \in Nat
    BY Units
  <2>2. ~(seconds >= SecondsPerDay)
    BY <2>1
  <2>3. QED BY <2>2 DEF TimeOfSeconds
<1> HIDE DEF t, M, S
<1>3. /\ seconds \div S \in Int /\ seconds % S \in Int
      /\ (seconds \div S) * S + (seconds % S) = seconds
  BY <1>1, Div
<1>4. /\ (seconds \div S) \div M \in Int /\ (seconds \div S) % M \in Int
      /\ ((seconds \div S) \div M) * M + ((seconds \div S) % M) = seconds \div S
  BY <1>1, <1>3, Div
<1>5. seconds \div (M * S) = (seconds \div S) \div M
  <2>1. seconds \in Int
    OBVIOUS
  <2>2. QED BY <1>1, <2>1, DivDiv
<1>6. (t.hour * M + t.minute) * S + t.second = seconds
  <2>1. /\ t.hour = (seconds \div S) \div M /\ t.minute = (seconds \div S) % M
        /\ t.second = seconds % S
    BY <1>2, <1>5
  <2>2. t.hour * M + t.minute = seconds \div S
    BY <1>4, <2>1
  <2>3. (t.hour * M + t.minute) * S + t.second = (seconds \div S) * S + (seconds % S)
    BY <2>1, <2>2
  <2>4. QED BY <1>3, <2>3
<1>7. SinceMidnight(t) = seconds * NanosPerSecond + nano
  <2>1. t.nano = nano
    BY <1>2
  <2>2. QED BY <1>6, <2>1 DEF SinceMidnight, M, S
<1>8. t \in TimeOfDay
  BY <1>2, <1>3, <1>4, <1>5 DEF TimeOfDay
<1>9. t # NULL
  BY <1>8, NoTimeAssumption
<1>10. QED BY <1>7, <1>8, <1>9 DEF t

\* Ticks of a day come back as a time that holds them.
LEMMA TicksBack ==
  ASSUME NEW ticks \in Nat, ticks < TicksPerDay
  PROVE  /\ TimeOfTicks(ticks) \in TimeOfDay /\ TimeOfTicks(ticks) # NULL
         /\ SinceMidnight(TimeOfTicks(ticks)) = ticks * NanosPerTick
<1> DEFINE nanos == ticks * NanosPerTick
<1>1. NanosPerTick \in Nat \ {0} /\ NanosPerSecond \in Nat \ {0} /\ SecondsPerDay \in Nat
  BY Units
<1>2. nanos \in Nat /\ nanos < NanosPerDay
  <2>1. 0 * NanosPerTick <= nanos /\ nanos \in Int /\ nanos < TicksPerDay * NanosPerTick
    BY <1>1, Units, Mono
  <2>2. QED BY <2>1, Units
<1>3. TimeOfTicks(ticks) = TimeOfSeconds(nanos \div NanosPerSecond, nanos % NanosPerSecond)
  BY DEF TimeOfTicks
<1> HIDE DEF nanos
<1>4. /\ nanos \div NanosPerSecond \in Nat /\ nanos % NanosPerSecond \in Nat
      /\ nanos = (nanos \div NanosPerSecond) * NanosPerSecond + (nanos % NanosPerSecond)
  <2>1. nanos \in Int
    BY <1>2
  <2>2. nanos % NanosPerSecond \in 0..(NanosPerSecond - 1)
    BY <1>1, <2>1, Div
  <2>3. nanos % NanosPerSecond \in Nat
    BY <1>1, <2>2
  <2>4. QED BY <1>1, <1>2, <2>1, <2>3, Div
<1>5. nanos \div NanosPerSecond < SecondsPerDay
  BY <1>1, <1>2, DivBelow DEF NanosPerDay
<1> DEFINE seconds == nanos \div NanosPerSecond
           rest == nanos % NanosPerSecond
<1>6. seconds \in Nat /\ rest \in Nat /\ seconds < SecondsPerDay
  BY <1>4, <1>5
<1>7. TimeOfTicks(ticks) = TimeOfSeconds(seconds, rest) /\ nanos = seconds * NanosPerSecond + rest
  BY <1>3, <1>4
<1> HIDE DEF seconds, rest
<1>8. QED BY <1>6, <1>7, SecondsBack DEF nanos

\* A time of day without a leap second is within the day.
LEMMA InDay ==
  ASSUME NEW h \in 0..(HoursPerDay - 1), NEW m \in 0..(MinutesPerHour - 1),
         NEW s \in 0..(SecondsPerMinute - 1), NEW n \in Nat
  PROVE  /\ ((h * MinutesPerHour + m) * SecondsPerMinute + s) * NanosPerSecond + n \in Nat
         /\ n < NanosPerSecond =>
              ((h * MinutesPerHour + m) * SecondsPerMinute + s) * NanosPerSecond + n < NanosPerDay
<1> DEFINE M == MinutesPerHour
           S == SecondsPerMinute
           a == h * M + m
           b == a * S + s
<1>1. M \in Nat \ {0} /\ S \in Nat \ {0} /\ NanosPerSecond \in Nat \ {0} /\ HoursPerDay \in Nat \ {0}
  BY Units
<1>2. a \in 0..(HoursPerDay * M - 1)
  <2>1. 0 * M <= h * M /\ h * M <= (HoursPerDay - 1) * M /\ h * M \in Int
        /\ (HoursPerDay - 1) * M = HoursPerDay * M - 1 * M /\ HoursPerDay * M \in Int
    BY <1>1, Mono, Ring
  <2>2. QED BY <1>1, <2>1
<1> HIDE DEF a
<1>3. b \in 0..((HoursPerDay * M) * S - 1)
  <2>1. HoursPerDay * M \in Int
    BY <1>1, Ring
  <2>2. 0 * S <= a * S /\ a * S <= (HoursPerDay * M - 1) * S /\ a * S \in Int
        /\ (HoursPerDay * M - 1) * S = (HoursPerDay * M) * S - 1 * S /\ (HoursPerDay * M) * S \in Int
    BY <1>1, <1>2, <2>1, Mono, Ring
  <2>3. QED BY <1>1, <2>2
<1> HIDE DEF b
<1>4. (HoursPerDay * M) * S = SecondsPerDay /\ SecondsPerDay \in Nat
  BY Units DEF SecondsPerDay
<1>5. /\ 0 * NanosPerSecond <= b * NanosPerSecond
      /\ b * NanosPerSecond <= (SecondsPerDay - 1) * NanosPerSecond
      /\ b * NanosPerSecond \in Int
      /\ (SecondsPerDay - 1) * NanosPerSecond = NanosPerDay - 1 * NanosPerSecond
  BY <1>1, <1>3, <1>4, Mono, Ring DEF NanosPerDay
<1>6. NanosPerDay \in Nat
  BY Units
<1>7. b * NanosPerSecond + n \in Nat /\ (n < NanosPerSecond => b * NanosPerSecond + n < NanosPerDay)
  BY <1>1, <1>5, <1>6
<1>8. QED BY <1>7 DEF a, b

\* The units of datetime: a day of them is a day of milliseconds, and each
\* starts more than two milliseconds after the one before.
LEMMA LegacyUnits ==
  ASSUME NEW units \in Nat, units < LegacyPerDay
  PROVE  /\ LegacyTime(units) \in TimeOfDay /\ LegacyTime(units) # NULL
         /\ SinceMidnight(LegacyTime(units)) = ((units * 10) \div 3) * NanosPerMilli
<1> DEFINE millis == (units * 10) \div 3
           seconds == millis \div MillisPerSecond
           left == millis % MillisPerSecond
<1>1. /\ MillisPerSecond \in Nat \ {0} /\ NanosPerMilli \in Nat \ {0} /\ SecondsPerDay \in Nat \ {0}
      /\ LegacyPerSecond \in Nat \ {0} /\ 3 * MillisPerSecond = 10 * LegacyPerSecond
  BY Units, TemporalAssumption
<1>2. millis \in Nat /\ 3 * millis <= units * 10
  OBVIOUS
<1>3. millis < SecondsPerDay * MillisPerSecond
  <2>1. LegacyPerDay = SecondsPerDay * LegacyPerSecond
    BY DEF LegacyPerDay
  <2>2. SecondsPerDay * LegacyPerSecond \in Int /\ SecondsPerDay * MillisPerSecond \in Int
    BY <1>1, Ring
  <2>3. 10 * (SecondsPerDay * LegacyPerSecond) = SecondsPerDay * (10 * LegacyPerSecond)
    BY <1>1
  <2>4. 3 * (SecondsPerDay * MillisPerSecond) = SecondsPerDay * (3 * MillisPerSecond)
    BY <1>1
  <2>5. 10 * (SecondsPerDay * LegacyPerSecond) = 3 * (SecondsPerDay * MillisPerSecond)
    BY <1>1, <2>3, <2>4
  <2> HIDE DEF millis
  <2>6. 3 * millis < 3 * (SecondsPerDay * MillisPerSecond)
    BY <1>2, <2>1, <2>2, <2>5
  <2>7. QED BY <1>2, <2>2, <2>6
<1>4. LegacyTime(units) = TimeOfSeconds(seconds, left * NanosPerMilli)
  BY DEF LegacyTime
<1> HIDE DEF millis
<1>5. millis \in Int
  BY <1>2
<1>6. seconds \in Nat /\ left \in Nat /\ millis = seconds * MillisPerSecond + left
  BY <1>1, <1>2, <1>5, Div
<1>7. seconds < SecondsPerDay
  BY <1>1, <1>3, <1>5, DivBelow
<1> HIDE DEF seconds, left
<1>8. left * NanosPerMilli \in Nat
  <2>1. 0 * NanosPerMilli <= left * NanosPerMilli /\ left * NanosPerMilli \in Int
    BY <1>1, <1>6, Mono
  <2>2. QED BY <1>1, <2>1
<1>9. seconds * NanosPerSecond + left * NanosPerMilli = millis * NanosPerMilli
  <2>1. seconds * NanosPerSecond = (seconds * MillisPerSecond) * NanosPerMilli
    BY <1>1, <1>6 DEF NanosPerSecond
  <2>2. seconds * MillisPerSecond \in Int
    BY <1>1, <1>6, Ring
  <2>3. (seconds * MillisPerSecond + left) * NanosPerMilli
          = (seconds * MillisPerSecond) * NanosPerMilli + left * NanosPerMilli
    BY <1>1, <1>6, <2>2, Ring
  <2>4. QED BY <1>6, <2>1, <2>3
<1>10. QED BY <1>4, <1>6, <1>7, <1>8, <1>9, SecondsBack DEF millis

-----------------------------------------------------------------------------
(* Values, parameters and cells *)

LEMMA ValueIs ==
  ASSUME NEW l, NEW v \in Values(l)
  PROVE  /\ v.kind \in Kinds /\ v.day \in Int /\ v.offset \in Int /\ v # NULL
         /\ v.time.hour \in 0..(HoursPerDay - 1) /\ v.time.minute \in 0..(MinutesPerHour - 1)
         /\ v.time.second \in 0..(SecondsPerMinute - 1) /\ v.time.nano \in Nat
         /\ v.kind = "time" => v.day = 0
         /\ v.kind = "date" => v.time = Midnight
         /\ v.kind # "instant" => v.offset = 0
<1>1. Days \subseteq Int /\ Offsets \subseteq Int /\ \A n \in Nanos : n \in Nat
  <2>1. NanosPerSecond \in Nat
    BY Units
  <2>2. QED BY <2>1, TemporalAssumption
<1>2. /\ 0 \in 0..(HoursPerDay - 1) /\ 0 \in 0..(MinutesPerHour - 1) /\ 0 \in 0..(SecondsPerMinute - 1)
      /\ \A h \in 0..(HoursPerDay - 1) : h \in Int
      /\ \A m \in 0..(MinutesPerHour - 1) : m \in Int
      /\ \A s \in 0..(SecondsPerMinute - 1) : s \in Int
  BY Units
<1>3. ASSUME NEW t \in {Midnight} \cup Times(l)
      PROVE  /\ t.hour \in 0..(HoursPerDay - 1) /\ t.minute \in 0..(MinutesPerHour - 1)
             /\ t.second \in 0..(SecondsPerMinute - 1) /\ t.nano \in Nat
             /\ t \in TimeOfDay
  <2>1. CASE t = Midnight
    BY <1>2, <2>1 DEF Midnight, TimeOfDay
  <2>2. CASE t \in Times(l)
    <3>1. t \in [hour : 0..(HoursPerDay - 1), minute : 0..(MinutesPerHour - 1),
                 second : 0..(SecondsPerMinute - 1), nano : Nanos]
      BY <2>2 DEF Times
    <3>2. QED BY <1>1, <1>2, <3>1 DEF TimeOfDay
  <2>3. QED BY <2>1, <2>2
<1>4. v \in [kind : Kinds, day : Days \cup {0}, time : {Midnight} \cup Times(l), offset : Offsets \cup {0}]
      /\ (v.kind = "time" => v.day = 0) /\ (v.kind = "date" => v.time = Midnight)
      /\ (v.kind # "instant" => v.offset = 0)
  BY DEF Values, Kinds
<1>5. v.kind \in Kinds /\ v.day \in Int /\ v.offset \in Int /\ v.time \in {Midnight} \cup Times(l)
  <2>1. v.kind \in Kinds /\ v.day \in Days \cup {0} /\ v.offset \in Offsets \cup {0}
        /\ v.time \in {Midnight} \cup Times(l)
    BY <1>4
  <2>2. \A i \in (Days \cup {0}) \cup (Offsets \cup {0}) : i \in Int
    BY <1>1
  <2>3. QED BY <2>1, <2>2
<1>6. v.time \in TimeOfDay
  BY <1>3, <1>5
<1>7. v # NULL
  <2>1. v = [kind |-> v.kind, day |-> v.day, time |-> v.time, offset |-> v.offset]
    BY <1>4
  <2>2. v \in [kind : Kinds, day : Int, time : TimeOfDay, offset : Int]
    BY <1>5, <1>6, <2>1
  <2>3. QED BY <2>2, NullAssumption DEF Kinds
<1>8. /\ v.time.hour \in 0..(HoursPerDay - 1) /\ v.time.minute \in 0..(MinutesPerHour - 1)
      /\ v.time.second \in 0..(SecondsPerMinute - 1) /\ v.time.nano \in Nat
  BY <1>3, <1>5
<1>9. QED BY <1>4, <1>5, <1>7, <1>8

\* The nanoseconds of what is bound.
LEMMA BoundTime ==
  ASSUME NEW l, NEW v \in Values(l)
  PROVE  /\ SinceMidnight(v.time) \in Nat
         /\ SinceMidnight(v.time) >= NanosPerDay => Leap(v.time)
         /\ TicksOf(v.time) \in Nat
         /\ SinceMidnight(v.time) = TicksOf(v.time) * NanosPerTick + (SinceMidnight(v.time) % NanosPerTick)
         /\ SinceMidnight(v.time) % NanosPerTick \in Nat
<1>1. /\ v.time.hour \in 0..(HoursPerDay - 1) /\ v.time.minute \in 0..(MinutesPerHour - 1)
      /\ v.time.second \in 0..(SecondsPerMinute - 1) /\ v.time.nano \in Nat
  BY ValueIs
<1>2. /\ SinceMidnight(v.time) \in Nat
      /\ v.time.nano < NanosPerSecond => SinceMidnight(v.time) < NanosPerDay
  BY <1>1, InDay DEF SinceMidnight
<1>3. NanosPerDay \in Nat /\ NanosPerSecond \in Nat /\ NanosPerTick \in Nat \ {0}
  BY Units
<1>4. SinceMidnight(v.time) >= NanosPerDay => Leap(v.time)
  BY <1>1, <1>2, <1>3 DEF Leap
<1>5. SinceMidnight(v.time) \in Int
  BY <1>2
<1>6. /\ TicksOf(v.time) \in Nat
      /\ SinceMidnight(v.time) = TicksOf(v.time) * NanosPerTick + (SinceMidnight(v.time) % NanosPerTick)
      /\ SinceMidnight(v.time) % NanosPerTick \in 0..(NanosPerTick - 1)
  BY <1>2, <1>3, <1>5, Div DEF TicksOf
<1>7. QED BY <1>2, <1>3, <1>4, <1>6

\* OffsetMinutes drops the odd seconds.
LEMMA OffsetIs ==
  ASSUME NEW o \in Int
  PROVE  /\ OffsetMinutes(o) \in Int /\ (o = 0 => OffsetMinutes(o) = 0)
         /\ OffsetMinutes(o) * SecondsPerMinute \in Int
         /\ OffsetMinutes(o) * SecondsPerMinute - o \in (1 - SecondsPerMinute)..(SecondsPerMinute - 1)
         /\ o % SecondsPerMinute = 0 => OffsetMinutes(o) * SecondsPerMinute = o
         /\ OffsetMinutes(o) \notin (-MaxOffset)..MaxOffset
              => o \notin (-MaxOffset * SecondsPerMinute)..(MaxOffset * SecondsPerMinute)
<1> DEFINE S == SecondsPerMinute
<1>1. S \in Nat \ {0} /\ MaxOffset \in Nat
  BY Units, TemporalAssumption
<1> HIDE DEF S
<1>2. MaxOffset * S \in Int /\ (-MaxOffset) * S = -(MaxOffset * S) /\ (-MaxOffset) * S \in Int
      /\ 0 <= MaxOffset * S
  BY <1>1
<1>3. CASE o >= 0
  <2> DEFINE q == o \div S
  <2>1. OffsetMinutes(o) = q
    BY <1>3 DEF OffsetMinutes, S
  <2>2. q \in Int /\ o % S \in 0..(S - 1) /\ o = q * S + (o % S) /\ o \in Nat /\ q \in Nat
    <3>1. q \in Int /\ o % S \in 0..(S - 1) /\ o = q * S + (o % S)
      BY <1>1, Div
    <3>2. o \in Nat
      BY <1>3
    <3>3. QED BY <1>1, <3>1, <3>2, Div
  <2>3. q < MaxOffset + 1 <=> o < (MaxOffset + 1) * S
    BY <1>1, DivBelow
  <2>4. o = 0 => q = 0
    <3>1. 0 * S + 0 = 0 /\ 0 \in 0..(S - 1)
      BY <1>1
    <3>2. QED BY <1>1, <3>1, DivIs
  <2> HIDE DEF q
  <2>5. q * S \in Int /\ (MaxOffset + 1) * S = MaxOffset * S + 1 * S
    BY <1>1, <2>2, Ring
  <2>6. q \notin (-MaxOffset)..MaxOffset => q >= MaxOffset + 1
    BY <1>1, <2>2
  <2>7. q >= MaxOffset + 1 => o > MaxOffset * S
    BY <1>1, <1>2, <2>2, <2>3, <2>5
  <2>8. q * S - o \in (1 - S)..(S - 1) /\ (o % S = 0 => q * S = o)
    BY <1>1, <2>2, <2>5
  <2>9. QED BY <1>2, <2>1, <2>2, <2>4, <2>5, <2>6, <2>7, <2>8 DEF S
<1>4. CASE o < 0
  <2> DEFINE n == -o
             q == n \div S
  <2>1. OffsetMinutes(o) = -q
    BY <1>4 DEF OffsetMinutes, S
  <2>2. n \in Nat /\ n \in Int /\ n > 0 /\ o = -n
    BY <1>4
  <2> HIDE DEF n
  <2>3. q \in Int /\ n % S \in 0..(S - 1) /\ n = q * S + (n % S) /\ q \in Nat
    BY <1>1, <2>2, Div
  <2>4. q < MaxOffset + 1 <=> n < (MaxOffset + 1) * S
    BY <1>1, <2>2, DivBelow
  <2>5. o % S = 0 => q * S = n
    <3>1. SUFFICES ASSUME o % S = 0 PROVE q * S = n
      OBVIOUS
    <3> DEFINE p == o \div S
    <3>2. p \in Int /\ o = p * S
      BY <1>1, <3>1, Div
    <3> HIDE DEF p
    <3>3. n = (-p) * S /\ -p \in Int /\ (-p) * S + 0 = n /\ 0 \in 0..(S - 1)
      BY <1>1, <2>2, <3>2
    <3>4. q = -p
      BY <1>1, <3>3, DivIs
    <3>5. QED BY <3>3, <3>4
  <2> HIDE DEF q
  <2>6. q * S \in Int /\ (MaxOffset + 1) * S = MaxOffset * S + 1 * S /\ (-q) * S = -(q * S)
    BY <1>1, <2>3, Ring
  <2>7. -q \notin (-MaxOffset)..MaxOffset => q >= MaxOffset + 1
    BY <1>1, <2>3
  <2>8. q >= MaxOffset + 1 => n > MaxOffset * S
    BY <1>1, <1>2, <2>2, <2>3, <2>4, <2>6
  <2>9. (-q) * S - o \in (1 - S)..(S - 1)
    BY <1>1, <2>2, <2>3, <2>6
  <2>10. (o % S = 0 => (-q) * S = o)
    BY <2>2, <2>5, <2>6
  <2>11. -q \notin (-MaxOffset)..MaxOffset => o < -(MaxOffset * S)
    BY <1>2, <2>2, <2>7, <2>8
  <2>12. QED BY <1>2, <1>4, <2>1, <2>2, <2>3, <2>6, <2>9, <2>10, <2>11 DEF S
<1>5. QED BY <1>3, <1>4

LEMMA CellIs ==
  ASSUME NEW c \in Cells
  PROVE  /\ c.day \in Int /\ c.time \in Nat /\ c.offset \in Int
         /\ c.type \in {"date", "time", "datetime2", "datetimeoffset", "datetime", "smalldatetime"}
         /\ c.type \in {"time", "datetime2", "datetimeoffset"} => c.time < TicksPerDay
         /\ c.type = "datetime" => c.time < LegacyPerDay
         /\ c.type = "smalldatetime" => c.time < HoursPerDay * MinutesPerHour
<1>1. TicksPerDay \in Int /\ LegacyPerDay \in Int /\ HoursPerDay * MinutesPerHour \in Int
      /\ LastDay \in Int /\ LegacyEpoch \in Int /\ MaxOffset \in Int
  <2>1. TicksPerDay \in Int /\ HoursPerDay \in Int /\ MinutesPerHour \in Int /\ SecondsPerDay \in Int
    BY Units
  <2>2. LegacyPerSecond \in Int /\ LegacyEpoch \in Int /\ MaxOffset \in Int /\ LastDay \in Int
    BY TemporalAssumption, UnitsAssumption
  <2>3. QED BY <2>1, <2>2, Ring DEF LegacyPerDay
<1>2. CASE c \in [type : {"date"}, day : 0..LastDay, time : {0}, offset : {0}]
  BY <1>2
<1>3. CASE c \in [type : {"time"}, day : {0}, time : 0..(TicksPerDay - 1), offset : {0}]
  BY <1>1, <1>3
<1>4. CASE c \in [type : {"datetime2"}, day : 0..LastDay, time : 0..(TicksPerDay - 1), offset : {0}]
  BY <1>1, <1>4
<1>5. CASE c \in [type : {"datetimeoffset"}, day : 0..LastDay, time : 0..(TicksPerDay - 1),
                  offset : (-MaxOffset)..MaxOffset]
  BY <1>1, <1>5
<1>6. CASE c \in [type : {"datetime"}, day : (-LegacyEpoch)..(LastDay - LegacyEpoch),
                  time : 0..(LegacyPerDay - 1), offset : {0}]
  BY <1>1, <1>6
<1>7. CASE c \in [type : {"smalldatetime"}, day : 0..(LastDay - LegacyEpoch),
                  time : 0..(HoursPerDay * MinutesPerHour - 1), offset : {0}]
  BY <1>1, <1>7
<1>8. QED BY <1>2, <1>3, <1>4, <1>5, <1>6, <1>7 DEF Cells

\* A parameter within the ranges of its type is one of that type's cells.
LEMMA StoredCell ==
  ASSUME NEW l, NEW v \in Values(l), DateFits(v.day), Storable(Parameter(v))
  PROVE  Parameter(v) \in Cells
<1> DEFINE c == Parameter(v)
<1>1. c = [type |-> SqlTypeOf(v.kind), day |-> v.day, time |-> TicksOf(v.time),
           offset |-> OffsetMinutes(v.offset)]
  BY DEF Parameter
<1>2. v.day \in 0..LastDay /\ TicksOf(v.time) < TicksPerDay
      /\ OffsetMinutes(v.offset) \in (-MaxOffset)..MaxOffset
  BY DEF DateFits, Storable, Parameter
<1>3. TicksOf(v.time) \in 0..(TicksPerDay - 1)
  <2>1. TicksOf(v.time) \in Nat /\ TicksPerDay \in Nat
    BY BoundTime, Units
  <2>2. QED BY <1>2, <2>1
<1>4. v.kind # "instant" => OffsetMinutes(v.offset) = 0
  BY ValueIs, OffsetIs
<1>5. v.kind = "date" => TicksOf(v.time) = 0
  <2>1. SUFFICES ASSUME v.kind = "date" PROVE TicksOf(Midnight) = 0
    BY ValueIs
  <2>2. NanosPerTick \in Nat \ {0} /\ MinutesPerHour \in Int /\ SecondsPerMinute \in Int
        /\ NanosPerSecond \in Int
    BY Units
  <2>3. SinceMidnight(Midnight) = ((0 * MinutesPerHour + 0) * SecondsPerMinute + 0) * NanosPerSecond + 0
    BY DEF SinceMidnight, Midnight
  <2>4. SinceMidnight(Midnight) = 0
    BY <2>2, <2>3
  <2>5. 0 * NanosPerTick + 0 = 0 /\ 0 \in 0..(NanosPerTick - 1)
    BY <2>2
  <2>6. QED BY <2>2, <2>4, <2>5, DivIs DEF TicksOf
<1>6. v.kind = "time" => v.day = 0
  BY ValueIs
<1>7. v.kind \in Kinds
  BY ValueIs
<1> DEFINE ticks == TicksOf(v.time)
           minutes == OffsetMinutes(v.offset)
<1> SUFFICES c \in Cells
  OBVIOUS
<1> HIDE DEF c, ticks, minutes
<1>8. /\ c = [type |-> SqlTypeOf(v.kind), day |-> v.day, time |-> ticks, offset |-> minutes]
      /\ v.day \in 0..LastDay /\ ticks \in 0..(TicksPerDay - 1) /\ minutes \in (-MaxOffset)..MaxOffset
  BY <1>1, <1>2, <1>3 DEF ticks, minutes
<1>9. CASE v.kind = "date"
  <2>1. SqlTypeOf(v.kind) = "date" /\ ticks = 0 /\ minutes = 0
    BY <1>4, <1>5, <1>9 DEF SqlTypeOf, ticks, minutes
  <2>2. c \in [type : {"date"}, day : 0..LastDay, time : {0}, offset : {0}]
    BY <1>8, <2>1
  <2>3. QED BY <2>2 DEF Cells
<1>10. CASE v.kind = "time"
  <2>1. SqlTypeOf(v.kind) = "time" /\ v.day = 0 /\ minutes = 0
    BY <1>4, <1>6, <1>10 DEF SqlTypeOf, minutes
  <2>2. c \in [type : {"time"}, day : {0}, time : 0..(TicksPerDay - 1), offset : {0}]
    BY <1>8, <2>1
  <2>3. QED BY <2>2 DEF Cells
<1>11. CASE v.kind = "datetime"
  <2>1. SqlTypeOf(v.kind) = "datetime2" /\ minutes = 0
    BY <1>4, <1>11 DEF SqlTypeOf, minutes
  <2>2. c \in [type : {"datetime2"}, day : 0..LastDay, time : 0..(TicksPerDay - 1), offset : {0}]
    BY <1>8, <2>1
  <2>3. QED BY <2>2 DEF Cells
<1>12. CASE v.kind = "instant"
  <2>1. SqlTypeOf(v.kind) = "datetimeoffset"
    BY <1>12 DEF SqlTypeOf
  <2>2. c \in [type : {"datetimeoffset"}, day : 0..LastDay, time : 0..(TicksPerDay - 1),
              offset : (-MaxOffset)..MaxOffset]
    BY <1>8, <2>1
  <2>3. QED BY <2>2 DEF Cells
<1>13. QED BY <1>7, <1>9, <1>10, <1>11, <1>12 DEF Kinds

-----------------------------------------------------------------------------
(* The invariant *)

LEMMA InitInv == Init => TInv
<1>1. SUFFICES ASSUME Init PROVE TInv
  OBVIOUS
<1>2. CASE phase = "bound" /\ value \in Values(lib)
  <2>1. value # NULL
    BY <1>2, ValueIs
  <2>2. QED BY <1>1, <1>2, <2>1 DEF Init, TInv, ValueBound, CellMade, ReadIt
<1>3. CASE phase = "stored" /\ value = NULL /\ cell \in Cells
  BY <1>1, <1>3 DEF Init, TInv, ValueBound, CellMade, ReadIt
<1>4. QED BY <1>1, <1>2, <1>3 DEF Init

LEMMA BindKeeps == TInv /\ Bind => TInv'
<1>1. SUFFICES ASSUME TInv, Bind PROVE TInv'
  OBVIOUS
<1>2. phase = "bound" /\ value # NULL /\ value \in Values(lib) /\ lib \in Libraries
      /\ lib' = lib /\ value' = value
  BY <1>1 DEF TInv, ValueBound, Bind
<1>3. CASE DateFits(value.day)
  <2>1. phase' = "sent" /\ cell' = Parameter(value)
    BY <1>1, <1>3 DEF Bind, Parameter
  <2>2. QED BY <1>2, <1>3, <2>1 DEF TInv, ValueBound, CellMade, ReadIt
<1>4. CASE ~DateFits(value.day)
  <2>1. phase' = "panicked"
    BY <1>1, <1>4 DEF Bind
  <2>2. QED BY <1>2, <1>4, <2>1 DEF TInv, ValueBound, CellMade, ReadIt
<1>5. QED BY <1>3, <1>4

LEMMA StoreKeeps == TInv /\ Store => TInv'
<1>1. SUFFICES ASSUME TInv, Store PROVE TInv'
  OBVIOUS
<1>2. phase = "sent" /\ value # NULL /\ value \in Values(lib) /\ lib \in Libraries
      /\ lib' = lib /\ value' = value /\ cell' = cell
      /\ DateFits(value.day) /\ cell = Parameter(value)
  BY <1>1 DEF TInv, ValueBound, CellMade, Store
<1>3. CASE Storable(cell)
  <2>1. phase' = "stored"
    BY <1>1, <1>3 DEF Store, Storable
  <2>2. cell \in Cells
    BY <1>2, <1>3, StoredCell
  <2>3. QED BY <1>2, <2>1, <2>2 DEF TInv, ValueBound, CellMade, ReadIt
<1>4. CASE ~Storable(cell)
  <2>1. phase' = "refused"
    BY <1>1, <1>4 DEF Store, Storable
  <2>2. QED BY <1>2, <1>4, <2>1 DEF TInv, ValueBound, CellMade, ReadIt, Storable
<1>5. QED BY <1>3, <1>4

LEMMA FromSqlKeeps ==
  ASSUME NEW kind \in Kinds, TInv, FromSql(kind)
  PROVE  TInv'
<1>1. phase = "stored" /\ phase' = "read" /\ target' = kind /\ read' = ReadAs(kind, cell)
      /\ lib' = lib /\ value' = value /\ cell' = cell
  BY DEF FromSql
<1>2. ValueBound' /\ CellMade'
  BY <1>1 DEF TInv, ValueBound, CellMade, Storable
<1>3. ReadIt'
  <2>1. ReadAs(kind, cell)' = ReadAs(kind, cell)
    BY <1>1 DEF ReadAs, ReadDate, ReadTime, ReadDateTime, ReadInstant
  <2>2. QED BY <1>1, <2>1 DEF ReadIt, ReadAs, ReadDate, ReadTime, ReadDateTime, ReadInstant
<1>4. QED BY <1>2, <1>3 DEF TInv

\* A value that is sent, refused or stored is the one bound here, as Bind
\* made it, and a stored cell is one its type allows.
THEOREM TemporalInvariance == Spec => []TInv
<1>1. TInv /\ [Next]_vars => TInv'
  <2>1. ASSUME TInv, UNCHANGED vars PROVE TInv'
    BY <2>1 DEF vars, TInv, ValueBound, CellMade, Storable, ReadIt,
                ReadAs, ReadDate, ReadTime, ReadDateTime, ReadInstant
  <2>2. QED BY <2>1, BindKeeps, StoreKeeps, FromSqlKeeps DEF Next
<1>2. QED BY <1>1, InitInv, PTL DEF Spec

-----------------------------------------------------------------------------
(* The properties *)

\* What FromSql for a time of day gives for the parameter of a bound value.
LEMMA ParameterTime ==
  ASSUME NEW l, NEW v \in Values(l), NEW c \in Cells, c = Parameter(v), v.kind # "date"
  PROVE  /\ TimeOfTicks(c.time) # NULL /\ SinceMidnight(TimeOfTicks(c.time)) \in Int
         /\ SinceMidnight(v.time) - SinceMidnight(TimeOfTicks(c.time))
              = SinceMidnight(v.time) % NanosPerTick
<1>1. c.type = SqlTypeOf(v.kind) /\ c.time = TicksOf(v.time)
  BY DEF Parameter
<1>2. v.kind \in Kinds
  BY ValueIs
<1>3. c.type \in {"time", "datetime2", "datetimeoffset"}
  BY <1>1, <1>2 DEF Kinds, SqlTypeOf
<1>4. c.time \in Nat /\ c.time < TicksPerDay
  BY <1>3, CellIs
<1>5. TimeOfTicks(c.time) # NULL /\ SinceMidnight(TimeOfTicks(c.time)) = c.time * NanosPerTick
  BY <1>4, TicksBack
<1>6. c.time * NanosPerTick \in Int
  BY <1>4, Units, Ring
<1>7. SinceMidnight(v.time) = c.time * NanosPerTick + (SinceMidnight(v.time) % NanosPerTick)
      /\ SinceMidnight(v.time) % NanosPerTick \in Nat
  BY <1>1, BoundTime
<1>8. QED BY <1>5, <1>6, <1>7

\* What is read back is the instant that was bound, less what a tick cannot
\* hold, whatever the units, the leap seconds and the offset.
THEOREM InstantsRoundTrip == Spec => []RoundTrip
<1>1. TInv => RoundTrip
  <2>1. SUFFICES ASSUME TInv, phase = "read", value # NULL, target = value.kind, read # NULL
                 PROVE  LET exact == SinceMidnight(value.time)
                            lost(t) == exact - SinceMidnight(t)
                        IN CASE target = "date"     -> read = value.day
                             [] target = "time"     -> lost(read) = exact % NanosPerTick
                             [] target = "datetime" -> /\ read.day = value.day
                                                       /\ lost(read.time) = exact % NanosPerTick
                             [] target = "instant"  ->
                                  /\ read.day = value.day /\ lost(read.time) = exact % NanosPerTick
                                  /\ read.offset - value.offset
                                       \in (1 - SecondsPerMinute)..(SecondsPerMinute - 1)
                                  /\ value.offset % SecondsPerMinute = 0 => read.offset = value.offset
    BY DEF RoundTrip
  <2> DEFINE at == TimeOfTicks(cell.time)
  <2>2. /\ value \in Values(lib) /\ cell = Parameter(value) /\ cell \in Cells
        /\ target \in Kinds /\ read = ReadAs(target, cell)
    BY <2>1 DEF TInv, ValueBound, CellMade, ReadIt
  <2>3. /\ cell.type = SqlTypeOf(target) /\ cell.day = value.day
        /\ cell.offset = OffsetMinutes(value.offset)
    BY <2>1, <2>2 DEF Parameter
  <2>4. target # "date" => /\ at # NULL
                           /\ SinceMidnight(value.time) - SinceMidnight(at)
                                = SinceMidnight(value.time) % NanosPerTick
    BY <2>1, <2>2, ParameterTime
  <2> HIDE DEF at
  <2>5. CASE target = "date"
    <3>1. read = value.day
      BY <2>2, <2>3, <2>5 DEF SqlTypeOf, ReadAs, ReadDate
    <3>2. QED BY <2>5, <3>1
  <2>6. CASE target = "time"
    <3>1. read = at
      BY <2>2, <2>3, <2>6 DEF SqlTypeOf, ReadAs, ReadTime, at
    <3>2. QED BY <2>4, <2>6, <3>1
  <2>7. CASE target = "datetime"
    <3>1. read = DateTime(cell.day, at)
      BY <2>2, <2>3, <2>7 DEF SqlTypeOf, ReadAs, ReadDateTime, at
    <3>2. read.day = value.day /\ read.time = at
      BY <2>3, <2>4, <2>7, <3>1 DEF DateTime
    <3>3. QED BY <2>4, <2>7, <3>2
  <2>8. CASE target = "instant"
    <3>1. read = [day |-> cell.day, time |-> at, offset |-> cell.offset * SecondsPerMinute]
      BY <2>1, <2>2, <2>8 DEF ReadAs, ReadInstant, at
    <3>2. read.day = value.day /\ read.time = at
          /\ read.offset = OffsetMinutes(value.offset) * SecondsPerMinute
      BY <2>3, <3>1
    <3>3. value.offset \in Int
      BY <2>2, ValueIs
    <3>4. /\ read.offset - value.offset \in (1 - SecondsPerMinute)..(SecondsPerMinute - 1)
          /\ value.offset % SecondsPerMinute = 0 => read.offset = value.offset
      BY <3>2, <3>3, OffsetIs
    <3>5. QED BY <2>4, <2>8, <3>2, <3>4
  <2>9. QED BY <2>2, <2>5, <2>6, <2>7, <2>8 DEF Kinds
<1>2. QED BY <1>1, TemporalInvariance, PTL

\* Nothing but a date outside SQL Server's range panics, and the server refuses
\* only a leap second that ends the day or an offset it does not have.
THEOREM EdgesAlone == Spec => []RejectedOnlyAtEdges
<1>1. TInv => RejectedOnlyAtEdges
  <2>1. SUFFICES ASSUME TInv PROVE RejectedOnlyAtEdges
    OBVIOUS
  <2>2. ASSUME phase = "panicked" PROVE value.kind # "time" /\ value.day \notin 0..LastDay
    <3>1. value \in Values(lib) /\ value.day \notin 0..LastDay
      BY <2>1, <2>2 DEF TInv, ValueBound, DateFits
    <3>2. 0 \in 0..LastDay
      BY UnitsAssumption
    <3>3. QED BY <3>1, <3>2, ValueIs
  <2>3. ASSUME phase = "refused"
        PROVE  \/ Leap(value.time) /\ SinceMidnight(value.time) >= NanosPerDay
               \/ value.offset \notin (-MaxOffset * SecondsPerMinute)..(MaxOffset * SecondsPerMinute)
    <3>1. value \in Values(lib) /\ cell = Parameter(value) /\ ~Storable(cell)
      BY <2>1, <2>3 DEF TInv, ValueBound, CellMade
    <3>2. \/ ~(TicksOf(value.time) < TicksPerDay)
          \/ OffsetMinutes(value.offset) \notin (-MaxOffset)..MaxOffset
      BY <3>1 DEF Storable, Parameter
    <3>3. ASSUME ~(TicksOf(value.time) < TicksPerDay)
          PROVE  Leap(value.time) /\ SinceMidnight(value.time) >= NanosPerDay
      <4>1. SinceMidnight(value.time) \in Int /\ NanosPerDay \in Int /\ TicksPerDay \in Int
            /\ NanosPerTick \in Nat \ {0} /\ NanosPerDay = TicksPerDay * NanosPerTick
        BY <3>1, BoundTime, Units
      <4>2. ~(SinceMidnight(value.time) < NanosPerDay)
        BY <3>3, <4>1, DivBelow DEF TicksOf
      <4>3. SinceMidnight(value.time) >= NanosPerDay
        BY <4>1, <4>2
      <4>4. QED BY <3>1, <4>3, BoundTime
    <3>4. ASSUME OffsetMinutes(value.offset) \notin (-MaxOffset)..MaxOffset
          PROVE  value.offset \notin (-MaxOffset * SecondsPerMinute)..(MaxOffset * SecondsPerMinute)
      BY <3>1, <3>4, ValueIs, OffsetIs
    <3>5. QED BY <3>2, <3>3, <3>4
  <2>4. phase = "stored" => cell \in Cells
    BY <2>1 DEF TInv, CellMade
  <2>5. QED BY <2>2, <2>3, <2>4 DEF RejectedOnlyAtEdges
<1>2. QED BY <1>1, TemporalInvariance, PTL

\* Whatever a cell holds, its date is the same read alone or with its time.
THEOREM OneDate == Spec => []DatesAgree
<1>1. ASSUME NEW c, ReadDate(c) # NULL, ReadDateTime(c) # NULL
      PROVE  ReadDateTime(c).day = ReadDate(c)
  <2>1. CASE c.type = "datetime2"
    <3>1. ReadDate(c) = c.day /\ ReadDateTime(c) = DateTime(c.day, TimeOfTicks(c.time))
      BY <2>1 DEF ReadDate, ReadDateTime
    <3>2. QED BY <1>1, <3>1 DEF DateTime
  <2>2. CASE c.type = "datetime"
    <3>1. ReadDate(c) = LegacyDay(c.day) /\ ReadDateTime(c) = DateTime(LegacyDay(c.day), LegacyTime(c.time))
      BY <2>2 DEF ReadDate, ReadDateTime
    <3>2. QED BY <1>1, <3>1 DEF DateTime
  <2>3. CASE c.type = "date"
    <3>1. ReadDateTime(c) = NULL
      BY <2>3 DEF ReadDateTime
    <3>2. QED BY <1>1, <3>1
  <2>4. CASE c.type \notin {"date", "datetime2", "datetime"}
    <3>1. ReadDate(c) = NULL
      BY <2>4 DEF ReadDate
    <3>2. QED BY <1>1, <3>1
  <2>5. QED BY <2>1, <2>2, <2>3, <2>4
<1>2. DatesAgree
  BY <1>1 DEF DatesAgree
<1>3. QED BY <1>2, PTL

\* Datetime cells of a day that differ read as times that differ, in order, and
\* less than a millisecond is lost, whatever the units.
THEOREM LegacyOrder == Spec => []LegacyTimesApart
<1>1. TInv => LegacyTimesApart
  <2>1. SUFFICES ASSUME TInv, phase = "stored", cell.type = "datetime"
                 PROVE  LET at(units) == SinceMidnight(LegacyTime(units))
                            error == cell.time * MillisPerSecond * NanosPerMilli
                                       - at(cell.time) * LegacyPerSecond
                        IN /\ cell.time + 1 < LegacyPerDay => at(cell.time) < at(cell.time + 1)
                           /\ error \in 0..(LegacyPerSecond * NanosPerMilli - 1)
    BY DEF LegacyTimesApart
  <2> DEFINE u == cell.time
             m == (u * 10) \div 3
             r == (u * 10) % 3
             n == ((u + 1) * 10) \div 3
             NM == NanosPerMilli
             MS == MillisPerSecond
             LPS == LegacyPerSecond
             K == LPS * NM
             error == u * MS * NM - (m * NM) * LPS
  <2>2. u \in Nat /\ u < LegacyPerDay
    BY <2>1, CellIs DEF TInv, CellMade
  <2>3. /\ NM \in Nat \ {0} /\ MS \in Nat \ {0} /\ LPS \in Nat \ {0} /\ 3 * MS = 10 * LPS
        /\ K \in Nat \ {0}
    <3>1. NM \in Nat \ {0} /\ MS \in Nat \ {0} /\ LPS \in Nat \ {0} /\ 3 * MS = 10 * LPS
      BY Units, TemporalAssumption
    <3>2. 1 * NM <= LPS * NM /\ LPS * NM \in Int
      BY <3>1, Mono
    <3>3. QED BY <3>1, <3>2
  <2>4. SinceMidnight(LegacyTime(u)) = m * NM
    BY <2>2, LegacyUnits
  <2>5. u + 1 < LegacyPerDay => SinceMidnight(LegacyTime(u + 1)) = n * NM
    BY <2>2, LegacyUnits
  <2> HIDE DEF u, NM, MS, LPS
  <2>6. m \in Nat /\ n \in Nat /\ m < n /\ r \in 0..2 /\ u * 10 = m * 3 + r
    BY <2>2
  <2> HIDE DEF m, n, r
  <2>7. m * NM < n * NM
    BY <2>3, <2>6, Mono
  <2> HIDE DEF K
  <2>8. error \in Int /\ 3 * error = r * K
    <3>1. u * MS \in Int /\ u * MS * NM \in Int /\ m * NM \in Int /\ (m * NM) * LPS \in Int
          /\ m * K \in Int /\ r * K \in Int /\ u * LPS \in Int /\ u * K \in Int
      BY <2>2, <2>3, <2>6, Ring
    <3>2. 3 * (u * MS * NM) = 10 * (u * K)
      <4>1. 3 * (u * MS) = 10 * (u * LPS)
        <5>1. 3 * (u * MS) = u * (3 * MS) /\ 10 * (u * LPS) = u * (10 * LPS)
          BY <2>2, <2>3
        <5>2. QED BY <2>3, <5>1
      <4>2. 3 * (u * MS * NM) = (3 * (u * MS)) * NM
        BY <2>3, <3>1, Ring
      <4>3. (10 * (u * LPS)) * NM = 10 * ((u * LPS) * NM) /\ (u * LPS) * NM = u * (LPS * NM)
        BY <2>2, <2>3, <3>1, Ring
      <4>4. QED BY <4>1, <4>2, <4>3 DEF K
    <3>3. (m * NM) * LPS = m * K
      <4>1. (m * NM) * LPS = m * (NM * LPS) /\ NM * LPS = LPS * NM
        BY <2>3, <2>6, Ring
      <4>2. QED BY <4>1 DEF K
    <3>4. (u * 10) * K = (m * 3) * K + r * K /\ (u * 10) * K = 10 * (u * K) /\ (m * 3) * K = 3 * (m * K)
      BY <2>2, <2>3, <2>6, Ring
    <3>5. QED BY <3>1, <3>2, <3>3, <3>4
  <2> HIDE DEF error
  <2>9. error \in 0..(K - 1)
    <3>1. 0 * K <= r * K /\ r * K <= 2 * K /\ r * K \in Int
      BY <2>3, <2>6, Mono
    <3>2. QED BY <2>3, <2>8, <3>1
  <2>10. error = u * MS * NM - SinceMidnight(LegacyTime(u)) * LPS
    BY <2>4 DEF error
  <2>11. u + 1 < LegacyPerDay => SinceMidnight(LegacyTime(u)) < SinceMidnight(LegacyTime(u + 1))
    BY <2>4, <2>5, <2>7
  <2>12. QED BY <2>9, <2>10, <2>11 DEF u, NM, MS, LPS, K
<1>2. QED BY <1>1, TemporalInvariance, PTL

\* A cell that holds what was asked for reads as a value, but for jiff's
\* instants after Timestamp::MAX.
THEOREM NothingReadAsNone == Spec => []NoValueLost
<1>1. TInv => NoValueLost
  <2>1. SUFFICES ASSUME TInv, phase = "read" PROVE
               (read = NULL <=> \/ ~Holds(cell.type, target)
                                \/ /\ target = "instant" /\ lib = "jiff"
                                   /\ \/ cell.day > JiffLastDay
                                      \/ /\ cell.day = JiffLastDay
                                         /\ cell.time * NanosPerTick
                                              >= (JiffLastSecond + 1) * NanosPerSecond)
    BY DEF NoValueLost
  <2>2. cell \in Cells /\ target \in Kinds /\ read = ReadAs(target, cell)
    BY <2>1 DEF TInv, CellMade, ReadIt
  <2>3. /\ cell.day \in Int /\ cell.time \in Nat /\ cell.offset \in Int
        /\ cell.type \in {"date", "time", "datetime2", "datetimeoffset", "datetime", "smalldatetime"}
    BY <2>2, CellIs
  <2>4. LegacyDay(cell.day) \in Int
    BY <2>3, TemporalAssumption DEF LegacyDay
  <2>5. ASSUME NEW d \in Int PROVE d # NULL
    BY NullAssumption
  <2>6. ASSUME NEW d \in Int, NEW t \in TimeOfDay PROVE DateTime(d, t) # NULL
    <3>1. t # NULL
      BY NoTimeAssumption
    <3>2. [day |-> d, time |-> t] # NULL
      <4>1. [day |-> d, time |-> t] \in [day : Int, time : TimeOfDay]
        OBVIOUS
      <4>2. QED BY <4>1, NullAssumption
    <3>3. QED BY <3>1, <3>2 DEF DateTime
  <2>7. cell.type \in {"time", "datetime2", "datetimeoffset"} =>
          /\ TimeOfTicks(cell.time) \in TimeOfDay /\ TimeOfTicks(cell.time) # NULL
          /\ SinceMidnight(TimeOfTicks(cell.time)) = cell.time * NanosPerTick
    BY <2>2, CellIs, TicksBack
  <2>8. CASE target = "date"
    <3>1. read = ReadDate(cell)
      BY <2>2, <2>8 DEF ReadAs
    <3>2. Holds(cell.type, target) <=> cell.type \in {"date", "datetime2", "datetime"}
      BY <2>8 DEF Holds
    <3>3. cell.type \in {"date", "datetime2"} => ReadDate(cell) # NULL
      BY <2>3, <2>5 DEF ReadDate
    <3>4. cell.type = "datetime" => ReadDate(cell) # NULL
      BY <2>4, <2>5 DEF ReadDate
    <3>5. cell.type \notin {"date", "datetime2", "datetime"} => ReadDate(cell) = NULL
      BY DEF ReadDate
    <3>6. QED BY <2>8, <3>1, <3>2, <3>3, <3>4, <3>5
  <2>9. CASE target = "time"
    <3>1. read = ReadTime(cell)
      BY <2>2, <2>9 DEF ReadAs
    <3>2. Holds(cell.type, target) <=> cell.type = "time"
      BY <2>9 DEF Holds
    <3>3. ReadTime(cell) # NULL <=> cell.type = "time"
      BY <2>7 DEF ReadTime
    <3>4. QED BY <2>9, <3>1, <3>2, <3>3
  <2>10. CASE target = "datetime"
    <3>1. read = ReadDateTime(cell)
      BY <2>2, <2>10 DEF ReadAs
    <3>2. Holds(cell.type, target) <=> cell.type \in {"datetime2", "datetime", "smalldatetime"}
      BY <2>10 DEF Holds
    <3>3. cell.type = "datetime2" => ReadDateTime(cell) # NULL
      BY <2>3, <2>6, <2>7 DEF ReadDateTime
    <3>4. cell.type = "datetime" => ReadDateTime(cell) # NULL
      <4>1. SUFFICES ASSUME cell.type = "datetime" PROVE ReadDateTime(cell) # NULL
        OBVIOUS
      <4>2. LegacyTime(cell.time) \in TimeOfDay
        BY <2>2, <4>1, CellIs, LegacyUnits
      <4>3. ReadDateTime(cell) = DateTime(LegacyDay(cell.day), LegacyTime(cell.time))
        BY <4>1 DEF ReadDateTime
      <4>4. QED BY <2>4, <2>6, <4>2, <4>3
    <3>5. cell.type = "smalldatetime" => ReadDateTime(cell) # NULL
      <4>1. SUFFICES ASSUME cell.type = "smalldatetime" PROVE ReadDateTime(cell) # NULL
        OBVIOUS
      <4>2. cell.time < HoursPerDay * MinutesPerHour
        BY <2>2, <4>1, CellIs
      <4>3. /\ HoursPerDay * MinutesPerHour \in Int /\ SecondsPerMinute \in Nat \ {0}
            /\ SecondsPerDay = (HoursPerDay * MinutesPerHour) * SecondsPerMinute
        <5>1. HoursPerDay \in Int /\ MinutesPerHour \in Int /\ SecondsPerMinute \in Nat \ {0}
          BY Units
        <5>2. QED BY <5>1, Ring DEF SecondsPerDay
      <4>4. cell.time * SecondsPerMinute \in Nat /\ cell.time * SecondsPerMinute < SecondsPerDay
        <5>1. 0 * SecondsPerMinute <= cell.time * SecondsPerMinute
              /\ cell.time * SecondsPerMinute \in Int
              /\ cell.time * SecondsPerMinute < (HoursPerDay * MinutesPerHour) * SecondsPerMinute
          BY <2>3, <4>2, <4>3, Mono
        <5>2. QED BY <4>3, <5>1
      <4>5. TimeOfSeconds(cell.time * SecondsPerMinute, 0) \in TimeOfDay
        BY <4>4, SecondsBack
      <4>6. ReadDateTime(cell)
              = DateTime(LegacyDay(cell.day), TimeOfSeconds(cell.time * SecondsPerMinute, 0))
        BY <4>1 DEF ReadDateTime
      <4>7. QED BY <2>4, <2>6, <4>5, <4>6
    <3>6. cell.type \notin {"datetime2", "datetime", "smalldatetime"} => ReadDateTime(cell) = NULL
      BY DEF ReadDateTime
    <3>7. QED BY <2>10, <3>1, <3>2, <3>3, <3>4, <3>5, <3>6
  <2>11. CASE target = "instant"
    <3> DEFINE at == TimeOfTicks(cell.time)
               late == lib = "jiff" /\ ~FitsTimestamp(cell.day, at)
    <3>1. read = ReadInstant(cell)
      BY <2>2, <2>11 DEF ReadAs
    <3>2. Holds(cell.type, target) <=> cell.type = "datetimeoffset"
      BY <2>11 DEF Holds
    <3>3. cell.type # "datetimeoffset" => ReadInstant(cell) = NULL
      BY DEF ReadInstant
    <3>4. ASSUME cell.type = "datetimeoffset"
          PROVE  ReadInstant(cell) = NULL <=>
                   lib = "jiff" /\ \/ cell.day > JiffLastDay
                                   \/ /\ cell.day = JiffLastDay
                                      /\ cell.time * NanosPerTick >= (JiffLastSecond + 1) * NanosPerSecond
      <4>1. at \in TimeOfDay /\ at # NULL /\ SinceMidnight(at) = cell.time * NanosPerTick
        BY <2>7, <3>4
      <4> HIDE DEF at
      <4>2. [day |-> cell.day, time |-> at, offset |-> cell.offset * SecondsPerMinute] # NULL
        <5>1. cell.offset * SecondsPerMinute \in Int
          BY <2>3, Units, Ring
        <5>2. [day |-> cell.day, time |-> at, offset |-> cell.offset * SecondsPerMinute]
                \in [day : Int, time : TimeOfDay, offset : Int]
          BY <2>3, <4>1, <5>1
        <5>3. QED BY <5>2, NullAssumption
      <4>3. ReadInstant(cell) = NULL <=> late
        BY <3>4, <4>1, <4>2 DEF ReadInstant, at
      <4>4. /\ cell.time * NanosPerTick \in Int /\ (JiffLastSecond + 1) * NanosPerSecond \in Int
            /\ JiffLastDay \in Int
        BY <2>3, Units, Ring, TemporalAssumption, UnitsAssumption
      <4>5. ~FitsTimestamp(cell.day, at) <=>
              \/ cell.day > JiffLastDay
              \/ /\ cell.day = JiffLastDay
                 /\ cell.time * NanosPerTick >= (JiffLastSecond + 1) * NanosPerSecond
        BY <2>3, <4>1, <4>4 DEF FitsTimestamp
      <4>6. QED BY <4>3, <4>5
    <3>5. QED BY <2>11, <3>1, <3>2, <3>3, <3>4
  <2>12. QED BY <2>2, <2>8, <2>9, <2>10, <2>11 DEF Kinds
<1>2. QED BY <1>1, TemporalInvariance, PTL

==============================================================================
