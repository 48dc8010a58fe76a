------------------------------ MODULE Temporal ------------------------------
(***************************************************************************)
(* Dates and times on their way to SQL Server and back: ToSql (query.rs)   *)
(* and FromSql (row.rs) for chrono, time and jiff.  A value is bound as a  *)
(* parameter, stored, and read from a row as the same or another type.     *)
(*                                                                         *)
(* A date is the number of days since 0001-01-01 and the calendars of the  *)
(* three libraries are external.  Figures in parentheses are the real ones.*)
(***************************************************************************)
EXTENDS TemporalUnits

CONSTANTS
  LegacyPerSecond,    \* units of SqlDateTime::time in a second (300)
  LegacyEpoch,        \* 1900-01-01
  MaxOffset,          \* minutes SQL Server accepts in an offset (840)
  JiffLastDay, JiffLastSecond,  \* the second that holds jiff's Timestamp::MAX
  Days, Nanos, Offsets          \* the days, nanoseconds and offsets of values

LegacyPerDay == SecondsPerDay * LegacyPerSecond

ASSUME TemporalAssumption ==
  /\ LegacyPerSecond \in Nat \ {0} /\ 3 * MillisPerSecond = 10 * LegacyPerSecond
  /\ LegacyEpoch \in 0..LastDay /\ JiffLastDay \in 0..LastDay
  /\ JiffLastSecond \in 0..(SecondsPerDay - 1) /\ MaxOffset \in Nat
  /\ Days \subseteq Int /\ Offsets \subseteq Int
  /\ Nanos \subseteq 0..(2 * NanosPerSecond - 1)

\* None is no date, and nothing that is bound or read.
ASSUME NullAssumption ==
  NULL \notin Int
    \cup [kind : {"date", "time", "datetime", "instant"}, day : Int, time : TimeOfDay, offset : Int]
    \cup [day : Int, time : TimeOfDay] \cup [day : Int, time : TimeOfDay, offset : Int]

Libraries == {"chrono", "time", "jiff"}
Kinds == {"date", "time", "datetime", "instant"}

\* A time of day; only chrono has leap seconds, as nanoseconds of a second
\* or more in the last second of a minute.
Leap(t) == t.nano >= NanosPerSecond
Times(library) ==
  {t \in [hour : 0..(HoursPerDay - 1), minute : 0..(MinutesPerHour - 1),
          second : 0..(SecondsPerMinute - 1), nano : Nanos] :
     Leap(t) => library = "chrono" /\ t.second = SecondsPerMinute - 1}
Midnight == [hour |-> 0, minute |-> 0, second |-> 0, nano |-> 0]

\* Timestamp::new and its callers know no instant after Timestamp::MAX.
FitsTimestamp(day, time) ==
  day < JiffLastDay \/ (day = JiffLastDay
    /\ SinceMidnight(time) < (JiffLastSecond + 1) * NanosPerSecond)

\* What callers bind: for an instant, its date and time in UTC and its offset.
Values(library) ==
       [kind : {"date"}, day : Days, time : {Midnight}, offset : {0}]
  \cup [kind : {"time"}, day : {0}, time : Times(library), offset : {0}]
  \cup [kind : {"datetime"}, day : Days, time : Times(library), offset : {0}]
  \cup {v \in [kind : {"instant"}, day : Days, time : Times(library), offset : Offsets] :
          library = "jiff" => FitsTimestamp(v.day, v.time)}

\* What a row may hold: time, datetime2 and datetimeoffset in ticks, datetime in
\* its own units, smalldatetime in minutes.
Cells ==
       [type : {"date"}, day : 0..LastDay, time : {0}, offset : {0}]
  \cup [type : {"time"}, day : {0}, time : 0..(TicksPerDay - 1), offset : {0}]
  \cup [type : {"datetime2"}, day : 0..LastDay, time : 0..(TicksPerDay - 1), offset : {0}]
  \cup [type : {"datetimeoffset"}, day : 0..LastDay, time : 0..(TicksPerDay - 1),
        offset : (-MaxOffset)..MaxOffset]
  \cup [type : {"datetime"}, day : (-LegacyEpoch)..(LastDay - LegacyEpoch),
        time : 0..(LegacyPerDay - 1), offset : {0}]
  \cup [type : {"smalldatetime"}, day : 0..(LastDay - LegacyEpoch),
        time : 0..(HoursPerDay * MinutesPerHour - 1), offset : {0}]

VARIABLES
  phase,   \* "bound", "panicked", "sent", "refused", "stored" or "read"
  lib,     \* the library of the caller's types
  value,   \* what was bound, NULL for a cell that came from elsewhere
  cell,    \* the parameter, then the stored cell
  target,  \* the kind it was read as
  read     \* what the caller read, NULL for None

vars == <<phase, lib, value, cell, target, read>>

-----------------------------------------------------------------------------
(* ToSql *)

\* The field named time_nanoseconds is given nanoseconds.
SlipTicksOf(t) == SinceMidnight(t)

TicksOf(t) == SinceMidnight(t) \div NanosPerTick

\* u32::try_from and SqlDate::create, whose failures panic.
DateFits(day) == day \in 0..LastDay

\* seconds / 60 as Rust divides: towards zero.
OffsetMinutes(seconds) ==
  IF seconds >= 0 THEN seconds \div SecondsPerMinute
  ELSE -((-seconds) \div SecondsPerMinute)

SqlTypeOf(kind) ==
  CASE kind = "date" -> "date" [] kind = "time" -> "time"
    [] kind = "datetime" -> "datetime2" [] kind = "instant" -> "datetimeoffset"

Bind ==
  /\ phase = "bound"
  /\ IF DateFits(value.day)
     THEN /\ phase' = "sent"
          /\ cell' = [type |-> SqlTypeOf(value.kind), day |-> value.day,
                      time |-> TicksOf(value.time), offset |-> OffsetMinutes(value.offset)]
     ELSE phase' = "panicked" /\ UNCHANGED cell
  /\ UNCHANGED <<lib, value, target, read>>

\* SQL Server stores the values its types have (external).
Store ==
  /\ phase = "sent"
  /\ phase' = IF cell.time < TicksPerDay /\ cell.offset \in (-MaxOffset)..MaxOffset
              THEN "stored" ELSE "refused"
  /\ UNCHANGED <<lib, value, cell, target, read>>

-----------------------------------------------------------------------------
(* FromSql: an operator per Rust type, giving NULL for None *)

\* Whole units of 10 ms first.
SlipLegacyTime(units) ==
  LET millis == (units \div 3) * 10
  IN TimeOfSeconds(millis \div MillisPerSecond, (millis % MillisPerSecond) * NanosPerMilli)

\* Units of datetime are three to 10 ms; the fraction of a millisecond is lost.
LegacyTime(units) ==
  LET millis == (units * 10) \div 3
  IN TimeOfSeconds(millis \div MillisPerSecond, (millis % MillisPerSecond) * NanosPerMilli)

\* The days of datetime and smalldatetime count from 1900-01-01.
LegacyDay(days) == LegacyEpoch + days

\* The days of a datetime are taken for those of a datetime2.
SlipReadDate(c) ==
  IF c.type \in {"date", "datetime2", "datetime"} THEN c.day ELSE NULL

ReadDate(c) ==
  CASE c.type \in {"date", "datetime2"} -> c.day
    [] c.type = "datetime"              -> LegacyDay(c.day)
    [] OTHER                            -> NULL

ReadTime(c) == IF c.type = "time" THEN TimeOfTicks(c.time) ELSE NULL

DateTime(day, time) == IF time = NULL THEN NULL ELSE [day |-> day, time |-> time]

\* smalldatetime is not a NaiveDateTime.
SlipReadDateTime(c) ==
  CASE c.type = "datetime2"     -> DateTime(c.day, TimeOfTicks(c.time))
    [] c.type = "datetime"      -> DateTime(LegacyDay(c.day), LegacyTime(c.time))
    [] OTHER                    -> NULL

ReadDateTime(c) ==
  CASE c.type = "datetime2"     -> DateTime(c.day, TimeOfTicks(c.time))
    [] c.type = "datetime"      -> DateTime(LegacyDay(c.day), LegacyTime(c.time))
    [] c.type = "smalldatetime" ->
         DateTime(LegacyDay(c.day), TimeOfSeconds(c.time * SecondsPerMinute, 0))
    [] OTHER                    -> NULL

ReadInstant(c) ==
  LET time == TimeOfTicks(c.time)
  IN IF c.type # "datetimeoffset" \/ time = NULL THEN NULL
     ELSE IF lib = "jiff" /\ ~FitsTimestamp(c.day, time) THEN NULL
     ELSE [day |-> c.day, time |-> time, offset |-> c.offset * SecondsPerMinute]

ReadAs(kind, c) ==
  CASE kind = "date" -> ReadDate(c) [] kind = "time" -> ReadTime(c)
    [] kind = "datetime" -> ReadDateTime(c) [] kind = "instant" -> ReadInstant(c)

FromSql(kind) ==
  /\ phase = "stored" /\ phase' = "read"
  /\ target' = kind /\ read' = ReadAs(kind, cell)
  /\ UNCHANGED <<lib, value, cell>>

-----------------------------------------------------------------------------

\* A value is bound here, or the row holds what another program stored.
Init ==
  /\ lib \in Libraries
  /\ \/ phase = "bound" /\ value \in Values(lib) /\ cell = NULL
     \/ phase = "stored" /\ value = NULL /\ cell \in Cells
  /\ target = NULL /\ read = NULL

Next == Bind \/ Store \/ \E kind \in Kinds : FromSql(kind)

Spec == Init /\ [][Next]_vars

-----------------------------------------------------------------------------

\* What is read back is the instant that was bound, less what a tick cannot
\* hold, for every library, a leap second counting as the next second; a
\* date is the same date and the offset loses its odd seconds and no more
\* (naive_time_to_sql, time_to_sql, date_to_sql and their FromSql).
RoundTrip ==
  phase = "read" /\ value # NULL /\ target = value.kind /\ read # NULL =>
    LET exact == SinceMidnight(value.time)
        lost(t) == exact - SinceMidnight(t)
    IN CASE target = "date"     -> read = value.day
         [] target = "time"     -> lost(read) = exact % NanosPerTick
         [] target = "datetime" -> /\ read.day = value.day
                                   /\ lost(read.time) = exact % NanosPerTick
         [] target = "instant"  ->
              /\ read.day = value.day /\ lost(read.time) = exact % NanosPerTick
              /\ read.offset - value.offset \in (1 - SecondsPerMinute)..(SecondsPerMinute - 1)
              /\ value.offset % SecondsPerMinute = 0 => read.offset = value.offset

\* "Date-bearing temporal implementations panic if the stored date is outside
\* SQL Server's range" (ToSql::to_sql) and no other value panics; the server
\* refuses what the bridge sends only for a leap second that ends the day, or for
\* an offset that SQL Server does not have; the rest is stored as a cell of the
\* parameter's type.
RejectedOnlyAtEdges ==
  /\ phase = "panicked" => value.kind # "time" /\ value.day \notin 0..LastDay
  /\ phase = "refused" =>
       \/ Leap(value.time) /\ SinceMidnight(value.time) >= NanosPerDay
       \/ value.offset \notin (-MaxOffset * SecondsPerMinute)..(MaxOffset * SecondsPerMinute)
  /\ phase = "stored" => cell \in Cells

\* The same cell read as a date and as a date and time has the same date.
DatesAgree ==
  phase = "stored" =>
    LET date == ReadDate(cell) dt == ReadDateTime(cell)
    IN date # NULL /\ dt # NULL => dt.day = date

\* Two different datetime cells of one day never read as the same time, later
\* ones read as later, and what is lost is less than a millisecond.
LegacyTimesApart ==
  phase = "stored" /\ cell.type = "datetime" =>
    LET at(units) == SinceMidnight(LegacyTime(units))
        error == cell.time * MillisPerSecond * NanosPerMilli - at(cell.time) * LegacyPerSecond
    IN /\ cell.time + 1 < LegacyPerDay => at(cell.time) < at(cell.time + 1)
       /\ error \in 0..(LegacyPerSecond * NanosPerMilli - 1)

\* The types that hold what a kind needs.
Holds(type, kind) ==
  CASE kind = "date"     -> type \in {"date", "datetime2", "datetime"}
    [] kind = "time"     -> type = "time"
    [] kind = "datetime" -> type \in {"datetime2", "datetime", "smalldatetime"}
    [] kind = "instant"  -> type = "datetimeoffset"

\* A cell that holds what was asked for reads as a value: None, which get()
\* cannot tell from NULL, is left to jiff's instants after Timestamp::MAX.
NoValueLost ==
  phase = "read" =>
    (read = NULL <=> \/ ~Holds(cell.type, target)
                     \/ /\ target = "instant" /\ lib = "jiff"
                        /\ \/ cell.day > JiffLastDay
                           \/ /\ cell.day = JiffLastDay
                              /\ cell.time * NanosPerTick >= (JiffLastSecond + 1) * NanosPerSecond)
=============================================================================
