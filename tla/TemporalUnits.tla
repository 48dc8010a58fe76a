--------------------------- MODULE TemporalUnits ---------------------------
(***************************************************************************)
(* Times of day as query.rs and row.rs count them, in SqlTime's units of   *)
(* 100 ns.  The units are parameters, so that a model of a day may be      *)
(* short; the real ones are in parentheses.                                *)
(***************************************************************************)
EXTENDS Integers

CONSTANTS
  HoursPerDay, MinutesPerHour, SecondsPerMinute,  \* (24, 60, 60)
  NanosPerTick,       \* nanoseconds in a unit of SqlTime::time_nanoseconds (100)
  NanosPerMilli,      \* (1 000 000)
  MillisPerSecond,    \* (1000)
  LastDay,            \* 9999-12-31
  NULL                \* None

SecondsPerDay == HoursPerDay * MinutesPerHour * SecondsPerMinute
NanosPerSecond == NanosPerMilli * MillisPerSecond
NanosPerDay == SecondsPerDay * NanosPerSecond
TicksPerDay == NanosPerDay \div NanosPerTick

ASSUME UnitsAssumption ==
  /\ \A unit \in {HoursPerDay, MinutesPerHour, SecondsPerMinute, NanosPerTick,
                  NanosPerMilli, MillisPerSecond} : unit \in Nat \ {0}
  /\ NanosPerMilli % NanosPerTick = 0
  /\ LastDay \in Nat

\* None is no time of day.
TimeOfDay == [hour : Int, minute : Int, second : Int, nano : Int]
ASSUME NoTimeAssumption == NULL \notin TimeOfDay

\* The nanoseconds since midnight of a time of day, leap second included.
SinceMidnight(t) ==
  ((t.hour * MinutesPerHour + t.minute) * SecondsPerMinute + t.second)
    * NanosPerSecond + t.nano

\* chrono's from_num_seconds_from_midnight_opt, and the fields of the result.
TimeOfSeconds(seconds, nano) ==
  IF seconds >= SecondsPerDay THEN NULL
  ELSE [hour   |-> seconds \div (MinutesPerHour * SecondsPerMinute),
        minute |-> (seconds \div SecondsPerMinute) % MinutesPerHour,
        second |-> seconds % SecondsPerMinute,
        nano   |-> nano]

\* The field named time_nanoseconds is taken at its name.
SlipTimeOfTicks(ticks) ==
  TimeOfSeconds(ticks \div NanosPerSecond, ticks % NanosPerSecond)

TimeOfTicks(ticks) ==
  LET nanos == ticks * NanosPerTick
  IN TimeOfSeconds(nanos \div NanosPerSecond, nanos % NanosPerSecond)
=============================================================================
