CONSTANTS
  HoursPerDay = 2
  MinutesPerHour = 2
  SecondsPerMinute = 3
  NanosPerTick = 2
  NanosPerMilli = 4
  MillisPerSecond = 10
  LegacyPerSecond = 3
  LastDay = 3
  LegacyEpoch = 2
  MaxOffset = 3
  JiffLastDay = 2
  JiffLastSecond = 9
  Days <- MCDays
  Nanos <- MCNanos
  Offsets <- MCOffsets
  NULL = NULL
SPECIFICATION Spec
INVARIANTS RoundTrip RejectedOnlyAtEdges DatesAgree
  LegacyTimesApart NoValueLost
CHECK_DEADLOCK FALSE
