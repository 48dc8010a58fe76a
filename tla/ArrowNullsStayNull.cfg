CONSTANTS
  HoursPerDay = 2
  MinutesPerHour = 2
  SecondsPerMinute = 3
  NanosPerTick = 2
  NanosPerMilli = 8
  MillisPerSecond = 10
  NanosPerMicro = 4
  LastDay = 21
  EpochDay = 10
  MaxInt64 = 4500
  MaxDigits = 4
  Amounts <- MCAmounts
  Coefficients <- MCCoefficients
  NULL = NULL
SPECIFICATION Spec
INVARIANT NullsStayNull
CHECK_DEADLOCK FALSE
