----------------------------- MODULE MCTemporal -----------------------------
(* A day of 2 * 2 * 3 seconds of 10 ms, 3 datetime units to 10 ms, 4 ns to  *)
(* the millisecond and 2 ns to the tick: every proportion the code relies   *)
(* on (10/3, whole ticks to the millisecond, truncated offsets) is kept.    *)
EXTENDS Temporal

MCDays == {-1, 0, 1, LastDay, LastDay + 1}
MCNanos == {0, 1, 2, 3, 4, 21, 39, 40, 41, 79}
MCOffsets == {-11, -9, -4, -3, -2, -1, 0, 1, 2, 3, 5, 9, 10, 11}
=============================================================================
