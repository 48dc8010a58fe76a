---------------------------- MODULE MCArrowValues ----------------------------
(* A day of 2 * 2 * 3 seconds of 80 ns; 64-bit nanoseconds reach four days   *)
(* and a half from 1970, and the SQL types some ten days.                    *)
EXTENDS ArrowValues

MCAmounts == (-25..25) \cup (-(MaxInt64 + 1) .. -(MaxInt64 - 3))
               \cup (MaxInt64 - 3 .. MaxInt64) \cup {950 + k : k \in 0..20}
               \cup {-970 + k : k \in 0..20} \cup {238, 239, 240, 241, -240, -241}
MCCoefficients == (-12..12) \cup {99, 100, 101, -99, -100, 999, 1000, -1000, 9999, -10000}
=============================================================================
