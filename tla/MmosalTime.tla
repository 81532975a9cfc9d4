----------------------------- MODULE MmosalTime -----------------------------
(***************************************************************************)
(* The wrapping millisecond clock of mmosal.h.  A time is an unsigned      *)
(* integer of TimeBits bits (32 in the code); two times are compared by    *)
(* the sign of their difference.                                           *)
(***************************************************************************)
EXTENDS Integers

CONSTANT TimeBits

ASSUME TimeBitsAssumption == TimeBits \in Nat \ {0}

Wrap == 2 ^ TimeBits
Half == 2 ^ (TimeBits - 1)
Time == 0 .. Wrap - 1

TimePlus(t, d) == (t + d) % Wrap

\* The unsigned difference a - b, which the code reinterprets as int32_t.
TimeDiff(a, b) == (a - b) % Wrap

\* mmosal_time_lt: (int32_t)(a - b) < 0
TimeLt(a, b) == TimeDiff(a, b) >= Half

\* mmosal_time_le: (int32_t)(a - b) <= 0
TimeLe(a, b) == a = b \/ TimeLt(a, b)
=============================================================================
