------------------------------ MODULE StmClock -------------------------------
(* BSW/Driver/stm.c: a 64-bit time read in halves from a counter that does    *)
(* not stand still, and its conversion to microseconds.                      *)
(*                                                                           *)
(* The halves are numbers below HALF.  Between any two accesses the counter   *)
(* may advance by anything: interrupts come in between.  The conversion       *)
(* divides by a float, so the time is rounded to the float's PRECISION        *)
(* significant bits, divided, rounded again, and then cut to an integer.      *)
EXTENDS Integers

CONSTANTS
    HALF,           \* values of one half of the counter: 2^32
    LAST_UPPER,     \* bound on the upper half
    PRECISION,      \* significant bits of a float: 24
    TICKS_PER_US    \* frequency / 1000000: 100

ASSUME StmAssumption ==
    /\ HALF \in Nat \ {0}
    /\ LAST_UPPER \in Nat
    /\ PRECISION \in Nat \ {0}
    /\ TICKS_PER_US \in Nat \ {0}

VARIABLES
    time,       \* the counter: MODULE_STM0.TIM6 and TIM0
    load,       \* "idle", or the next load: "upper", "lower", "upper" half "again"
    upper1,
    lower,
    result,     \* the value last returned
    called      \* history: the counter at the last call

stmVars == <<time, load, upper1, lower, result, called>>

Uppers == 0 .. LAST_UPPER
Lowers == 0 .. HALF - 1
Times == [upper : Uppers, lower : Lowers]

\* One time is not later than another.
NotAfter(s, t) == s.upper < t.upper \/ (s.upper = t.upper /\ s.lower <= t.lower)

StmTypeOK ==
    /\ time \in Times
    /\ load \in {"idle", "upper", "lower", "again"}
    /\ upper1 \in Uppers
    /\ lower \in Lowers
    /\ result \in Times
    /\ called \in Times

-----------------------------------------------------------------------------
(* The read.                                                                 *)

StmInit ==
    /\ time \in Times
    /\ load = "idle"
    /\ upper1 = 0
    /\ lower = 0
    /\ result = [upper |-> 0, lower |-> 0]
    /\ called = result

\* The hardware counts.
Advance ==
    /\ \E later \in Times : NotAfter(time, later) /\ time' = later
    /\ UNCHANGED <<load, upper1, lower, result, called>>

\* STM0_getTime10ns is called ...
Call ==
    /\ load = "idle"
    /\ called' = time
    /\ load' = "upper"
    /\ UNCHANGED <<time, upper1, lower, result>>

\* ... and loads the upper half ...
LoadUpper ==
    /\ load = "upper"
    /\ upper1' = time.upper
    /\ load' = "lower"
    /\ UNCHANGED <<time, lower, result, called>>

\* ... the lower ...
LoadLower ==
    /\ load = "lower"
    /\ lower' = time.lower
    /\ load' = "again"
    /\ UNCHANGED <<time, upper1, result, called>>

\* ... and the upper again: unchanged, the two belong together ...
Accept ==
    /\ load = "again"
    /\ time.upper = upper1
    /\ result' = [upper |-> upper1, lower |-> lower]
    /\ load' = "idle"
    /\ UNCHANGED <<time, upper1, lower, called>>

\* A plausible slip: only the upper half is loaded again.
Retry_KeepsLower ==
    /\ load = "again"
    /\ time.upper # upper1
    /\ upper1' = time.upper
    /\ UNCHANGED <<time, load, lower, result, called>>

\* ... changed, all over.
Retry ==
    /\ load = "again"
    /\ time.upper # upper1
    /\ load' = "upper"
    /\ UNCHANGED <<time, upper1, lower, result, called>>

STM0_getTime10ns == Call \/ LoadUpper \/ LoadLower \/ Accept \/ Retry

StmNext == Advance \/ STM0_getTime10ns

StmSpec == StmInit /\ [][StmNext]_stmVars

-----------------------------------------------------------------------------
(* The conversion.                                                           *)

\* The powers of two.
Power[e \in Nat] == IF e = 0 THEN 1 ELSE 2 * Power[e - 1]

\* The least power of two above n / d: the unit in the last place of that
\* quotient as a float, in units of 2^-PRECISION.
Fits(n, d, e) == n < d * Power[e]
Exponent(n, d) == CHOOSE e \in 0 .. n : Fits(n, d, e) /\ \A f \in 0 .. e - 1 : ~Fits(n, d, f)
Ulp(n, d) == Power[Exponent(n, d)]

\* The integer nearest to a / b, ties to even.
Nearest(a, b) ==
    LET floor == a \div b
        rest == a % b
        up == 2 * rest > b \/ (2 * rest = b /\ floor % 2 = 1)
    IN  IF up THEN floor + 1 ELSE floor

\* n / d to the nearest float, in units of 2^-PRECISION.
Quotient(n, d) == Nearest(n * Power[PRECISION], d * Ulp(n, d)) * Ulp(n, d)

\* The integer part of such a number.
Whole(q) == q \div Power[PRECISION]

\* A plausible slip: the upper half is shifted out of 32 bits.
Ticks_Narrow(t) == t.lower

\* The two halves put together.
Ticks(t) == t.upper * HALF + t.lower

\* STM0_getTimeUs: the tick count as a float, divided by a float, cut.
STM0_getTimeUs(t) == Whole(Quotient(Whole(Quotient(Ticks(t), 1)), TICKS_PER_US))

-----------------------------------------------------------------------------
(* Properties.                                                               *)

\* The value returned is one the counter had, or passed, during the call: no
\* torn pair of an old half and a new one, however often the lower half
\* overflows between the loads.
ReadWithinCall ==
    load = "idle" => NotAfter(called, result) /\ NotAfter(result, time)

\* The microseconds one caller reads never go back, for all the rounding.
NeverGoesBack == [][STM0_getTimeUs(result') >= STM0_getTimeUs(result)]_stmVars

=============================================================================
