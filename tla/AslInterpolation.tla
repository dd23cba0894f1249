-------------------------- MODULE AslInterpolation --------------------------
(***************************************************************************)
(* The fixed-point arithmetic of the motion library: the quintic blend     *)
(* 10u^3 - 15u^4 + 6u^5 a joint follows within a keyframe (Q16, truncated  *)
(* after every product) and the interpolated Q4.12 position.               *)
(*                                                                         *)
(* Every step truncates as the C code does.  The products u*u are formed   *)
(* from bytes, the same numbers without intermediate values over 2^31.     *)
(***************************************************************************)
EXTENDS Integers

One   == 65536          \* ASL_BLEND_ONE_Q16
Half  == 32768
Int16 == -Half .. Half - 1

\* (a * b) >> 16 for a, b \in 0 .. 65535
MulShift16(a, b) == ((a \div 256) * b + ((a % 256) * b) \div 256) \div 256

\* 10u^3 - 15u^4 + 6u^5 before it is clamped; truncation takes it as far as
\* four units above One near the end of a segment.
RawBlend(elapsed, duration) ==
    LET u  == (elapsed * One) \div duration
        u2 == MulShift16(u, u)
        u3 == MulShift16(u2, u)
        u4 == MulShift16(u3, u)
        u5 == MulShift16(u4, u)
    IN  10 * u3 - 15 * u4 + 6 * u5

\* A mutant: the sum taken as it comes.
Unclamped(raw) == raw

Clamped(raw) == IF raw < 0 THEN 0 ELSE IF raw > One THEN One ELSE raw

Blend(elapsed, duration) == Clamped(RawBlend(elapsed, duration))

\* Rounded half away from zero: a signed division that truncates.
Moved(distance, blend) ==
    IF distance >= 0 THEN (distance * blend + Half) \div One
    ELSE -((-distance * blend + Half) \div One)

ToInt16(value) == ((value + Half) % One) - Half

\* asl_interpolate_q12 before the end of the segment; its blend is the same
\* for every joint of a sample.
Interpolate(start, target, blend) == ToInt16(start + Moved(target - start, blend))

Between(value, a, b) ==
    (a <= value /\ value <= b) \/ (b <= value /\ value <= a)

Distance(a, b)       == IF a <= b THEN b - a ELSE a - b
=============================================================================
