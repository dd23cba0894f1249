--------------------------- MODULE AslCalibration ---------------------------
(***************************************************************************)
(* asl_joint_calibration_t and the conversion of a Q4.12 angle into the    *)
(* raw position of a motor.  counts_per_radian_q16 is kept as its whole    *)
(* part and its 16 fractional bits, so that the 64-bit product need not be *)
(* formed:  (angle * (whole * 2^16 + fraction) + 2^27) \div 2^28  is the   *)
(* expression of Counts, exactly.                                          *)
(***************************************************************************)
EXTENDS AslActionPlayer

Int8   == -128 .. 127
Word16 == 0 .. One - 1

Q12One  == 4096
Q12Half == 2048

\* Rows of the table as C declares them; a valid one passes Calibrated.
Calibration ==
    [center_raw : Int16, minimum_raw : Int16, maximum_raw : Int16,
     direction : Int8, valid : BOOLEAN, whole : Word16, fraction : Word16]

\* asl_joint_calibration_table_valid, for one joint
Calibrated(row) ==
    /\ row.valid
    /\ row.whole # 0 \/ row.fraction # 0
    /\ row.direction = 1 \/ row.direction = -1
    /\ row.minimum_raw <= row.center_raw
    /\ row.center_raw <= row.maximum_raw

Magnitude(angle) == IF angle >= 0 THEN angle ELSE -angle

\* A mutant: truncated instead of rounded.
CountsTruncated(angle, row) ==
    (Magnitude(angle) * row.whole + (Magnitude(angle) * row.fraction) \div One)
        \div Q12One

\* The counts of an angle, rounded half away from zero.
Counts(angle, row) ==
    (Magnitude(angle) * row.whole + (Magnitude(angle) * row.fraction) \div One
        + Q12Half) \div Q12One

Signed(angle, value) == IF angle < 0 THEN -value ELSE value

WithinLimits(raw, row) ==
    IF raw < row.minimum_raw THEN row.minimum_raw
    ELSE IF raw > row.maximum_raw THEN row.maximum_raw
    ELSE raw

\* asl_q12_to_raw_positions, for one joint of a valid table
RawPosition(angle, row) ==
    WithinLimits(row.center_raw + row.direction * Signed(angle, Counts(angle, row)),
                 row)

-----------------------------------------------------------------------------

CONSTANT calibration    \* joint |-> its row

ASSUME CalibrationAssumption ==
    \A j \in Joints : calibration[j] \in Calibration /\ Calibrated(calibration[j])

\* The angle in 4096ths of a count, exact but for what the fraction loses.
Exact(angle, row) ==
    row.direction * angle * row.whole + (row.direction * angle * row.fraction) \div One

\* To half a count, and 2^-12 of one for what the fraction loses.
Near(off) == -(Q12Half + 1) <= off /\ off <= Q12Half + 1

\* The position sent for a sample is inside the limits of its motor, and is the
\* count nearest to the angle unless the limits cut it off: then it is the
\* limit on that side.
CommandIsNearest ==
    \A j \in Joints :
        LET row == calibration[j]
            raw == RawPosition(current_q12[j], row)
            off == (raw - row.center_raw) * Q12One - Exact(current_q12[j], row)
        IN  /\ raw \in row.minimum_raw .. row.maximum_raw
            /\ \/ Near(off)
               \/ raw = row.minimum_raw /\ off > 0
               \/ raw = row.maximum_raw /\ off < 0
=============================================================================
