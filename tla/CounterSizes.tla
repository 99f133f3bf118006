---------------------------- MODULE CounterSizes ----------------------------
(***************************************************************************)
(* The arithmetic of generate/counter.h: how many bytes the null-          *)
(* terminated decimal strings "1", "2", ..., "upto" take, computed from    *)
(* tables of one entry per magnitude (number of digits - 1).               *)
(***************************************************************************)
EXTENDS Integers, Sequences

UPTO_MAX == 99999999

(* MAG_x_MIN, SIZE_MAG_x_STR and SIZE_MAG_0_x_STR; entry m + 1 is for      *)
(* magnitude m.                                                            *)
MAG_MIN        == <<1, 10, 100, 1000, 10000, 100000, 1000000, 10000000>>
SIZE_MAG_STR   == <<2, 3, 4, 5, 6, 7, 8, 9>>
SIZE_MAG_0_STR == <<0, 18, 18 + 270, 18 + 270 + 3600, 18 + 270 + 3600 + 45000,
                    18 + 270 + 3600 + 45000 + 540000,
                    18 + 270 + 3600 + 45000 + 540000 + 6300000,
                    18 + 270 + 3600 + 45000 + 540000 + 6300000 + 72000000>>

(* The comparisons shared by the three size functions. *)
Mag(upto) ==
    IF upto < MAG_MIN[5]
    THEN IF upto < MAG_MIN[3] THEN IF upto < MAG_MIN[2] THEN 0 ELSE 1
                              ELSE IF upto < MAG_MIN[4] THEN 2 ELSE 3
    ELSE IF upto < MAG_MIN[7] THEN IF upto < MAG_MIN[6] THEN 4 ELSE 5
                              ELSE IF upto < MAG_MIN[8] THEN 6 ELSE 7

(* A slip for comparison: the first number of the magnitude is not counted. *)
SizeUptoShort(upto) ==
    LET m == Mag(upto)
    IN  SIZE_MAG_0_STR[m + 1] + SIZE_MAG_STR[m + 1] * (upto - MAG_MIN[m + 1])

(* counter_size_upto, and size_digits of counter_size_internals: the lower *)
(* magnitudes are full, the highest one is counted.                        *)
counter_size_upto(upto) ==
    LET m == Mag(upto)
    IN  SIZE_MAG_0_STR[m + 1] + SIZE_MAG_STR[m + 1] * (upto - (MAG_MIN[m + 1] - 1))

(* sizeof("upto") *)
counter_size_mag_upto(upto) == SIZE_MAG_STR[Mag(upto) + 1]
=============================================================================
