------------------------------- MODULE Group -------------------------------
(***************************************************************************)
(* generate/group.c: how the rows of a column are split into groups of     *)
(* equal value.  A partition is the sequence of the groups' sizes.         *)
(* parse_grp_count guarantees 1 <= count <= rows.                          *)
(***************************************************************************)
EXTENDS Integers, Sequences, Functions

(* A slip for comparison: the remainder of the division is dropped. *)
EvenNoRemainder(count, rows) == [i \in 1..count |-> rows \div count]

partition_groups_even(count, rows) ==
    [i \in 1..count |-> rows \div count + IF i <= rows % count THEN 1 ELSE 0]

(* group[i] = slope * i + 1.0 for i = 0, 1, ..., where slope is            *)
(* 2 (rows - count) / count^2: groups_linear_slope.                        *)
LinearSize(i, count, rows) == 1 + (2 * i * (rows - count)) \div (count * count)

(* The code adds slope in doubles and truncates.  The exact sum is a       *)
(* multiple of 1 / count^2, so an error can only show where the exact sum  *)
(* is an integer: the truncated value may then be one too low.  This holds *)
(* while the error stays below 1 / count^2.  Slope and sums together are   *)
(* off by less than 7 rows / 2^53, so it holds, whatever the count, for up *)
(* to so many rows; linear partitions of more are not modelled.            *)
LinearRowsMax == 100000

(* The indices whose exact sum is an integer. *)
Exact(count, rows) ==
    {i \in 1..count - 1 : /\ rows > count
                          /\ (2 * i * (rows - count)) % (count * count) = 0}

(* low is the set of indices where the addition came out low. *)
LinearBase(count, rows, low) ==
    [i \in 1..count |-> LinearSize(i - 1, count, rows) - IF i - 1 \in low THEN 1 ELSE 0]

(* The rows the truncation loses are spread evenly, the first groups       *)
(* taking what is left over.                                               *)
partition_groups_linear(count, rows, low) ==
    LET base  == LinearBase(count, rows, low)
        under == rows - SumFunction(base)
    IN  [i \in 1..count |-> base[i] + under \div count
                            + IF i <= under % count THEN 1 ELSE 0]

(* The partitions the program may compute. *)
Partitions(kind, count, rows) ==
    IF kind = "even" THEN {partition_groups_even(count, rows)}
    ELSE {partition_groups_linear(count, rows, low) : low \in SUBSET Exact(count, rows)}
=============================================================================
