----------------------------- MODULE RandomSpec -----------------------------
(***************************************************************************)
(* Random integer columns: how RAND_SPECs of mysql_seed_generate.h become  *)
(* a generator, and which values random.h then draws with it.  The widths  *)
(* of the C and MySQL types are parameters, so that every value of them    *)
(* can be enumerated; the code has 8, 16, 24, 32 and 64 bits.  A width     *)
(* is given by half the number of its values, 2^31 for 32 bits.            *)
(***************************************************************************)
EXTENDS Integers, FiniteSets

CONSTANT Half   \* type -> half the number of values of its width

IntTypes == {"tinyint", "smallint", "mediumint", "int", "bigint"}

ASSUME WidthsAssumption ==
    /\ DOMAIN Half = IntTypes
    /\ \A t \in IntTypes : Half[t] \in Nat \ {0, 1}
    /\ Half["tinyint"] <= Half["smallint"] /\ Half["smallint"] <= Half["mediumint"]
    /\ Half["mediumint"] <= Half["int"] /\ 2 * Half["int"] <= Half["bigint"]

Pow(t) == 2 * Half[t]
IMin(t) == -Half[t]
IMax(t) == Half[t] - 1
UMax(t) == Pow(t) - 1

INT32_MIN == IMin("int")
INT32_MAX == IMax("int")
INT64_MIN == IMin("bigint")
INT64_MAX == IMax("bigint")
UINT32_MAX == UMax("int")
UINT64_MAX == UMax("bigint")

(* DIGIT_COUNT_x of int_string_attrs.h, uint_digit_count of string_utils.h *)
(* (the last comparison is with 10^19).                                    *)
uint_digit_count(n) ==
    CHOOSE d \in 1..20 : (d < 20 => n < 10 ^ d) /\ \A e \in 1..d - 1 : n >= 10 ^ e

DIGIT_COUNT == [INT32_MIN  |-> uint_digit_count(-INT32_MIN),
                INT64_MIN  |-> uint_digit_count(-INT64_MIN),
                INT64_MAX  |-> uint_digit_count(INT64_MAX),
                UINT32_MAX |-> uint_digit_count(UINT32_MAX),
                UINT64_MAX |-> uint_digit_count(UINT64_MAX)]

(* As with the real widths (10 and 19 digits), a negative 32-bit value is  *)
(* no longer than the greatest 64-bit one.                                 *)
ASSUME DigitsAssumption == DIGIT_COUNT.INT32_MIN + 1 <= DIGIT_COUNT.INT64_MAX

(* The bytes of a cell: digits, the sign of a negative value, the end. *)
Text(v) == IF v < 0 THEN uint_digit_count(-v) + 2 ELSE uint_digit_count(v) + 1

-----------------------------------------------------------------------------
(* The MySQL type of a column that counts from 1, or holds one value.      *)

type_assign_integer_min(min) ==
    IF min < IMin("smallint")
    THEN IF min < IMin("mediumint") THEN IF min < IMin("int") THEN "bigint" ELSE "int"
                                    ELSE "mediumint"
    ELSE IF min < IMin("tinyint") THEN "smallint" ELSE "tinyint"

(* type_assign_integer_max; type_assign_integer_upto is the same.          *)
type_assign_integer_max(max) ==
    IF max > IMax("smallint")
    THEN IF max > IMax("mediumint") THEN IF max > IMax("int") THEN "bigint" ELSE "int"
                                    ELSE "mediumint"
    ELSE IF max > IMax("tinyint") THEN "smallint" ELSE "tinyint"

type_assign_u_integer_max(max) ==
    IF max > UMax("smallint")
    THEN IF max > UMax("mediumint") THEN IF max > UMax("int") THEN "bigint" ELSE "int"
                                    ELSE "mediumint"
    ELSE IF max > UMax("tinyint") THEN "smallint" ELSE "tinyint"

type_assign_integer_upto(upto)   == type_assign_integer_max(upto)
type_assign_u_integer_upto(upto) == type_assign_u_integer_max(upto)

-----------------------------------------------------------------------------
(* Generators.  bits: the generator drawn from; result: the width of the   *)
(* sum with offset; width: width_max, the bytes set aside for a cell.      *)

(* A slip for comparison: the values that would wrap around are accepted. *)
NoThreshold(span, bits) == 0

(* -span % span in the arithmetic of span's own type.  A span of zero      *)
(* divides by zero: no value results.                                      *)
RANDOM_THRESHOLD(span, bits) ==
    IF span = 0 THEN 0 ELSE ((-span) % Pow(bits)) % span

Bound(type, bits, span, wide, result, offset, width) ==
    [type |-> type, bits |-> bits, span |-> span % Pow(bits),
     threshold |-> RANDOM_THRESHOLD(span % Pow(wide), wide) % Pow(bits),
     result |-> result, offset |-> offset, width |-> width, flags |-> {bits}]

(* generate_i_32, generate_i_64, generate_u_32, generate_u_64 *)
Unbound(bits, width) ==
    [type |-> bits, bits |-> bits, span |-> Pow(bits), threshold |-> 0,
     result |-> bits, offset |-> 0, width |-> width, flags |-> {bits}]

(* A slip for comparison: a narrow FROM is not drawn up to INT32_MAX only. *)
FromAlwaysWide(from) ==
    Bound("bigint", "bigint", (INT64_MAX - from + 1) % Pow("bigint"), "bigint", "bigint", from,
          DIGIT_COUNT.INT64_MIN + 2)

assign_integer_random_from(from) ==
    LET span == (INT64_MAX - from + 1) % Pow("bigint")
    IN  IF from < INT32_MIN
        THEN Bound("bigint", "bigint", span, "bigint", "bigint", from,
                   DIGIT_COUNT.INT64_MIN + 2)
        ELSE IF from > INT32_MAX
        THEN LET bits == IF span < UINT32_MAX THEN "int" ELSE "bigint"
             IN  Bound("bigint", bits, span, bits, "bigint", from, DIGIT_COUNT.INT64_MAX + 1)
        ELSE Bound("int", "int", INT32_MAX - from + 1, "int", "int", from,
                   DIGIT_COUNT.INT32_MIN + 2)

(* The 32-bit span is kept in a uint64_t: its threshold is taken of 64     *)
(* bits and then cut to 32.                                                *)
assign_integer_random_upto(upto) ==
    LET span == upto - INT64_MIN + 1
    IN  IF upto > INT32_MAX \/ (upto < INT32_MIN /\ span > UINT32_MAX)
        THEN Bound("bigint", "bigint", span, "bigint", "bigint", INT64_MIN,
                   DIGIT_COUNT.INT64_MIN + 2)
        ELSE IF upto < INT32_MIN
        THEN Bound("bigint", "int", span, "int", "bigint", INT64_MIN,
                   DIGIT_COUNT.INT64_MIN + 2)
        ELSE Bound("int", "int", upto - INT32_MIN + 1, "bigint", "int", INT32_MIN,
                   DIGIT_COUNT.INT32_MIN + 2)

(* A slip for comparison: no byte is set aside for the sign. *)
RangeUnsigned(min, max) ==
    Bound("bigint", "bigint", max - min + 1, "bigint", "bigint", min, DIGIT_COUNT.INT64_MIN + 1)

assign_integer_random_range(min, max) ==
    LET span == max - min + 1
    IN  IF min < INT32_MIN
        THEN Bound("bigint", "bigint", span, "bigint", "bigint", min,
                   DIGIT_COUNT.INT64_MIN + 2)
        ELSE IF max > INT32_MAX
        THEN LET bits == IF span < UINT32_MAX THEN "int" ELSE "bigint"
             IN  Bound("bigint", bits, span, bits, "bigint", min, DIGIT_COUNT.INT64_MAX + 1)
        ELSE Bound("int", "int", span, "int", "int", min, DIGIT_COUNT.INT32_MIN + 2)

assign_u_integer_random_from(from) ==
    LET span == UINT64_MAX - from + 1
    IN  IF from > UINT32_MAX
        THEN LET bits == IF span < UINT32_MAX THEN "int" ELSE "bigint"
             IN  Bound("bigint", bits, span, bits, "bigint", from, DIGIT_COUNT.UINT64_MAX + 1)
        ELSE Bound("int", "int", UINT32_MAX - from + 1, "int", "int", from,
                   DIGIT_COUNT.UINT32_MAX + 1)

assign_u_integer_random_upto(upto) ==
    IF upto > UINT32_MAX
    THEN Bound("bigint", "bigint", upto + 1, "bigint", "bigint", 0, DIGIT_COUNT.UINT64_MAX + 1)
    ELSE Bound("int", "int", upto + 1, "int", "int", 0, DIGIT_COUNT.UINT32_MAX + 1)

(* The test for a wide span picks the narrow generator. *)
assign_u_integer_random_range(min, max) ==
    LET span == max - min + 1
        bits == IF span > UINT32_MAX THEN "int" ELSE "bigint"
    IN  IF max > UINT32_MAX
        THEN Bound("bigint", bits, span, bits, "bigint", min, DIGIT_COUNT.UINT64_MAX + 1)
        ELSE Bound("int", "int", span, "int", "int", min, DIGIT_COUNT.UINT32_MAX + 1)

-----------------------------------------------------------------------------
(* The same in a JOIN: a length is added to the joined column instead of a *)
(* type being set.                                                         *)
Joined(s) == [s EXCEPT !.type = s.width - 1]

assign_join_integer_random_from(from)        == Joined(assign_integer_random_from(from))
assign_join_integer_random_upto(upto)        == Joined(assign_integer_random_upto(upto))
assign_join_integer_random_range(min, max)   == Joined(assign_integer_random_range(min, max))
assign_join_u_integer_random_from(from)      == Joined(assign_u_integer_random_from(from))
assign_join_u_integer_random_upto(upto)      == Joined(assign_u_integer_random_upto(upto))
assign_join_u_integer_random_range(min, max) == Joined(assign_u_integer_random_range(min, max))
=============================================================================
