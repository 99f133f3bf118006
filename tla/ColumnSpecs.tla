---------------------------- MODULE ColumnSpecs ----------------------------
(***************************************************************************)
(* What the functions that end a COL_SPEC or a JOIN set: those named       *)
(* column_ and join_ in mysql_seed_generate.h.  c is what was parsed: the  *)
(* table's rows, whether a GRP_SPEC was given and its count, the length of *)
(* the column's name, and the qualifier's values (numbers) or text (a      *)
(* length).  The result: which builder fills the column and whether it is  *)
(* the one for groups, the count raised in counter_upto, the ctor_flags,   *)
(* the type and its declared length.                                       *)
(***************************************************************************)
EXTENDS RandomSpec, Sequences

Set(build, group, upto, flags, type, length) ==
    [build |-> build, group |-> group, upto |-> upto, flags |-> flags,
     type |-> type, length |-> length]

Count(c) == IF c.grouped THEN c.grp ELSE c.rows

(* counter_upto and the type follow the number of values, with the default *)
(* qualifier as with unique, with groups as without.                       *)
column_integer_unique(c) ==
    Set("unique", c.grouped, Count(c), {}, type_assign_integer_upto(Count(c)), 0)

column_u_integer_unique(c) ==
    Set("unique", c.grouped, Count(c), {}, type_assign_u_integer_upto(Count(c)), 0)

(* The type is set by parse_integer_fixed, which knows the sign. *)
column_integer_fixed(c) ==
    LET v == c.values[1]
    IN  Set("fixed", FALSE, 0, {},
            IF v < 0 THEN type_assign_integer_min(v) ELSE type_assign_integer_max(v), Text(v))

column_u_integer_fixed(c) ==
    Set("fixed", FALSE, 0, {}, type_assign_u_integer_max(c.values[1]), Text(c.values[1]))

-----------------------------------------------------------------------------
(* Random columns add the generator to the result. *)
SetRandom(c, g) ==
    [build |-> "random", group |-> c.grouped, upto |-> 0, flags |-> g.flags,
     type |-> g.type, length |-> g.width, gen |-> g]

I32 == Unbound("int", DIGIT_COUNT.INT32_MIN + 2)
I64 == Unbound("bigint", DIGIT_COUNT.INT64_MIN + 2)
U32 == Unbound("int", DIGIT_COUNT.UINT32_MAX + 1)
U64 == Unbound("bigint", DIGIT_COUNT.UINT64_MAX + 1)

column_integer_random_default(c) == SetRandom(c, I32)

column_integer_random_from(c) ==
    SetRandom(c, CASE c.values[1] = INT32_MIN -> I32
                   [] c.values[1] = INT64_MIN -> I64
                   [] OTHER -> assign_integer_random_from(c.values[1]))

(* The cases of the switch fall through to its default. *)
column_integer_random_from_group(c) ==
    LET g == assign_integer_random_from(c.values[1])
        fallen == CASE c.values[1] = INT32_MIN -> {"int", "bigint"}
                    [] c.values[1] = INT64_MIN -> {"bigint"}
                    [] OTHER -> {}
    IN  SetRandom(c, [g EXCEPT !.flags = @ \union fallen])

column_integer_random_upto(c) ==
    SetRandom(c, CASE c.values[1] = INT32_MAX -> I32
                   [] c.values[1] = INT64_MAX -> I64
                   [] OTHER -> assign_integer_random_upto(c.values[1]))

(* The width of the range decides, wherever it begins. *)
column_integer_random_range(c) ==
    LET delta == c.values[2] - c.values[1]
    IN  SetRandom(c, CASE delta = UINT32_MAX -> I32
                       [] delta = UINT64_MAX -> I64
                       [] OTHER -> assign_integer_random_range(c.values[1], c.values[2]))

column_u_integer_random_default(c) == SetRandom(c, U32)

column_u_integer_random_from(c) ==
    SetRandom(c, IF c.values[1] = 0 THEN U32 ELSE assign_u_integer_random_from(c.values[1]))

column_u_integer_random_upto(c) ==
    SetRandom(c, CASE c.values[1] = UINT32_MAX -> U32
                   [] c.values[1] = UINT64_MAX -> U64
                   [] OTHER -> assign_u_integer_random_upto(c.values[1]))

column_u_integer_random_range(c) ==
    LET delta == c.values[2] - c.values[1]
    IN  SetRandom(c, CASE delta = UINT32_MAX -> U32
                       [] delta = UINT64_MAX -> U64
                       [] OTHER -> assign_u_integer_random_range(c.values[1], c.values[2]))

-----------------------------------------------------------------------------
UUID_STRING_LENGTH == 36
LENGTH_TIMESTAMP_STRING == 19
NAME_LENGTH_MAX == [first |-> 11, last |-> 10, full |-> 36]

column_string_unique(c) ==
    Set("unique", c.grouped, Count(c), {}, "varchar", c.text + uint_digit_count(Count(c)))

(* The final null counts in the length of a fixed string. *)
column_string_fixed(c) == Set("fixed", FALSE, 0, {}, "char", c.text + 1)

column_string_uuid(c) == Set("uuid", c.grouped, 0, {"int", "uuid"}, "char", UUID_STRING_LENGTH)

column_string_hash(c) == Set("hash", c.grouped, 0, {}, "char", c.values[1])

column_string_names(c, which) ==
    Set("names", c.grouped, 0, {"int"}, "varchar", NAME_LENGTH_MAX[which])

(* The column's name is the base string. *)
column_string_default(c) == column_string_unique([c EXCEPT !.text = c.name])

column_timestamp(c) == Set("time", c.grouped, 0, {}, "timestamp", LENGTH_TIMESTAMP_STRING)
column_datetime(c)  == Set("time", c.grouped, 0, {}, "datetime", LENGTH_TIMESTAMP_STRING)

-----------------------------------------------------------------------------
(* JOINs.  length is added to the length of the joined column; "varchar"   *)
(* makes its type VARCHAR, "char" leaves the type as it is.                *)
JoinSet(s, type, length) == [s EXCEPT !.type = type, !.length = length]

join_integer_unique(c) ==
    JoinSet(column_integer_unique(c), "varchar", uint_digit_count(Count(c)))

join_u_integer_unique(c) ==
    JoinSet(column_u_integer_unique(c), "varchar", uint_digit_count(Count(c)))

join_integer_fixed(c)   == JoinSet(column_integer_fixed(c), "char", Text(c.values[1]))
join_u_integer_fixed(c) == JoinSet(column_u_integer_fixed(c), "char", Text(c.values[1]))

JoinRandom(c, g) == [SetRandom(c, g) EXCEPT !.type = "varchar", !.length = g.width - 1]

join_integer_random_default(c) == JoinRandom(c, I32)

join_integer_random_from(c) ==
    JoinRandom(c, CASE c.values[1] = INT32_MIN -> I32
                    [] c.values[1] = INT64_MIN -> I64
                    [] OTHER -> assign_join_integer_random_from(c.values[1]))

join_integer_random_upto(c) ==
    JoinRandom(c, CASE c.values[1] = INT32_MAX -> I32
                    [] c.values[1] = INT64_MAX -> I64
                    [] OTHER -> assign_join_integer_random_upto(c.values[1]))

join_integer_random_range(c) ==
    LET delta == c.values[2] - c.values[1]
    IN  JoinRandom(c, CASE delta = UINT32_MAX -> I32
                        [] delta = UINT64_MAX -> I64
                        [] OTHER -> assign_join_integer_random_range(c.values[1], c.values[2]))

join_u_integer_random_default(c) == JoinRandom(c, U32)

join_u_integer_random_from(c) ==
    JoinRandom(c, IF c.values[1] = 0 THEN U32
                  ELSE assign_join_u_integer_random_from(c.values[1]))

join_u_integer_random_upto(c) ==
    JoinRandom(c, CASE c.values[1] = UINT32_MAX -> U32
                    [] c.values[1] = UINT64_MAX -> U64
                    [] OTHER -> assign_join_u_integer_random_upto(c.values[1]))

join_u_integer_random_range(c) ==
    LET delta == c.values[2] - c.values[1]
    IN  JoinRandom(c, CASE delta = UINT32_MAX -> U32
                        [] delta = UINT64_MAX -> U64
                        [] OTHER -> assign_join_u_integer_random_range(c.values[1], c.values[2]))

join_string_unique(c) == column_string_unique(c)
join_string_fixed(c)  == JoinSet(column_string_fixed(c), "char", c.text)
join_string_uuid(c)   == column_string_uuid(c)
join_string_hash(c)   == column_string_hash(c)

(* A slip for comparison: the length of a name is not added. *)
JoinNamesFree(c, which) == JoinSet(column_string_names(c, which), "varchar", 0)

join_string_names(c, which) == column_string_names(c, which)

join_string_default(c) == column_string_unique([c EXCEPT !.text = c.name])

(* Counter and length are those of the groups, the builder is the one that *)
(* counts rows.                                                            *)
join_string_default_group(c) ==
    [column_string_unique([c EXCEPT !.text = c.name]) EXCEPT !.group = FALSE]

join_timestamp(c) == JoinSet(column_timestamp(c), "char", LENGTH_TIMESTAMP_STRING)
join_datetime(c)  == JoinSet(column_datetime(c), "char", LENGTH_TIMESTAMP_STRING)
=============================================================================
