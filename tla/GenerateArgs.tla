---------------------------- MODULE GenerateArgs ----------------------------
(***************************************************************************)
(* Arguments of generate mode and the messages about them (mysql_seed_     *)
(* generate.h).  An argument is a token: a flag, which stands for its      *)
(* short and its long spelling, a numeral, or a word of one of four kinds. *)
(***************************************************************************)
EXTENDS RandomSpec

CONSTANTS Numerals,         \* numeral -> its value
          ROW_COUNT_MAX,    \* the largest ROW_COUNT, UPTO_MAX of counter.h
          HASH_LENGTH_MAX   \* the longest hash

END == "end of arguments"

Words == {"word", "", "invalid UTF-8", "too long"}

DbFlag  == "-d"
TblFlag == "-t"
ColFlag == "-c"
GrpFlag == "-g"

Flags == {DbFlag, TblFlag, ColFlag, GrpFlag, "-e", "-l", "-i", "-u", "-s", "-ts", "-dt",
          "-f", "-r", "-uu", "-h", "-n1", "-nl", "-nf", "-j"}

ASSUME NumeralsAssumption ==
    /\ \A n \in DOMAIN Numerals : Numerals[n] \in Int
    /\ DOMAIN Numerals \intersect (Flags \union Words \union {END, "+"}) = {}

Arguments == DOMAIN Numerals \union Flags \union Words \union {"+"}

(* parse_int and parse_uint of string_utils.h return NULL for the others,  *)
(* and for numbers that do not fit 64 bits.                                *)
IsInt(a)  == a \in DOMAIN Numerals /\ Numerals[a] \in INT64_MIN..INT64_MAX
IsUint(a) == a \in DOMAIN Numerals /\ Numerals[a] \in 0..UINT64_MAX

(* Arguments whose first character is '-'. *)
Dashed(a) == a \in Flags \/ (a \in DOMAIN Numerals /\ Numerals[a] < 0)

Length(a) == IF a = "" THEN 0 ELSE 1

(* Any argument may be a name, flags and numerals too: the result of       *)
(* parse_db_name, and of parse_tbl_name and parse_col_name, which repeat   *)
(* it with their own limits.                                               *)
parse_db_name(a) ==
    CASE a = "" -> "empty"
      [] a = "invalid UTF-8" -> "invalid"
      [] a = "too long" -> "long"
      [] OTHER -> "ok"

parse_tbl_name(a) == parse_db_name(a)
parse_col_name(a) == parse_db_name(a)

(* Base strings and fixed strings may be empty. *)
parse_base_string(a)  == IF a = "" THEN "ok" ELSE parse_db_name(a)
parse_fixed_string(a) == parse_base_string(a)

(* A number of 1 to max. *)
Counting(a, max) ==
    CASE ~IsUint(a) -> "invalid"
      [] IsUint(a) /\ Numerals[a] = 0 -> "zero"
      [] IsUint(a) /\ Numerals[a] > max -> "large"
      [] OTHER -> "ok"

parse_row_count(a)       == Counting(a, ROW_COUNT_MAX)
parse_hash_length(a)     == Counting(a, HASH_LENGTH_MAX)
parse_grp_count(a, rows) == Counting(a, rows)

-----------------------------------------------------------------------------
(* Every message quotes the arguments from the start of the DB_SPEC up to  *)
(* the current one plus quote, and either looks for the next DB_SPEC, from *)
(* skip arguments further on, or ends the parsing.                         *)

(* The argument is wrong. *)
Rejected(error) == [error |-> error, quote |-> 0, stop |-> FALSE, skip |-> 0]

(* The arguments have ended. *)
Missing(error) == [error |-> error, quote |-> -1, stop |-> TRUE, skip |-> 0]

DbSpecErrors   == [flag |-> Rejected("expected_db_flag")]
DbNameErrors   == [empty |-> Rejected("db_name_empty"), invalid |-> Rejected("db_name_invalid"),
                   long |-> Rejected("db_name_long")]
TblNameErrors  == [flag |-> Rejected("expected_tbl_flag"), empty |-> Rejected("tbl_name_empty"),
                   invalid |-> Rejected("tbl_name_invalid"), long |-> Rejected("tbl_name_long")]
ColNameErrors  == [flag |-> Rejected("expected_col_flag"), empty |-> Rejected("col_name_empty"),
                   invalid |-> Rejected("col_name_invalid"), long |-> Rejected("col_name_long")]
RowCountErrors == [invalid |-> Rejected("row_count_invalid"), zero |-> Rejected("row_count_zero"),
                   large |-> Rejected("row_count_large")]
ColTypeErrors  == [none |-> Missing("no_col_type"), invalid |-> Rejected("invalid_col_type")]
RandSpecErrors == [invalid |-> Rejected("invalid_rand_spec"),
                   from |-> Missing("no_random_from_min"), upto |-> Missing("no_random_upto_max")]

(* MAX_(TYPE) less than MIN_(TYPE) ends the parsing like a missing         *)
(* argument does, although arguments may follow.                           *)
RandRangeErrors == [min |-> Missing("no_random_range_min"), max |-> Missing("no_random_range_max"),
                    order |-> [error |-> "random_range_max_lt_min",
                               quote |-> 0, stop |-> TRUE, skip |-> 0]]

MinIntegerErrors    == Rejected("min_integer_invalid")
MaxIntegerErrors    == Rejected("max_integer_invalid")
MinUIntegerErrors   == Rejected("min_u_integer_invalid")
MaxUIntegerErrors   == Rejected("max_u_integer_invalid")
GrpCountErrors      == [invalid |-> Rejected("grp_count_invalid"),
                        zero |-> Rejected("grp_count_zero"), large |-> Rejected("grp_count_large")]
TypeQErrors         == [integer |-> Rejected("integer_type_q"),
                        u_integer |-> Rejected("u_integer_type_q"),
                        string |-> Rejected("string_type_q"),
                        timestamp |-> Rejected("timestamp_type_q"),
                        datetime |-> Rejected("datetime_type_q")]
FixedIntegerErrors  == [none |-> Missing("no_fixed_integer"),
                        invalid |-> Rejected("fixed_integer_invalid")]
FixedUIntegerErrors == [none |-> Missing("no_fixed_u_integer"),
                        invalid |-> Rejected("fixed_u_integer_invalid")]
BaseStringErrors    == [none |-> Missing("no_base_string"),
                        invalid |-> Rejected("base_string_invalid"),
                        long |-> Rejected("base_string_long")]
FixedStringErrors   == [none |-> Missing("no_fixed_string"),
                        invalid |-> Rejected("fixed_string_invalid"),
                        long |-> Rejected("fixed_string_long")]
HashLengthErrors    == [none |-> Missing("no_hash_length"),
                        invalid |-> Rejected("hash_length_invalid"),
                        zero |-> Rejected("hash_length_zero"),
                        large |-> Rejected("hash_length_large")]
JoinErrors          == [none |-> Missing("no_join_spec"), next |-> Missing("expected_join")]
CloseErrors         == [join |-> Rejected("expected_join_close"),
                        col_spec |-> Rejected("expected_col_spec_close"),
                        grp_spec |-> Rejected("expected_grp_spec_close"),
                        join_grp_spec |-> Rejected("expected_join_grp_spec_close")]
IncompleteErrors    == [col_name |-> Missing("inc_db_spec_col_name"),
                        tbl_name |-> Missing("inc_db_spec_tbl_name"),
                        row_count |-> Missing("inc_db_spec_row_count"),
                        col_flag |-> Missing("inc_db_spec_col_flag")]

(* The flag of the superfluous GRP_SPEC is not quoted. *)
FixedGroupErrors == [error |-> "grp_spec_for_fixed_data", quote |-> -1, stop |-> FALSE, skip |-> 0]

(* The count of the superfluous GRP_SPEC is skipped. *)
GroupErrors == [none |-> Missing("no_grp_count"),
                multiple |-> [error |-> "multiple_grp_specs", quote |-> 0, stop |-> FALSE,
                              skip |-> 1]]
=============================================================================
