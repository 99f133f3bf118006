---------------------------- MODULE GenerateParse ----------------------------
(***************************************************************************)
(* The parser of generate mode (mysql_seed_generate.h).  Its functions     *)
(* call each other through one struct GenerateParseState, the record       *)
(* state; here a function maps the record and the argument it reads to the *)
(* next record, and state.node names the function to be entered next; of   *)
(* two functions for a column and for a JOIN, state.join.on tells which.   *)
(* Arguments are chosen when they are read: no function reads one twice.   *)
(***************************************************************************)
EXTENDS GenerateArgs, ColumnSpecs, Functions

CONSTANTS
    Inputs,                    \* alphabets of arguments, each with its argc
    CHAR_LENGTH_MAX,           \* the longest CHAR column
    DbSize, TblSize, ColSize   \* sizeof struct DbSpec, TblSpec, ColSpec

DB_SPEC_LENGTH_MIN == 8

ASSUME SizeAssumption ==
    /\ DbSize \in Nat /\ TblSize \in Nat /\ ColSize \in Nat
    /\ 0 < DbSize /\ DbSize < TblSize /\ TblSize < ColSize

ASSUME LengthAssumption == CHAR_LENGTH_MAX \in Nat

ASSUME InputsAssumption ==
    \A in \in Inputs : in.argc \in Nat /\ in.args \subseteq Arguments

VARIABLES
    input,   \* the alphabet and rem_argc
    state    \* struct GenerateParseState

parseVars == <<input, state>>

argc == input.argc

(* A slip for comparison: a column takes three arguments, JOINs forgotten. *)
SpecAllocByColumn ==
    DbSize + TblSize + ((argc - DB_SPEC_LENGTH_MIN) \div 3 + 1) * ColSize

(* Bytes of the one allocation for all specs. *)
SpecAlloc == DbSize + TblSize + ((argc - DB_SPEC_LENGTH_MIN) \div 2 + 1) * ColSize

-----------------------------------------------------------------------------
(* Counters and the list of valid specs.                                   *)

Larger(a, b) == IF a > b THEN a ELSE b

NoCounter == [flags |-> {}, rows |-> 0, rowsMax |-> 0, tables |-> 0, columns |-> 0, upto |-> 0]

database_counter_init(rows) ==
    [flags |-> {}, rows |-> rows, rowsMax |-> rows, tables |-> 1, columns |-> 1, upto |-> 0]

(* A slip for comparison: the last database decides how far is counted. *)
CounterUptoLast(g, d) ==
    [flags |-> g.flags \union d.flags, rows |-> g.rows + d.rows,
     rowsMax |-> Larger(g.rowsMax, d.rowsMax), tables |-> g.tables + d.tables,
     columns |-> g.columns + d.columns, upto |-> d.upto]

generator_counter_update(g, d) ==
    [flags |-> g.flags \union d.flags, rows |-> g.rows + d.rows,
     rowsMax |-> Larger(g.rowsMax, d.rowsMax), tables |-> g.tables + d.tables,
     columns |-> g.columns + d.columns, upto |-> Larger(g.upto, d.upto)]

(* A struct at address a is about to be written. *)
Write(s, a, size) == [s EXCEPT !.top = Larger(@, a + size), !.clobbered = @ \/ a < s.kept]

(* parse_table_complete, parse_valid_complete: the last column ends the    *)
(* table, and the database joins the list and its counts the totals.       *)
parse_valid_complete(s) ==
    [s EXCEPT !.valid = Append(@, s.tables), !.kept = s.col + ColSize,
              !.generator = generator_counter_update(@, s.database)]

parse_database_complete(s) == [parse_valid_complete(s) EXCEPT !.db = s.col + ColSize]

generate_parse_complete(s) == [parse_valid_complete(s) EXCEPT !.node = "done"]

(* A slip for comparison: a DB_SPEC one argument short is parsed as well. *)
NextDbSpecShort(s) ==
    IF s.from < argc + 2 - DB_SPEC_LENGTH_MIN
    THEN [s EXCEPT !.spec = s.from, !.node = "db_name"]
    ELSE [s EXCEPT !.node = "done", !.status = "failure", !.told.error = "short"]

(* At a DATABASE flag, or at or past the end. *)
parse_next_db_spec(s) ==
    IF s.from < argc + 1 - DB_SPEC_LENGTH_MIN
    THEN [s EXCEPT !.spec = s.from, !.node = "db_name"]
    ELSE [s EXCEPT !.node = "done", !.status = "failure",
                   !.told = IF s.from < argc THEN [error |-> "short", spec |-> s.from,
                                                   upto |-> argc - 1] ELSE @]

(* A check has failed: the error function due is called next. *)
Fail(s, error) == [s EXCEPT !.node = "fail", !.due = error]

(* The error functions: a message, then generate_parse_error or the end. *)
Report(s) ==
    [s EXCEPT !.status = "failure",
              !.told = [error |-> s.due.error, spec |-> s.spec, upto |-> s.from + s.due.quote],
              !.node = IF s.due.stop THEN "done" ELSE "error",
              !.from = @ + s.due.skip]

(* A slip for comparison: the rest of the arguments is given up. *)
ErrorGivesUp(s, next) == [s EXCEPT !.node = "done", !.status = "failure"]

(* flag_match_next finds the next DATABASE flag after the current argument *)
(* or the end; next is where.                                              *)
generate_parse_error(s, next) == parse_next_db_spec([s EXCEPT !.from = next])

-----------------------------------------------------------------------------
(* The functions set_col_spec and set_join point to.                       *)

Context(s) ==
    [rows |-> s.tables[Len(s.tables)].rows, grouped |-> s.grouped, grp |-> s.grp,
     name |-> IF s.join.on THEN s.join.name ELSE s.name,
     text |-> s.text, values |-> s.values]

set_col_spec(c, set) ==
    CASE set = "integer_unique" -> column_integer_unique(c)
      [] set = "integer_fixed" -> column_integer_fixed(c)
      [] set = "integer_random_default" -> column_integer_random_default(c)
      [] set = "integer_random_from" -> IF c.grouped THEN column_integer_random_from_group(c)
                                        ELSE column_integer_random_from(c)
      [] set = "integer_random_upto" -> column_integer_random_upto(c)
      [] set = "integer_random_range" -> column_integer_random_range(c)
      [] set = "u_integer_unique" -> column_u_integer_unique(c)
      [] set = "u_integer_fixed" -> column_u_integer_fixed(c)
      [] set = "u_integer_random_default" -> column_u_integer_random_default(c)
      [] set = "u_integer_random_from" -> column_u_integer_random_from(c)
      [] set = "u_integer_random_upto" -> column_u_integer_random_upto(c)
      [] set = "u_integer_random_range" -> column_u_integer_random_range(c)
      [] set = "string_default" -> column_string_default(c)
      [] set = "string_unique" -> column_string_unique(c)
      [] set = "string_fixed" -> column_string_fixed(c)
      [] set = "string_uuid" -> column_string_uuid(c)
      [] set = "string_hash" -> column_string_hash(c)
      [] set \in {"first", "last", "full"} -> column_string_names(c, set)
      [] set = "timestamp" -> column_timestamp(c)
      [] OTHER -> column_datetime(c)

set_join(c, set) ==
    CASE set = "integer_unique" -> join_integer_unique(c)
      [] set = "integer_fixed" -> join_integer_fixed(c)
      [] set = "integer_random_default" -> join_integer_random_default(c)
      [] set = "integer_random_from" -> join_integer_random_from(c)
      [] set = "integer_random_upto" -> join_integer_random_upto(c)
      [] set = "integer_random_range" -> join_integer_random_range(c)
      [] set = "u_integer_unique" -> join_u_integer_unique(c)
      [] set = "u_integer_fixed" -> join_u_integer_fixed(c)
      [] set = "u_integer_random_default" -> join_u_integer_random_default(c)
      [] set = "u_integer_random_from" -> join_u_integer_random_from(c)
      [] set = "u_integer_random_upto" -> join_u_integer_random_upto(c)
      [] set = "u_integer_random_range" -> join_u_integer_random_range(c)
      [] set = "string_default" -> IF c.grouped THEN join_string_default_group(c)
                                   ELSE join_string_default(c)
      [] set = "string_unique" -> join_string_unique(c)
      [] set = "string_fixed" -> join_string_fixed(c)
      [] set = "string_uuid" -> join_string_uuid(c)
      [] set = "string_hash" -> join_string_hash(c)
      [] set \in {"first", "last", "full"} -> join_string_names(c, set)
      [] set = "timestamp" -> join_timestamp(c)
      [] OTHER -> join_datetime(c)

(* The generators the builder of column r draws from, and the longest text *)
(* it puts in a cell: what the declarations are compared with below.       *)
Drawn(r) ==
    CASE r.build = "random" -> {r.gen.bits}
      [] r.build = "uuid" -> {"int", "uuid"}
      [] r.build = "names" -> {"int"}
      [] OTHER -> {}

CountOf(r, c) == IF r.build # "unique" THEN 0 ELSE IF r.group THEN c.grp ELSE c.rows

LongestText(r, c, set) ==
    CASE r.build = "unique" ->
            uint_digit_count(CountOf(r, c))
            + CASE set = "string_default" -> c.name
                [] set = "string_unique" -> c.text
                [] OTHER -> 0
      [] r.build = "random" -> r.gen.width - 1
      [] r.build = "fixed" -> IF set = "string_fixed" THEN c.text ELSE Text(c.values[1]) - 1
      [] r.build = "names" -> NAME_LENGTH_MAX[set]
      [] r.build = "uuid" -> UUID_STRING_LENGTH
      [] r.build = "hash" -> c.values[1]
      [] OTHER -> LENGTH_TIMESTAMP_STRING

(* set_col_spec or set_join is called for the current column. *)
SetSpec(s) ==
    LET c == Context(s)
        r == IF s.join.on THEN set_join(c, s.set) ELSE set_col_spec(c, s.set)
        column == [count |-> CountOf(r, c), draws |-> Drawn(r),
                   odd |-> s.join.on /\ s.set = "string_default" /\ s.grouped]
    IN  [s EXCEPT !.tables[Len(s.tables)].cols = Append(@, column),
                  !.database.upto = Larger(@, r.upto),
                  !.database.flags = @ \union r.flags,
                  !.join.length = @ + r.length,
                  !.join.type = IF r.type = "varchar" THEN "varchar" ELSE @,
                  !.join.text = @ + LongestText(r, c, s.set),
                  !.join.odd = @ \/ column.odd,
                  !.grouped = FALSE, !.values = <<>>, !.text = 0]

join_spec_state_init(s) ==
    [s EXCEPT !.join = [on |-> TRUE, length |-> 0, type |-> "char", text |-> 0, odd |-> FALSE,
                        name |-> s.name]]

(* The joined column gets the type of the whole and its name back. *)
join_spec_state_close(s) ==
    [s EXCEPT !.join.on = FALSE,
              !.declared = @ \union
                {[length |-> s.join.length, text |-> s.join.text, odd |-> s.join.odd,
                  type |-> IF s.join.length > CHAR_LENGTH_MAX THEN "varchar" ELSE s.join.type]}]

(* What ends a column, a table, a database or the arguments. *)
Closers == {END, ColFlag, TblFlag, DbFlag}
JoinClosers == Closers \union {"+"}

(* Argument a ends the column: set_col_spec or set_join is called next. *)
Close(s, a) == [s EXCEPT !.node = "close", !.due = a]

(* What parse_column_complete, parse_join_complete, parse_grp_spec and     *)
(* parse_join_grp_spec do when the column is complete.                     *)
CloseSpec(s) ==
    LET t == SetSpec(s)
        c == IF s.join.on THEN join_spec_state_close(t) ELSE t
    IN  CASE s.due = END     -> generate_parse_complete(c)
          [] s.due = "+"     -> [t EXCEPT !.node = "next_join"]
          [] s.due = ColFlag -> [c EXCEPT !.node = "next_col_name"]
          [] s.due = TblFlag -> [c EXCEPT !.node = "next_tbl_name"]
          [] s.due = DbFlag  -> parse_next_db_spec(parse_database_complete(c))

(* The argument after a complete column: parse_column_complete. *)
parse_column_complete(s, a) ==
    CASE a \in Closers -> Close(s, a)
      [] a = GrpFlag -> CASE s.may = "group" -> [s EXCEPT !.node = "grp_count"]
                          [] s.may = "fixed" -> Fail(s, FixedGroupErrors)
                          [] OTHER           -> Fail(s, GroupErrors.multiple)
      [] OTHER -> Fail(s, CloseErrors.col_spec)

parse_join_complete(s, a) ==
    CASE a \in JoinClosers -> Close(s, a)
      [] a = GrpFlag -> CASE s.may = "group" -> [s EXCEPT !.node = "grp_count"]
                          [] s.may = "fixed" -> Fail(s, FixedGroupErrors)
                          [] OTHER           -> Fail(s, GroupErrors.multiple)
      [] OTHER -> Fail(s, CloseErrors.join)

(* GRP_COUNT, and the partition after it.                                  *)
GrpCount(s, a) ==
    LET parsed == parse_grp_count(a, s.tables[Len(s.tables)].rows)
    IN  CASE a = END -> Fail(s, GroupErrors.none)
          [] a # END /\ parsed = "ok" ->
                [s EXCEPT !.grp = Numerals[a], !.grouped = TRUE, !.may = "multiple",
                          !.node = "grp_part"]
          [] OTHER -> Fail(s, GrpCountErrors[parsed])

parse_grp_spec_count(s, a) == GrpCount(s, a)

parse_grp_spec(s, a) ==
    CASE a \in Closers -> Close(s, a)
      [] a \in {"-e", "-l"} -> [s EXCEPT !.node = "complete"]
      [] a = GrpFlag -> Fail(s, GroupErrors.multiple)
      [] OTHER -> Fail(s, CloseErrors.grp_spec)

parse_join_grp_spec_count(s, a) == GrpCount(s, a)

parse_join_grp_spec(s, a) ==
    CASE a \in JoinClosers -> Close(s, a)
      [] a \in {"-e", "-l"} -> [s EXCEPT !.node = "complete"]
      [] a = GrpFlag -> Fail(s, GroupErrors.multiple)
      [] OTHER -> Fail(s, CloseErrors.join_grp_spec)

-----------------------------------------------------------------------------
(* Qualifiers.  Without one the column gets the default setting; a flag    *)
(* leads on to node, or completes the column with setting set.             *)

On(node) == [node |-> node, set |-> "", may |-> "group"]
Completed(set, may) == [node |-> "complete", set |-> set, may |-> may]

Take(s, to) == [s EXCEPT !.node = to.node, !.set = to.set, !.may = to.may]

Qualifier(s, a, default, flags, error) ==
    LET d == [s EXCEPT !.set = default]
    IN  CASE a \in Closers -> Close(d, a)
          [] a = GrpFlag -> [d EXCEPT !.node = "grp_count"]
          [] a \in DOMAIN flags -> Take(s, flags[a])
          [] OTHER -> Fail(s, error)

(* In a JOIN, '+' closes too. *)
JoinQualifier(s, a, default, flags, error) ==
    LET d == [s EXCEPT !.set = default]
    IN  CASE a \in JoinClosers -> Close(d, a)
          [] a = GrpFlag -> [d EXCEPT !.node = "grp_count"]
          [] a \in DOMAIN flags -> Take(s, flags[a])
          [] OTHER -> Fail(s, error)

IntegerFlags ==
    [f \in {"-u", "-f", "-r"} |->
        CASE f = "-u" -> Completed("integer_unique", "group")
          [] f = "-f" -> On("integer_fixed")
          [] f = "-r" -> On("integer_random")]

UIntegerFlags ==
    [f \in {"-u", "-f", "-r"} |->
        CASE f = "-u" -> Completed("u_integer_unique", "group")
          [] f = "-f" -> On("u_integer_fixed")
          [] f = "-r" -> On("u_integer_random")]

IntegerRandomFlags ==
    [f \in {"-f", "-u", "-r"} |->
        CASE f = "-f" -> On("integer_random_from")
          [] f = "-u" -> On("integer_random_upto")
          [] f = "-r" -> On("integer_random_range_min")]

UIntegerRandomFlags ==
    [f \in {"-f", "-u", "-r"} |->
        CASE f = "-f" -> On("u_integer_random_from")
          [] f = "-u" -> On("u_integer_random_upto")
          [] f = "-r" -> On("u_integer_random_range_min")]

NameFlags ==
    [f \in {"-n1", "-nl", "-nf"} |->
        CASE f = "-n1" -> Completed("first", "group")
          [] f = "-nl" -> Completed("last", "group")
          [] f = "-nf" -> Completed("full", "group")]

StringFlags ==
    [f \in {"-u", "-uu", "-f", "-h"} \union DOMAIN NameFlags |->
        CASE f = "-u"  -> On("string_unique")
          [] f = "-uu" -> Completed("string_uuid", "group")
          [] f = "-f"  -> On("string_fixed")
          [] f = "-h"  -> On("string_hash")
          [] OTHER     -> NameFlags[f]]

(* Only in a column, not in a JOIN, a JOIN_SPEC may follow. *)
ColumnStringFlags ==
    [f \in DOMAIN StringFlags \union {"-j"} |->
        IF f = "-j" THEN On("join_spec") ELSE StringFlags[f]]

TimeFlags(type) ==
    [f \in {"-f", "-u"} |-> Completed(type, IF f = "-f" THEN "fixed" ELSE "group")]

parse_integer_qualifier(s, a) ==
    Qualifier(s, a, "integer_unique", IntegerFlags, TypeQErrors.integer)
parse_u_integer_qualifier(s, a) ==
    Qualifier(s, a, "u_integer_unique", UIntegerFlags, TypeQErrors.u_integer)
parse_integer_random(s, a) ==
    Qualifier(s, a, "integer_random_default", IntegerRandomFlags, RandSpecErrors.invalid)
parse_u_integer_random(s, a) ==
    Qualifier(s, a, "u_integer_random_default", UIntegerRandomFlags, RandSpecErrors.invalid)

parse_string_qualifier(s, a) ==
    Qualifier(s, a, "string_default", ColumnStringFlags, TypeQErrors.string)
parse_timestamp_qualifier(s, a) ==
    Qualifier(s, a, "timestamp", TimeFlags("timestamp"), TypeQErrors.timestamp)
parse_datetime_qualifier(s, a) ==
    Qualifier(s, a, "datetime", TimeFlags("datetime"), TypeQErrors.datetime)

parse_join_integer_qualifier(s, a) ==
    JoinQualifier(s, a, "integer_unique", IntegerFlags, TypeQErrors.integer)
parse_join_u_integer_qualifier(s, a) ==
    JoinQualifier(s, a, "u_integer_unique", UIntegerFlags, TypeQErrors.u_integer)
parse_join_integer_random(s, a) ==
    JoinQualifier(s, a, "integer_random_default", IntegerRandomFlags, RandSpecErrors.invalid)
parse_join_u_integer_random(s, a) ==
    JoinQualifier(s, a, "u_integer_random_default", UIntegerRandomFlags, RandSpecErrors.invalid)
parse_join_string_qualifier(s, a) ==
    JoinQualifier(s, a, "string_default", StringFlags, TypeQErrors.string)

(* A word in place of the qualifier is reported as one of an integer. *)
parse_join_timestamp_qualifier(s, a) ==
    JoinQualifier(s, a, "timestamp", TimeFlags("timestamp"),
                  IF Dashed(a) THEN TypeQErrors.timestamp ELSE TypeQErrors.integer)
parse_join_datetime_qualifier(s, a) ==
    JoinQualifier(s, a, "datetime", TimeFlags("datetime"),
                  IF Dashed(a) THEN TypeQErrors.datetime ELSE TypeQErrors.integer)

-----------------------------------------------------------------------------
(* The values after a qualifier. *)

Number(s, a, is, missing, invalid, to) ==
    CASE a = END -> Fail(s, missing)
      [] a # END /\ is -> [Take(s, to) EXCEPT !.values = Append(@, Numerals[a])]
      [] OTHER -> Fail(s, invalid)

parse_integer_fixed(s, a) ==
    Number(s, a, IsInt(a), FixedIntegerErrors.none, FixedIntegerErrors.invalid,
           Completed("integer_fixed", "fixed"))
parse_integer_random_from(s, a) ==
    Number(s, a, IsInt(a), RandSpecErrors.from, MinIntegerErrors,
           Completed("integer_random_from", "group"))
parse_integer_random_upto(s, a) ==
    Number(s, a, IsInt(a), RandSpecErrors.upto, MaxIntegerErrors,
           Completed("integer_random_upto", "group"))
parse_integer_random_range_min(s, a) ==
    Number(s, a, IsInt(a), RandRangeErrors.min, MinIntegerErrors,
           On("integer_random_range_max"))

(* MAX is not less than MIN. *)
Ordered(s, t) ==
    IF t.node # "fail" /\ t.values[2] < t.values[1] THEN Fail(s, RandRangeErrors.order)
    ELSE t

parse_integer_random_range(s, a) ==
    Ordered(s, Number(s, a, IsInt(a), RandRangeErrors.max, MaxIntegerErrors,
                     Completed("integer_random_range", "group")))

parse_u_integer_fixed(s, a) ==
    Number(s, a, IsUint(a), FixedUIntegerErrors.none, FixedUIntegerErrors.invalid,
           Completed("u_integer_fixed", "fixed"))
parse_u_integer_random_from(s, a) ==
    Number(s, a, IsUint(a), RandSpecErrors.from, MinUIntegerErrors,
           Completed("u_integer_random_from", "group"))
parse_u_integer_random_upto(s, a) ==
    Number(s, a, IsUint(a), RandSpecErrors.upto, MaxUIntegerErrors,
           Completed("u_integer_random_upto", "group"))
parse_u_integer_random_range_min(s, a) ==
    Number(s, a, IsUint(a), RandRangeErrors.min, MinUIntegerErrors,
           On("u_integer_random_range_max"))
parse_u_integer_random_range(s, a) ==
    Ordered(s, Number(s, a, IsUint(a), RandRangeErrors.max, MaxUIntegerErrors,
                     Completed("u_integer_random_range", "group")))

parse_string_unique(s, a) ==
    CASE a = END -> Fail(s, BaseStringErrors.none)
      [] a # END /\ parse_base_string(a) = "ok" ->
            [Take(s, Completed("string_unique", "group")) EXCEPT !.text = Length(a)]
      [] OTHER -> Fail(s, BaseStringErrors[parse_base_string(a)])

FixedString(s, a) ==
    IF parse_fixed_string(a) = "ok"
    THEN [Take(s, Completed("string_fixed", "fixed")) EXCEPT !.text = Length(a)]
    ELSE Fail(s, FixedStringErrors[parse_fixed_string(a)])

parse_string_fixed(s, a) == IF a = END THEN Fail(s, FixedStringErrors.none) ELSE FixedString(s, a)

parse_string_hash(s, a) ==
    CASE a = END -> Fail(s, HashLengthErrors.none)
      [] a # END /\ parse_hash_length(a) = "ok" ->
            [Take(s, Completed("string_hash", "group")) EXCEPT !.values = <<Numerals[a]>>]
      [] OTHER -> Fail(s, HashLengthErrors[parse_hash_length(a)])

(* The same in a JOIN. *)
parse_join_integer_fixed(s, a)              == parse_integer_fixed(s, a)
parse_join_integer_random_from(s, a)        == parse_integer_random_from(s, a)
parse_join_integer_random_upto(s, a)        == parse_integer_random_upto(s, a)
parse_join_integer_random_range_min(s, a)   == parse_integer_random_range_min(s, a)
parse_join_integer_random_range(s, a)       == parse_integer_random_range(s, a)
parse_join_u_integer_fixed(s, a)            == parse_u_integer_fixed(s, a)
parse_join_u_integer_random_from(s, a)      == parse_u_integer_random_from(s, a)
parse_join_u_integer_random_upto(s, a)      == parse_u_integer_random_upto(s, a)
parse_join_u_integer_random_range_min(s, a) == parse_u_integer_random_range_min(s, a)
parse_join_u_integer_random_range(s, a)     == parse_u_integer_random_range(s, a)
parse_join_string_unique(s, a)              == parse_string_unique(s, a)
parse_join_string_fixed(s, a)               == parse_string_fixed(s, a)
parse_join_string_hash(s, a)                == parse_string_hash(s, a)

-----------------------------------------------------------------------------
(* Column types and JOINs. *)

ColTypes ==
    [f \in {"-i", "-u", "-s", "-ts", "-dt"} |->
        CASE f = "-i" -> "integer_qualifier" [] f = "-u" -> "u_integer_qualifier"
          [] f = "-s" -> "string_qualifier"
          [] f = "-ts" -> "timestamp_qualifier" [] f = "-dt" -> "datetime_qualifier"]

parse_col_type(s, a) ==
    IF a \in DOMAIN ColTypes THEN [s EXCEPT !.node = ColTypes[a]]
    ELSE Fail(s, ColTypeErrors.invalid)

(* A word is a fixed string. *)
parse_join(s, a) ==
    IF Dashed(a) THEN parse_col_type(s, a) ELSE FixedString(s, a)

parse_next_join(s, a) ==
    IF a = END THEN Fail(s, JoinErrors.next)
    ELSE parse_join([Write(s, s.col + ColSize, ColSize) EXCEPT
                        !.col = @ + ColSize, !.database.columns = @ + 1], a)

(* The column itself is the first JOIN. *)
parse_join_spec(s, a) ==
    IF a = END THEN Fail(s, JoinErrors.none) ELSE parse_join(join_spec_state_init(s), a)

-----------------------------------------------------------------------------
(* DB_SPEC, TBL_SPEC and COL_SPEC. *)

Named(s, a, parsed, errors, node) ==
    IF parsed = "ok" THEN [s EXCEPT !.node = node, !.name = Length(a)]
    ELSE Fail(s, errors[parsed])

(* A column begins at address c. *)
ColumnAt(s, c) ==
    [Write(s, c, ColSize) EXCEPT !.col = c, !.join.on = FALSE, !.grouped = FALSE,
                                 !.values = <<>>, !.text = 0]

RowCount(s, a, table) ==
    IF parse_row_count(a) = "ok" THEN table
    ELSE Fail(s, RowCountErrors[parse_row_count(a)])

parse_db_specs(s, a) ==
    IF a = DbFlag THEN [s EXCEPT !.spec = s.from, !.node = "db_name"]
    ELSE Fail([s EXCEPT !.spec = s.from], DbSpecErrors.flag)

parse_first_db_spec(s, a) ==
    Named(Write(s, s.db, DbSize), a, parse_db_name(a), DbNameErrors, "tbl_flag")

(* The first table of a DB_SPEC and its first column: DB_SPEC_LENGTH_MIN   *)
(* arguments are known to be there.                                        *)
first_tbl_flag(s, a) ==
    IF a = TblFlag THEN [s EXCEPT !.node = "tbl_name"] ELSE Fail(s, TblNameErrors.flag)

first_tbl_name(s, a) ==
    Named(Write(s, s.db + DbSize, TblSize), a, parse_tbl_name(a), TblNameErrors, "row_count")

parse_first_tbl_spec(s, a) ==
    RowCount(s, a,
        [s EXCEPT !.tbl = s.db + DbSize, !.tables = <<[rows |-> Numerals[a], cols |-> <<>>]>>,
                  !.database = database_counter_init(Numerals[a]), !.node = "col_flag"])

first_col_flag(s, a) ==
    IF a = ColFlag THEN [s EXCEPT !.node = "col_name"] ELSE Fail(s, ColNameErrors.flag)

parse_first_col_spec_safe(s, a) ==
    Named(ColumnAt(s, s.tbl + TblSize), a, parse_col_name(a), ColNameErrors, "col_type")

(* A further table begins where the last column ended. *)
next_tbl_name(s, a) ==
    LET tbl == s.col + ColSize
    IN  IF a = END THEN Fail(s, IncompleteErrors.tbl_name)
        ELSE Named([Write(s, tbl, TblSize) EXCEPT !.tbl = tbl], a, parse_tbl_name(a),
                   TblNameErrors, "next_row_count")

next_row_count(s, a) ==
    IF a = END THEN Fail(s, IncompleteErrors.row_count)
    ELSE RowCount(s, a,
            [s EXCEPT !.tables = Append(@, [rows |-> Numerals[a], cols |-> <<>>]),
                      !.node = "tbl_col_flag"])

(* A slip for comparison: the rows of a further table are not counted. *)
NextTblUncounted(s, a) ==
    LET t == [s EXCEPT !.database.tables = @ + 1]
    IN  CASE a = END -> Fail(s, IncompleteErrors.col_flag)
          [] a = ColFlag -> [t EXCEPT !.node = "tbl_col_name"]
          [] OTHER -> Fail(t, ColNameErrors.flag)

parse_next_tbl_spec(s, a) ==
    LET rows == s.tables[Len(s.tables)].rows
        t == [s EXCEPT !.database.rows = @ + rows,
                       !.database.rowsMax = Larger(@, rows),
                       !.database.tables = @ + 1]
    IN  CASE a = END -> Fail(s, IncompleteErrors.col_flag)
          [] a = ColFlag -> [t EXCEPT !.node = "tbl_col_name"]
          [] OTHER -> Fail(t, ColNameErrors.flag)

parse_first_col_spec(s, a) ==
    IF a = END THEN Fail(s, IncompleteErrors.col_name)
    ELSE Named(ColumnAt(s, s.tbl + TblSize), a, parse_col_name(a), ColNameErrors, "next_col_type")

parse_next_col_spec(s, a) ==
    IF a = END THEN Fail(s, IncompleteErrors.col_name)
    ELSE Named(ColumnAt(s, s.col + ColSize), a, parse_col_name(a), ColNameErrors, "next_col_type")

next_col_type(s, a) ==
    IF a = END THEN Fail(s, ColTypeErrors.none)
    ELSE parse_col_type([s EXCEPT !.database.columns = @ + 1], a)

-----------------------------------------------------------------------------
(* generate_dispatch. *)

ParseStart ==
    [node |-> "dispatch", from |-> -1, spec |-> 0, db |-> 0, tbl |-> 0, col |-> 0, top |-> 0,
     kept |-> 0, clobbered |-> FALSE,
     tables |-> <<>>, valid |-> <<>>, database |-> NoCounter, generator |-> NoCounter,
     told |-> [error |-> "", spec |-> 0, upto |-> 0], status |-> "success",
     due |-> "", set |-> "", may |-> "", grp |-> 0, grouped |-> FALSE, values |-> <<>>, text |-> 0,
     name |-> 0, declared |-> {}, overrun |-> FALSE,
     join |-> [on |-> FALSE, length |-> 0, type |-> "char", text |-> 0, odd |-> FALSE, name |-> 0]]

ParseInit == input \in Inputs /\ state = ParseStart

(* No argument, or too few for one DB_SPEC; otherwise parse_db_specs. *)
generate_dispatch ==
    /\ state.node = "dispatch"
    /\ state' = IF argc < DB_SPEC_LENGTH_MIN
                THEN [state EXCEPT !.node = "exit", !.status = "failure",
                        !.told = [error |-> IF argc = 0 THEN "no_db_specs" ELSE "short",
                                  spec |-> 0, upto |-> argc - 1]]
                ELSE [state EXCEPT !.node = "db_specs"]
    /\ UNCHANGED input

(* After parsing: mysql_seed_generate, unless there is nothing to do. *)
generate_dispatch_end ==
    /\ state.node = "done"
    /\ state' = IF Len(state.valid) = 0
                THEN [state EXCEPT !.node = "exit", !.status = "failure"]
                ELSE [state EXCEPT !.node = "generate"]
    /\ UNCHANGED input

(* The function node is entered and reads the next argument, if any.       *)
Checked(node, F(_, _)) ==
    /\ state.node = node
    /\ \E a \in IF state.from + 1 = argc THEN {END} ELSE input.args :
          state' = F([state EXCEPT !.from = @ + 1], a)
    /\ UNCHANGED input

InColumn(node, F(_, _)) == ~state.join.on /\ Checked(node, F)
InJoin(node, F(_, _)) == state.join.on /\ Checked(node, F)

(* The same for a function that does not ask whether there is one. *)
Unchecked(node, F(_, _)) ==
    /\ state.node = node
    /\ \E a \in input.args :
          state' = F([state EXCEPT !.from = @ + 1, !.overrun = @ \/ state.from + 1 >= argc], a)
    /\ UNCHANGED input

Reporting == state.node = "fail" /\ state' = Report(state) /\ UNCHANGED input

Closing == state.node = "close" /\ state' = CloseSpec(state) /\ UNCHANGED input

FindNext ==
    /\ state.node = "error"
    /\ \E next \in {argc} \union
                  IF DbFlag \in input.args THEN (state.from + 1)..(argc - 1) ELSE {} :
          state' = generate_parse_error(state, next)
    /\ UNCHANGED input

Over == state.node \in {"exit", "generate"} /\ UNCHANGED parseVars

ParseSpecs ==
    \/ Unchecked("db_specs", parse_db_specs)
    \/ Unchecked("db_name", parse_first_db_spec)
    \/ Unchecked("tbl_flag", first_tbl_flag)
    \/ Unchecked("tbl_name", first_tbl_name)
    \/ Unchecked("row_count", parse_first_tbl_spec)
    \/ Unchecked("col_flag", first_col_flag)
    \/ Unchecked("col_name", parse_first_col_spec_safe)
    \/ Unchecked("col_type", parse_col_type)
    \/ Checked("next_tbl_name", next_tbl_name)
    \/ Checked("next_row_count", next_row_count)
    \/ Checked("tbl_col_flag", parse_next_tbl_spec)
    \/ Checked("tbl_col_name", parse_first_col_spec)
    \/ Checked("next_col_name", parse_next_col_spec)
    \/ Checked("next_col_type", next_col_type)

ParseColumn ==
    \/ InColumn("integer_qualifier", parse_integer_qualifier)
    \/ InColumn("integer_fixed", parse_integer_fixed)
    \/ InColumn("integer_random", parse_integer_random)
    \/ InColumn("integer_random_from", parse_integer_random_from)
    \/ InColumn("integer_random_upto", parse_integer_random_upto)
    \/ InColumn("integer_random_range_min", parse_integer_random_range_min)
    \/ InColumn("integer_random_range_max", parse_integer_random_range)
    \/ InColumn("u_integer_qualifier", parse_u_integer_qualifier)
    \/ InColumn("u_integer_fixed", parse_u_integer_fixed)
    \/ InColumn("u_integer_random", parse_u_integer_random)
    \/ InColumn("u_integer_random_from", parse_u_integer_random_from)
    \/ InColumn("u_integer_random_upto", parse_u_integer_random_upto)
    \/ InColumn("u_integer_random_range_min", parse_u_integer_random_range_min)
    \/ InColumn("u_integer_random_range_max", parse_u_integer_random_range)
    \/ InColumn("string_qualifier", parse_string_qualifier)
    \/ InColumn("string_unique", parse_string_unique)
    \/ InColumn("string_fixed", parse_string_fixed)
    \/ InColumn("string_hash", parse_string_hash)
    \/ InColumn("timestamp_qualifier", parse_timestamp_qualifier)
    \/ InColumn("datetime_qualifier", parse_datetime_qualifier)
    \/ InColumn("complete", parse_column_complete)
    \/ InColumn("grp_count", parse_grp_spec_count)
    \/ InColumn("grp_part", parse_grp_spec)

ParseJoin ==
    \/ InColumn("join_spec", parse_join_spec)
    \/ InJoin("next_join", parse_next_join)
    \/ InJoin("integer_qualifier", parse_join_integer_qualifier)
    \/ InJoin("integer_fixed", parse_join_integer_fixed)
    \/ InJoin("integer_random", parse_join_integer_random)
    \/ InJoin("integer_random_from", parse_join_integer_random_from)
    \/ InJoin("integer_random_upto", parse_join_integer_random_upto)
    \/ InJoin("integer_random_range_min", parse_join_integer_random_range_min)
    \/ InJoin("integer_random_range_max", parse_join_integer_random_range)
    \/ InJoin("u_integer_qualifier", parse_join_u_integer_qualifier)
    \/ InJoin("u_integer_fixed", parse_join_u_integer_fixed)
    \/ InJoin("u_integer_random", parse_join_u_integer_random)
    \/ InJoin("u_integer_random_from", parse_join_u_integer_random_from)
    \/ InJoin("u_integer_random_upto", parse_join_u_integer_random_upto)
    \/ InJoin("u_integer_random_range_min", parse_join_u_integer_random_range_min)
    \/ InJoin("u_integer_random_range_max", parse_join_u_integer_random_range)
    \/ InJoin("string_qualifier", parse_join_string_qualifier)
    \/ InJoin("string_unique", parse_join_string_unique)
    \/ InJoin("string_fixed", parse_join_string_fixed)
    \/ InJoin("string_hash", parse_join_string_hash)
    \/ InJoin("timestamp_qualifier", parse_join_timestamp_qualifier)
    \/ InJoin("datetime_qualifier", parse_join_datetime_qualifier)
    \/ InJoin("complete", parse_join_complete)
    \/ InJoin("grp_count", parse_join_grp_spec_count)
    \/ InJoin("grp_part", parse_join_grp_spec)

ParseNext == generate_dispatch \/ ParseSpecs \/ ParseColumn \/ ParseJoin
        \/ Closing \/ Reporting \/ FindNext \/ generate_dispatch_end \/ Over

ParseSpec == ParseInit /\ [][ParseNext]_parseVars
-----------------------------------------------------------------------------

(* Every DbSpec, TblSpec and ColSpec of the arguments, of those that turn  *)
(* out wrong as well, lies in the allocation generate_dispatch estimated   *)
(* from the number of arguments alone; and the specs of a valid database   *)
(* are not written again by a later DB_SPEC, while those of a wrong one    *)
(* are.                                                                    *)
SpecsFit == /\ state.top > 0 => state.top <= SpecAlloc
            /\ ~state.clobbered

(* The functions that do not compare arg.from with arg.until only read     *)
(* arguments there are, and messages quote arguments there are.            *)
ArgsExist ==
    /\ ~state.overrun
    /\ state.told.error \notin {"", "no_db_specs"} =>
          /\ state.told.spec \in 0..(argc - 1)
          /\ state.told.upto \in state.told.spec..(argc - 1)

Columns(tables) ==
    UNION {{tables[k].cols[i] : i \in DOMAIN tables[k].cols} : k \in DOMAIN tables}

Generated == UNION {Columns(state.valid[i]) : i \in DOMAIN state.valid}

(* What the columns to be built draw on is prepared.  The counter is built *)
(* to counter_upto: no column counts further, except the default string    *)
(* with groups in a JOIN, which counts rows although its groups were       *)
(* registered.  ctor_flags selects the generators that mysql_seed_generate *)
(* seeds: every generator that a column draws from is among them.          *)
ColumnsProvided ==
    \A c \in Generated : /\ c.odd \/ c.count <= state.generator.upto
                         /\ c.draws \subseteq state.generator.flags

Total(terms) == SumFunctionOnSet(terms, DOMAIN terms)

Rows(tables) == Total([k \in DOMAIN tables |-> tables[k].rows])
Cols(tables) == Total([k \in DOMAIN tables |-> Len(tables[k].cols)])

(* The totals that size the generator are those of the valid databases:    *)
(* what a DB_SPEC found wrong had counted is forgotten with it.            *)
CountersMatch ==
    LET valid == state.valid
    IN  /\ state.generator.rows = Total([i \in DOMAIN valid |-> Rows(valid[i])])
        /\ state.generator.tables = Total([i \in DOMAIN valid |-> Len(valid[i])])
        /\ state.generator.columns = Total([i \in DOMAIN valid |-> Cols(valid[i])])
        /\ \A i \in DOMAIN valid : \A k \in DOMAIN valid[i] :
              valid[i][k].rows <= state.generator.rowsMax

(* The declared length of a joined column holds the joined text, and no    *)
(* CHAR is longer than MySQL allows.                                       *)
JoinDeclared ==
    \A d \in state.declared :
        /\ d.odd \/ d.text <= d.length
        /\ d.type = "char" => d.length <= CHAR_LENGTH_MAX

(* Parsing ends before the last argument only at a DB_SPEC too short, or   *)
(* at a range whose MAX is less than its MIN; and the exit status tells of *)
(* every message.                                                          *)
ParsedToTheEnd ==
    state.node \in {"exit", "generate"} =>
        /\ \/ state.from >= argc
           \/ state.told.error \in {"short", "no_db_specs", "random_range_max_lt_min"}
        /\ (state.status = "failure") = (state.told.error # "")
=============================================================================
