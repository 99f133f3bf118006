---------------------------- MODULE RandomColumn ----------------------------
(***************************************************************************)
(* A random column draws its values: the loops of random_uint32_bound and  *)
(* random_uint64_bound (random/random.h) through the generators of         *)
(* random_generator.c, for every RAND_SPEC the command line can ask for.   *)
(***************************************************************************)
EXTENDS ColumnSpecs

VARIABLES
    ask,     \* the RAND_SPEC: col, how, values, grouped, joined
    col,     \* the column as it was set
    drawn,   \* what the last call of random_uint32 or random_uint64 gave, if any
    value    \* the value of the cell, once it has one

vars == <<ask, col, drawn, value>>

Signed == INT64_MIN..INT64_MAX
Unsigned == 0..UINT64_MAX

(* MAX < MIN is refused by the parser. *)
Values(c, how) ==
    LET V == IF c = "integer" THEN Signed ELSE Unsigned
    IN  CASE how = "default" -> {<<>>}
          [] how = "range" -> {w \in V \X V : w[1] <= w[2]}
          [] OTHER -> {<<v>> : v \in V}

Asks == UNION {{[col |-> c, how |-> h, values |-> v, grouped |-> g, joined |-> j,
                 rows |-> 1, grp |-> 1]
                    : v \in Values(c, h), g \in BOOLEAN, j \in BOOLEAN}
               : c \in {"integer", "u_integer"}, h \in {"default", "from", "upto", "range"}}

SetColumn(a) ==
    IF a.col = "integer"
    THEN CASE a.how = "default" -> IF a.joined THEN join_integer_random_default(a)
                                               ELSE column_integer_random_default(a)
           [] a.how = "from"    -> CASE a.joined  -> join_integer_random_from(a)
                                     [] ~a.joined /\ a.grouped ->
                                            column_integer_random_from_group(a)
                                     [] OTHER     -> column_integer_random_from(a)
           [] a.how = "upto"    -> IF a.joined THEN join_integer_random_upto(a)
                                               ELSE column_integer_random_upto(a)
           [] OTHER             -> IF a.joined THEN join_integer_random_range(a)
                                               ELSE column_integer_random_range(a)
    ELSE CASE a.how = "default" -> IF a.joined THEN join_u_integer_random_default(a)
                                               ELSE column_u_integer_random_default(a)
           [] a.how = "from"    -> IF a.joined THEN join_u_integer_random_from(a)
                                               ELSE column_u_integer_random_from(a)
           [] a.how = "upto"    -> IF a.joined THEN join_u_integer_random_upto(a)
                                               ELSE column_u_integer_random_upto(a)
           [] OTHER             -> IF a.joined THEN join_u_integer_random_range(a)
                                               ELSE column_u_integer_random_range(a)

Gen == col.gen

(* pcg32_random_r, pcg64_random_r: any value of the width. *)
random_uint(bits) == 0..UMax(bits)

(* random_uint32_bound_32_offset_32 and the like: the remainder plus the   *)
(* offset, in the unsigned arithmetic of the result's width.               *)
random_bound_offset(g, r) == ((r % g.span) + g.offset) % Pow(g.result)

(* The result of the generator for an accepted draw r, as a signed number  *)
(* if the column is one of integers.                                       *)
generate(g, r) ==
    LET sum == random_bound_offset(g, r)
    IN  IF ask.col = "integer" /\ sum > IMax(g.result) THEN sum - Pow(g.result) ELSE sum

Init ==
    /\ ask \in Asks
    /\ col = SetColumn(ask)
    /\ drawn = {} /\ value = {}

(* A column with a span of zero divides by zero before the first draw. *)
CanDraw == Gen.span > 0 /\ value = {}

Reject(r) ==
    /\ CanDraw /\ r < Gen.threshold
    /\ drawn' = {r}
    /\ UNCHANGED <<ask, col, value>>

Accept(r) ==
    /\ CanDraw /\ r >= Gen.threshold
    /\ drawn' = {r}
    /\ value' = {generate(Gen, r)}
    /\ UNCHANGED <<ask, col>>

(* The next cell is drawn anew. *)
NextCell ==
    /\ value # {}
    /\ value' = {} /\ drawn' = {}
    /\ UNCHANGED <<ask, col>>

Next == (\E r \in random_uint(Gen.bits) : Reject(r) \/ Accept(r)) \/ NextCell

Spec == Init /\ [][Next]_vars

-----------------------------------------------------------------------------
(* The interval of values the RAND_SPEC asks for: "from ... INT32|64_MAX,  *)
(* min ... max" (random_generator.h), or the whole of the narrower width.  *)
Narrow(v) == IF ask.col = "integer" THEN v \in INT32_MIN..INT32_MAX ELSE v \in 0..UINT32_MAX

Least ==
    IF ask.how \in {"from", "range"} THEN ask.values[1]
    ELSE IF ask.col = "u_integer" THEN 0
    ELSE IF ask.how = "upto" /\ ~Narrow(ask.values[1]) THEN INT64_MIN ELSE INT32_MIN

Greatest ==
    CASE ask.how = "range" -> ask.values[2]
      [] ask.how = "upto" -> ask.values[1]
      [] OTHER -> LET wide == ask.how = "from" /\ ~Narrow(ask.values[1])
                  IN  IF ask.col = "integer" THEN IF wide THEN INT64_MAX ELSE INT32_MAX
                      ELSE IF wide THEN UINT64_MAX ELSE UINT32_MAX

(* Four kinds of RAND_SPEC that the code does not honour, see the README:  *)
(* a range of exactly 2^32 values drawn from the whole width, a wide range *)
(* of an unsigned column, a group from the least value of a width, and,    *)
(* for the shares only, the threshold of a narrow upto.                    *)
WideRange ==
    /\ ask.how = "range"
    /\ \/ ask.values[2] - ask.values[1] = UINT32_MAX
       \/ ask.col = "u_integer" /\ ask.values[2] - ask.values[1] > UINT32_MAX

ZeroSpan ==
    /\ ask.col = "integer" /\ ask.how = "from" /\ ask.grouped /\ ~ask.joined
    /\ ask.values[1] \in {INT32_MIN, INT64_MIN}

NarrowUpto == ask.col = "integer" /\ ask.how = "upto" /\ Narrow(ask.values[1])

(* Every cell of a random column holds a value of the requested interval.  *)
InRequestedRange == ~WideRange => value \subseteq Least..Greatest

(* Every value of the interval is produced by the same number of draws,    *)
(* which is what the threshold is for.                                     *)
Share(v) == {r \in random_uint(Gen.bits) : r >= Gen.threshold /\ generate(Gen, r) = v}

Unbiased ==
    drawn = {} /\ ~WideRange /\ ~ZeroSpan /\ ~NarrowUpto =>
        LET n == Cardinality(Share(Least))
        IN  n > 0 /\ \A v \in Least..Greatest : Cardinality(Share(v)) = n

(* A cell is never longer than the bytes set aside for it, nor than the    *)
(* length declared for it in a JOIN, and its type can hold it.             *)
CellFits ==
    \A v \in value :
        /\ Text(v) <= Gen.width
        /\ IF ask.joined THEN Text(v) - 1 <= col.length
           ELSE v \in IF ask.col = "integer" THEN IMin(col.type)..IMax(col.type)
                      ELSE 0..UMax(col.type)
=============================================================================
