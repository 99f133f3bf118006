---------------------------- MODULE GroupColumn ----------------------------
(***************************************************************************)
(* How a column is filled: the loops of the functions build_column_* of    *)
(* generate/column_*.c.  The rows of a column are divided in row blocks,   *)
(* whose cells (a rowspan) must be contiguous for build_row_block, and in  *)
(* a column with groups also in groups, whose rows share a value; both are *)
(* walked at once, rem_group and rem_cells counting down to the nearer     *)
(* boundary.                                                               *)
(***************************************************************************)
EXTENDS Group, CounterSizes, RowBlocks, SequencesExt

CONSTANTS MaxRows,        \* bound: the largest ROW_COUNT of the table
          MaxRandomRows,  \* bound: the same where every width is tried
          MaxRowCountMax, \* bound: the largest ROW_COUNT of any table
          SizeMax,        \* the *_SIZE_MAX and width_max of the code
          Base            \* the length of a base string

(* parse_row_count accepts no more than UPTO_MAX. *)
ASSUME MaxRowsAssumption ==
    /\ MaxRows \in Nat \ {0} /\ MaxRandomRows \in 1..MaxRows
    /\ MaxRowCountMax \in MaxRows..UPTO_MAX

ASSUME WidthAssumption == SizeMax \in Nat \ {0} /\ Base \in Nat

-----------------------------------------------------------------------------
(* The builders.  style: how cells are written.                            *)
(*   each      every cell by itself                                        *)
(*   inline    the first cell of a group is what its others are copied of  *)
(*   template  the same, but the first group is copied of a value put      *)
(*             ahead of the cells                                          *)
(*   outside   all cells are copied of a value kept elsewhere              *)
(* size: the bytes of a value; early: whether the column's length is added *)
(* to the table's before the cells are written; next: whether the value    *)
(* moves on after every cell, only within a row block, or never.           *)
Builder(style, size, early, next) ==
    [style |-> style, size |-> size, early |-> early, next |-> next]

Same    == "same"      \* SizeMax
Varied  == "varied"    \* 1 to SizeMax
Counted == "counted"   \* a base string and a count

build_column_integer_fixed       == Builder("each", Same, TRUE, "never")
build_column_u_integer_fixed     == Builder("each", Same, TRUE, "never")
build_column_string_fixed        == Builder("each", Same, TRUE, "never")
build_column_timestamp_fixed     == Builder("each", Same, TRUE, "never")
build_column_datetime_fixed      == Builder("each", Same, TRUE, "never")

build_column_string_unique       == Builder("each", Counted, TRUE, "always")
build_column_string_uuid         == Builder("each", Same, TRUE, "always")
build_column_string_hash         == Builder("each", Same, TRUE, "always")

(* The loop is left between the last cell of a rowspan and the increment. *)
build_column_timestamp_unique    == Builder("each", Same, TRUE, "within")
build_column_datetime_unique     == Builder("each", Same, TRUE, "within")

build_column_integer_random         == Builder("each", Varied, FALSE, "always")
build_column_integer_random_from    == Builder("each", Varied, FALSE, "always")
build_column_integer_random_upto    == Builder("each", Varied, FALSE, "always")
build_column_integer_random_range   == Builder("each", Varied, FALSE, "always")
build_column_u_integer_random       == Builder("each", Varied, FALSE, "always")
build_column_u_integer_random_from  == Builder("each", Varied, FALSE, "always")
build_column_u_integer_random_upto  == Builder("each", Varied, FALSE, "always")
build_column_u_integer_random_range == Builder("each", Varied, FALSE, "always")
build_column_string_names_first     == Builder("each", Varied, FALSE, "always")
build_column_string_names_last      == Builder("each", Varied, FALSE, "always")
build_column_string_names_full      == Builder("each", Varied, FALSE, "always")

build_column_integer_unique_group     == Builder("inline", Counted, FALSE, "group")
build_column_u_integer_unique_group   == Builder("inline", Counted, FALSE, "group")
build_column_string_unique_group      == Builder("inline", Counted, FALSE, "group")
build_column_string_hash_group        == Builder("inline", Same, TRUE, "group")
build_column_string_names_full_group  == Builder("inline", Varied, FALSE, "group")

build_column_integer_random_group         == Builder("template", Varied, FALSE, "group")
build_column_integer_random_from_group    == Builder("template", Varied, FALSE, "group")
build_column_integer_random_upto_group    == Builder("template", Varied, FALSE, "group")
build_column_integer_random_range_group   == Builder("template", Varied, FALSE, "group")
build_column_u_integer_random_group       == Builder("template", Varied, FALSE, "group")
build_column_u_integer_random_from_group  == Builder("template", Varied, FALSE, "group")
build_column_u_integer_random_upto_group  == Builder("template", Varied, FALSE, "group")
build_column_u_integer_random_range_group == Builder("template", Varied, FALSE, "group")

build_column_string_names_first_group  == Builder("outside", Varied, FALSE, "group")
build_column_string_names_last_group   == Builder("outside", Varied, FALSE, "group")
build_column_string_uuid_group         == Builder("outside", Same, TRUE, "group")
build_column_timestamp_unique_group    == Builder("outside", Same, TRUE, "group")
build_column_datetime_unique_group     == Builder("outside", Same, TRUE, "group")

(* All of them. *)
Builders ==
    {build_column_integer_fixed, build_column_u_integer_fixed, build_column_string_fixed,
     build_column_timestamp_fixed, build_column_datetime_fixed,
     build_column_string_unique, build_column_string_uuid, build_column_string_hash,
     build_column_timestamp_unique, build_column_datetime_unique,
     build_column_integer_random, build_column_integer_random_from,
     build_column_integer_random_upto, build_column_integer_random_range,
     build_column_u_integer_random, build_column_u_integer_random_from,
     build_column_u_integer_random_upto, build_column_u_integer_random_range,
     build_column_string_names_first, build_column_string_names_last,
     build_column_string_names_full,
     build_column_integer_unique_group, build_column_u_integer_unique_group,
     build_column_string_unique_group, build_column_string_hash_group,
     build_column_string_names_full_group,
     build_column_integer_random_group, build_column_integer_random_from_group,
     build_column_integer_random_upto_group, build_column_integer_random_range_group,
     build_column_u_integer_random_group, build_column_u_integer_random_from_group,
     build_column_u_integer_random_upto_group, build_column_u_integer_random_range_group,
     build_column_string_names_first_group, build_column_string_names_last_group,
     build_column_string_uuid_group, build_column_timestamp_unique_group,
     build_column_datetime_unique_group}

-----------------------------------------------------------------------------
VARIABLES
    col,         \* the builder
    rows,        \* the table's ROW_COUNT
    max,         \* row_block_row_count_max
    kind,        \* grp_spec.partition
    sizes,       \* the partition
    value,       \* the number of the current value: of its group, if any
    widths,      \* value -> its bytes
    block,       \* the row block being written
    remGroup,    \* rem_group, 0 without groups
    remCells,    \* rem_cells
    lead,        \* bytes put ahead of the cells
    cells,       \* the cells written so far: row -> value
    starts,      \* row block -> the row its rowspan starts with
    total,       \* row block -> row_block->total.length
    tableTotal,  \* table->total.length
    pc

columnVars == <<col, rows, max, kind, sizes, value, widths, block, remGroup, remCells, lead,
                cells, starts, total, tableTotal, pc>>

fixedVars == <<col, rows, max, kind, sizes, lead>>

Blocks == BlockCount(rows, max)

RowsOf(b) == BlockRows(b, rows, max)

(* The bytes value v may take... *)
Widths(v) ==
    CASE col.size = Same -> {SizeMax}
      [] col.size = Varied  -> 1..SizeMax
      [] OTHER           -> {Base + counter_size_mag_upto(v)}

(* ... and those allocated for all cells. *)
Allocated ==
    IF col.size # Counted THEN SizeMax * rows
    ELSE IF col.style = "each" THEN counter_size_upto(rows) + rows * Base
    ELSE (Base + counter_size_mag_upto(Len(sizes))) * rows

Bytes(s) == SumFunction([i \in DOMAIN s |-> widths'[s[i]]])

Repeat(v, n) == [i \in 1..n |-> v]

(* The value put ahead, or in the first cell, before the loop. *)
ColumnInit ==
    /\ col \in Builders
    /\ rows \in 1..(IF col.size = Varied THEN MaxRandomRows ELSE MaxRows)
    /\ max \in {RowBlockRowCountMax(m) : m \in rows..MaxRowCountMax}
    /\ IF col.style = "each" THEN kind = "none" /\ sizes = <<>>
       ELSE /\ kind \in {"even", "linear"} /\ (kind = "linear" => rows <= LinearRowsMax)
            /\ \E count \in 1..rows : sizes \in Partitions(kind, count, rows)
    /\ value = 1 /\ block = 1
    /\ widths \in {<<w>> : w \in Widths(1)}
    /\ lead = IF col.style = "template" THEN widths[1] ELSE 0
    /\ LET first == IF col.style = "inline" THEN 1 ELSE 0
       IN  /\ remGroup = IF col.style = "each" THEN 0 ELSE sizes[1] - first
           /\ remCells = RowsOf(1) - first
           /\ cells = Repeat(1, first)
    /\ starts = <<1>>
    /\ total = [b \in 1..Blocks |-> 0]
    /\ tableTotal = IF col.early THEN Allocated ELSE 0
    /\ pc = "loop"

(* The next value is formed. *)
Advance ==
    /\ value' = value + 1
    /\ \E w \in Widths(value + 1) : widths' = Append(widths, w)

(* One cell of a column without groups. *)
NextCell ==
    /\ pc = "loop" /\ col.style = "each" /\ remCells > 0
    /\ cells' = Append(cells, value)
    /\ remCells' = remCells - 1
    /\ IF col.next = "always" \/ (col.next = "within" /\ remCells > 1) THEN Advance
       ELSE UNCHANGED <<value, widths>>
    /\ UNCHANGED <<fixedVars, block, remGroup, starts, total, tableTotal, pc>>

(* A slip for comparison: a group that ends with its row block is left     *)
(* before the row block is.                                                *)
NextGroupEager ==
    /\ pc = "loop" /\ col.style # "each" /\ remCells >= remGroup
    /\ LET first == IF col.style = "outside" THEN 0 ELSE 1
       IN  /\ remCells' = remCells - (remGroup + first)
           /\ cells' = cells \o Repeat(value, remGroup) \o Repeat(value + 1, first)
           /\ remGroup' = IF value < Len(sizes) THEN sizes[value + 1] - first ELSE 0
    /\ Advance
    /\ UNCHANGED <<fixedVars, block, starts, total, tableTotal, pc>>

(* rem_cells > rem_group: finish the group and, where the value is kept in *)
(* a cell, write the first of the next.  *group past the partition reads   *)
(* whatever lies there.                                                    *)
NextGroup ==
    /\ pc = "loop" /\ col.style # "each" /\ remCells > remGroup
    /\ LET first == IF col.style = "outside" THEN 0 ELSE 1
       IN  /\ remCells' = remCells - (remGroup + first)
           /\ cells' = cells \o Repeat(value, remGroup) \o Repeat(value + 1, first)
           /\ remGroup' = IF value < Len(sizes) THEN sizes[value + 1] - first ELSE 0
    /\ Advance
    /\ UNCHANGED <<fixedVars, block, starts, total, tableTotal, pc>>

Written(b) == SubSeq(cells', starts[b], Len(cells'))

(* A slip for comparison: the next rowspan starts with the last cell of    *)
(* this one.                                                               *)
NextBlockOverlaps ==
    /\ pc = "loop" /\ remCells <= remGroup
    /\ remGroup' = remGroup - remCells
    /\ cells' = cells \o Repeat(value, remCells)
    /\ UNCHANGED widths
    /\ total' = [total EXCEPT ![block] = @ + Bytes(Written(block))]
    /\ IF block = Blocks
       THEN /\ pc' = "done" /\ UNCHANGED <<block, starts, remCells>>
            /\ tableTotal' = tableTotal + IF col.early THEN 0 ELSE Bytes(cells')
       ELSE /\ block' = block + 1
            /\ starts' = Append(starts, Len(cells'))
            /\ remCells' = RowsOf(block + 1)
            /\ UNCHANGED <<pc, tableTotal>>
    /\ UNCHANGED <<fixedVars, value>>

(* A slip for comparison: the column's length includes what is put ahead.  *)
NextBlockLead ==
    /\ pc = "loop" /\ remCells <= remGroup
    /\ remGroup' = remGroup - remCells
    /\ cells' = cells \o Repeat(value, remCells)
    /\ UNCHANGED widths
    /\ total' = [total EXCEPT ![block] = @ + Bytes(Written(block))]
    /\ IF block = Blocks
       THEN /\ pc' = "done" /\ UNCHANGED <<block, starts, remCells>>
            /\ tableTotal' = tableTotal + IF col.early THEN 0 ELSE lead + Bytes(cells')
       ELSE /\ block' = block + 1
            /\ starts' = Append(starts, Len(cells') + 1)
            /\ remCells' = RowsOf(block + 1)
            /\ UNCHANGED <<pc, tableTotal>>
    /\ UNCHANGED <<fixedVars, value>>

(* Otherwise: finish the row block, add its length, open the next.  Where  *)
(* all values have one size the length is computed, elsewhere measured.    *)
NextBlock ==
    /\ pc = "loop" /\ remCells <= remGroup
    /\ remGroup' = remGroup - remCells
    /\ cells' = cells \o Repeat(value, remCells)
    /\ UNCHANGED widths
    /\ total' = [total EXCEPT ![block] =
                    @ + IF col.size = Same THEN SizeMax * RowsOf(block)
                        ELSE Bytes(Written(block))]
    /\ IF block = Blocks
       THEN /\ pc' = "done" /\ UNCHANGED <<block, starts, remCells>>
            /\ tableTotal' = tableTotal + IF col.early THEN 0 ELSE Bytes(cells')
       ELSE /\ block' = block + 1
            /\ starts' = Append(starts, Len(cells') + 1)
            /\ remCells' = RowsOf(block + 1)
            /\ UNCHANGED <<pc, tableTotal>>
    /\ UNCHANGED <<fixedVars, value>>

Done == pc = "done" /\ UNCHANGED columnVars

ColumnNext == NextCell \/ NextGroup \/ NextBlock \/ Done

ColumnSpec == ColumnInit /\ [][ColumnNext]_columnVars

-----------------------------------------------------------------------------
(* Every group has a row and every row has a group: what the partitioners  *)
(* return covers ROW_COUNT exactly ("TEST_ASSERT_EQUAL_UINT(100lu, total)" *)
(* of the group test), and an even partition is even to one row.           *)
ExactPartition ==
    col.style # "each" =>
        /\ SumFunction(sizes) = rows
        /\ \A i \in 1..Len(sizes) : sizes[i] >= 1
        /\ kind = "even" => \A i, j \in 1..Len(sizes) : sizes[i] - sizes[j] \in -1..1

(* The group row i belongs to, by definition. *)
GroupOf(i) ==
    CHOOSE g \in 1..Len(sizes) :
        /\ SumFunctionOnSet(sizes, 1..g) >= i
        /\ SumFunctionOnSet(sizes, 1..g - 1) < i

(* The loops give every row the value of its group, or its own, or the one *)
(* value of the column, and every row block a rowspan of as many cells as  *)
(* it has rows.  In the time columns without groups the rows of one row    *)
(* block have values of their own; from one to the next see OneSecondApart.*)
RowsInPlace ==
    pc = "done" =>
        /\ Len(cells) = rows
        /\ \A b \in 1..Blocks :
            starts[b] + RowsOf(b) = IF b = Blocks THEN rows + 1 ELSE starts[b + 1]
        /\ \A i \in 1..rows :
            /\ col.next = "group" => cells[i] = GroupOf(i)
            /\ col.next = "always" => cells[i] = i
            /\ col.next = "never" => cells[i] = 1
        /\ col.next = "within" =>
            \A b \in 1..Blocks : \A i \in starts[b]..starts[b] + RowsOf(b) - 2 :
                cells[i + 1] = cells[i] + 1

(* "1 second apart" (README.md): in a time column without groups every row *)
(* has the value after that of the row before it.  Not so where a row      *)
(* block begins: the loop is left before the increment.                    *)
OneSecondApart ==
    pc = "done" /\ col.next = "within" =>
        \A i \in 1..rows - 1 : cells[i + 1] = cells[i] + 1

BytesOf(i, j) == SumFunction([k \in i..j |-> widths[cells[k]]])

(* The cells never outgrow the bytes allocated for them, but for the value *)
(* that some builders put ahead: no byte is set aside for it.              *)
WithinAllocation == BytesOf(1, Len(cells)) <= Allocated

(* The lengths added to the row blocks and to the table, some before a     *)
(* cell was written, are the bytes written.                                *)
LengthsAdded ==
    pc = "done" =>
        /\ tableTotal = BytesOf(1, rows)
        /\ \A b \in 1..Blocks : total[b] = BytesOf(starts[b], starts[b] + RowsOf(b) - 1)
=============================================================================
