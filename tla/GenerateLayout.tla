--------------------------- MODULE GenerateLayout ---------------------------
(***************************************************************************)
(* How mysql_seed_generate (generate/generate.h) lays out one allocation:  *)
(* databases, tables, columns, rowspans, row blocks and task nodes, each   *)
(* in an array whose size is computed before the loop that fills it.       *)
(*                                                                         *)
(* An array is the sequence of the elements hooked up so far; the next     *)
(* free element, for which the code keeps a pointer, is number Len + 1.    *)
(* An interval is a pair from, until with until exclusive, as in the code. *)
(* Task nodes are listed in the order of their links.                      *)
(***************************************************************************)
EXTENDS RowBlocks, CounterSizes, SequencesExt

CONSTANT Inputs   \* the parsed DB_SPECs considered: sequences of databases

(* A database is a sequence of tables, a table has a row count and columns *)
(* and a column has a build function, the length of its name (0 for a      *)
(* column that continues a join: its name is NULL) and the width a fixed   *)
(* cell takes with its null byte.                                          *)
ColSpecSet == [build : {"fixed", "unique"}, name : Nat, width : Nat \ {0}]
TblSpecSet == [rows : 1..UPTO_MAX, cols : Seq(ColSpecSet)]

ASSUME InputsAssumption ==
    \A in \in Inputs :
        /\ in \in Seq(Seq(TblSpecSet)) /\ in # <<>>
        /\ \A d \in 1..Len(in) :
            /\ in[d] # <<>>
            /\ \A t \in 1..Len(in[d]) :
                in[d][t].cols # <<>> /\ in[d][t].cols[1].name > 0

VARIABLES
    input,      \* the DB_SPECs
    count,      \* the GeneratorCounter that comes with them
    db, tbl,    \* the database and the table (of it) being hooked up
    tables,     \* struct Table
    columns,    \* struct Column
    rowspans,   \* struct Rowspan: the number of its parent row block
    rowBlocks,  \* struct RowBlock
    tasks,      \* the tasks of the first stage
    hook        \* where the loop is

layoutVars == <<input, count, db, tbl, tables, columns, rowspans, rowBlocks,
                tasks, hook>>

-----------------------------------------------------------------------------
(***************************************************************************)
(* Sizes                                                                   *)
(***************************************************************************)
SumOver(s, f(_)) == SumFunction([i \in DOMAIN s |-> f(s[i])])

Rows(t) == t.rows
ColumnCount(t) == Len(t.cols)
Counted(t) == \E c \in 1..Len(t.cols) : t.cols[c].build = "unique"

RowsIn(d) == SumOver(d, Rows)
ColumnsIn(d) == SumOver(d, ColumnCount)
TablesIn(in) == UNION {ToSet(in[d]) : d \in 1..Len(in)}

(* What the parser counts: every table and column of the valid DB_SPECs,   *)
(* and the longest run of numbers a column wants from the counter.         *)
GeneratorCounter(in) ==
    [rows          |-> SumOver(in, RowsIn),
     columns       |-> SumOver(in, ColumnsIn),
     tables        |-> SumOver(in, Len),
     databases     |-> Len(in),
     row_count_max |-> Max({t.rows : t \in TablesIn(in)}),
     counter_upto  |-> Max({0} \cup {t.rows : t \in {u \in TablesIn(in) : Counted(u)}})]

row_block_row_count_max == RowBlockRowCountMax(count.row_count_max)

(* A slip for comparison: no room for the partial blocks. *)
RowBlocksNoSlack == count.rows \div row_block_row_count_max

count_row_blocks_max == count.rows \div row_block_row_count_max + count.columns

count_rowspans_max == count_row_blocks_max * count.columns

(* build_counter, build_column_X, build_loader, build_table_init and       *)
(* build_table_write, build_row_block                                      *)
count_tasks_max ==
    1 + count.columns + count.databases + 2 * count.tables + count_row_blocks_max

-----------------------------------------------------------------------------
(***************************************************************************)
(* The loop                                                                *)
(***************************************************************************)
LayoutInit ==
    /\ input \in Inputs
    /\ count = GeneratorCounter(input)
    /\ db = 0 /\ tbl = 0
    /\ tables = <<>> /\ columns = <<>> /\ rowspans = <<>> /\ rowBlocks = <<>>
    /\ tasks = IF count.counter_upto > 0 THEN <<"build_counter">> ELSE <<>>
    /\ hook = "database"

TblSpec(t) == input[db][t]

(* while (1): the next database and its loader. *)
HookDatabase ==
    /\ hook = "database"
    /\ IF db = Len(input) THEN hook' = "done" /\ UNCHANGED <<db, tbl, tasks>>
       ELSE /\ db' = db + 1 /\ tbl' = 1
            /\ tasks' = Append(tasks, "build_loader")
            /\ hook' = "table"
    /\ UNCHANGED <<input, count, tables, columns, rowspans, rowBlocks>>

(* do: the next table, with its first row block and the interval of that   *)
(* block's rowspans opened.                                                *)
HookTable ==
    /\ hook = "table"
    /\ LET rows == TblSpec(tbl).rows
           b    == Len(rowBlocks) + 1
       IN  /\ rowBlocks' = Append(rowBlocks,
                 [rows |-> BlockRows(1, rows, row_block_row_count_max),
                  from |-> Len(rowspans) + 1, until |-> 0])
           /\ tables' = Append(tables,
                 [spec |-> TblSpec(tbl), blocksFrom |-> b,
                  blocksUntil |-> b + BlockCount(rows, row_block_row_count_max),
                  columnsFrom |-> Len(columns) + 1, colCount |-> 0, rowspansUntil |-> 0])
    /\ hook' = "column"
    /\ UNCHANGED <<input, count, db, tbl, columns, rowspans, tasks>>

(* do: a column, with its rowspan in the first row block. *)
HookColumn ==
    /\ hook = "column"
    /\ LET t == Len(tables)
           c == Len(columns) + 2 - tables[t].columnsFrom
       IN  /\ columns' = Append(columns, [spec |-> TblSpec(tbl).cols[c], table |-> t,
                                          rowspansFrom |-> Len(rowspans) + 1])
           /\ rowspans' = Append(rowspans, Len(rowBlocks))
           /\ hook' = IF c = Len(TblSpec(tbl).cols) THEN "blocks" ELSE "column"
    /\ tasks' = Append(tasks, "build_column")
    /\ UNCHANGED <<input, count, db, tbl, tables, rowBlocks>>

(* while (1): close a row block; open the next with a rowspan for every    *)
(* column, or leave the table.                                             *)
HookRowBlock ==
    /\ hook = "blocks"
    /\ LET t        == Len(tables)
           colCount == Len(columns) + 1 - tables[t].columnsFrom
           closed   == [rowBlocks EXCEPT ![Len(rowBlocks)].until = Len(rowspans) + 1]
       IN  IF Len(rowBlocks) + 1 = tables[t].blocksUntil
           THEN /\ rowBlocks' = closed
                /\ tables' = [tables EXCEPT ![t].colCount = colCount,
                                            ![t].rowspansUntil = Len(rowspans) + 1]
                /\ tbl' = tbl + 1
                /\ hook' = IF tbl = Len(input[db]) THEN "database" ELSE "table"
                /\ UNCHANGED rowspans
           ELSE /\ rowBlocks' = Append(closed, [rows  |-> row_block_row_count_max,
                                                from  |-> Len(rowspans) + 1, until |-> 0])
                /\ rowspans' = rowspans \o [i \in 1..colCount |-> Len(rowBlocks) + 1]
                /\ UNCHANGED <<tables, tbl, hook>>
    /\ UNCHANGED <<input, count, db, columns, tasks>>

Hook == HookDatabase \/ HookTable \/ HookColumn \/ HookRowBlock

-----------------------------------------------------------------------------
(* No array outgrows the room computed for it before the loop, whatever    *)
(* the sizes of the tables: the division of all rows by the size of a row  *)
(* block forgets one partial block per table, which count->columns makes   *)
(* up for.  The last three stages take one task node per table, row block  *)
(* and table.                                                              *)
LayoutFits ==
    /\ Len(tables) <= count.tables /\ Len(columns) <= count.columns
    /\ Len(rowBlocks) <= count_row_blocks_max
    /\ Len(rowspans) <= count_rowspans_max
    /\ Len(tasks) + 2 * Len(tables) + Len(rowBlocks) <= count_tasks_max
=============================================================================
