----------------------------- MODULE TableBuild -----------------------------
(***************************************************************************)
(* From columns to the text of a table's file, over the layout of          *)
(* GenerateLayout and in the stages of generate/generate.h:                *)
(*   columns   each column writes its cells, a null-terminated string per  *)
(*             row, hooks its rowspans to them and adds their lengths to   *)
(*             the totals of its row blocks and of its table;              *)
(*   init      each table adds up its length and gives every row block the *)
(*             place of its rows;                                          *)
(*   blocks    each row block joins its rows from the cells, unsynchronised*)
(*             with the other row blocks of the same file;                 *)
(*   write     each table is written to its file.                          *)
(* Tasks of a stage run concurrently; the pool's barrier between stages    *)
(* (StagedRun) is a guard here.  A length is a number of bytes, a place an *)
(* offset into the file, a cell the column and the row it belongs to.      *)
(***************************************************************************)
EXTENDS GenerateLayout

CONSTANT MayFail   \* malloc may fail

VARIABLES
    stage,         \* "hook", "columns", "init", "blocks", "write", "done"
    from,          \* column -> the rowspan it fills next, 0 before it starts
    row,           \* column -> the row of its next cell
    finished,      \* the tasks of the stage that returned
    failed,        \* the tasks of the stage that failed
    cell,          \* rowspan -> the cell its pointer is at; column 0 if not set
    join,          \* rowspan -> rowspan->join
    blockTotal,    \* row block -> total.length
    tableTotal,    \* table -> total.length
    length,        \* table -> file.contents.length
    contents,      \* row block -> where its rows begin
    ptr,           \* row block -> where it writes next
    written        \* row block -> the rows it has written, in order

buildVars == <<stage, from, row, finished, failed, cell, join, blockTotal,
               tableTotal, length, contents, ptr, written>>

vars == <<layoutVars, buildVars>>

Tables    == 1..Len(tables)
Columns   == 1..Len(columns)
Rowspans  == 1..Len(rowspans)
RowBlockSet == 1..Len(rowBlocks)

BlocksOf(t) == tables[t].blocksFrom .. tables[t].blocksUntil - 1

Init ==
    /\ LayoutInit
    /\ stage = "hook"
    /\ from = <<>> /\ row = <<>> /\ finished = {} /\ failed = {}
    /\ cell = <<>> /\ join = <<>>
    /\ blockTotal = <<>> /\ tableTotal = <<>> /\ length = <<>>
    /\ contents = <<>> /\ ptr = <<>> /\ written = <<>>

HookStep == stage = "hook" /\ Hook /\ UNCHANGED buildVars

(* length_lock_init of every total; nothing is hooked to a cell yet. *)
StartPool ==
    /\ stage = "hook" /\ hook = "done"
    /\ stage' = "columns"
    /\ from' = [c \in Columns |-> 0] /\ row' = [c \in Columns |-> 1]
    /\ cell' = [r \in Rowspans |-> [col |-> 0, row |-> 0]] /\ join' = [r \in Rowspans |-> FALSE]
    /\ blockTotal' = [b \in RowBlockSet |-> 0] /\ tableTotal' = [t \in Tables |-> 0]
    /\ length' = [t \in Tables |-> 0]
    /\ contents' = [b \in RowBlockSet |-> 0] /\ ptr' = [b \in RowBlockSet |-> 0]
    /\ written' = [b \in RowBlockSet |-> <<>>]
    /\ UNCHANGED <<layoutVars, finished, failed>>

(* thread_pool_await: the next stage begins when every task has returned. *)
NextStage(this, that, ts) ==
    /\ stage = this /\ finished = ts
    /\ stage' = that /\ finished' = {}
    /\ UNCHANGED <<layoutVars, from, row, failed, cell, join, blockTotal,
                   tableTotal, length, contents, ptr, written>>

-----------------------------------------------------------------------------
(***************************************************************************)
(* Columns                                                                 *)
(***************************************************************************)

(* The bytes of a cell with its null byte: a fixed string, or the row's    *)
(* number in decimal.                                                      *)
Width(c, r) ==
    IF columns[c].spec.build = "fixed" THEN columns[c].spec.width
    ELSE counter_size_mag_upto(r)

(* The bytes of n cells from row r on.  A fixed column multiplies; a       *)
(* column of counter strings subtracts two pointers of the counter.        *)
CellBytes(c, r, n) ==
    IF columns[c].spec.build = "fixed" THEN n * columns[c].spec.width
    ELSE counter_size_upto(r + n - 1) - IF r = 1 THEN 0 ELSE counter_size_upto(r - 1)

(* A slip for comparison: the length replaces the total. *)
LengthReplaces(total, i, increment) == [total EXCEPT ![i] = increment]

length_lock_increment(total, i, increment) == [total EXCEPT ![i] = @ + increment]

Parent(c) == columns[c].table

(* A slip for comparison: the next rowspan in the array. *)
NextRowspanOne(c) == from[c] + 1

(* The rowspan of the same column in the next row block. *)
NextRowspan(c) == from[c] + tables[Parent(c)].colCount

(* A fixed column allocates its cells and adds their length to the table;  *)
(* a unique one waits for the counter.                                     *)
StartColumn(c) ==
    /\ stage = "columns" /\ from[c] = 0 /\ c \notin failed
    /\ \/ /\ from' = [from EXCEPT ![c] = columns[c].rowspansFrom]
          /\ tableTotal' = IF columns[c].spec.build # "fixed" THEN tableTotal
               ELSE length_lock_increment(tableTotal, Parent(c),
                        CellBytes(c, 1, tables[Parent(c)].spec.rows))
          /\ UNCHANGED failed
       \/ /\ MayFail /\ columns[c].spec.build = "fixed"
          /\ failed' = failed \cup {c}
          /\ UNCHANGED <<from, tableTotal>>
    /\ UNCHANGED <<layoutVars, stage, row, finished, cell, join, blockTotal, length,
                   contents, ptr, written>>

(* One turn of the loop: hook a rowspan, add its length, go col_count      *)
(* rowspans on.  After the last a unique column adds its length to the     *)
(* table.                                                                  *)
FillRowspan(c) ==
    /\ stage = "columns" /\ from[c] > 0 /\ c \notin finished
    /\ LET t == tables[Parent(c)]
           b == rowspans[from[c]]
           n == rowBlocks[b].rows
           over == NextRowspan(c) >= t.rowspansUntil
       IN  /\ cell' = [cell EXCEPT ![from[c]] = [col |-> c, row |-> row[c]]]
           /\ join' = [join EXCEPT ![from[c]] = columns[c].spec.name = 0]
           /\ blockTotal' = length_lock_increment(blockTotal, b, CellBytes(c, row[c], n))
           /\ row' = [row EXCEPT ![c] = @ + n]
           /\ from' = [from EXCEPT ![c] = NextRowspan(c)]
           /\ finished' = IF over THEN finished \cup {c} ELSE finished
           /\ tableTotal' = IF over /\ columns[c].spec.build = "unique"
                            THEN length_lock_increment(tableTotal, Parent(c),
                                     CellBytes(c, 1, row[c] + n - 1))
                            ELSE tableTotal
    /\ UNCHANGED <<layoutVars, stage, failed, length, contents, ptr, written>>

-----------------------------------------------------------------------------
(***************************************************************************)
(* Tables                                                                  *)
(***************************************************************************)

(* Bytes of the five fixed pieces of a table's header... *)
TABLE_HEADER == <<4, 78, 37, 55, 347>>

TABLE_HEADER_BASE_SIZE == SumFunction(TABLE_HEADER)

(* ... and of the file's path and the names of table and database.  Their  *)
(* sum is all that matters.                                                *)
NAMES == 30

ColSpecs(t) == tables[t].spec.cols

Joins(t) == Cardinality({i \in 2..Len(ColSpecs(t)) : ColSpecs(t)[i].name = 0})

(* table_size_contents: a name and a delimiter for each named column, and  *)
(* no delimiters in the rows for the others.                               *)
table_size_contents(t) ==
    LET Named(s) == IF s.name = 0 THEN 0 ELSE 1 + s.name
    IN  TABLE_HEADER_BASE_SIZE + NAMES + tableTotal[t]
        + ColSpecs(t)[1].name + SumOver(Tail(ColSpecs(t)), Named)
        - Joins(t) * tables[t].spec.rows

(* table_put_header: where it stops writing. *)
table_put_header(t) ==
    TABLE_HEADER[1] + TABLE_HEADER[2] + TABLE_HEADER[3] + TABLE_HEADER[4] + NAMES
    + ColSpecs(t)[1].name
    + SumFunction([i \in {j \in 2..Len(ColSpecs(t)) : ColSpecs(t)[j].name # 0} |->
                      1 + ColSpecs(t)[i].name])
    + TABLE_HEADER[5]

(* build_table_init: size, allocate, write the header, place the row       *)
(* blocks one after the other.                                             *)
build_table_init(t) ==
    /\ stage = "init" /\ t \notin finished \cup failed
    /\ \/ /\ length' = [length EXCEPT ![t] = table_size_contents(t)]
          /\ contents' = [b \in RowBlockSet |->
               IF b \notin BlocksOf(t) THEN contents[b]
               ELSE table_put_header(t)
                    + SumFunction([a \in tables[t].blocksFrom .. b - 1 |->
                          blockTotal[a] - Joins(t) * rowBlocks[a].rows])]
          /\ finished' = finished \cup {t}
          /\ UNCHANGED failed
       \/ /\ MayFail
          /\ failed' = failed \cup {t}
          /\ UNCHANGED <<length, contents, finished>>
    /\ UNCHANGED <<layoutVars, stage, from, row, cell, join, blockTotal, tableTotal,
                   ptr, written>>

(* The bytes of a row of these cells: a newline, each cell without its     *)
(* null byte, and a delimiter before each but the first that does not      *)
(* continue a join.                                                        *)
RowBytes(spans) ==
    LET CellText(r) == Width(cell[r].col, cell[r].row) - 1
    IN  1 + SumFunction([r \in spans |-> CellText(r)])
        + Cardinality({r \in spans : ~join[r] /\ r - 1 \in spans})

(* build_row_block, a row at a time.  All rows but the last move the cell  *)
(* pointers on: put_row_block_row, and then copy_row_block_row.            *)
build_row_block(b) ==
    /\ stage = "blocks" /\ b \notin finished
    /\ LET spans == rowBlocks[b].from .. rowBlocks[b].until - 1
           at    == IF written[b] = <<>> THEN contents[b] ELSE ptr[b]
           last  == Len(written[b]) + 1 = rowBlocks[b].rows
       IN  /\ ptr' = [ptr EXCEPT ![b] = at + RowBytes(spans)]
           /\ written' = [written EXCEPT ![b] =
                Append(@, [i \in 1..Cardinality(spans) |-> cell[rowBlocks[b].from + i - 1]])]
           /\ cell' = IF last THEN cell
                      ELSE [r \in Rowspans |-> IF r \in spans
                               THEN [cell[r] EXCEPT !.row = @ + 1] ELSE cell[r]]
           /\ finished' = IF last THEN finished \cup {b} ELSE finished
    /\ UNCHANGED <<layoutVars, stage, from, row, failed, join, blockTotal, tableTotal,
                   length, contents>>

(* build_table_write: the file gets file.contents.length bytes. *)
build_table_write(t) ==
    /\ stage = "write" /\ t \notin finished
    /\ finished' = finished \cup {t}
    /\ UNCHANGED <<layoutVars, stage, from, row, failed, cell, join, blockTotal,
                   tableTotal, length, contents, ptr, written>>

Stopped == (failed # {} \/ stage = "done") /\ UNCHANGED vars

Next ==
    \/ HookStep \/ StartPool
    \/ NextStage("columns", "init", Columns)
    \/ NextStage("init", "blocks", Tables)
    \/ NextStage("blocks", "write", RowBlockSet)
    \/ NextStage("write", "done", Tables)
    \/ \E c \in Columns : StartColumn(c) \/ FillRowspan(c)
    \/ \E t \in Tables : build_table_init(t) \/ build_table_write(t)
    \/ \E b \in RowBlockSet : build_row_block(b)
    \/ Stopped

Spec == Init /\ [][Next]_vars

-----------------------------------------------------------------------------
(* Every cell pointer is at a cell of its own column: the walk by          *)
(* col_count rowspans stays in the column, row blocks share the column's   *)
(* rows out without a remainder, and the counter is as long as the longest *)
(* column that borrows its strings.                                        *)
CellsExist ==
    \A r \in 1..Len(cell) :
        LET c == cell[r].col
        IN  c # 0 =>
              /\ cell[r].row <= tables[Parent(c)].spec.rows
              /\ columns[c].spec.build = "unique" => cell[r].row <= count.counter_upto
              /\ rowspans[r] \in BlocksOf(Parent(c))
              /\ r - rowBlocks[rowspans[r]].from = c - tables[Parent(c)].columnsFrom

(* The rows before row block b in its table. *)
RowsBefore(t, b) ==
    SumFunction([a \in tables[t].blocksFrom .. b - 1 |-> rowBlocks[a].rows])

(* Row k of a row block is row k of the block's part of the table: one     *)
(* cell of each column, in order, all of the same row.                     *)
RowsAligned ==
    \A t \in Tables : \A b \in BlocksOf(t) \cap 1..Len(written) :
        \A k \in 1..Len(written[b]) :
            written[b][k] = [i \in 1..tables[t].colCount |->
                               [col |-> tables[t].columnsFrom + i - 1,
                                row |-> RowsBefore(t, b) + k]]

(* The row blocks write the file side by side: each stays between its own  *)
(* place and the next one's (or the end of the file's buffer), and when    *)
(* all are done the bytes of the file are all written.                     *)
BlocksTile ==
    \A t \in Tables : \A b \in BlocksOf(t) \cap 1..Len(written) :
        LET end == IF b + 1 = tables[t].blocksUntil THEN length[t] ELSE contents[b + 1]
        IN  /\ written[b] # <<>> => ptr[b] <= end
            /\ Len(written[b]) = rowBlocks[b].rows => ptr[b] = end
            /\ stage \in {"write", "done"} => Len(written[b]) = rowBlocks[b].rows
=============================================================================
