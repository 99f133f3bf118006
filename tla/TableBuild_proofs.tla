-------------------------- MODULE TableBuild_proofs --------------------------
(***************************************************************************)
(* Proofs about the layout of a run of generate mode and the text of its   *)
(* tables, for every input that satisfies InputsAssumption:                *)
(*   LayoutFits   no array outgrows the room allocated for it;             *)
(*   CellsExist   a cell pointer stays in its column and its rows;         *)
(*   RowsAligned  row k is made of the k-th cells;                         *)
(*   BlocksTile   the row blocks fill the file without gap or overlap.     *)
(*                                                                         *)
(* Three invariants, each inductive on top of the ones before it:          *)
(*   LayoutInv    the loop: how the lengths of the arrays grow with the    *)
(*                part of the input left behind (CountInv) and that tables,*)
(*                columns, row blocks and rowspans point at each other     *)
(*                (ShapeInv), so that the rowspan of column c in row block *)
(*                b is At(c, b);                                           *)
(*   BuildInv     the stages: how far each column has walked, and that the *)
(*                rowspans it left behind point at its rows;               *)
(*   BytesInv     lengths and places: every total is the sum over the      *)
(*                columns that have added to it, and every place is that   *)
(*                of the text of the rows before it (TextTo).              *)
(***************************************************************************)
EXTENDS TableBuild, SequenceTheorems, Sizes_proofs

(* The rows of a row block that is not the first of its table. *)
BlockMax == row_block_row_count_max

(* The tables, columns and rows of the first k databases, and of the first *)
(* k tables of database d.                                                 *)
TablesUpto(k) == Sum([d \in 1..Len(input) |-> Len(input[d])], 1..k)
ColumnsUpto(k) == Sum([d \in 1..Len(input) |-> ColumnsIn(input[d])], 1..k)
RowsUpto(k) == Sum([d \in 1..Len(input) |-> RowsIn(input[d])], 1..k)
TblColumns(d, k) == Sum([t \in 1..Len(input[d]) |-> Len(input[d][t].cols)], 1..k)
TblRows(d, k) == Sum([t \in 1..Len(input[d]) |-> input[d][t].rows], 1..k)

(* The loop is in table tbl of database db, or between databases. *)
InTable == hook \in {"table", "column", "blocks"}
InColumns == hook \in {"column", "blocks"}

(* How much of the input the loop has left behind. *)
TablesPast == IF InTable THEN TablesUpto(db - 1) + (tbl - 1) ELSE TablesUpto(db)
ColumnsPast == IF InTable THEN ColumnsUpto(db - 1) + TblColumns(db, tbl - 1) ELSE ColumnsUpto(db)
RowsPast == IF InTable THEN RowsUpto(db - 1) + TblRows(db, tbl - 1) ELSE RowsUpto(db)

(* The elements of the arrays. *)
TableSet == [spec : TblSpecSet, blocksFrom : Nat \ {0}, blocksUntil : Nat, columnsFrom : Nat \ {0},
             colCount : Nat, rowspansUntil : Nat]
ColumnSet == [spec : ColSpecSet, table : Nat, rowspansFrom : Nat]
RowBlockRec == [rows : Nat, from : Nat \ {0}, until : Nat]

(* The tasks of the first stage. *)
TaskNames == {"build_counter", "build_loader", "build_column"}

(* The types of the variables, and where db and tbl may be. *)
LayoutTypes ==
    /\ input \in Inputs /\ count = GeneratorCounter(input)
    /\ hook \in {"database", "table", "column", "blocks", "done"}
    /\ db \in 0..Len(input)
    /\ InTable => db > 0 /\ tbl \in 1..Len(input[db])
    /\ tables \in Seq(TableSet) /\ columns \in Seq(ColumnSet)
    /\ rowspans \in Seq(Nat) /\ rowBlocks \in Seq(RowBlockRec) /\ tasks \in Seq(TaskNames)

(* Where the counts stand. *)
CountInv ==
    /\ hook = "done" => db = Len(input)
    /\ Len(tables) = TablesPast + IF InColumns THEN 1 ELSE 0
    /\ Len(tables) <= ColumnsPast + IF InColumns THEN 1 ELSE 0
    /\ Len(tasks) <= 1 + db + Len(columns)
    /\ ~InColumns =>
          /\ Len(columns) = ColumnsPast
          /\ Len(rowBlocks) <= RowsPast \div BlockMax + Len(tables)
          /\ Len(rowspans) <= Len(rowBlocks) * count.columns
    /\ InColumns =>
          LET t == tables[Len(tables)]
          IN  /\ t.spec = TblSpec(tbl)
              /\ t.columnsFrom = ColumnsPast + 1
              /\ Len(columns) + 1 - t.columnsFrom \in 0..Len(t.spec.cols)
              /\ hook = "column" => Len(columns) + 1 - t.columnsFrom < Len(t.spec.cols)
              /\ hook = "blocks" => Len(columns) + 1 - t.columnsFrom = Len(t.spec.cols)
              /\ Len(rowBlocks) < t.blocksUntil
              /\ t.blocksUntil - 1 <= (RowsPast + t.spec.rows) \div BlockMax + Len(tables)
              /\ Len(rowspans) <= (Len(rowBlocks) - 1) * count.columns
                                   + (Len(columns) + 1 - t.columnsFrom)

-----------------------------------------------------------------------------
(* The columns that table t is to have, and its first row block. *)
ColsOf(t) == Len(tables[t].spec.cols)
FirstBlock(t) == tables[t].blocksFrom

(* A row block whose rowspans are all there. *)
BlockHooked(t, b) ==
    /\ rowBlocks[b].rows = BlockRows(b + 1 - FirstBlock(t), tables[t].spec.rows, BlockMax)
    /\ rowBlocks[b].until = rowBlocks[b].from + ColsOf(t)
    /\ rowBlocks[b].until <= Len(rowspans) + 1
    /\ \A r \in rowBlocks[b].from .. rowBlocks[b].until - 1 : rowspans[r] = b
    /\ b + 1 < tables[t].blocksUntil => rowBlocks[b + 1].from = rowBlocks[b].until

(* A column that has its place in its table, and its rowspans. *)
ColumnHooked(t, c) ==
    /\ columns[c].table = t
    /\ columns[c].spec = tables[t].spec.cols[c + 1 - tables[t].columnsFrom]
    /\ columns[c].rowspansFrom = rowBlocks[FirstBlock(t)].from + (c - tables[t].columnsFrom)

(* A table knows its part of the input and the number of its row blocks. *)
TableSound(t) ==
    /\ \E d \in 1..Len(input) : \E k \in 1..Len(input[d]) : tables[t].spec = input[d][k]
    /\ tables[t].blocksUntil = FirstBlock(t) + BlockCount(tables[t].spec.rows, BlockMax)

(* A table that the loop has left. *)
TableHooked(t) ==
    /\ tables[t].blocksUntil <= Len(rowBlocks) + 1
    /\ tables[t].columnsFrom + ColsOf(t) <= Len(columns) + 1
    /\ tables[t].colCount = ColsOf(t)
    /\ tables[t].rowspansUntil = rowBlocks[tables[t].blocksUntil - 1].until
    /\ \A b \in BlocksOf(t) : BlockHooked(t, b)
    /\ \A c \in tables[t].columnsFrom .. tables[t].columnsFrom + ColsOf(t) - 1 : ColumnHooked(t, c)

(* The table at hand: its first columns, and the row blocks before the     *)
(* last one, which is open.                                                *)
TableOpen(t) ==
    LET b == Len(rowBlocks)
    IN  /\ b \in BlocksOf(t) /\ b < tables[t].blocksUntil
        /\ hook = "column" => b = FirstBlock(t)
        /\ rowBlocks[b].rows = BlockRows(b + 1 - FirstBlock(t), tables[t].spec.rows, BlockMax)
        /\ rowBlocks[b].from + (Len(columns) + 1 - tables[t].columnsFrom) = Len(rowspans) + 1
        /\ \A r \in rowBlocks[b].from .. Len(rowspans) : rowspans[r] = b
        /\ \A a \in FirstBlock(t) .. b - 1 : BlockHooked(t, a)
        /\ \A c \in tables[t].columnsFrom .. Len(columns) : ColumnHooked(t, c)

(* The tables that the loop has left. *)
HookedTables == 1 .. IF InColumns THEN Len(tables) - 1 ELSE Len(tables)

(* How the arrays point at each other.  They are filled in the order of    *)
(* the tables, which keeps the tables apart.                               *)
ShapeInv ==
    /\ \A t \in Tables : TableSound(t)
    /\ \A t \in HookedTables : TableHooked(t)
    /\ InColumns => TableOpen(Len(tables))
    /\ \A t, u \in Tables : t < u => tables[t].blocksUntil <= tables[u].blocksFrom
    /\ \A a, b \in RowBlockSet : a < b => rowBlocks[a].from < rowBlocks[b].from
    /\ \A b \in RowBlockSet : rowBlocks[b].from <= Len(rowspans) + 1
    /\ \A b \in RowBlockSet : \E t \in Tables : b \in BlocksOf(t)
    /\ \A c \in Columns : \E t \in Tables :
          c \in tables[t].columnsFrom .. tables[t].columnsFrom + ColsOf(t) - 1 /\ ColumnHooked(t, c)

LayoutInv == LayoutTypes /\ CountInv /\ ShapeInv

-----------------------------------------------------------------------------
(* The columns of table t. *)
ColumnsOf(t) == tables[t].columnsFrom .. tables[t].columnsFrom + ColsOf(t) - 1

(* The rowspan of column c in row block b. *)
At(c, b) == rowBlocks[b].from + (c - tables[Parent(c)].columnsFrom)

-----------------------------------------------------------------------------
(***************************************************************************)
(* Arithmetic                                                              *)
(***************************************************************************)

(* What \div and % are. *)
LEMMA Division ==
    ASSUME NEW x \in Nat, NEW m \in Nat \ {0}
    PROVE  /\ x \div m \in Nat /\ x % m \in Nat /\ x % m < m
           /\ x = m * (x \div m) + (x % m)
  OBVIOUS

(* The quotient is the largest number of times m fits. *)
LEMMA Quotient ==
    ASSUME NEW x \in Nat, NEW m \in Nat \ {0}, NEW q \in Nat, m * q <= x
    PROVE  q <= x \div m
<1>1. PICK d, r \in Nat : d = x \div m /\ r = x % m /\ r < m /\ x = m * d + r
  BY Division
<1>2. SUFFICES ASSUME d + 1 <= q PROVE FALSE
  BY <1>1
<1>3. m * (d + 1) <= m * q
  BY <1>1, <1>2
<1>4. m * (d + 1) = m * d + m
  BY <1>1
<1> QED
  BY <1>1, <1>3, <1>4

(* Dividing the parts loses no less than dividing the whole. *)
LEMMA QuotientSum ==
    ASSUME NEW x \in Nat, NEW y \in Nat, NEW m \in Nat \ {0}
    PROVE  x \div m + y \div m <= (x + y) \div m
<1>1. PICK d, r \in Nat : d = x \div m /\ r = x % m /\ r < m /\ x = m * d + r
  BY Division
<1>2. PICK e, s \in Nat : e = y \div m /\ s = y % m /\ s < m /\ y = m * e + s
  BY Division
<1>3. m * (d + e) <= x + y
  BY <1>1, <1>2
<1>4. d + e <= (x + y) \div m
  BY <1>3, Quotient
<1> QED
  BY <1>1, <1>2, <1>4

(* The row blocks of a table: at least one, at most one more than the      *)
(* division says, and together they have the rows of the table.            *)
LEMMA BlockFacts ==
    ASSUME NEW rows \in Nat \ {0}, NEW m \in Nat \ {0}
    PROVE  /\ BlockCount(rows, m) \in Nat \ {0}
           /\ BlockCount(rows, m) <= rows \div m + 1
           /\ \A b \in Nat \ {0} : BlockRows(b, rows, m) \in Nat \ {0}
           /\ BlockRows(1, rows, m) + m * (BlockCount(rows, m) - 1) = rows
<1>1. PICK d, r \in Nat : d = rows \div m /\ r = rows % m /\ r < m /\ rows = m * d + r
  BY Division
<1>2. CASE r > 0
  <2>1. BlockCount(rows, m) = d + 1 /\ BlockRows(1, rows, m) = r
    BY <1>1, <1>2 DEF BlockCount, BlockRows
  <2>2. \A b \in Nat \ {0} : BlockRows(b, rows, m) \in {r, m}
    BY <1>1, <1>2 DEF BlockRows
  <2> QED
    BY <1>1, <1>2, <2>1, <2>2
<1>3. CASE r = 0
  <2>1. BlockCount(rows, m) = d /\ BlockRows(1, rows, m) = m
    BY <1>1, <1>3 DEF BlockCount, BlockRows
  <2>2. \A b \in Nat \ {0} : BlockRows(b, rows, m) = m
    BY <1>1, <1>3 DEF BlockRows
  <2>3. d # 0
    BY <1>1, <1>3
  <2>4. m * (d - 1) = m * d - m
    BY <1>1
  <2> QED
    BY <1>1, <1>3, <2>1, <2>2, <2>3, <2>4
<1> QED
  BY <1>1, <1>2, <1>3

-----------------------------------------------------------------------------
(***************************************************************************)
(* The input and its counts                                                *)
(***************************************************************************)
(* The largest ROW_COUNT is a number. *)
LEMMA UptoNatural == UPTO_MAX \in Nat
  BY SMT, UptoMax

(* What InputsAssumption says of a table. *)
LEMMA SpecFacts ==
    ASSUME input \in Inputs, NEW d \in 1..Len(input), NEW k \in 1..Len(input[d])
    PROVE  /\ input[d][k] \in TblSpecSet
           /\ input[d][k].rows \in Nat \ {0} /\ input[d][k].rows <= UPTO_MAX
           /\ input[d][k].cols \in Seq(ColSpecSet)
           /\ Len(input[d][k].cols) \in Nat \ {0}
           /\ input[d][k].cols[1].name > 0
<1>1. /\ input \in Seq(Seq(TblSpecSet))
      /\ input[d][k].cols # <<>> /\ input[d][k].cols[1].name > 0
  BY InputsAssumption
<1>2. input[d] \in Seq(TblSpecSet)
  BY <1>1
<1>3. input[d][k] \in TblSpecSet
  BY <1>2
<1>4. PICK s : s = input[d][k]
  OBVIOUS
<1>5. s.rows \in 1..UPTO_MAX /\ s.cols \in Seq(ColSpecSet)
  BY <1>3, <1>4 DEF TblSpecSet
<1>6. s.rows \in Nat \ {0} /\ s.rows <= UPTO_MAX
  BY <1>5, UptoNatural
<1>7. Len(s.cols) \in Nat \ {0}
  BY <1>1, <1>4, <1>5
<1> QED
  BY <1>1, <1>3, <1>4, <1>5, <1>6, <1>7

(* No database is empty. *)
LEMMA InputFacts ==
    ASSUME input \in Inputs
    PROVE  /\ input \in Seq(Seq(TblSpecSet)) /\ Len(input) \in Nat \ {0}
           /\ DOMAIN input = 1..Len(input)
           /\ \A d \in 1..Len(input) : /\ Len(input[d]) \in Nat \ {0}
                                       /\ input[d] \in Seq(TblSpecSet)
                                       /\ DOMAIN input[d] = 1..Len(input[d])
<1>1. input \in Seq(Seq(TblSpecSet)) /\ input # <<>>
  BY InputsAssumption
<1>2. ASSUME NEW d \in 1..Len(input)
      PROVE  /\ Len(input[d]) \in Nat \ {0} /\ input[d] \in Seq(TblSpecSet)
             /\ DOMAIN input[d] = 1..Len(input[d])
  <2>1. input[d] \in Seq(TblSpecSet) /\ input[d] # <<>>
    BY <1>1, InputsAssumption
  <2> QED
    BY <2>1
<1> QED
  BY <1>1, <1>2

(* s is a table of the input. *)
IsSpec(s) == \E d \in 1..Len(input) : \E k \in 1..Len(input[d]) : s = input[d][k]

(* The tables whose rows the parser takes the maximum of. *)
LEMMA TablesInInput ==
    ASSUME input \in Inputs
    PROVE  \A s : s \in TablesIn(input) <=> IsSpec(s)
<1>1. ASSUME NEW s, s \in TablesIn(input) PROVE IsSpec(s)
  <2>1. PICK d \in 1..Len(input) : s \in ToSet(input[d])
    BY <1>1, Zenon DEF TablesIn
  <2>2. PICK k \in DOMAIN input[d] : s = input[d][k]
    BY <2>1, Zenon DEF ToSet
  <2> QED
    BY <2>1, <2>2, InputFacts DEF IsSpec
<1>2. ASSUME NEW s, IsSpec(s) PROVE s \in TablesIn(input)
  <2>0. PICK d \in 1..Len(input) : \E k \in 1..Len(input[d]) : s = input[d][k]
    BY <1>2, Zenon DEF IsSpec
  <2>1. PICK k \in 1..Len(input[d]) : s = input[d][k]
    BY <2>0
  <2>2. k \in DOMAIN input[d]
    BY InputFacts
  <2>3. s \in ToSet(input[d])
    BY <2>1, <2>2, Zenon DEF ToSet
  <2> QED
    BY <2>3, Zenon DEF TablesIn
<1> QED
  BY <1>1, <1>2

(* The size of a row block is positive, and the counter is as long as any  *)
(* table that counts.                                                      *)
LEMMA CountFacts ==
    ASSUME input \in Inputs, count = GeneratorCounter(input)
    PROVE  /\ BlockMax \in Nat \ {0}
           /\ \A s : IsSpec(s) /\ Counted(s) => s.rows <= count.counter_upto
           /\ count.counter_upto \in Nat
<1> DEFINE All == {s.rows : s \in TablesIn(input)}
           Some == {0} \cup {s.rows : s \in {u \in TablesIn(input) : Counted(u)}}
<1>1. \A s : IsSpec(s) => s.rows \in Nat \ {0} /\ s.rows <= UPTO_MAX
  BY SpecFacts DEF IsSpec
<1>2. \A x \in All : x \in Nat \ {0} /\ x <= UPTO_MAX
  BY <1>1, TablesInInput
<1>3. All # {}
  <2>1. IsSpec(input[1][1])
    BY InputFacts DEF IsSpec
  <2> QED
    BY <2>1, TablesInInput
<1>4. Max(All) \in All
  <2> HIDE DEF All
  <2>1. All \in SUBSET Nat
    BY <1>2
  <2> QED
    BY <1>2, <1>3, <2>1, UptoNatural, MaxOf
<1>5. count.row_count_max = Max(All) /\ count.counter_upto = Max(Some)
  BY DEF GeneratorCounter
<1>6. count.row_count_max \in Nat \ {0}
  <2> HIDE DEF All, Some
  <2> QED
    BY <1>2, <1>4, <1>5
<1>7. BlockMax \in Nat \ {0}
  <2>1. PICK m \in Nat \ {0} : m = count.row_count_max
    BY <1>6
  <2>2. PICK w \in Nat \ {0} : w = COUNT_GENERATOR_WORKERS
    BY WorkersAssumption
  <2>3. m >= w => m \div w \in Nat /\ 1 <= m \div w
    BY Division, Quotient
  <2> QED
    BY <2>1, <2>2, <2>3 DEF BlockMax, row_block_row_count_max, RowBlockRowCountMax
<1>8. \A x \in Some : x \in Nat /\ x <= UPTO_MAX
  BY <1>1, TablesInInput, UptoNatural
<1>9. Max(Some) \in Some /\ \A x \in Some : x <= Max(Some)
  <2>1. 0 \in Some
    OBVIOUS
  <2> HIDE DEF Some
  <2>2. Some \in SUBSET Nat /\ Some # {}
    BY <1>8, <2>1
  <2> QED
    BY <1>8, <2>2, UptoNatural, MaxOf
<1>10. ASSUME NEW s, IsSpec(s), Counted(s) PROVE s.rows <= count.counter_upto
  <2>1. s.rows \in Some
    BY <1>10, TablesInInput
  <2> HIDE DEF Some
  <2> QED
    BY <1>5, <1>9, <2>1
<1>11. count.counter_upto \in Nat
  <2> HIDE DEF Some
  <2> QED
    BY <1>5, <1>8, <1>9
<1> QED
  BY <1>7, <1>10, <1>11

(* The sums of the first so many elements. *)
LEMMA FirstSums ==
    ASSUME NEW n \in Nat, NEW s, \A k \in 1..n : s[k] \in Nat
    PROVE  /\ Sum(s, 1..0) = 0
           /\ \A k \in 0..n : Sum(s, 1..k) \in Nat /\ Sum(s, 1..k) <= Sum(s, 1..n)
           /\ \A k \in 1..n : Sum(s, 1..k) = Sum(s, 1 .. k - 1) + s[k]
<1>1. Sum(s, 1..0) = 0
  <2>1. 1..0 = {}
    OBVIOUS
  <2> QED
    BY <2>1, SumEmpty, Zenon
<1>2. ASSUME NEW k \in 0..n PROVE Sum(s, 1..k) \in Nat /\ Sum(s, 1..k) <= Sum(s, 1..n)
  <2>1. IsFiniteSet(1..n) /\ (1..k) \in SUBSET (1..n)
    BY FS_Interval
  <2> QED
    BY <2>1, SumPart
<1>3. ASSUME NEW k \in 1..n PROVE Sum(s, 1..k) = Sum(s, 1 .. k - 1) + s[k]
  <2>1. 1 \in Int /\ k \in Int /\ 1 <= k /\ \A x \in 1..k : s[x] \in Int
    OBVIOUS
  <2> QED
    BY <2>1, SumInterval
<1> QED
  BY <1>1, <1>2, <1>3

(* The counts of the parser are the sums over all databases. *)
LEMMA CountsAreSums ==
    ASSUME input \in Inputs, count = GeneratorCounter(input)
    PROVE  /\ count.tables = TablesUpto(Len(input))
           /\ count.columns = ColumnsUpto(Len(input))
           /\ count.rows = RowsUpto(Len(input))
           /\ count.databases = Len(input)
           /\ \A d \in 1..Len(input) : /\ ColumnsIn(input[d]) = TblColumns(d, Len(input[d]))
                                       /\ RowsIn(input[d]) = TblRows(d, Len(input[d]))
<1>1. DOMAIN input = 1..Len(input) /\ \A d \in 1..Len(input) : DOMAIN input[d] = 1..Len(input[d])
  BY InputFacts
<1>2. SumOver(input, Len) = TablesUpto(Len(input))
  BY <1>1, Zenon DEF SumOver, SumFunction, Sum, TablesUpto
<1>3. SumOver(input, ColumnsIn) = ColumnsUpto(Len(input))
  BY <1>1, Zenon DEF SumOver, SumFunction, Sum, ColumnsUpto
<1>4. SumOver(input, RowsIn) = RowsUpto(Len(input))
  BY <1>1, Zenon DEF SumOver, SumFunction, Sum, RowsUpto
<1>5. ASSUME NEW d \in 1..Len(input) PROVE ColumnsIn(input[d]) = TblColumns(d, Len(input[d]))
  BY <1>1, Zenon DEF SumOver, SumFunction, Sum, TblColumns, ColumnsIn, ColumnCount
<1>6. ASSUME NEW d \in 1..Len(input) PROVE RowsIn(input[d]) = TblRows(d, Len(input[d]))
  BY <1>1, Zenon DEF SumOver, SumFunction, Sum, TblRows, RowsIn, Rows
<1> QED
  BY <1>2, <1>3, <1>4, <1>5, <1>6 DEF GeneratorCounter

(* The sums over the tables of a database... *)
LEMMA TblSums ==
    ASSUME input \in Inputs, NEW d \in 1..Len(input)
    PROVE  /\ TblColumns(d, 0) = 0 /\ TblRows(d, 0) = 0
           /\ \A k \in 1..Len(input[d]) :
                 /\ TblColumns(d, k) = TblColumns(d, k - 1) + Len(input[d][k].cols)
                 /\ TblRows(d, k) = TblRows(d, k - 1) + input[d][k].rows
           /\ \A k \in 0..Len(input[d]) :
                 /\ TblColumns(d, k) \in Nat /\ TblColumns(d, k) <= TblColumns(d, Len(input[d]))
                 /\ TblRows(d, k) \in Nat /\ TblRows(d, k) <= TblRows(d, Len(input[d]))
<1>1. PICK n \in Nat : n = Len(input[d])
  BY InputFacts
<1>2. PICK f : f = [t \in 1..Len(input[d]) |-> Len(input[d][t].cols)]
  OBVIOUS
<1>3. PICK g : g = [t \in 1..Len(input[d]) |-> input[d][t].rows]
  OBVIOUS
<1>4. \A k \in 1..n : /\ f[k] = Len(input[d][k].cols) /\ f[k] \in Nat
                      /\ g[k] = input[d][k].rows /\ g[k] \in Nat
  BY <1>1, <1>2, <1>3, SpecFacts
<1>5. \A k : TblColumns(d, k) = Sum(f, 1..k) /\ TblRows(d, k) = Sum(g, 1..k)
  BY <1>2, <1>3, Zenon DEF TblColumns, TblRows
<1>6. /\ Sum(f, 1..0) = 0
      /\ \A k \in 0..n : Sum(f, 1..k) \in Nat /\ Sum(f, 1..k) <= Sum(f, 1..n)
      /\ \A k \in 1..n : Sum(f, 1..k) = Sum(f, 1 .. k - 1) + f[k]
  BY <1>4, FirstSums
<1>7. /\ Sum(g, 1..0) = 0
      /\ \A k \in 0..n : Sum(g, 1..k) \in Nat /\ Sum(g, 1..k) <= Sum(g, 1..n)
      /\ \A k \in 1..n : Sum(g, 1..k) = Sum(g, 1 .. k - 1) + g[k]
  BY <1>4, FirstSums
<1> QED
  BY <1>1, <1>4, <1>5, <1>6, <1>7

(* ... and over the databases. *)
LEMMA DbSums ==
    ASSUME input \in Inputs, count = GeneratorCounter(input)
    PROVE  /\ TablesUpto(0) = 0 /\ ColumnsUpto(0) = 0 /\ RowsUpto(0) = 0
           /\ \A d \in 1..Len(input) :
                 /\ TablesUpto(d) = TablesUpto(d - 1) + Len(input[d])
                 /\ ColumnsUpto(d) = ColumnsUpto(d - 1) + TblColumns(d, Len(input[d]))
                 /\ RowsUpto(d) = RowsUpto(d - 1) + TblRows(d, Len(input[d]))
           /\ \A d \in 0..Len(input) :
                 /\ TablesUpto(d) \in Nat /\ TablesUpto(d) <= count.tables
                 /\ ColumnsUpto(d) \in Nat /\ ColumnsUpto(d) <= count.columns
                 /\ RowsUpto(d) \in Nat /\ RowsUpto(d) <= count.rows
           /\ count.tables \in Nat /\ count.columns \in Nat /\ count.rows \in Nat
<1>1. PICK n \in Nat : n = Len(input)
  BY InputFacts
<1>2. PICK f : f = [d \in 1..Len(input) |-> Len(input[d])]
  OBVIOUS
<1>3. PICK g : g = [d \in 1..Len(input) |-> ColumnsIn(input[d])]
  OBVIOUS
<1>4. PICK h : h = [d \in 1..Len(input) |-> RowsIn(input[d])]
  OBVIOUS
<1>5. \A d \in 1..n : /\ f[d] = Len(input[d]) /\ f[d] \in Nat
                      /\ g[d] = TblColumns(d, Len(input[d])) /\ g[d] \in Nat
                      /\ h[d] = TblRows(d, Len(input[d])) /\ h[d] \in Nat
  <2>1. ASSUME NEW d \in 1..n
        PROVE  TblColumns(d, Len(input[d])) \in Nat /\ TblRows(d, Len(input[d])) \in Nat
    <3>1. Len(input[d]) \in 0..Len(input[d])
      BY <1>1, InputFacts
    <3> QED
      BY <1>1, <3>1, TblSums
  <2> QED
    BY <1>1, <1>2, <1>3, <1>4, <2>1, InputFacts, CountsAreSums
<1>6. \A d : /\ TablesUpto(d) = Sum(f, 1..d) /\ ColumnsUpto(d) = Sum(g, 1..d)
             /\ RowsUpto(d) = Sum(h, 1..d)
  BY <1>2, <1>3, <1>4, Zenon DEF TablesUpto, ColumnsUpto, RowsUpto
<1>7. /\ Sum(f, 1..0) = 0
      /\ \A k \in 0..n : Sum(f, 1..k) \in Nat /\ Sum(f, 1..k) <= Sum(f, 1..n)
      /\ \A k \in 1..n : Sum(f, 1..k) = Sum(f, 1 .. k - 1) + f[k]
  BY <1>5, FirstSums
<1>8. /\ Sum(g, 1..0) = 0
      /\ \A k \in 0..n : Sum(g, 1..k) \in Nat /\ Sum(g, 1..k) <= Sum(g, 1..n)
      /\ \A k \in 1..n : Sum(g, 1..k) = Sum(g, 1 .. k - 1) + g[k]
  BY <1>5, FirstSums
<1>9. /\ Sum(h, 1..0) = 0
      /\ \A k \in 0..n : Sum(h, 1..k) \in Nat /\ Sum(h, 1..k) <= Sum(h, 1..n)
      /\ \A k \in 1..n : Sum(h, 1..k) = Sum(h, 1 .. k - 1) + h[k]
  BY <1>5, FirstSums
<1>10. /\ count.tables = TablesUpto(n) /\ count.columns = ColumnsUpto(n)
       /\ count.rows = RowsUpto(n)
  BY <1>1, CountsAreSums
<1> QED
  BY <1>1, <1>5, <1>6, <1>7, <1>8, <1>9, <1>10

-----------------------------------------------------------------------------
(***************************************************************************)
(* The counts of the loop                                                  *)
(***************************************************************************)

(* The sums are about the input alone. *)
LEMMA SumsSame ==
    ASSUME input' = input
    PROVE  /\ \A k : /\ TablesUpto(k)' = TablesUpto(k) /\ ColumnsUpto(k)' = ColumnsUpto(k)
                     /\ RowsUpto(k)' = RowsUpto(k)
           /\ \A d, k : TblColumns(d, k)' = TblColumns(d, k) /\ TblRows(d, k)' = TblRows(d, k)
  BY Zenon DEF TablesUpto, ColumnsUpto, RowsUpto, TblColumns, TblRows

(* What the loop has left behind, and with the table at hand, is within    *)
(* the counts.                                                             *)
LEMMA PastFacts ==
    ASSUME LayoutTypes
    PROVE  /\ TablesPast \in Nat /\ ColumnsPast \in Nat /\ RowsPast \in Nat
           /\ TablesPast <= count.tables /\ ColumnsPast <= count.columns
           /\ RowsPast <= count.rows
           /\ InTable => /\ TblSpec(tbl) \in TblSpecSet
                         /\ TblSpec(tbl).rows \in Nat \ {0}
                         /\ TblSpec(tbl).cols \in Seq(ColSpecSet)
                         /\ Len(TblSpec(tbl).cols) \in Nat \ {0}
                         /\ TablesPast + 1 <= count.tables
                         /\ ColumnsPast + Len(TblSpec(tbl).cols) <= count.columns
                         /\ RowsPast + TblSpec(tbl).rows <= count.rows
<1>1. /\ input \in Inputs /\ count = GeneratorCounter(input) /\ db \in 0..Len(input)
      /\ InTable => db > 0 /\ tbl \in 1..Len(input[db])
  BY DEF LayoutTypes
<1>2. Len(input) \in Nat
  BY <1>1, InputFacts
<1>3. CASE ~InTable
  BY <1>1, <1>2, <1>3, DbSums DEF TablesPast, ColumnsPast, RowsPast
<1>4. CASE InTable
  <2>1. PICK n \in Nat \ {0} : n = Len(input[db])
    BY <1>1, <1>4, InputFacts
  <2>2. db \in 1..Len(input) /\ db - 1 \in 0..Len(input) /\ tbl \in 1..n /\ tbl - 1 \in 0..n
    BY <1>1, <1>2, <1>4, <2>1
  <2>3. /\ TablesUpto(db) = TablesUpto(db - 1) + n
        /\ ColumnsUpto(db) = ColumnsUpto(db - 1) + TblColumns(db, n)
        /\ RowsUpto(db) = RowsUpto(db - 1) + TblRows(db, n)
    BY <1>1, <2>1, <2>2, DbSums
  <2>4. /\ TablesUpto(db - 1) \in Nat /\ ColumnsUpto(db - 1) \in Nat /\ RowsUpto(db - 1) \in Nat
        /\ TablesUpto(db) <= count.tables /\ ColumnsUpto(db) <= count.columns
        /\ RowsUpto(db) <= count.rows
        /\ count.tables \in Nat /\ count.columns \in Nat /\ count.rows \in Nat
    BY <1>1, <2>2, DbSums
  <2>5. /\ TblColumns(db, tbl) = TblColumns(db, tbl - 1) + Len(TblSpec(tbl).cols)
        /\ TblRows(db, tbl) = TblRows(db, tbl - 1) + TblSpec(tbl).rows
    BY <1>1, <2>1, <2>2, TblSums DEF TblSpec
  <2>6. /\ TblColumns(db, tbl) <= TblColumns(db, n) /\ TblRows(db, tbl) <= TblRows(db, n)
        /\ TblColumns(db, tbl - 1) \in Nat /\ TblRows(db, tbl - 1) \in Nat
        /\ TblColumns(db, n) \in Nat /\ TblRows(db, n) \in Nat
    BY <1>1, <2>1, <2>2, TblSums
  <2>7. /\ TblSpec(tbl) \in TblSpecSet
        /\ TblSpec(tbl).rows \in Nat \ {0}
        /\ TblSpec(tbl).cols \in Seq(ColSpecSet)
        /\ Len(TblSpec(tbl).cols) \in Nat \ {0}
    BY <1>1, <2>1, <2>2, SpecFacts DEF TblSpec
  <2>8. /\ TablesPast = TablesUpto(db - 1) + (tbl - 1)
        /\ ColumnsPast = ColumnsUpto(db - 1) + TblColumns(db, tbl - 1)
        /\ RowsPast = RowsUpto(db - 1) + TblRows(db, tbl - 1)
    BY <1>4 DEF TablesPast, ColumnsPast, RowsPast
  <2>9. TablesPast \in Nat /\ TablesPast + 1 <= count.tables
    <3>1. PICK x \in Nat : x = TablesUpto(db - 1)
      BY <2>4
    <3>2. PICK z \in Nat : z = count.tables
      BY <2>4
    <3>3. x + n <= z
      BY <2>3, <2>4, <3>1, <3>2
    <3>4. TablesPast = x + (tbl - 1)
      BY <2>8, <3>1
    <3> QED
      BY <2>2, <3>2, <3>3, <3>4
  <2>10. ColumnsPast \in Nat /\ ColumnsPast + Len(TblSpec(tbl).cols) <= count.columns
    <3>1. PICK x \in Nat : x = ColumnsUpto(db - 1)
      BY <2>4
    <3>2. PICK z \in Nat : z = count.columns
      BY <2>4
    <3>3. PICK y \in Nat : y = TblColumns(db, tbl - 1)
      BY <2>6
    <3>4. PICK l \in Nat : l = Len(TblSpec(tbl).cols)
      BY <2>7
    <3>5. PICK u \in Nat : u = TblColumns(db, n)
      BY <2>6
    <3>6. x + u <= z
      BY <2>3, <2>4, <3>1, <3>2, <3>5
    <3>7. y + l <= u
      BY <2>5, <2>6, <3>3, <3>4, <3>5
    <3>8. ColumnsPast = x + y
      BY <2>8, <3>1, <3>3
    <3>9. x + y \in Nat /\ (x + y) + l <= z
      BY <3>6, <3>7
    <3> QED
      BY <3>2, <3>4, <3>8, <3>9
  <2>11. RowsPast \in Nat /\ RowsPast + TblSpec(tbl).rows <= count.rows
    <3>1. PICK x \in Nat : x = RowsUpto(db - 1)
      BY <2>4
    <3>2. PICK z \in Nat : z = count.rows
      BY <2>4
    <3>3. PICK y \in Nat : y = TblRows(db, tbl - 1)
      BY <2>6
    <3>4. PICK l \in Nat : l = TblSpec(tbl).rows
      BY <2>7
    <3>5. PICK u \in Nat : u = TblRows(db, n)
      BY <2>6
    <3>6. x + u <= z
      BY <2>3, <2>4, <3>1, <3>2, <3>5
    <3>7. y + l <= u
      BY <2>5, <2>6, <3>3, <3>4, <3>5
    <3>8. RowsPast = x + y
      BY <2>8, <3>1, <3>3
    <3> QED
      BY <3>2, <3>4, <3>6, <3>7, <3>8
  <2>12. count.tables \in Nat /\ count.columns \in Nat /\ count.rows \in Nat
    BY <2>4
  <2>13. TablesPast <= count.tables
    BY <2>9, <2>12
  <2>14. ColumnsPast <= count.columns
    BY <2>7, <2>10, <2>12
  <2>15. RowsPast <= count.rows
    BY <2>7, <2>11, <2>12
  <2> QED
    BY <2>7, <2>9, <2>10, <2>11, <2>13, <2>14, <2>15
<1> QED
  BY <1>3, <1>4

(* How far the loop gets: the next database and the next table. *)
LEMMA PastSteps ==
    ASSUME LayoutTypes, input' = input
    PROVE  /\ ~InTable /\ db < Len(input) /\ InTable' /\ db' = db + 1 /\ tbl' = 1 =>
                 TablesPast' = TablesPast /\ ColumnsPast' = ColumnsPast /\ RowsPast' = RowsPast
           /\ (InTable' <=> InTable) /\ db' = db /\ tbl' = tbl =>
                 TablesPast' = TablesPast /\ ColumnsPast' = ColumnsPast /\ RowsPast' = RowsPast
           /\ InTable /\ db' = db /\ tbl' = tbl + 1 /\ (InTable' <=> tbl # Len(input[db])) =>
                 /\ TablesPast' = TablesPast + 1
                 /\ ColumnsPast' = ColumnsPast + Len(TblSpec(tbl).cols)
                 /\ RowsPast' = RowsPast + TblSpec(tbl).rows
<1>1. /\ input \in Inputs /\ count = GeneratorCounter(input) /\ db \in 0..Len(input)
      /\ InTable => db > 0 /\ tbl \in 1..Len(input[db])
  BY DEF LayoutTypes
<1>2. Len(input) \in Nat
  BY <1>1, InputFacts
<1>3. ASSUME ~InTable, db < Len(input), InTable', db' = db + 1, tbl' = 1
      PROVE  TablesPast' = TablesPast /\ ColumnsPast' = ColumnsPast /\ RowsPast' = RowsPast
  <2>1. db + 1 \in 1..Len(input) /\ (db + 1) - 1 = db /\ db \in 0..Len(input)
    BY <1>1, <1>2, <1>3
  <2>2. TblColumns(db + 1, 0) = 0 /\ TblRows(db + 1, 0) = 0
    BY <1>1, <2>1, TblSums
  <2>3. TablesUpto(db) \in Nat /\ ColumnsUpto(db) \in Nat /\ RowsUpto(db) \in Nat
    BY <1>1, <2>1, DbSums
  <2>4. TablesPast = TablesUpto(db) /\ ColumnsPast = ColumnsUpto(db) /\ RowsPast = RowsUpto(db)
    BY <1>3 DEF TablesPast, ColumnsPast, RowsPast
  <2>5. /\ TablesPast' = TablesUpto(db) + 0
        /\ ColumnsPast' = ColumnsUpto(db) + TblColumns(db + 1, 0)
        /\ RowsPast' = RowsUpto(db) + TblRows(db + 1, 0)
    BY <1>3, <2>1, SumsSame DEF TablesPast, ColumnsPast, RowsPast
  <2> QED
    BY <2>2, <2>3, <2>4, <2>5
<1>4. ASSUME InTable' <=> InTable, db' = db, tbl' = tbl
      PROVE  TablesPast' = TablesPast /\ ColumnsPast' = ColumnsPast /\ RowsPast' = RowsPast
  BY <1>4, SumsSame DEF TablesPast, ColumnsPast, RowsPast
<1>5. ASSUME InTable, db' = db, tbl' = tbl + 1, InTable' <=> tbl # Len(input[db])
      PROVE  /\ TablesPast' = TablesPast + 1
             /\ ColumnsPast' = ColumnsPast + Len(TblSpec(tbl).cols)
             /\ RowsPast' = RowsPast + TblSpec(tbl).rows
  <2>1. PICK n \in Nat \ {0} : n = Len(input[db])
    BY <1>1, <1>5, InputFacts
  <2>2. db \in 1..Len(input) /\ db - 1 \in 0..Len(input) /\ tbl \in 1..n /\ tbl - 1 \in 0..n
    BY <1>1, <1>2, <1>5, <2>1
  <2>3. /\ TablesUpto(db) = TablesUpto(db - 1) + n
        /\ ColumnsUpto(db) = ColumnsUpto(db - 1) + TblColumns(db, n)
        /\ RowsUpto(db) = RowsUpto(db - 1) + TblRows(db, n)
        /\ TablesUpto(db - 1) \in Nat /\ ColumnsUpto(db - 1) \in Nat /\ RowsUpto(db - 1) \in Nat
    BY <1>1, <2>1, <2>2, DbSums
  <2>5. /\ TblColumns(db, tbl) = TblColumns(db, tbl - 1) + Len(TblSpec(tbl).cols)
        /\ TblRows(db, tbl) = TblRows(db, tbl - 1) + TblSpec(tbl).rows
        /\ TblColumns(db, tbl - 1) \in Nat /\ TblRows(db, tbl - 1) \in Nat
        /\ Len(TblSpec(tbl).cols) \in Nat /\ TblSpec(tbl).rows \in Nat
    BY <1>1, <2>1, <2>2, TblSums, SpecFacts DEF TblSpec
  <2>6. /\ TablesPast = TablesUpto(db - 1) + (tbl - 1)
        /\ ColumnsPast = ColumnsUpto(db - 1) + TblColumns(db, tbl - 1)
        /\ RowsPast = RowsUpto(db - 1) + TblRows(db, tbl - 1)
    BY <1>5 DEF TablesPast, ColumnsPast, RowsPast
  <2>10. PICK x, y, z, v, w \in Nat :
            /\ x = TablesUpto(db - 1) /\ y = ColumnsUpto(db - 1) /\ z = RowsUpto(db - 1)
            /\ v = TblColumns(db, tbl - 1) /\ w = TblRows(db, tbl - 1)
    BY <2>3, <2>5
  <2>11. PICK k, l \in Nat : k = Len(TblSpec(tbl).cols) /\ l = TblSpec(tbl).rows
    BY <2>5
  <2>12. TablesPast = x + (tbl - 1) /\ ColumnsPast = y + v /\ RowsPast = z + w
    BY <2>6, <2>10
  <2>13. /\ TablesUpto(db) = x + n /\ ColumnsUpto(db) = y + TblColumns(db, n)
         /\ RowsUpto(db) = z + TblRows(db, n)
         /\ TblColumns(db, tbl) = v + k /\ TblRows(db, tbl) = w + l
    BY <2>3, <2>5, <2>10, <2>11
  <2>7. CASE tbl = n
    <3>1. TablesPast' = TablesUpto(db) /\ ColumnsPast' = ColumnsUpto(db) /\ RowsPast' = RowsUpto(db)
      BY <1>5, <2>1, <2>7, SumsSame DEF TablesPast, ColumnsPast, RowsPast
    <3>2. TablesPast' = x + n /\ ColumnsPast' = y + (v + k) /\ RowsPast' = z + (w + l)
      BY <2>7, <2>13, <3>1
    <3>3. /\ x + n = (x + (tbl - 1)) + 1 /\ y + (v + k) = (y + v) + k
          /\ z + (w + l) = (z + w) + l
      BY <2>2, <2>7
    <3> QED
      BY <2>11, <2>12, <3>2, <3>3
  <2>8. CASE tbl # n
    <3>1. (tbl + 1) - 1 = tbl
      BY <2>2
    <3>2. /\ TablesPast' = TablesUpto(db - 1) + tbl
          /\ ColumnsPast' = ColumnsUpto(db - 1) + TblColumns(db, tbl)
          /\ RowsPast' = RowsUpto(db - 1) + TblRows(db, tbl)
      BY <1>5, <2>1, <2>8, <3>1, SumsSame DEF TablesPast, ColumnsPast, RowsPast
    <3>3. TablesPast' = x + tbl /\ ColumnsPast' = y + (v + k) /\ RowsPast' = z + (w + l)
      BY <2>10, <2>13, <3>2
    <3>4. /\ x + tbl = (x + (tbl - 1)) + 1 /\ y + (v + k) = (y + v) + k
          /\ z + (w + l) = (z + w) + l
      BY <2>2
    <3> QED
      BY <2>11, <2>12, <3>3, <3>4
  <2> QED
    BY <2>7, <2>8
<1> QED
  BY <1>3, <1>4, <1>5

(* What a step of the loop leaves alone. *)
LEMMA LayoutStable ==
    ASSUME input' = input, count' = count
    PROVE  /\ BlockMax' = BlockMax /\ GeneratorCounter(input)' = GeneratorCounter(input)
           /\ count_row_blocks_max' = count_row_blocks_max
           /\ db' = db => \A t : TblSpec(t)' = TblSpec(t)
  BY DEF BlockMax, row_block_row_count_max, RowBlockRowCountMax, count_row_blocks_max, TblSpec

(* The next database, or the end of the loop. *)
LEMMA CountsDatabase ==
    ASSUME LayoutTypes, CountInv, HookDatabase
    PROVE  LayoutTypes' /\ CountInv'
<1>1. /\ input \in Inputs /\ count = GeneratorCounter(input) /\ db \in 0..Len(input)
      /\ hook = "database" /\ ~InTable /\ ~InColumns
      /\ tables \in Seq(TableSet) /\ columns \in Seq(ColumnSet)
      /\ rowspans \in Seq(Nat) /\ rowBlocks \in Seq(RowBlockRec) /\ tasks \in Seq(TaskNames)
  BY DEF LayoutTypes, HookDatabase, InTable, InColumns
<1>2. /\ input' = input /\ count' = count /\ tables' = tables /\ columns' = columns
      /\ rowspans' = rowspans /\ rowBlocks' = rowBlocks
  BY DEF HookDatabase
<1>3. BlockMax' = BlockMax /\ count' = GeneratorCounter(input)'
  BY <1>1, <1>2, LayoutStable
<1>4. Len(input) \in Nat /\ \A d \in 1..Len(input) : Len(input[d]) \in Nat \ {0}
  BY <1>1, InputFacts
<1>5. CASE db = Len(input)
  <2>1. hook' = "done" /\ db' = db /\ tbl' = tbl /\ tasks' = tasks /\ ~InTable' /\ ~InColumns'
    BY <1>5 DEF HookDatabase, InTable, InColumns
  <2>2. TablesPast' = TablesPast /\ ColumnsPast' = ColumnsPast /\ RowsPast' = RowsPast
    BY <1>1, <1>2, <2>1, PastSteps
  <2>3. LayoutTypes'
    BY <1>1, <1>2, <1>3, <2>1 DEF LayoutTypes
  <2>4. CountInv'
    BY <1>1, <1>2, <1>3, <1>5, <2>1, <2>2 DEF CountInv
  <2> QED
    BY <2>3, <2>4
<1>6. CASE db # Len(input)
  <2>1. /\ hook' = "table" /\ db' = db + 1 /\ tbl' = 1 /\ tasks' = Append(tasks, "build_loader")
        /\ InTable' /\ ~InColumns'
    BY <1>6 DEF HookDatabase, InTable, InColumns
  <2>2. db < Len(input) /\ db + 1 \in 1..Len(input) /\ db + 1 \in 0..Len(input) /\ db + 1 > 0
    BY <1>1, <1>4, <1>6
  <2>3. TablesPast' = TablesPast /\ ColumnsPast' = ColumnsPast /\ RowsPast' = RowsPast
    BY <1>1, <1>2, <2>1, <2>2, PastSteps
  <2>4. tasks' \in Seq(TaskNames) /\ Len(tasks') = Len(tasks) + 1 /\ Len(tasks) \in Nat
    <3>1. PICK e \in TaskNames : e = "build_loader"
      BY DEF TaskNames
    <3>2. tasks' = Append(tasks, e)
      BY <2>1, <3>1
    <3> QED
      BY <1>1, <3>2, AppendProperties
  <2>5. 1 \in 1..Len(input[db + 1])
    BY <1>4, <2>2
  <2>6. LayoutTypes'
    BY <1>1, <1>2, <1>3, <2>1, <2>2, <2>4, <2>5 DEF LayoutTypes
  <2>7. CountInv'
    <3>1. Len(columns) \in Nat /\ Len(tasks) <= 1 + db + Len(columns)
      BY <1>1 DEF CountInv
    <3>2. Len(tasks)' <= 1 + db' + Len(columns)'
      BY <1>1, <1>2, <2>1, <2>2, <2>4, <3>1
    <3> QED
      BY <1>1, <1>2, <1>3, <2>1, <2>3, <3>2 DEF CountInv
  <2> QED
    BY <2>6, <2>7
<1> QED
  BY <1>5, <1>6

(* The next table. *)
LEMMA CountsTable ==
    ASSUME LayoutTypes, CountInv, HookTable
    PROVE  LayoutTypes' /\ CountInv'
<1>1. /\ input \in Inputs /\ count = GeneratorCounter(input) /\ db \in 0..Len(input)
      /\ db > 0 /\ tbl \in 1..Len(input[db])
      /\ hook = "table" /\ InTable /\ ~InColumns
      /\ tables \in Seq(TableSet) /\ columns \in Seq(ColumnSet)
      /\ rowspans \in Seq(Nat) /\ rowBlocks \in Seq(RowBlockRec) /\ tasks \in Seq(TaskNames)
  BY DEF LayoutTypes, HookTable, InTable, InColumns
<1>2. /\ input' = input /\ count' = count /\ columns' = columns /\ rowspans' = rowspans
      /\ tasks' = tasks /\ db' = db /\ tbl' = tbl /\ hook' = "column" /\ InTable' /\ InColumns'
  BY DEF HookTable, InTable, InColumns
<1>3. BlockMax' = BlockMax /\ count' = GeneratorCounter(input)' /\ TblSpec(tbl)' = TblSpec(tbl)
  BY <1>1, <1>2, LayoutStable DEF TblSpec
<1>4. TablesPast' = TablesPast /\ ColumnsPast' = ColumnsPast /\ RowsPast' = RowsPast
  BY <1>1, <1>2, PastSteps
<1>5. PICK s : s = TblSpec(tbl)
  OBVIOUS
<1>6. /\ s \in TblSpecSet /\ s.rows \in Nat \ {0} /\ Len(s.cols) \in Nat \ {0}
      /\ TablesPast \in Nat /\ ColumnsPast \in Nat /\ RowsPast \in Nat
  BY <1>1, <1>5, PastFacts
<1>7. PICK m \in Nat \ {0} : m = BlockMax
  BY <1>1, CountFacts
<1>8. PICK k \in Nat \ {0} : k = BlockCount(s.rows, m)
  BY <1>6, <1>7, BlockFacts
<1>9. PICK first \in Nat \ {0} : first = BlockRows(1, s.rows, m)
  <2>1. 1 \in Nat \ {0}
    OBVIOUS
  <2> QED
    BY <1>6, <1>7, <2>1, BlockFacts
<1>10. k <= s.rows \div m + 1
  BY <1>6, <1>7, <1>8, BlockFacts
<1>11. PICK t, u : /\ t = [spec |-> s, blocksFrom |-> Len(rowBlocks) + 1,
                           blocksUntil |-> Len(rowBlocks) + 1 + k,
                           columnsFrom |-> Len(columns) + 1, colCount |-> 0, rowspansUntil |-> 0]
                   /\ u = [rows |-> first, from |-> Len(rowspans) + 1, until |-> 0]
                   /\ tables' = Append(tables, t) /\ rowBlocks' = Append(rowBlocks, u)
  BY <1>5, <1>7, <1>8, <1>9 DEF HookTable, BlockMax
<1>12. PICK lt, lb, lc, lr \in Nat : /\ lt = Len(tables) /\ lb = Len(rowBlocks) /\ lc = Len(columns)
                                     /\ lr = Len(rowspans)
  BY <1>1
<1>13. t \in TableSet /\ u \in RowBlockRec
  BY <1>6, <1>11, <1>12 DEF TableSet, RowBlockRec
<1>14. /\ tables' \in Seq(TableSet) /\ rowBlocks' \in Seq(RowBlockRec)
       /\ Len(tables') = lt + 1 /\ Len(rowBlocks') = lb + 1 /\ tables'[Len(tables')] = t
  BY <1>1, <1>11, <1>12, <1>13
<1>15. LayoutTypes'
  BY <1>1, <1>2, <1>3, <1>14 DEF LayoutTypes
<1>16. /\ lt = TablesPast /\ lt <= ColumnsPast /\ lc = ColumnsPast
       /\ lb <= RowsPast \div m + lt /\ lr <= lb * count.columns
       /\ Len(tasks) <= 1 + db + lc
  BY <1>1, <1>6, <1>7, <1>12 DEF CountInv
<1>17. lb + k <= (RowsPast + s.rows) \div m + (lt + 1)
  <2>1. RowsPast \div m + s.rows \div m <= (RowsPast + s.rows) \div m
    BY <1>6, QuotientSum
  <2>2. PICK x \in Nat : x = RowsPast + s.rows
    BY <1>6
  <2>3. RowsPast \div m \in Nat /\ s.rows \div m \in Nat /\ x \div m \in Nat
    BY <1>6, Division
  <2>4. PICK a, b, c \in Nat : a = RowsPast \div m /\ b = s.rows \div m /\ c = x \div m
    BY <2>3
  <2> QED
    BY <1>10, <1>16, <2>1, <2>2, <2>4
<1>18. /\ t.spec = s /\ t.columnsFrom = lc + 1 /\ t.blocksUntil = lb + 1 + k
  BY <1>11, <1>12
<1>19. CountInv'
  <2>1. Len(tables)' = TablesPast' + 1 /\ Len(tables)' <= ColumnsPast' + 1
    BY <1>4, <1>6, <1>14, <1>16
  <2>2. Len(columns)' + 1 - t.columnsFrom = 0 /\ t.columnsFrom = ColumnsPast' + 1
    BY <1>2, <1>4, <1>12, <1>16, <1>18
  <2>3. Len(rowBlocks)' < t.blocksUntil
    BY <1>14, <1>18
  <2>4. t.blocksUntil - 1 <= (RowsPast' + t.spec.rows) \div BlockMax' + Len(tables)'
    <3>1. t.blocksUntil - 1 = lb + k
      BY <1>18
    <3> QED
      BY <1>3, <1>4, <1>7, <1>14, <1>17, <1>18, <3>1
  <2>5. Len(rowspans)' <= (Len(rowBlocks)' - 1) * count'.columns + 0
    <3>1. PICK cc \in Nat : cc = count.columns
      BY <1>1, DbSums
    <3>2. Len(rowBlocks)' - 1 = lb /\ count'.columns = cc /\ Len(rowspans)' = lr
      BY <1>2, <1>12, <1>14, <3>1
    <3>3. lr <= lb * cc + 0
      BY <1>16, <3>1
    <3> QED
      BY <3>2, <3>3
  <2>6. Len(tasks)' <= 1 + db' + Len(columns)'
    BY <1>2, <1>12, <1>16
  <2>7. tables'[Len(tables')] = t /\ t.spec = TblSpec(tbl)' /\ hook' = "column" /\ InColumns'
    BY <1>2, <1>3, <1>5, <1>14, <1>18
  <2>8. 0 \in 0..Len(t.spec.cols) /\ 0 < Len(t.spec.cols)
    BY <1>6, <1>18
  <2> QED
    BY <2>1, <2>2, <2>3, <2>4, <2>5, <2>6, <2>7, <2>8 DEF CountInv
<1> QED
  BY <1>15, <1>19

(* The column at hand, and how many of its table came before it. *)
LEMMA OpenFacts ==
    ASSUME LayoutTypes, CountInv, InColumns
    PROVE  \E t \in TableSet, lt, lb, k \in Nat :
             /\ lt = Len(tables) /\ lb = Len(rowBlocks) /\ k = Len(columns) + 1 - t.columnsFrom
             /\ t = tables[Len(tables)] /\ lt \in 1..Len(tables)
             /\ t.spec = TblSpec(tbl) /\ t.columnsFrom = ColumnsPast + 1
             /\ k <= Len(t.spec.cols) /\ (hook = "column" => k < Len(t.spec.cols))
             /\ (hook = "blocks" => k = Len(t.spec.cols))
             /\ lt = TablesPast + 1 /\ lt <= ColumnsPast + 1 /\ lb < t.blocksUntil
             /\ t.blocksUntil - 1 <= (RowsPast + t.spec.rows) \div BlockMax + lt
             /\ Len(rowspans) <= (lb - 1) * count.columns + k
             /\ InTable
<1>1. /\ tables \in Seq(TableSet) /\ columns \in Seq(ColumnSet)
      /\ rowspans \in Seq(Nat) /\ rowBlocks \in Seq(RowBlockRec) /\ InTable
  BY DEF LayoutTypes, InTable, InColumns
<1>2. PICK lt, lb, lc \in Nat : lt = Len(tables) /\ lb = Len(rowBlocks) /\ lc = Len(columns)
  BY <1>1
<1>3. lt = TablesPast + 1 /\ lt <= ColumnsPast + 1
  BY <1>2 DEF CountInv
<1>4. lt \in 1..Len(tables)
  BY <1>2, <1>3, PastFacts
<1>5. PICK t \in TableSet : t = tables[Len(tables)]
  BY <1>1, <1>2, <1>4
<1>6. /\ t.spec = TblSpec(tbl) /\ t.columnsFrom = ColumnsPast + 1
      /\ lc + 1 - t.columnsFrom \in 0..Len(t.spec.cols)
      /\ (hook = "column" => lc + 1 - t.columnsFrom < Len(t.spec.cols))
      /\ (hook = "blocks" => lc + 1 - t.columnsFrom = Len(t.spec.cols))
      /\ lb < t.blocksUntil
      /\ t.blocksUntil - 1 <= (RowsPast + t.spec.rows) \div BlockMax + lt
      /\ Len(rowspans) <= (lb - 1) * count.columns + (lc + 1 - t.columnsFrom)
  BY <1>2, <1>5 DEF CountInv
<1>7. Len(t.spec.cols) \in Nat
  BY <1>1, <1>6, PastFacts
<1>8. PICK k \in Nat : k = lc + 1 - t.columnsFrom
  BY <1>6, <1>7
<1>9. k <= Len(t.spec.cols)
  BY <1>6, <1>7, <1>8
<1> QED
  BY <1>1, <1>2, <1>3, <1>4, <1>5, <1>6, <1>8, <1>9

(* The next column. *)
LEMMA CountsColumn ==
    ASSUME LayoutTypes, CountInv, HookColumn
    PROVE  LayoutTypes' /\ CountInv'
<1>1. /\ input \in Inputs /\ count = GeneratorCounter(input) /\ db \in 0..Len(input)
      /\ db > 0 /\ tbl \in 1..Len(input[db])
      /\ hook = "column" /\ InTable /\ InColumns
      /\ tables \in Seq(TableSet) /\ columns \in Seq(ColumnSet)
      /\ rowspans \in Seq(Nat) /\ rowBlocks \in Seq(RowBlockRec) /\ tasks \in Seq(TaskNames)
  BY DEF LayoutTypes, HookColumn, InTable, InColumns
<1>2. /\ input' = input /\ count' = count /\ tables' = tables /\ rowBlocks' = rowBlocks
      /\ db' = db /\ tbl' = tbl /\ hook' \in {"column", "blocks"} /\ InTable' /\ InColumns'
  BY DEF HookColumn, InTable, InColumns
<1>3. BlockMax' = BlockMax /\ count' = GeneratorCounter(input)' /\ TblSpec(tbl)' = TblSpec(tbl)
  BY <1>1, <1>2, LayoutStable DEF TblSpec
<1>4. TablesPast' = TablesPast /\ ColumnsPast' = ColumnsPast /\ RowsPast' = RowsPast
  BY <1>1, <1>2, PastSteps
<1>5. PICK t \in TableSet, lt, lb, k \in Nat :
        /\ lt = Len(tables) /\ lb = Len(rowBlocks) /\ k = Len(columns) + 1 - t.columnsFrom
        /\ t = tables[Len(tables)] /\ lt \in 1..Len(tables)
        /\ t.spec = TblSpec(tbl) /\ t.columnsFrom = ColumnsPast + 1
        /\ k < Len(t.spec.cols)
        /\ lt = TablesPast + 1 /\ lt <= ColumnsPast + 1 /\ lb < t.blocksUntil
        /\ t.blocksUntil - 1 <= (RowsPast + t.spec.rows) \div BlockMax + lt
        /\ Len(rowspans) <= (lb - 1) * count.columns + k
  BY <1>1, OpenFacts
<1>6. PICK n \in Nat : n = Len(t.spec.cols)
  BY <1>1, <1>5, PastFacts
<1>7. PICK lc, lr, la, from0 \in Nat : /\ lc = Len(columns) /\ lr = Len(rowspans) /\ la = Len(tasks)
                                       /\ from0 = t.columnsFrom
  <2>1. Len(columns) \in Nat /\ Len(rowspans) \in Nat /\ Len(tasks) \in Nat
    BY <1>1
  <2>2. t.columnsFrom \in Nat
    BY DEF TableSet
  <2> QED
    BY <2>1, <2>2
<1>8. lc + 2 - from0 = k + 1 /\ k + 1 \in 1..n /\ lc + 1 - from0 = k
  <2>1. k = lc + 1 - from0
    BY <1>5, <1>7
  <2>2. k < n
    BY <1>5, <1>6
  <2> QED
    BY <2>1, <2>2
<1>9. PICK e : e = [spec |-> t.spec.cols[k + 1], table |-> lt, rowspansFrom |-> lr + 1]
  OBVIOUS
<1>10. /\ columns' = Append(columns, e) /\ rowspans' = Append(rowspans, lb)
       /\ tasks' = Append(tasks, "build_column")
       /\ hook' = IF k + 1 = n THEN "blocks" ELSE "column"
  BY <1>5, <1>6, <1>7, <1>8, <1>9 DEF HookColumn
<1>11. t.spec.cols[k + 1] \in ColSpecSet
  <2>1. t.spec.cols \in Seq(ColSpecSet)
    BY <1>1, <1>5, PastFacts
  <2> QED
    BY <1>6, <1>8, <2>1
<1>12. e \in ColumnSet
  BY <1>9, <1>11 DEF ColumnSet
<1>13. columns' \in Seq(ColumnSet) /\ Len(columns') = lc + 1
  BY <1>1, <1>7, <1>10, <1>12
<1>14. rowspans' \in Seq(Nat) /\ Len(rowspans') = lr + 1
  BY <1>1, <1>7, <1>10
<1>15. tasks' \in Seq(TaskNames) /\ Len(tasks') = la + 1
  <2>1. PICK x \in TaskNames : x = "build_column"
    BY DEF TaskNames
  <2>2. tasks' = Append(tasks, x)
    BY <1>10, <2>1
  <2> QED
    BY <1>1, <1>7, <2>2, AppendProperties
<1>16. LayoutTypes'
  BY <1>1, <1>2, <1>3, <1>13, <1>14, <1>15 DEF LayoutTypes
<1>17. CountInv'
  <2>1. Len(tables)' = TablesPast' + 1 /\ Len(tables)' <= ColumnsPast' + 1
    BY <1>2, <1>4, <1>5
  <2>2. Len(tasks)' <= 1 + db' + Len(columns)'
    <3>1. la <= 1 + db + lc
      BY <1>7 DEF CountInv
    <3>2. db \in Nat
      BY <1>1, InputFacts
    <3>3. la + 1 <= 1 + db + (lc + 1)
      BY <3>1, <3>2
    <3> QED
      BY <1>2, <1>13, <1>15, <3>3
  <2>3. Len(columns)' + 1 - t.columnsFrom = k + 1
    <3>1. (lc + 1) + 1 - from0 = k + 1
      BY <1>8
    <3> QED
      BY <1>7, <1>13, <3>1
  <2>4. /\ k + 1 \in 0..Len(t.spec.cols)
        /\ (hook' = "column" => k + 1 < Len(t.spec.cols))
        /\ (hook' = "blocks" => k + 1 = Len(t.spec.cols))
    BY <1>6, <1>8, <1>10
  <2>5. Len(rowspans)' <= (Len(rowBlocks)' - 1) * count'.columns + (k + 1)
    <3>1. PICK cc \in Nat : cc = count.columns
      BY <1>1, DbSums
    <3>2. PICK z \in Int : z = (lb - 1) * cc
      OBVIOUS
    <3>3. lr <= z + k
      BY <1>5, <1>7, <3>1, <3>2
    <3>4. lr + 1 <= z + (k + 1)
      BY <3>3
    <3>5. (Len(rowBlocks)' - 1) * count'.columns = z
      BY <1>2, <1>5, <3>1, <3>2
    <3> QED
      BY <1>14, <3>4, <3>5
  <2>6. /\ tables'[Len(tables')] = t /\ t.spec = TblSpec(tbl)' /\ t.columnsFrom = ColumnsPast' + 1
        /\ Len(rowBlocks)' < t.blocksUntil
        /\ t.blocksUntil - 1 <= (RowsPast' + t.spec.rows) \div BlockMax' + Len(tables)'
    BY <1>2, <1>3, <1>4, <1>5
  <2>7. hook' # "done"
    BY <1>2
  <2> QED
    BY <1>2, <2>1, <2>2, <2>3, <2>4, <2>5, <2>6, <2>7 DEF CountInv
<1> QED
  BY <1>16, <1>17

(* The row blocks with the last one closed, the tables with the counts of  *)
(* the last one set.                                                       *)
Closed(s, v) == [s EXCEPT ![Len(s)].until = v]
Left(s, x, y) == [s EXCEPT ![Len(s)].colCount = x, ![Len(s)].rowspansUntil = y]

(* Closing the last row block changes its until and nothing else. *)
LEMMA CloseBlock ==
    ASSUME NEW s \in Seq(RowBlockRec), NEW v \in Nat, NEW r, r = Closed(s, v)
    PROVE  /\ r \in Seq(RowBlockRec) /\ Len(r) = Len(s)
           /\ \A b \in 1..Len(s) : /\ r[b].rows = s[b].rows /\ r[b].from = s[b].from
                                   /\ b < Len(s) => r[b] = s[b]
                                   /\ b = Len(s) => r[b].until = v
<1>1. PICK n \in Nat : n = Len(s)
  OBVIOUS
<1>2. DOMAIN s = 1..n /\ DOMAIN r = 1..n
  BY <1>1 DEF Closed
<1>3. ASSUME NEW b \in 1..n
      PROVE  /\ r[b] \in RowBlockRec /\ r[b].rows = s[b].rows /\ r[b].from = s[b].from
             /\ b < n => r[b] = s[b]
             /\ b = n => r[b].until = v
  <2>1. s[b] \in RowBlockRec
    BY <1>1
  <2>2. CASE b = n
    <3>1. r[b] = [s[b] EXCEPT !.until = v]
      BY <1>1, <1>2, <2>2 DEF Closed
    <3>2. PICK a, e : a = s[b] /\ e = r[b] /\ e = [a EXCEPT !.until = v]
      BY <3>1
    <3>3. a \in RowBlockRec
      BY <2>1, <3>2
    <3>4. e \in RowBlockRec /\ e.rows = a.rows /\ e.from = a.from /\ e.until = v
      BY <3>2, <3>3 DEF RowBlockRec
    <3> QED
      BY <2>2, <3>2, <3>4
  <2>3. CASE b # n
    BY <1>1, <1>2, <2>1, <2>3 DEF Closed
  <2> QED
    BY <2>2, <2>3
<1>4. r \in [1..n -> RowBlockRec]
  <2>1. r = [b \in 1..n |-> r[b]]
    BY <1>2 DEF Closed
  <2> QED
    BY <1>3, <2>1
<1>5. r \in Seq(RowBlockRec) /\ Len(r) = n
  BY <1>2, <1>4
<1> QED
  BY <1>1, <1>3, <1>5

(* The counts of a table leave its place in the arrays. *)
LEMMA LeaveTable ==
    ASSUME NEW s \in Seq(TableSet), NEW x \in Nat, NEW y \in Nat, NEW r, r = Left(s, x, y)
    PROVE  /\ r \in Seq(TableSet) /\ Len(r) = Len(s)
           /\ \A t \in 1..Len(s) :
                 /\ r[t].spec = s[t].spec /\ r[t].columnsFrom = s[t].columnsFrom
                 /\ r[t].blocksFrom = s[t].blocksFrom /\ r[t].blocksUntil = s[t].blocksUntil
                 /\ t < Len(s) => r[t] = s[t]
                 /\ t = Len(s) => r[t].colCount = x /\ r[t].rowspansUntil = y
<1>1. PICK n \in Nat : n = Len(s)
  OBVIOUS
<1>2. DOMAIN s = 1..n /\ DOMAIN r = 1..n
  BY <1>1 DEF Left
<1>3. ASSUME NEW t \in 1..n
      PROVE  /\ r[t] \in TableSet
             /\ r[t].spec = s[t].spec /\ r[t].columnsFrom = s[t].columnsFrom
             /\ r[t].blocksFrom = s[t].blocksFrom /\ r[t].blocksUntil = s[t].blocksUntil
             /\ t < n => r[t] = s[t]
             /\ t = n => r[t].colCount = x /\ r[t].rowspansUntil = y
  <2>1. s[t] \in TableSet
    BY <1>1
  <2>2. CASE t = n
    <3>1. r[t] = [[s[t] EXCEPT !.colCount = x] EXCEPT !.rowspansUntil = y]
      BY <1>1, <1>2, <2>2 DEF Left
    <3>2. PICK a : a = [s[t] EXCEPT !.colCount = x]
      OBVIOUS
    <3>3. /\ a \in TableSet /\ a.spec = s[t].spec /\ a.columnsFrom = s[t].columnsFrom
          /\ a.blocksFrom = s[t].blocksFrom /\ a.blocksUntil = s[t].blocksUntil /\ a.colCount = x
      BY <2>1, <3>2 DEF TableSet
    <3>4. PICK e : e = r[t] /\ e = [a EXCEPT !.rowspansUntil = y]
      BY <3>1, <3>2
    <3>6. /\ e \in TableSet /\ e.spec = a.spec /\ e.columnsFrom = a.columnsFrom
          /\ e.blocksFrom = a.blocksFrom /\ e.blocksUntil = a.blocksUntil
          /\ e.colCount = a.colCount /\ e.rowspansUntil = y
      <4>1. a \in TableSet /\ e = [a EXCEPT !.rowspansUntil = y]
        BY <3>3, <3>4
      <4> QED
        BY <4>1 DEF TableSet
    <3>5. /\ r[t] \in TableSet /\ r[t].spec = a.spec /\ r[t].columnsFrom = a.columnsFrom
          /\ r[t].blocksFrom = a.blocksFrom /\ r[t].blocksUntil = a.blocksUntil
          /\ r[t].colCount = a.colCount /\ r[t].rowspansUntil = y
      BY <3>4, <3>6
    <3> QED
      BY <2>2, <3>3, <3>5
  <2>3. CASE t # n
    BY <1>1, <1>2, <2>1, <2>3 DEF Left
  <2> QED
    BY <2>2, <2>3
<1>4. r \in [1..n -> TableSet]
  <2>1. r = [t \in 1..n |-> r[t]]
    BY <1>2 DEF Left
  <2> QED
    BY <1>3, <2>1
<1>5. r \in Seq(TableSet) /\ Len(r) = n
  <2>1. r \in Seq(TableSet)
    BY <1>4, SeqDef
  <2> QED
    BY <1>2, <2>1
<1> QED
  BY <1>1, <1>3, <1>5

(* The next row block, or the end of the table. *)
LEMMA CountsRowBlock ==
    ASSUME LayoutTypes, CountInv, HookRowBlock
    PROVE  LayoutTypes' /\ CountInv'
<1>1. /\ input \in Inputs /\ count = GeneratorCounter(input) /\ db \in 0..Len(input)
      /\ db > 0 /\ tbl \in 1..Len(input[db])
      /\ hook = "blocks" /\ InTable /\ InColumns
      /\ tables \in Seq(TableSet) /\ columns \in Seq(ColumnSet)
      /\ rowspans \in Seq(Nat) /\ rowBlocks \in Seq(RowBlockRec) /\ tasks \in Seq(TaskNames)
  BY DEF LayoutTypes, HookRowBlock, InTable, InColumns
<1>2. /\ input' = input /\ count' = count /\ columns' = columns /\ db' = db /\ tasks' = tasks
  BY DEF HookRowBlock
<1>3. BlockMax' = BlockMax /\ count' = GeneratorCounter(input)'
  BY <1>1, <1>2, LayoutStable
<1>4. PICK t \in TableSet, lt, lb, k \in Nat :
        /\ lt = Len(tables) /\ lb = Len(rowBlocks) /\ k = Len(columns) + 1 - t.columnsFrom
        /\ t = tables[Len(tables)] /\ lt \in 1..Len(tables)
        /\ t.spec = TblSpec(tbl) /\ t.columnsFrom = ColumnsPast + 1
        /\ k = Len(t.spec.cols)
        /\ lt = TablesPast + 1 /\ lt <= ColumnsPast + 1 /\ lb < t.blocksUntil
        /\ t.blocksUntil - 1 <= (RowsPast + t.spec.rows) \div BlockMax + lt
        /\ Len(rowspans) <= (lb - 1) * count.columns + k
  BY <1>1, OpenFacts
<1>5. PICK lc, lr \in Nat : lc = Len(columns) /\ lr = Len(rowspans)
  BY <1>1
<1>6. PICK closed : closed = [rowBlocks EXCEPT ![Len(rowBlocks)].until = Len(rowspans) + 1]
  OBVIOUS
<1>7. closed \in Seq(RowBlockRec) /\ Len(closed) = lb
  <2>1. PICK v \in Nat : v = Len(rowspans) + 1
    BY <1>5
  <2>2. closed = Closed(rowBlocks, v) /\ rowBlocks \in Seq(RowBlockRec)
    BY <1>1, <1>6, <2>1, Zenon DEF Closed
  <2>3. closed \in Seq(RowBlockRec) /\ Len(closed) = Len(rowBlocks)
    BY <2>2, CloseBlock
  <2> QED
    BY <1>4, <2>3
<1>8. PICK cc, cp, rp, rows, m \in Nat :
         /\ cc = count.columns /\ cp = ColumnsPast /\ rp = RowsPast /\ rows = t.spec.rows
         /\ m = BlockMax /\ m # 0
  BY <1>1, <1>4, DbSums, PastFacts, CountFacts
<1>9. k >= 1 /\ cp + k <= cc /\ lc = cp + k
  <2>1. Len(TblSpec(tbl).cols) \in Nat \ {0} /\ cp + Len(TblSpec(tbl).cols) <= cc
    BY <1>1, <1>8, PastFacts
  <2>2. k = lc + 1 - (cp + 1)
    BY <1>4, <1>5, <1>8
  <2> QED
    BY <1>4, <2>1, <2>2
<1>10. PICK z \in Int : z = (lb - 1) * cc
  OBVIOUS
<1>11. lr <= z + k /\ z + cc = lb * cc
  <2>1. lr <= (lb - 1) * cc + k
    BY <1>4, <1>5, <1>8
  <2>2. (lb - 1) * cc + cc = lb * cc
    OBVIOUS
  <2> QED
    BY <1>10, <2>1, <2>2
<1>12. Len(tasks) <= 1 + db + Len(columns)
  BY DEF CountInv
<1>13. CASE lb + 1 = t.blocksUntil
  <2>1. /\ rowBlocks' = closed /\ tbl' = tbl + 1 /\ rowspans' = rowspans
        /\ hook' = IF tbl = Len(input[db]) THEN "database" ELSE "table"
        /\ tables' = [tables EXCEPT ![Len(tables)].colCount = k,
                                    ![Len(tables)].rowspansUntil = Len(rowspans) + 1]
    BY <1>4, <1>6, <1>13 DEF HookRowBlock
  <2>2. (InTable' <=> tbl # Len(input[db])) /\ ~InColumns' /\ hook' # "done"
    BY <2>1 DEF InTable, InColumns
  <2>3. /\ TablesPast' = TablesPast + 1 /\ ColumnsPast' = ColumnsPast + Len(TblSpec(tbl).cols)
        /\ RowsPast' = RowsPast + TblSpec(tbl).rows
    BY <1>1, <1>2, <2>1, <2>2, PastSteps
  <2>4. tables' \in Seq(TableSet) /\ Len(tables') = lt
    <3>1. PICK y \in Nat : y = Len(rowspans) + 1
      BY <1>5
    <3>2. PICK r : r = tables'
      OBVIOUS
    <3>3. r = Left(tables, k, y)
      BY <2>1, <3>1, <3>2, Zenon DEF Left
    <3>4. tables \in Seq(TableSet)
      BY <1>1
    <3>5. r \in Seq(TableSet) /\ Len(r) = Len(tables)
      BY <3>3, <3>4, LeaveTable
    <3> QED
      BY <1>4, <3>2, <3>5
  <2>5. LayoutTypes'
    <3>1. InTable' => tbl + 1 \in 1..Len(input[db])
      BY <1>1, <2>2, InputFacts
    <3>2. hook' \in {"database", "table", "column", "blocks", "done"}
      BY <2>1
    <3> QED
      BY <1>1, <1>2, <1>3, <1>7, <2>1, <2>4, <3>1, <3>2 DEF LayoutTypes
  <2>6. Len(tables') = TablesPast' /\ ColumnsPast' = cp + k /\ RowsPast' = rp + rows
    BY <1>4, <1>8, <2>3, <2>4
  <2>7. lt <= cp + k /\ lc = cp + k
    <3>1. lt <= cp + 1
      BY <1>4, <1>8
    <3> QED
      BY <1>9, <3>1
  <2>8. lb <= (rp + rows) \div m + lt
    <3>1. t.blocksUntil - 1 = lb
      BY <1>13
    <3> QED
      BY <1>4, <1>8, <3>1
  <2>9. lr <= lb * cc
    <3>1. PICK w \in Int : w = lb * cc
      OBVIOUS
    <3> QED
      BY <1>9, <1>11, <3>1
  <2>10. CountInv'
    <3>1. TablesPast' + 0 = TablesPast' /\ ColumnsPast' + 0 = ColumnsPast'
      <4>1. PICK x, y \in Nat : x = TablesPast' /\ y = ColumnsPast'
        BY <1>4, <1>9, <2>4, <2>6
      <4>2. x + 0 = x /\ y + 0 = y
        OBVIOUS
      <4> QED
        BY <4>1, <4>2, Zenon
    <3>2. Len(tables') = TablesPast' /\ Len(tables') <= ColumnsPast'
      BY <2>4, <2>6, <2>7
    <3>3. Len(columns)' = ColumnsPast'
      BY <1>2, <1>5, <2>6, <2>7
    <3>4. Len(rowBlocks)' <= RowsPast' \div BlockMax' + Len(tables)'
      BY <1>3, <1>7, <1>8, <2>1, <2>4, <2>6, <2>8
    <3>5. Len(rowspans)' <= Len(rowBlocks)' * count'.columns
      BY <1>2, <1>5, <1>7, <1>8, <2>1, <2>9
    <3>6. Len(tasks)' <= 1 + db' + Len(columns)'
      BY <1>2, <1>12
    <3> QED
      BY <2>2, <3>1, <3>2, <3>3, <3>4, <3>5, <3>6 DEF CountInv
  <2> QED
    BY <2>5, <2>10
<1>14. CASE lb + 1 # t.blocksUntil
  <2>1. /\ tables' = tables /\ tbl' = tbl /\ hook' = hook
        /\ rowBlocks' = Append(closed, [rows |-> BlockMax, from |-> Len(rowspans) + 1, until |-> 0])
        /\ rowspans' = rowspans \o [i \in 1..k |-> Len(rowBlocks) + 1]
    BY <1>4, <1>6, <1>14 DEF HookRowBlock, BlockMax
  <2>2. InTable' /\ InColumns' /\ hook' = "blocks"
    BY <1>1, <2>1 DEF InTable, InColumns
  <2>3. TablesPast' = TablesPast /\ ColumnsPast' = ColumnsPast /\ RowsPast' = RowsPast
    BY <1>1, <1>2, <2>1, <2>2, PastSteps
  <2>4. rowBlocks' \in Seq(RowBlockRec) /\ Len(rowBlocks') = lb + 1
    <3>1. [rows |-> BlockMax, from |-> Len(rowspans) + 1, until |-> 0] \in RowBlockRec
      BY <1>5, <1>8 DEF RowBlockRec
    <3> QED
      BY <1>7, <2>1, <3>1
  <2>5. rowspans' \in Seq(Nat) /\ Len(rowspans') = lr + k
    <3>1. PICK f : f = [i \in 1..k |-> Len(rowBlocks) + 1]
      OBVIOUS
    <3>2. f \in Seq(Nat) /\ Len(f) = k
      BY <1>4, <3>1
    <3> QED
      BY <1>1, <1>5, <2>1, <3>1, <3>2
  <2>6. LayoutTypes'
    BY <1>1, <1>2, <1>3, <2>1, <2>2, <2>4, <2>5 DEF LayoutTypes
  <2>7. lb + 1 < t.blocksUntil
    BY <1>4, <1>14 DEF TableSet
  <2>8. lr + k <= lb * cc + k
    BY <1>9, <1>10, <1>11
  <2>9. CountInv'
    <3>1. Len(tables') = TablesPast' + 1 /\ Len(tables') <= ColumnsPast' + 1
      BY <1>4, <2>1, <2>3
    <3>2. /\ Len(columns)' + 1 - t.columnsFrom = k /\ k \in 0..Len(t.spec.cols)
          /\ k = Len(t.spec.cols)
      BY <1>2, <1>4
    <3>3. Len(rowspans)' <= (Len(rowBlocks)' - 1) * count'.columns + k
      <4>1. Len(rowBlocks)' - 1 = lb /\ count'.columns = cc
        BY <1>2, <1>8, <2>4
      <4> QED
        BY <2>5, <2>8, <4>1
    <3>4. Len(tasks)' <= 1 + db' + Len(columns)'
      BY <1>2, <1>12
    <3>5. /\ tables'[Len(tables')] = t /\ t.spec = TblSpec(tbl)' /\ t.columnsFrom = ColumnsPast' + 1
          /\ Len(rowBlocks)' < t.blocksUntil
          /\ t.blocksUntil - 1 <= (RowsPast' + t.spec.rows) \div BlockMax' + Len(tables)'
      <4>1. TblSpec(tbl)' = TblSpec(tbl)
        BY <1>2, <2>1 DEF TblSpec
      <4> QED
        BY <1>3, <1>4, <2>1, <2>3, <2>4, <2>7, <4>1
    <3>6. hook' # "done" /\ hook' # "column"
      BY <2>2
    <3> QED
      BY <2>2, <3>1, <3>2, <3>3, <3>4, <3>5, <3>6 DEF CountInv
  <2> QED
    BY <2>6, <2>9
<1> QED
  BY <1>13, <1>14

(* A step outside the loop leaves the layout alone. *)
LEMMA LayoutSame ==
    ASSUME LayoutTypes, CountInv, UNCHANGED layoutVars
    PROVE  LayoutTypes' /\ CountInv'
<1>1. /\ input' = input /\ count' = count /\ db' = db /\ tbl' = tbl /\ tables' = tables
      /\ columns' = columns /\ rowspans' = rowspans /\ rowBlocks' = rowBlocks
      /\ tasks' = tasks /\ hook' = hook
  BY DEF layoutVars
<1>2. /\ (InTable' <=> InTable) /\ (InColumns' <=> InColumns) /\ TblSpec(tbl)' = TblSpec(tbl)
  BY <1>1 DEF InTable, InColumns, TblSpec
<1>3. TablesPast' = TablesPast /\ ColumnsPast' = ColumnsPast /\ RowsPast' = RowsPast
  BY <1>1, <1>2, PastSteps
<1>4. BlockMax' = BlockMax /\ GeneratorCounter(input)' = GeneratorCounter(input)
  BY <1>1, LayoutStable
<1>5. LayoutTypes'
  BY <1>1, <1>2, <1>4 DEF LayoutTypes
<1>6. CountInv'
  BY <1>1, <1>2, <1>3, <1>4 DEF CountInv
<1> QED
  BY <1>5, <1>6

(* The steps of Next: one of the loop, or one that leaves the layout. *)
LEMMA LoopOrNot ==
    ASSUME [Next]_vars
    PROVE  \/ HookStep
           \/ UNCHANGED layoutVars
  BY DEF Next, vars, StartPool, NextStage, StartColumn, FillRowspan, build_table_init,
         build_table_write, build_row_block, Stopped

(* Before the loop. *)
LEMMA CountsInit ==
    ASSUME Init
    PROVE  LayoutTypes /\ CountInv
<1>1. /\ input \in Inputs /\ count = GeneratorCounter(input) /\ db = 0 /\ tbl = 0
      /\ tables = <<>> /\ columns = <<>> /\ rowspans = <<>> /\ rowBlocks = <<>>
      /\ tasks = (IF count.counter_upto > 0 THEN <<"build_counter">> ELSE <<>>)
      /\ hook = "database" /\ ~InTable /\ ~InColumns
  BY DEF Init, LayoutInit, InTable, InColumns
<1>2. Len(input) \in Nat /\ 0 \in 0..Len(input)
  BY <1>1, InputFacts
<1>3. tasks \in Seq(TaskNames) /\ Len(tasks) <= 1
  <2>1. PICK e \in TaskNames : e = "build_counter"
    BY DEF TaskNames
  <2>2. tasks = <<e>> \/ tasks = <<>>
    BY <1>1, <2>1, Zenon
  <2>3. <<e>> \in Seq(TaskNames) /\ Len(<<e>>) <= 1
    OBVIOUS
  <2>4. <<>> \in Seq(TaskNames) /\ Len(<<>>) <= 1
    OBVIOUS
  <2> QED
    BY <2>2, <2>3, <2>4, Zenon
<1>4. LayoutTypes
  BY <1>1, <1>2, <1>3 DEF LayoutTypes
<1>5. TablesPast = 0 /\ ColumnsPast = 0 /\ RowsPast = 0
  BY <1>1, DbSums DEF TablesPast, ColumnsPast, RowsPast
<1>6. 0 \div BlockMax = 0
  <2>1. PICK m \in Nat \ {0} : m = BlockMax
    BY <1>1, CountFacts
  <2> QED
    BY <2>1
<1>7. 0 <= 0 * count.columns
  <2>1. PICK cc \in Nat : cc = count.columns
    BY <1>1, DbSums
  <2> QED
    BY <2>1
<1>8. Len(tables) = 0 /\ Len(columns) = 0 /\ Len(rowspans) = 0 /\ Len(rowBlocks) = 0
  BY <1>1
<1>9. CountInv
  BY <1>1, <1>2, <1>3, <1>5, <1>6, <1>7, <1>8 DEF CountInv
<1> QED
  BY <1>4, <1>9

(* A step of the loop. *)
LEMMA CountsStep ==
    ASSUME LayoutTypes, CountInv, [Next]_vars
    PROVE  LayoutTypes' /\ CountInv'
<1>1. CASE HookStep
  BY <1>1, CountsDatabase, CountsTable, CountsColumn, CountsRowBlock DEF HookStep, Hook
<1>2. CASE UNCHANGED layoutVars
  BY <1>2, LayoutSame
<1> QED
  BY <1>1, <1>2, LoopOrNot

(* The counts are within the sizes of the arrays. *)
LEMMA CountsFit ==
    ASSUME LayoutTypes, CountInv
    PROVE  LayoutFits
<1>1. /\ input \in Inputs /\ count = GeneratorCounter(input) /\ db \in 0..Len(input)
      /\ tables \in Seq(TableSet) /\ columns \in Seq(ColumnSet)
      /\ rowspans \in Seq(Nat) /\ rowBlocks \in Seq(RowBlockRec) /\ tasks \in Seq(TaskNames)
  BY DEF LayoutTypes
<1>2. PICK lt, lc, lr, lb, la \in Nat :
         /\ lt = Len(tables) /\ lc = Len(columns) /\ lr = Len(rowspans)
         /\ lb = Len(rowBlocks) /\ la = Len(tasks)
  BY <1>1
<1>3. PICK ct, cc, cr, cd \in Nat :
         /\ ct = count.tables /\ cc = count.columns /\ cr = count.rows /\ cd = count.databases
  BY <1>1, DbSums, CountsAreSums, InputFacts
<1>4. PICK m \in Nat \ {0} : m = BlockMax
  BY <1>1, CountFacts
<1>5. PICK q \in Nat : q = cr \div m
  BY Division
<1>6. db \in Nat /\ db <= cd
  BY <1>1, <1>3, CountsAreSums, InputFacts
<1>7. la <= 1 + db + lc
  BY <1>2 DEF CountInv
<1>8. \A x \in Nat : x <= cr => x \div m \in Nat /\ x \div m <= q
  <2>1. SUFFICES ASSUME NEW x \in Nat, x <= cr PROVE x \div m \in Nat /\ x \div m <= q
    OBVIOUS
  <2>2. PICK d, r \in Nat : d = x \div m /\ r = x % m /\ r < m /\ x = m * d + r
    BY Division
  <2>3. m * d <= cr
    BY <2>1, <2>2
  <2> QED
    BY <1>5, <2>2, <2>3, Quotient
<1>9. lt <= ct /\ lc <= cc /\ lb <= q + cc /\ lr <= lb * cc
  <2>1. CASE ~InColumns
    <3>1. PICK tp, cp, rp \in Nat : tp = TablesPast /\ cp = ColumnsPast /\ rp = RowsPast
      BY PastFacts
    <3>2. tp <= ct /\ cp <= cc /\ rp <= cr
      BY <1>3, <3>1, PastFacts
    <3>3. /\ lt = tp + 0 /\ lt <= cp + 0 /\ lc = cp
          /\ lb <= rp \div m + lt /\ lr <= lb * cc
      BY <1>2, <1>3, <1>4, <2>1, <3>1 DEF CountInv
    <3>4. rp \div m \in Nat /\ rp \div m <= q
      BY <1>8, <3>2
    <3> QED
      BY <3>2, <3>3, <3>4
  <2>2. CASE InColumns
    <3>1. PICK t \in TableSet, lt0, lb0, k \in Nat :
        /\ lt0 = Len(tables) /\ lb0 = Len(rowBlocks) /\ k = Len(columns) + 1 - t.columnsFrom
        /\ t.spec = TblSpec(tbl) /\ t.columnsFrom = ColumnsPast + 1
        /\ k <= Len(t.spec.cols) 
        /\ lt0 = TablesPast + 1 /\ lt0 <= ColumnsPast + 1 /\ lb0 < t.blocksUntil
        /\ t.blocksUntil - 1 <= (RowsPast + t.spec.rows) \div BlockMax + lt0
        /\ Len(rowspans) <= (lb0 - 1) * count.columns + k
        /\ InTable
      BY <2>2, OpenFacts
    <3>2. PICK tp, cp, rp, n, rows, u \in Nat :
             /\ tp = TablesPast /\ cp = ColumnsPast /\ rp = RowsPast
             /\ n = Len(t.spec.cols) /\ rows = t.spec.rows /\ u = t.blocksUntil
      BY <3>1, PastFacts DEF TableSet
    <3>3. tp + 1 <= ct /\ cp + n <= cc /\ rp + rows <= cr /\ n >= 1
      BY <1>3, <3>1, <3>2, PastFacts
    <3>4. /\ k = lc + 1 - (cp + 1) /\ k <= n /\ lt = tp + 1 /\ lt <= cp + 1 /\ lb < u
          /\ u - 1 <= (rp + rows) \div m + lt /\ lr <= (lb - 1) * cc + k
      BY <1>2, <1>3, <1>4, <3>1, <3>2
    <3>5. (rp + rows) \div m \in Nat /\ (rp + rows) \div m <= q
      <4>1. PICK x \in Nat : x = rp + rows
        OBVIOUS
      <4> QED
        BY <1>8, <3>3, <4>1
    <3>6. (lb - 1) * cc + k <= lb * cc
      <4>1. (lb - 1) * cc = lb * cc - cc
        OBVIOUS
      <4>2. k <= cc
        BY <3>3, <3>4
      <4> QED
        BY <4>1, <4>2
    <3>7. PICK v, w \in Int : v = (lb - 1) * cc /\ w = lb * cc
      OBVIOUS
    <3>8. lr <= lb * cc
      BY <3>4, <3>6, <3>7
    <3>9. lt <= ct /\ lc <= cc
      BY <3>3, <3>4
    <3>10. lb <= q + cc
      <4>1. PICK d \in Nat : d = (rp + rows) \div m
        BY <3>5
      <4> QED
        BY <3>3, <3>4, <3>5, <4>1
    <3> QED
      BY <3>8, <3>9, <3>10
  <2> QED
    BY <2>1, <2>2
<1>10. count_row_blocks_max = q + cc
  BY <1>3, <1>4, <1>5 DEF count_row_blocks_max, BlockMax
<1>11. lb * cc <= (q + cc) * cc
  BY <1>9
<1>12. PICK v, w \in Int : v = lb * cc /\ w = (q + cc) * cc
  OBVIOUS
<1>13. lr <= w /\ count_rowspans_max = w
  BY <1>3, <1>9, <1>10, <1>11, <1>12 DEF count_rowspans_max
<1>14. count_tasks_max = 1 + cc + cd + 2 * ct + (q + cc)
  BY <1>3, <1>10 DEF count_tasks_max
<1>15. la + 2 * lt + lb <= 1 + cc + cd + 2 * ct + (q + cc)
  BY <1>6, <1>7, <1>9
<1> QED
  BY <1>2, <1>3, <1>9, <1>10, <1>13, <1>14, <1>15 DEF LayoutFits

(* However many databases, tables, columns and rows mysql_seed_generate is *)
(* asked for, and however many workers it has, the arrays it laid out in   *)
(* one allocation are large enough.                                        *)
THEOREM ArraysAreLargeEnough == Spec => []LayoutFits
<1>1. Init => LayoutTypes /\ CountInv
  BY CountsInit
<1>2. LayoutTypes /\ CountInv /\ [Next]_vars => LayoutTypes' /\ CountInv'
  BY CountsStep
<1>3. LayoutTypes /\ CountInv => LayoutFits
  BY CountsFit
<1> QED
  BY <1>1, <1>2, <1>3, PTL DEF Spec

-----------------------------------------------------------------------------
(***************************************************************************)
(* The shape of the arrays                                                 *)
(***************************************************************************)

(* A table keeps its place: only the counts are set when it is left. *)
SamePlace(t) ==
    /\ tables'[t].spec = tables[t].spec /\ tables'[t].columnsFrom = tables[t].columnsFrom
    /\ tables'[t].blocksFrom = tables[t].blocksFrom
    /\ tables'[t].blocksUntil = tables[t].blocksUntil

(* The arrays of a step only grow, but for the last row block. *)
Grown ==
    /\ input' = input /\ count' = count
    /\ Len(columns') \in Nat /\ Len(columns) <= Len(columns')
    /\ \A c \in 1..Len(columns) : columns'[c] = columns[c]
    /\ Len(rowspans') \in Nat /\ Len(rowspans) <= Len(rowspans')
    /\ \A r \in 1..Len(rowspans) : rowspans'[r] = rowspans[r]
    /\ Len(rowBlocks') \in Nat /\ Len(rowBlocks) <= Len(rowBlocks')
    /\ \A b \in 1..Len(rowBlocks) : /\ rowBlocks'[b].rows = rowBlocks[b].rows
                                    /\ rowBlocks'[b].from = rowBlocks[b].from

(* What the specification of a table in the arrays is like. *)
LEMMA SoundFacts ==
    ASSUME LayoutTypes, NEW t \in Tables, TableSound(t)
    PROVE  /\ tables[t] \in TableSet /\ IsSpec(tables[t].spec)
           /\ tables[t].blocksFrom \in Nat \ {0} /\ tables[t].blocksUntil \in Nat
           /\ tables[t].columnsFrom \in Nat \ {0} /\ ColsOf(t) \in Nat \ {0}
           /\ tables[t].spec.rows \in Nat \ {0} /\ BlockMax \in Nat \ {0}
           /\ BlockCount(tables[t].spec.rows, BlockMax) \in Nat \ {0}
           /\ tables[t].blocksFrom < tables[t].blocksUntil
<1>1. tables \in Seq(TableSet) /\ input \in Inputs /\ count = GeneratorCounter(input)
  BY DEF LayoutTypes
<1>2. tables[t] \in TableSet
  BY <1>1 DEF Tables
<1>3. IsSpec(tables[t].spec)
  BY Zenon DEF TableSound, IsSpec
<1>4. /\ tables[t].blocksFrom \in Nat \ {0} /\ tables[t].blocksUntil \in Nat
      /\ tables[t].columnsFrom \in Nat \ {0}
  BY <1>2 DEF TableSet
<1>5. ColsOf(t) \in Nat \ {0} /\ tables[t].spec.rows \in Nat \ {0}
  BY <1>1, <1>3, SpecFacts DEF IsSpec, ColsOf
<1>6. BlockMax \in Nat \ {0}
  BY <1>1, CountFacts
<1>7. BlockCount(tables[t].spec.rows, BlockMax) \in Nat \ {0}
  BY <1>5, <1>6, BlockFacts
<1>8. tables[t].blocksUntil = tables[t].blocksFrom + BlockCount(tables[t].spec.rows, BlockMax)
  BY DEF TableSound, FirstBlock
<1> QED
  BY <1>2, <1>3, <1>4, <1>5, <1>6, <1>7, <1>8

(* The fields of a row block are numbers. *)
LEMMA BlockTypes ==
    ASSUME LayoutTypes, NEW b \in RowBlockSet
    PROVE  /\ rowBlocks[b].rows \in Nat /\ rowBlocks[b].from \in Nat \ {0}
           /\ rowBlocks[b].until \in Nat /\ rowBlocks[b] \in RowBlockRec
<1>1. rowBlocks[b] \in RowBlockRec
  BY DEF LayoutTypes, RowBlockSet
<1> QED
  BY <1>1 DEF RowBlockRec

(* A table keeps what it knows of the input, *)
LEMMA SoundStays ==
    ASSUME NEW t, TableSound(t), SamePlace(t), input' = input, count' = count
    PROVE  TableSound(t)'
<1>1. BlockMax' = BlockMax
  BY LayoutStable
<1> QED
  BY <1>1 DEF TableSound, SamePlace, FirstBlock

(* a column its place and its rowspans, *)
LEMMA ColumnStays ==
    ASSUME NEW t, NEW c \in Columns, ColumnHooked(t, c), SamePlace(t), Grown,
           FirstBlock(t) \in RowBlockSet
    PROVE  ColumnHooked(t, c)'
<1>1. columns'[c] = columns[c]
  BY DEF Grown, Columns
<1>2. FirstBlock(t)' = FirstBlock(t)
  BY DEF SamePlace, FirstBlock
<1>3. rowBlocks'[FirstBlock(t)].from = rowBlocks[FirstBlock(t)].from
  BY DEF Grown, RowBlockSet
<1> QED
  BY <1>1, <1>2, <1>3 DEF ColumnHooked, SamePlace

(* and a row block its rowspans. *)
LEMMA BlockStays ==
    ASSUME LayoutTypes, NEW t, NEW b \in RowBlockSet, BlockHooked(t, b), SamePlace(t), Grown,
           rowBlocks'[b] = rowBlocks[b],
           b + 1 < tables[t].blocksUntil => b + 1 \in RowBlockSet
    PROVE  BlockHooked(t, b)'
<1>1. BlockMax' = BlockMax /\ FirstBlock(t)' = FirstBlock(t) /\ ColsOf(t)' = ColsOf(t)
  BY LayoutStable DEF Grown, SamePlace, FirstBlock, ColsOf
<1>2. rowBlocks[b] \in RowBlockRec /\ Len(rowspans) \in Nat
  BY DEF LayoutTypes, RowBlockSet
<1>3. PICK f, u \in Nat : f = rowBlocks[b].from /\ u = rowBlocks[b].until /\ f # 0
  BY <1>2 DEF RowBlockRec
<1>4. PICK n, p \in Nat : n = Len(rowspans) /\ p = Len(rowspans') /\ n <= p
  BY <1>2 DEF Grown
<1>5. u <= n + 1 /\ \A r \in f .. u - 1 : rowspans[r] = b
  BY <1>3, <1>4 DEF BlockHooked
<1>6. \A r \in f .. u - 1 : r \in 1..n
  BY <1>3, <1>5
<1>7. \A r \in f .. u - 1 : rowspans'[r] = b
  BY <1>4, <1>5, <1>6 DEF Grown
<1>8. u <= p + 1
  BY <1>4, <1>5
<1>9. /\ rowBlocks'[b].rows = BlockRows(b + 1 - FirstBlock(t)', tables'[t].spec.rows, BlockMax')
      /\ u = f + ColsOf(t)'
  BY <1>1, <1>3 DEF BlockHooked, SamePlace
<1>10. b + 1 < tables'[t].blocksUntil => rowBlocks'[b + 1].from = u
  BY <1>3 DEF BlockHooked, SamePlace, Grown, RowBlockSet
<1>11. rowBlocks'[b].from = f /\ rowBlocks'[b].until = u
  BY <1>3
<1> QED
  BY <1>4, <1>7, <1>8, <1>9, <1>10, <1>11 DEF BlockHooked

(* A table whose row blocks were all there stays that way. *)
LEMMA HookedStays ==
    ASSUME LayoutTypes, NEW t \in Tables, TableSound(t), TableHooked(t), Grown,
           tables'[t] = tables[t], \A b \in BlocksOf(t) : rowBlocks'[b] = rowBlocks[b]
    PROVE  TableHooked(t)'
<1>1. SamePlace(t) /\ ColsOf(t)' = ColsOf(t) /\ FirstBlock(t)' = FirstBlock(t)
  BY DEF SamePlace, ColsOf, FirstBlock
<1>2. PICK f, u, cf, n \in Nat \ {0} :
         /\ f = tables[t].blocksFrom /\ u = tables[t].blocksUntil /\ f < u
         /\ cf = tables[t].columnsFrom /\ n = ColsOf(t)
  BY SoundFacts
<1>3. PICK lb, lc, lb2, lc2 \in Nat :
         /\ lb = Len(rowBlocks) /\ lc = Len(columns) /\ lb2 = Len(rowBlocks') /\ lc2 = Len(columns')
         /\ lb <= lb2 /\ lc <= lc2
  <2>1. rowBlocks \in Seq(RowBlockRec) /\ columns \in Seq(ColumnSet)
    BY DEF LayoutTypes
  <2>2. Len(rowBlocks) \in Nat /\ Len(columns) \in Nat
    BY <2>1
  <2>3. /\ Len(columns') \in Nat /\ Len(columns) <= Len(columns')
        /\ Len(rowBlocks') \in Nat /\ Len(rowBlocks) <= Len(rowBlocks')
    BY DEF Grown
  <2> QED
    BY <2>2, <2>3
<1>4. u <= lb + 1 /\ cf + n <= lc + 1
  BY <1>2, <1>3 DEF TableHooked
<1>5. BlocksOf(t) = f .. u - 1 /\ BlocksOf(t)' = f .. u - 1
  BY <1>2 DEF BlocksOf
<1>6. \A b \in f .. u - 1 : b \in RowBlockSet /\ (b + 1 < u => b + 1 \in RowBlockSet)
  <2>1. RowBlockSet = 1..lb
    BY <1>3 DEF RowBlockSet
  <2> QED
    BY <1>4, <2>1
<1>7. \A c \in cf .. cf + n - 1 : c \in Columns
  BY <1>3, <1>4 DEF Columns
<1>8. ASSUME NEW b \in f .. u - 1 PROVE BlockHooked(t, b)'
  <2>1. BlockHooked(t, b) /\ rowBlocks'[b] = rowBlocks[b]
    BY <1>5 DEF TableHooked
  <2> QED
    BY <1>1, <1>2, <1>6, <2>1, BlockStays
<1>9. ASSUME NEW c \in cf .. cf + n - 1 PROVE ColumnHooked(t, c)'
  <2>1. ColumnHooked(t, c)
    BY <1>2 DEF TableHooked
  <2>2. FirstBlock(t) \in RowBlockSet
    BY <1>2, <1>6 DEF FirstBlock
  <2> QED
    BY <1>1, <1>7, <2>1, <2>2, ColumnStays
<1>10. u - 1 \in BlocksOf(t)
  BY <1>2, <1>5
<1>11. u <= lb2 + 1 /\ cf + n <= lc2 + 1
  BY <1>3, <1>4
<1>12. tables'[t].colCount = n /\ tables'[t].rowspansUntil = rowBlocks'[u - 1].until
  BY <1>2, <1>10 DEF TableHooked
<1>13. /\ tables'[t].blocksUntil = u /\ tables'[t].columnsFrom = cf /\ ColsOf(t)' = n
  BY <1>1, <1>2
<1> QED
  BY <1>3, <1>5, <1>8, <1>9, <1>11, <1>12, <1>13 DEF TableHooked

(* The shape is about the arrays alone. *)
LEMMA ShapeSame ==
    ASSUME ShapeInv, input' = input, count' = count, tables' = tables, columns' = columns,
           rowspans' = rowspans, rowBlocks' = rowBlocks, InColumns' <=> InColumns,
           InColumns => hook' = hook
    PROVE  ShapeInv'
<1>1. BlockMax' = BlockMax
  BY LayoutStable
<1>2. \A t, b : BlockHooked(t, b) => BlockHooked(t, b)'
  BY <1>1, Zenon DEF BlockHooked, FirstBlock, ColsOf
<1>3. \A t, c : ColumnHooked(t, c) => ColumnHooked(t, c)'
  BY Zenon DEF ColumnHooked, FirstBlock
<1>4. /\ Tables' = Tables /\ Columns' = Columns /\ RowBlockSet' = RowBlockSet
      /\ HookedTables' = HookedTables
  BY Zenon DEF Tables, Columns, RowBlockSet, HookedTables
<1>5. \A t : /\ BlocksOf(t)' = BlocksOf(t) /\ ColsOf(t)' = ColsOf(t)
             /\ FirstBlock(t)' = FirstBlock(t)
  BY Zenon DEF BlocksOf, ColsOf, FirstBlock
<1>6. \A t : TableSound(t) => TableSound(t)'
  BY <1>1, Zenon DEF TableSound, FirstBlock
<1>7. \A t : TableHooked(t) => TableHooked(t)'
  BY <1>2, <1>3, <1>5, Zenon DEF TableHooked
<1>8. InColumns => \A t : TableOpen(t) => TableOpen(t)'
  BY <1>1, <1>2, <1>3, <1>5, Zenon DEF TableOpen
<1>9. InColumns' => TableOpen(Len(tables))'
  BY <1>8, Zenon DEF ShapeInv
<1>10. (\A t \in Tables : TableSound(t))' /\ (\A t \in HookedTables : TableHooked(t))'
  BY <1>4, <1>6, <1>7, Zenon DEF ShapeInv
<1>11. (\A t, u \in Tables : t < u => tables[t].blocksUntil <= tables[u].blocksFrom)'
  BY <1>4, Zenon DEF ShapeInv
<1>12. /\ (\A a, b \in RowBlockSet : a < b => rowBlocks[a].from < rowBlocks[b].from)'
       /\ (\A b \in RowBlockSet : rowBlocks[b].from <= Len(rowspans) + 1)'
       /\ (\A b \in RowBlockSet : \E t \in Tables : b \in BlocksOf(t))'
  BY <1>4, <1>5, Zenon DEF ShapeInv
<1>13. (\A c \in Columns : \E t \in Tables :
          c \in tables[t].columnsFrom .. tables[t].columnsFrom + ColsOf(t) - 1 /\ ColumnHooked(t, c))'
  BY <1>3, <1>4, <1>5, Zenon DEF ShapeInv
<1> QED
  BY <1>9, <1>10, <1>11, <1>12, <1>13, Zenon DEF ShapeInv

(* The first row block of a table is always there. *)
LEMMA FirstBlockThere ==
    ASSUME LayoutTypes, ShapeInv, NEW t \in Tables
    PROVE  FirstBlock(t) \in RowBlockSet
<1>1. PICK f, u \in Nat : f = tables[t].blocksFrom /\ u = tables[t].blocksUntil /\ 1 <= f /\ f < u
  BY SoundFacts DEF ShapeInv
<1>2. PICK lb, lt \in Nat : lb = Len(rowBlocks) /\ lt = Len(tables)
  BY DEF LayoutTypes
<1>3. CASE t \in HookedTables
  <2>1. u <= lb + 1
    BY <1>1, <1>2, <1>3 DEF ShapeInv, TableHooked
  <2> QED
    BY <1>1, <1>2, <2>1 DEF FirstBlock, RowBlockSet
<1>4. CASE t \notin HookedTables
  <2>1. InColumns /\ t = lt
    BY <1>2, <1>4 DEF HookedTables, Tables
  <2>2. lb \in BlocksOf(t)
    BY <1>2, <2>1 DEF ShapeInv, TableOpen
  <2> QED
    BY <1>1, <1>2, <2>2 DEF BlocksOf, FirstBlock, RowBlockSet
<1> QED
  BY <1>3, <1>4

(* A step that only adds keeps what is said of the old elements. *)
LEMMA OldStay ==
    ASSUME LayoutTypes, ShapeInv, Grown, \A t \in Tables : SamePlace(t)
    PROVE  /\ \A t \in Tables : TableSound(t)'
           /\ \A c \in Columns : \E t \in Tables :
                 /\ c \in tables'[t].columnsFrom .. tables'[t].columnsFrom + ColsOf(t)' - 1
                 /\ ColumnHooked(t, c)'
           /\ \A b \in RowBlockSet : \E t \in Tables : b \in BlocksOf(t)'
           /\ \A a, b \in RowBlockSet : a < b => rowBlocks'[a].from < rowBlocks'[b].from
           /\ \A t, u \in Tables : t < u => tables'[t].blocksUntil <= tables'[u].blocksFrom
<1>1. input' = input /\ count' = count
  BY DEF Grown
<1>2. \A t \in Tables : TableSound(t)'
  BY <1>1, SoundStays DEF ShapeInv
<1>3. ASSUME NEW t \in Tables
      PROVE  BlocksOf(t)' = BlocksOf(t) /\ ColsOf(t)' = ColsOf(t)
  BY DEF BlocksOf, ColsOf, SamePlace
<1>4. ASSUME NEW c \in Columns
      PROVE  \E t \in Tables :
                 /\ c \in tables'[t].columnsFrom .. tables'[t].columnsFrom + ColsOf(t)' - 1
                 /\ ColumnHooked(t, c)'
  <2>1. PICK t \in Tables : /\ c \in tables[t].columnsFrom .. tables[t].columnsFrom + ColsOf(t) - 1
                            /\ ColumnHooked(t, c)
    BY Zenon DEF ShapeInv
  <2>2. SamePlace(t) /\ FirstBlock(t) \in RowBlockSet
    BY FirstBlockThere
  <2>3. ColumnHooked(t, c)'
    BY <2>1, <2>2, ColumnStays
  <2>4. tables'[t].columnsFrom = tables[t].columnsFrom /\ ColsOf(t)' = ColsOf(t)
    BY <1>3, <2>2 DEF SamePlace
  <2> QED
    BY <2>1, <2>3, <2>4
<1>5. \A b \in RowBlockSet : \E t \in Tables : b \in BlocksOf(t)'
  BY <1>3 DEF ShapeInv
<1>6. \A a, b \in RowBlockSet : a < b => rowBlocks'[a].from < rowBlocks'[b].from
  BY DEF ShapeInv, Grown, RowBlockSet
<1>7. \A t, u \in Tables : t < u => tables'[t].blocksUntil <= tables'[u].blocksFrom
  BY DEF ShapeInv, SamePlace
<1> QED
  BY <1>2, <1>4, <1>5, <1>6, <1>7

(* The next table: it has no columns yet and its first row block is open. *)
LEMMA ShapeTable ==
    ASSUME LayoutTypes, CountInv, ShapeInv, HookTable, LayoutTypes'
    PROVE  ShapeInv'
<1>1. /\ input \in Inputs /\ count = GeneratorCounter(input)
      /\ hook = "table" /\ InTable /\ ~InColumns
      /\ tables \in Seq(TableSet) /\ columns \in Seq(ColumnSet)
      /\ rowspans \in Seq(Nat) /\ rowBlocks \in Seq(RowBlockRec)
  BY DEF LayoutTypes, HookTable, InTable, InColumns
<1>2. /\ input' = input /\ count' = count /\ columns' = columns /\ rowspans' = rowspans
      /\ db' = db /\ tbl' = tbl /\ hook' = "column" /\ InColumns'
  BY DEF HookTable, InColumns
<1>3. BlockMax' = BlockMax
  BY <1>2, LayoutStable
<1>5. PICK s : s = TblSpec(tbl)
  OBVIOUS
<1>6. s \in TblSpecSet /\ s.rows \in Nat \ {0} /\ Len(s.cols) \in Nat \ {0}
  BY <1>1, <1>5, PastFacts
<1>7. PICK m \in Nat \ {0} : m = BlockMax
  BY <1>1, CountFacts
<1>8. PICK k \in Nat \ {0} : k = BlockCount(s.rows, m)
  BY <1>6, <1>7, BlockFacts
<1>9. PICK first : first = BlockRows(1, s.rows, m)
  OBVIOUS
<1>10. PICK lt, lb, lc, lr \in Nat :
          lt = Len(tables) /\ lb = Len(rowBlocks) /\ lc = Len(columns) /\ lr = Len(rowspans)
  BY <1>1
<1>11. PICK t, u : /\ t = [spec |-> s, blocksFrom |-> lb + 1, blocksUntil |-> lb + 1 + k,
                           columnsFrom |-> lc + 1, colCount |-> 0, rowspansUntil |-> 0]
                   /\ u = [rows |-> first, from |-> lr + 1, until |-> 0]
                   /\ tables' = Append(tables, t) /\ rowBlocks' = Append(rowBlocks, u)
  BY <1>5, <1>7, <1>8, <1>9, <1>10 DEF HookTable, BlockMax
<1>12. /\ t.spec = s /\ t.blocksFrom = lb + 1 /\ t.blocksUntil = lb + 1 + k
       /\ t.columnsFrom = lc + 1
       /\ u.rows = first /\ u.from = lr + 1
  BY <1>11
<1>13. Len(tables') = lt + 1 /\ tables'[lt + 1] = t /\ \A i \in 1..lt : tables'[i] = tables[i]
  BY <1>1, <1>10, <1>11
<1>14. /\ Len(rowBlocks') = lb + 1 /\ rowBlocks'[lb + 1] = u
       /\ \A i \in 1..lb : rowBlocks'[i] = rowBlocks[i]
  BY <1>1, <1>10, <1>11
<1>15. /\ Tables = 1..lt /\ Tables' = 1 .. lt + 1 /\ RowBlockSet = 1..lb
       /\ RowBlockSet' = 1 .. lb + 1 /\ Columns = 1..lc /\ Columns' = 1..lc
       /\ HookedTables = 1..lt /\ HookedTables' = 1..lt
  <2>1. HookedTables = 1..lt
    BY <1>1, <1>10 DEF HookedTables
  <2>2. HookedTables' = 1..lt
    BY <1>2, <1>13 DEF HookedTables
  <2> QED
    BY <1>2, <1>10, <1>13, <1>14, <2>1, <2>2 DEF Tables, Columns, RowBlockSet
<1>16. Grown
  BY <1>2, <1>10, <1>14 DEF Grown
<1>17. \A i \in Tables : SamePlace(i)
  BY <1>13, <1>15 DEF SamePlace
<1>18. /\ \A i \in Tables : TableSound(i)'
       /\ \A c \in Columns : \E i \in Tables :
             /\ c \in tables'[i].columnsFrom .. tables'[i].columnsFrom + ColsOf(i)' - 1
             /\ ColumnHooked(i, c)'
       /\ \A b \in RowBlockSet : \E i \in Tables : b \in BlocksOf(i)'
       /\ \A a, b \in RowBlockSet : a < b => rowBlocks'[a].from < rowBlocks'[b].from
       /\ \A i, j \in Tables : i < j => tables'[i].blocksUntil <= tables'[j].blocksFrom
  BY <1>16, <1>17, OldStay
<1>19. \A i \in 1..lt : /\ tables[i].blocksFrom \in Nat \ {0} /\ tables[i].blocksUntil \in Nat
                        /\ tables[i].blocksUntil <= lb + 1
  <2>1. SUFFICES ASSUME NEW i \in 1..lt
                 PROVE  /\ tables[i].blocksFrom \in Nat \ {0} /\ tables[i].blocksUntil \in Nat
                        /\ tables[i].blocksUntil <= lb + 1
    OBVIOUS
  <2>2. i \in Tables /\ TableSound(i) /\ TableHooked(i)
    BY <1>15 DEF ShapeInv
  <2> QED
    BY <1>10, <2>2, SoundFacts DEF TableHooked
<1>20. \A i \in HookedTables' : TableHooked(i)'
  <2>1. SUFFICES ASSUME NEW i \in 1..lt PROVE TableHooked(i)'
    BY <1>15
  <2>2. i \in Tables /\ TableSound(i) /\ TableHooked(i) /\ tables'[i] = tables[i]
    BY <1>13, <1>15 DEF ShapeInv
  <2>3. \A b \in BlocksOf(i) : b \in 1..lb
    BY <1>19 DEF BlocksOf
  <2> QED
    BY <1>14, <1>16, <2>2, <2>3, HookedStays
<1>21. TableSound(lt + 1)'
  <2>1. IsSpec(s)
    <3>1. db \in 1..Len(input) /\ tbl \in 1..Len(input[db])
      BY <1>1, InputFacts DEF LayoutTypes
    <3> QED
      BY <1>5, <3>1 DEF IsSpec, TblSpec
  <2>2. tables'[lt + 1].spec = s /\ input' = input
    BY <1>2, <1>12, <1>13
  <2>3. \E d \in 1..Len(input') : \E j \in 1..Len(input'[d]) : tables'[lt + 1].spec = input'[d][j]
    BY <2>1, <2>2, Zenon DEF IsSpec
  <2> QED
    BY <1>3, <1>7, <1>8, <1>12, <1>13, <2>3 DEF TableSound, FirstBlock
<1>22. TableOpen(lt + 1)'
  <2>1. lb + 1 \in BlocksOf(lt + 1)' /\ lb + 1 < tables'[lt + 1].blocksUntil
    BY <1>12, <1>13 DEF BlocksOf
  <2>2. FirstBlock(lt + 1)' = lb + 1
    BY <1>12, <1>13 DEF FirstBlock
  <2>3. rowBlocks'[lb + 1].rows
          = BlockRows((lb + 1) + 1 - (lb + 1), tables'[lt + 1].spec.rows, BlockMax')
    <3>1. (lb + 1) + 1 - (lb + 1) = 1
      OBVIOUS
    <3> QED
      BY <1>3, <1>7, <1>9, <1>12, <1>13, <1>14, <3>1
  <2>4. rowBlocks'[lb + 1].from + (Len(columns') + 1 - tables'[lt + 1].columnsFrom) = Len(rowspans') + 1
    <3>1. (lr + 1) + (lc + 1 - (lc + 1)) = lr + 1
      OBVIOUS
    <3> QED
      BY <1>2, <1>10, <1>12, <1>13, <1>14, <3>1
  <2>5. \A r \in rowBlocks'[lb + 1].from .. Len(rowspans') : rowspans'[r] = lb + 1
    <3>1. (lr + 1) .. lr = {}
      OBVIOUS
    <3>2. rowBlocks'[lb + 1].from .. Len(rowspans') = (lr + 1) .. lr
      BY <1>2, <1>10, <1>12, <1>14
    <3> QED
      BY <3>1, <3>2
  <2>6. \A a \in (lb + 1) .. (lb + 1) - 1 : BlockHooked(lt + 1, a)'
    <3>1. (lb + 1) .. (lb + 1) - 1 = {}
      OBVIOUS
    <3> QED
      BY <3>1
  <2>7. \A c \in tables'[lt + 1].columnsFrom .. Len(columns') : ColumnHooked(lt + 1, c)'
    <3>1. (lc + 1) .. lc = {}
      OBVIOUS
    <3>2. tables'[lt + 1].columnsFrom .. Len(columns') = (lc + 1) .. lc
      BY <1>2, <1>10, <1>12, <1>13
    <3> QED
      BY <3>1, <3>2
  <2>8. Len(rowBlocks') = lb + 1
    BY <1>14
  <2> QED
    BY <2>1, <2>2, <2>3, <2>4, <2>5, <2>6, <2>7, <2>8 DEF TableOpen
<1>23. \A i, j \in 1 .. lt + 1 : i < j => tables'[i].blocksUntil <= tables'[j].blocksFrom
  <2>1. SUFFICES ASSUME NEW i \in 1 .. lt + 1, NEW j \in 1 .. lt + 1, i < j
                 PROVE  tables'[i].blocksUntil <= tables'[j].blocksFrom
    OBVIOUS
  <2>2. CASE j = lt + 1
    <3>1. i \in 1..lt
      BY <2>1, <2>2
    <3>2. tables'[i].blocksUntil <= lb + 1
      BY <1>13, <1>19, <3>1
    <3> QED
      BY <1>12, <1>13, <2>2, <3>2
  <2>3. CASE j # lt + 1
    <3>1. i \in 1..lt /\ j \in 1..lt
      BY <2>1, <2>3
    <3> QED
      BY <1>15, <1>18, <2>1, <3>1
  <2> QED
    BY <2>2, <2>3
<1>24. \A b \in 1..lb : rowBlocks[b].from < lr + 1
  <2>1. SUFFICES ASSUME NEW b \in 1..lb PROVE rowBlocks[b].from < lr + 1
    OBVIOUS
  <2>2. PICK i \in 1..lt : b \in BlocksOf(i)
    BY <1>15 DEF ShapeInv
  <2>3. i \in Tables /\ TableSound(i) /\ TableHooked(i)
    BY <1>15 DEF ShapeInv
  <2>4. PICK n \in Nat \ {0} : n = ColsOf(i)
    BY <2>3, SoundFacts
  <2>5. /\ rowBlocks[b].until = rowBlocks[b].from + n
        /\ rowBlocks[b].until <= lr + 1
    BY <1>10, <2>2, <2>3, <2>4 DEF TableHooked, BlockHooked
  <2>6. rowBlocks[b].from \in Nat
    BY <1>15, BlockTypes
  <2>7. PICK f \in Nat : f = rowBlocks[b].from
    BY <2>6
  <2>8. f + n <= lr + 1
    BY <2>5, <2>7
  <2> QED
    BY <2>7, <2>8
<1>25. \A a, b \in 1 .. lb + 1 : a < b => rowBlocks'[a].from < rowBlocks'[b].from
  <2>1. SUFFICES ASSUME NEW a \in 1 .. lb + 1, NEW b \in 1 .. lb + 1, a < b
                 PROVE  rowBlocks'[a].from < rowBlocks'[b].from
    OBVIOUS
  <2>2. CASE b = lb + 1
    <3>1. a \in 1..lb
      BY <2>1, <2>2
    <3> QED
      BY <1>12, <1>14, <1>24, <2>2, <3>1
  <2>3. CASE b # lb + 1
    <3>1. a \in 1..lb /\ b \in 1..lb
      BY <2>1, <2>3
    <3> QED
      BY <1>15, <1>18, <2>1, <3>1
  <2> QED
    BY <2>2, <2>3
<1>26. \A b \in 1 .. lb + 1 : rowBlocks'[b].from <= Len(rowspans') + 1
  <2>1. SUFFICES ASSUME NEW b \in 1 .. lb + 1 PROVE rowBlocks'[b].from <= lr + 1
    BY <1>2, <1>10
  <2>2. CASE b = lb + 1
    BY <1>12, <1>14, <2>2
  <2>3. CASE b # lb + 1
    <3>1. b \in 1..lb
      BY <2>3
    <3>2. rowBlocks[b].from \in Nat
      BY <1>15, <3>1, BlockTypes
    <3> QED
      BY <1>14, <1>24, <3>1, <3>2
  <2> QED
    BY <2>2, <2>3
<1>27. \A b \in 1 .. lb + 1 : \E i \in 1 .. lt + 1 : b \in BlocksOf(i)'
  <2>1. SUFFICES ASSUME NEW b \in 1 .. lb + 1 PROVE \E i \in 1 .. lt + 1 : b \in BlocksOf(i)'
    OBVIOUS
  <2>2. CASE b = lb + 1
    <3>1. lb + 1 \in BlocksOf(lt + 1)'
      BY <1>12, <1>13 DEF BlocksOf
    <3>2. lt + 1 \in 1 .. lt + 1
      OBVIOUS
    <3> QED
      BY <2>2, <3>1, <3>2
  <2>3. CASE b # lb + 1
    <3>1. b \in 1..lb
      BY <2>3
    <3> QED
      BY <1>15, <1>18, <3>1
  <2> QED
    BY <2>2, <2>3
<1>28. \A i \in 1 .. lt + 1 : TableSound(i)'
  <2>1. \A i \in 1 .. lt + 1 : i \in 1..lt \/ i = lt + 1
    OBVIOUS
  <2> QED
    BY <1>15, <1>18, <1>21, <2>1
<1>29. \A c \in Columns' : \E i \in Tables' :
             /\ c \in tables'[i].columnsFrom .. tables'[i].columnsFrom + ColsOf(i)' - 1
             /\ ColumnHooked(i, c)'
  <2>1. \A i \in Tables : i \in Tables'
    BY <1>15
  <2> QED
    BY <1>15, <1>18, <2>1, Zenon
<1> QED
  BY <1>13, <1>15, <1>20, <1>22, <1>23, <1>25, <1>26, <1>27, <1>28, <1>29 DEF ShapeInv

(* The next column, with its rowspan in the first row block. *)
LEMMA ShapeColumn ==
    ASSUME LayoutTypes, CountInv, ShapeInv, HookColumn, LayoutTypes'
    PROVE  ShapeInv'
<1>1. /\ hook = "column" /\ InTable /\ InColumns
      /\ tables \in Seq(TableSet) /\ columns \in Seq(ColumnSet)
      /\ rowspans \in Seq(Nat) /\ rowBlocks \in Seq(RowBlockRec)
  BY DEF LayoutTypes, HookColumn, InTable, InColumns
<1>2. /\ input' = input /\ count' = count /\ tables' = tables /\ rowBlocks' = rowBlocks
      /\ db' = db /\ tbl' = tbl /\ InColumns'
  BY DEF HookColumn, InColumns
<1>3. BlockMax' = BlockMax
  BY <1>2, LayoutStable
<1>4. PICK t \in TableSet, lt, lb, k \in Nat :
        /\ lt = Len(tables) /\ lb = Len(rowBlocks) /\ k = Len(columns) + 1 - t.columnsFrom
        /\ t = tables[lt] /\ lt \in 1..lt /\ t.spec = TblSpec(tbl) /\ k < Len(t.spec.cols)
  BY <1>1, OpenFacts
<1>5. PICK lc, lr, cf \in Nat : lc = Len(columns) /\ lr = Len(rowspans) /\ cf = t.columnsFrom
  BY <1>1, <1>4 DEF TableSet
<1>6. lc + 1 - cf = k /\ lc + 2 - cf = k + 1
  <2>1. k = lc + 1 - cf
    BY <1>4, <1>5
  <2> QED
    BY <2>1
<1>7. PICK e : e = [spec |-> t.spec.cols[k + 1], table |-> lt, rowspansFrom |-> lr + 1]
  OBVIOUS
<1>8. columns' = Append(columns, e) /\ rowspans' = Append(rowspans, lb)
  BY <1>4, <1>5, <1>6, <1>7 DEF HookColumn
<1>9. /\ Len(columns') = lc + 1 /\ columns'[lc + 1] = e
      /\ \A i \in 1..lc : columns'[i] = columns[i]
  BY <1>1, <1>5, <1>8
<1>10. /\ Len(rowspans') = lr + 1 /\ rowspans'[lr + 1] = lb
       /\ \A i \in 1..lr : rowspans'[i] = rowspans[i]
  BY <1>1, <1>5, <1>8
<1>11. /\ Tables = 1..lt /\ Tables' = Tables /\ RowBlockSet = 1..lb
       /\ RowBlockSet' = RowBlockSet /\ Columns = 1..lc /\ Columns' = 1 .. lc + 1
       /\ HookedTables = 1 .. lt - 1 /\ HookedTables' = HookedTables
  BY <1>1, <1>2, <1>4, <1>5, <1>9 DEF Tables, RowBlockSet, Columns, HookedTables
<1>12. Grown
  <2>1. /\ Len(columns') \in Nat /\ Len(columns) <= Len(columns')
        /\ \A c \in 1..Len(columns) : columns'[c] = columns[c]
    BY <1>5, <1>9
  <2>2. /\ Len(rowspans') \in Nat /\ Len(rowspans) <= Len(rowspans')
        /\ \A r \in 1..Len(rowspans) : rowspans'[r] = rowspans[r]
    BY <1>5, <1>10
  <2>3. Len(rowBlocks') \in Nat /\ Len(rowBlocks) <= Len(rowBlocks')
    BY <1>2, <1>4
  <2> QED
    BY <1>2, <2>1, <2>2, <2>3 DEF Grown
<1>13. \A i \in Tables : SamePlace(i)
  BY <1>2 DEF SamePlace
<1>14. /\ \A i \in Tables : TableSound(i)'
       /\ \A c \in Columns : \E i \in Tables :
             /\ c \in tables'[i].columnsFrom .. tables'[i].columnsFrom + ColsOf(i)' - 1
             /\ ColumnHooked(i, c)'
       /\ \A b \in RowBlockSet : \E i \in Tables : b \in BlocksOf(i)'
       /\ \A a, b \in RowBlockSet : a < b => rowBlocks'[a].from < rowBlocks'[b].from
       /\ \A i, j \in Tables : i < j => tables'[i].blocksUntil <= tables'[j].blocksFrom
  BY <1>12, <1>13, OldStay
<1>15. ASSUME NEW i \in HookedTables PROVE TableHooked(i)'
  <2>1. i \in Tables /\ TableSound(i) /\ TableHooked(i) /\ tables'[i] = tables[i]
    BY <1>2, <1>4, <1>11 DEF ShapeInv
  <2> QED
    BY <1>2, <1>12, <2>1, HookedStays
<1>16. /\ lb \in BlocksOf(lt) /\ lb < tables[lt].blocksUntil /\ lb = FirstBlock(lt)
       /\ rowBlocks[lb].rows = BlockRows(lb + 1 - FirstBlock(lt), tables[lt].spec.rows, BlockMax)
       /\ rowBlocks[lb].from + (Len(columns) + 1 - tables[lt].columnsFrom) = Len(rowspans) + 1
       /\ \A r \in rowBlocks[lb].from .. Len(rowspans) : rowspans[r] = lb
       /\ \A c \in tables[lt].columnsFrom .. Len(columns) : ColumnHooked(lt, c)
  BY <1>1, <1>4 DEF ShapeInv, TableOpen
<1>17. lt \in Tables /\ lb \in RowBlockSet /\ TableSound(lt)
  <2>1. lt \in Tables
    BY <1>4, <1>11
  <2> QED
    BY <1>16, <2>1, FirstBlockThere DEF ShapeInv
<1>18. PICK f \in Nat \ {0} : f = rowBlocks[lb].from
  BY <1>17, BlockTypes
<1>19. f + k = lr + 1
  BY <1>4, <1>5, <1>6, <1>16, <1>18
<1>20. /\ FirstBlock(lt)' = lb /\ BlocksOf(lt)' = BlocksOf(lt) /\ ColsOf(lt)' = ColsOf(lt)
  BY <1>2, <1>16 DEF FirstBlock, BlocksOf, ColsOf
<1>21. ColumnHooked(lt, lc + 1)'
  <2>1. columns'[lc + 1].table = lt /\ columns'[lc + 1].spec = t.spec.cols[k + 1]
        /\ columns'[lc + 1].rowspansFrom = lr + 1
    BY <1>7, <1>9
  <2>2. (lc + 1) + 1 - cf = k + 1 /\ f + ((lc + 1) - cf) = lr + 1
    BY <1>6, <1>19
  <2> QED
    BY <1>2, <1>4, <1>5, <1>18, <1>20, <2>1, <2>2 DEF ColumnHooked
<1>22. TableOpen(lt)'
  <2>1. rowBlocks'[lb].from + (Len(columns') + 1 - tables'[lt].columnsFrom) = Len(rowspans') + 1
    <3>1. f + ((lc + 1) + 1 - cf) = (lr + 1) + 1
      BY <1>6, <1>19
    <3> QED
      BY <1>2, <1>4, <1>5, <1>9, <1>10, <1>18, <3>1
  <2>2. \A r \in rowBlocks'[lb].from .. Len(rowspans') : rowspans'[r] = lb
    <3>1. SUFFICES ASSUME NEW r \in f .. lr + 1 PROVE rowspans'[r] = lb
      BY <1>2, <1>10, <1>18
    <3>2. CASE r = lr + 1
      BY <1>10, <3>2
    <3>3. CASE r # lr + 1
      <4>1. r \in f..lr /\ r \in 1..lr
        BY <3>3
      <4> QED
        BY <1>5, <1>10, <1>16, <1>18, <4>1
    <3> QED
      BY <3>2, <3>3
  <2>3. \A a \in lb .. lb - 1 : BlockHooked(lt, a)'
    <3>1. lb .. lb - 1 = {}
      BY <1>4
    <3> QED
      BY <3>1
  <2>4. \A c \in tables'[lt].columnsFrom .. Len(columns') : ColumnHooked(lt, c)'
    <3>1. SUFFICES ASSUME NEW c \in cf .. lc + 1 PROVE ColumnHooked(lt, c)'
      BY <1>2, <1>4, <1>5, <1>9
    <3>2. CASE c = lc + 1
      BY <1>21, <3>2
    <3>3. CASE c # lc + 1
      <4>1. cf >= 1
        BY <1>4, <1>5 DEF TableSet
      <4>2. c \in cf..lc /\ c \in Columns
        BY <1>11, <3>3, <4>1
      <4>3. ColumnHooked(lt, c)
        BY <1>4, <1>5, <1>16, <4>2
      <4> QED
        BY <1>12, <1>13, <1>16, <1>17, <4>2, <4>3, ColumnStays
    <3> QED
      BY <3>2, <3>3
  <2>5. Len(rowBlocks') = lb /\ lb \in BlocksOf(lt)' /\ lb < tables'[lt].blocksUntil
    BY <1>2, <1>4, <1>16, <1>20
  <2>6. rowBlocks'[lb].rows = BlockRows(lb + 1 - FirstBlock(lt)', tables'[lt].spec.rows, BlockMax')
    BY <1>2, <1>3, <1>16, <1>20
  <2> QED
    BY <1>20, <2>1, <2>2, <2>3, <2>4, <2>5, <2>6 DEF TableOpen
<1>23. \A b \in RowBlockSet' : rowBlocks'[b].from <= Len(rowspans') + 1
  <2>1. SUFFICES ASSUME NEW b \in RowBlockSet PROVE rowBlocks[b].from <= (lr + 1) + 1
    BY <1>2, <1>10, <1>11
  <2>2. rowBlocks[b].from <= lr + 1 /\ rowBlocks[b].from \in Nat
    BY <1>5, BlockTypes DEF ShapeInv
  <2> QED
    BY <2>2
<1>24. \A c \in Columns' : \E i \in Tables' :
             /\ c \in tables'[i].columnsFrom .. tables'[i].columnsFrom + ColsOf(i)' - 1
             /\ ColumnHooked(i, c)'
  <2>1. SUFFICES ASSUME NEW c \in 1 .. lc + 1
                 PROVE  \E i \in Tables :
                          /\ c \in tables'[i].columnsFrom .. tables'[i].columnsFrom + ColsOf(i)' - 1
                          /\ ColumnHooked(i, c)'
    BY <1>11
  <2>2. CASE c = lc + 1
    <3>1. PICK n \in Nat : n = ColsOf(lt) /\ k < n
      BY <1>4, <1>17, SoundFacts DEF ColsOf
    <3>2. lc + 1 \in cf .. cf + n - 1
      BY <1>6, <3>1
    <3>3. c \in tables'[lt].columnsFrom .. tables'[lt].columnsFrom + ColsOf(lt)' - 1
      BY <1>2, <1>4, <1>5, <1>20, <2>2, <3>1, <3>2
    <3> QED
      BY <1>17, <1>21, <2>2, <3>3
  <2>3. CASE c # lc + 1
    <3>1. c \in Columns
      BY <1>11, <2>3
    <3> QED
      BY <1>14, <3>1
  <2> QED
    BY <2>2, <2>3
<1>25. TableOpen(Len(tables))'
  BY <1>2, <1>4, <1>22
<1> QED
  BY <1>11, <1>14, <1>15, <1>23, <1>24, <1>25 DEF ShapeInv

(* The open row block of the table at hand, once its columns are there. *)
OpenAt(lt, lb, lc, lr, cf, k, f, fb) ==
    /\ lt = Len(tables) /\ lb = Len(rowBlocks) /\ lc = Len(columns) /\ lr = Len(rowspans)
    /\ lt \in Tables /\ lb \in RowBlockSet /\ TableSound(lt)
    /\ cf = tables[lt].columnsFrom /\ k = ColsOf(lt) /\ k # 0 /\ cf # 0
    /\ cf + k = lc + 1 /\ f = rowBlocks[lb].from /\ f # 0 /\ f + k = lr + 1
    /\ fb = tables[lt].blocksFrom /\ fb # 0 /\ fb <= lb /\ lb < tables[lt].blocksUntil
    /\ rowBlocks[lb].rows = BlockRows(lb + 1 - fb, tables[lt].spec.rows, BlockMax)
    /\ \A r \in f .. lr : rowspans[r] = lb
    /\ \A a \in fb .. lb - 1 : BlockHooked(lt, a)
    /\ \A c \in cf .. lc : ColumnHooked(lt, c)

(* There is one while row blocks are hooked up. *)
LEMMA OpenBlock ==
    ASSUME LayoutTypes, CountInv, ShapeInv, hook = "blocks"
    PROVE  \E lt, lb, lc, lr, cf, k, f, fb \in Nat : OpenAt(lt, lb, lc, lr, cf, k, f, fb)
<1>1. /\ tables \in Seq(TableSet) /\ columns \in Seq(ColumnSet)
      /\ rowspans \in Seq(Nat) /\ rowBlocks \in Seq(RowBlockRec) /\ InColumns
  BY DEF LayoutTypes, InColumns
<1>2. PICK t \in TableSet, lt, lb, k \in Nat :
        /\ lt = Len(tables) /\ lb = Len(rowBlocks) /\ k = Len(columns) + 1 - t.columnsFrom
        /\ t = tables[lt] /\ lt \in 1..lt /\ k = Len(t.spec.cols)
  BY <1>1, OpenFacts
<1>3. PICK lc, lr, cf \in Nat : lc = Len(columns) /\ lr = Len(rowspans) /\ cf = t.columnsFrom
  BY <1>1, <1>2 DEF TableSet
<1>4. lt \in Tables /\ TableSound(lt)
  BY <1>2 DEF ShapeInv, Tables
<1>5. k = ColsOf(lt) /\ k # 0 /\ cf # 0
  BY <1>2, <1>3, <1>4, SoundFacts DEF ColsOf
<1>6. k = lc + 1 - cf
  BY <1>2, <1>3
<1>7. TableOpen(lt)
  BY <1>1, <1>2 DEF ShapeInv
<1>8. PICK fb \in Nat : fb = tables[lt].blocksFrom /\ fb # 0
  BY <1>4, SoundFacts
<1>9. tables[lt].blocksUntil \in Nat
  BY <1>4, SoundFacts
<1>10. /\ lb \in BlocksOf(lt) /\ lb < tables[lt].blocksUntil
       /\ rowBlocks[lb].rows = BlockRows(lb + 1 - fb, tables[lt].spec.rows, BlockMax)
       /\ rowBlocks[lb].from + (lc + 1 - cf) = lr + 1
       /\ \A r \in rowBlocks[lb].from .. lr : rowspans[r] = lb
       /\ \A a \in fb .. lb - 1 : BlockHooked(lt, a)
       /\ \A c \in cf .. lc : ColumnHooked(lt, c)
  BY <1>2, <1>3, <1>7, <1>8 DEF TableOpen, FirstBlock
<1>11. fb <= lb /\ lb \in RowBlockSet
  BY <1>2, <1>8, <1>9, <1>10 DEF BlocksOf, RowBlockSet
<1>12. PICK f \in Nat : f = rowBlocks[lb].from /\ f # 0
  BY <1>11, BlockTypes
<1>13. cf + k = lc + 1 /\ f + k = lr + 1
  <2>1. cf + k = lc + 1
    BY <1>6
  <2>2. f + k = lr + 1
    BY <1>6, <1>10, <1>12
  <2> QED
    BY <2>1, <2>2
<1>14. cf = tables[lt].columnsFrom
  BY <1>2, <1>3
<1>15. \A r \in f .. lr : rowspans[r] = lb
  BY <1>10, <1>12
<1>16. OpenAt(lt, lb, lc, lr, cf, k, f, fb)
  BY <1>2, <1>3, <1>4, <1>5, <1>8, <1>10, <1>11, <1>12, <1>13, <1>14, <1>15 DEF OpenAt
<1> QED
  BY <1>16

(* Row blocks begin before the end of the rowspans. *)
LEMMA BlocksBefore ==
    ASSUME LayoutTypes, ShapeInv, NEW lb \in Nat, NEW f \in Nat, NEW k \in Nat \ {0}, NEW lr \in Nat,
           lb = Len(rowBlocks), lb \in RowBlockSet, f = rowBlocks[lb].from, f + k = lr + 1
    PROVE  \A b \in RowBlockSet : rowBlocks[b].from < lr + 1 /\ rowBlocks[b].from \in Nat
<1>1. SUFFICES ASSUME NEW b \in RowBlockSet
               PROVE  rowBlocks[b].from < lr + 1 /\ rowBlocks[b].from \in Nat
  OBVIOUS
<1>2. PICK g \in Nat : g = rowBlocks[b].from
  BY BlockTypes
<1>3. b = lb \/ b < lb
  BY DEF RowBlockSet
<1>4. ASSUME b < lb PROVE rowBlocks[b].from < rowBlocks[lb].from
  <2>1. \A a, c \in RowBlockSet : a < c => rowBlocks[a].from < rowBlocks[c].from
    BY DEF ShapeInv
  <2> QED
    BY <1>4, <2>1, Zenon
<1>5. g <= f
  <2>1. CASE b = lb
    BY <1>2, <2>1
  <2>2. CASE b < lb
    BY <1>2, <1>4, <2>2
  <2> QED
    BY <1>3, <2>1, <2>2
<1> QED
  BY <1>2, <1>5

(* The end of the table: the last row block is closed, the counts are set. *)
LEMMA ShapeLeave ==
    ASSUME LayoutTypes, CountInv, ShapeInv, HookRowBlock, LayoutTypes',
           Len(rowBlocks) + 1 = tables[Len(tables)].blocksUntil
    PROVE  ShapeInv'
<1>1. /\ hook = "blocks" /\ InColumns
      /\ tables \in Seq(TableSet) /\ columns \in Seq(ColumnSet)
      /\ rowspans \in Seq(Nat) /\ rowBlocks \in Seq(RowBlockRec)
  BY DEF LayoutTypes, HookRowBlock, InColumns
<1>2. PICK lt, lb, lc, lr, cf, k, f, fb \in Nat : OpenAt(lt, lb, lc, lr, cf, k, f, fb)
  BY <1>1, OpenBlock
<1>20. lt = Len(tables) /\ lb = Len(rowBlocks) /\ lc = Len(columns) /\ lr = Len(rowspans)
  BY <1>2 DEF OpenAt
<1>21. lt \in Tables /\ lb \in RowBlockSet /\ TableSound(lt)
  BY <1>2 DEF OpenAt
<1>22. /\ cf = tables[lt].columnsFrom /\ k = ColsOf(lt) /\ f = rowBlocks[lb].from
       /\ fb = tables[lt].blocksFrom
  BY <1>2 DEF OpenAt
<1>23. /\ k # 0 /\ cf # 0 /\ f # 0 /\ fb # 0 /\ cf + k = lc + 1 /\ f + k = lr + 1 /\ fb <= lb
  BY <1>2 DEF OpenAt
<1>24. lb < tables[lt].blocksUntil
  BY <1>2 DEF OpenAt
<1>25. rowBlocks[lb].rows = BlockRows(lb + 1 - fb, tables[lt].spec.rows, BlockMax)
  BY <1>2 DEF OpenAt
<1>26. \A r \in f .. lr : rowspans[r] = lb
  BY <1>2 DEF OpenAt
<1>27. \A a \in fb .. lb - 1 : BlockHooked(lt, a)
  BY <1>2 DEF OpenAt
<1>28. \A c \in cf .. lc : ColumnHooked(lt, c)
  BY <1>2 DEF OpenAt
<1>3. /\ input' = input /\ count' = count /\ columns' = columns /\ rowspans' = rowspans
      /\ rowBlocks' = Closed(rowBlocks, Len(rowspans) + 1)
      /\ tables' = Left(tables, Len(columns) + 1 - tables[Len(tables)].columnsFrom, Len(rowspans) + 1)
      /\ hook' \in {"database", "table"}
  BY DEF HookRowBlock, Closed, Left
<1>4. ~InColumns'
  BY <1>3 DEF InColumns
<1>5. PICK v \in Nat : v = lr + 1
  OBVIOUS
<1>6. lc + 1 - cf = k
  BY <1>23
<1>7. rowBlocks' = Closed(rowBlocks, v) /\ tables' = Left(tables, k, v)
  BY <1>3, <1>5, <1>6, <1>20, <1>22
<1>8. /\ Len(rowBlocks') = lb
      /\ \A b \in 1..lb : /\ rowBlocks'[b].rows = rowBlocks[b].rows
                          /\ rowBlocks'[b].from = rowBlocks[b].from
                          /\ b < lb => rowBlocks'[b] = rowBlocks[b]
                          /\ b = lb => rowBlocks'[b].until = v
  BY <1>1, <1>7, <1>20, CloseBlock
<1>9. /\ Len(tables') = lt
      /\ \A t \in 1..lt : /\ tables'[t].spec = tables[t].spec
                          /\ tables'[t].columnsFrom = tables[t].columnsFrom
                          /\ tables'[t].blocksFrom = tables[t].blocksFrom
                          /\ tables'[t].blocksUntil = tables[t].blocksUntil
                          /\ t < lt => tables'[t] = tables[t]
                          /\ t = lt => tables'[t].colCount = k /\ tables'[t].rowspansUntil = v
  BY <1>1, <1>7, <1>20, LeaveTable
<1>10. /\ Tables = 1..lt /\ Tables' = 1..lt /\ RowBlockSet = 1..lb /\ RowBlockSet' = 1..lb
       /\ Columns = 1..lc /\ Columns' = 1..lc
       /\ HookedTables = 1 .. lt - 1 /\ HookedTables' = 1..lt
  BY <1>1, <1>20, <1>3, <1>4, <1>8, <1>9 DEF Tables, RowBlockSet, Columns, HookedTables
<1>11. Grown
  <2>1. /\ Len(columns') \in Nat /\ Len(columns) <= Len(columns')
        /\ \A c \in 1..Len(columns) : columns'[c] = columns[c]
    BY <1>3, <1>20
  <2>2. /\ Len(rowspans') \in Nat /\ Len(rowspans) <= Len(rowspans')
        /\ \A r \in 1..Len(rowspans) : rowspans'[r] = rowspans[r]
    BY <1>3, <1>20
  <2>3. Len(rowBlocks') \in Nat /\ Len(rowBlocks) <= Len(rowBlocks')
    BY <1>8, <1>20
  <2> QED
    BY <1>3, <1>8, <1>20, <2>1, <2>2, <2>3 DEF Grown
<1>12. \A i \in Tables : SamePlace(i)
  BY <1>9, <1>10 DEF SamePlace
<1>13. /\ \A i \in Tables : TableSound(i)'
       /\ \A c \in Columns : \E i \in Tables :
             /\ c \in tables'[i].columnsFrom .. tables'[i].columnsFrom + ColsOf(i)' - 1
             /\ ColumnHooked(i, c)'
       /\ \A b \in RowBlockSet : \E i \in Tables : b \in BlocksOf(i)'
       /\ \A a, b \in RowBlockSet : a < b => rowBlocks'[a].from < rowBlocks'[b].from
       /\ \A i, j \in Tables : i < j => tables'[i].blocksUntil <= tables'[j].blocksFrom
  BY <1>11, <1>12, OldStay
<1>14. ASSUME NEW i \in 1 .. lt - 1 PROVE TableHooked(i)'
  <2>1. i \in Tables /\ TableSound(i) /\ TableHooked(i) /\ tables'[i] = tables[i] /\ i < lt
    <3>1. i \in 1..lt /\ i < lt
      OBVIOUS
    <3> QED
      BY <1>9, <1>10, <3>1 DEF ShapeInv
  <2>2. PICK g, u \in Nat : g = tables[i].blocksFrom /\ u = tables[i].blocksUntil /\ g # 0
    BY <2>1, SoundFacts
  <2>3. u <= fb
    BY <1>21, <1>22, <2>1, <2>2 DEF ShapeInv
  <2>4. \A b \in BlocksOf(i) : b \in 1..lb /\ b < lb
    BY <1>23, <2>2, <2>3 DEF BlocksOf
  <2> QED
    BY <1>8, <1>11, <2>1, <2>4, HookedStays
<1>15. TableHooked(lt)'
  <2>1. lt \in 1..lt /\ lb \in 1..lb /\ SamePlace(lt)
    BY <1>10, <1>12, <1>21
  <2>2. /\ FirstBlock(lt)' = fb /\ ColsOf(lt)' = k /\ BlocksOf(lt)' = fb .. lb
        /\ tables'[lt].blocksUntil = lb + 1 /\ tables[lt].blocksUntil = lb + 1
        /\ tables'[lt].columnsFrom = cf
    <3>1. tables[lt].blocksUntil = lb + 1
      BY <1>20
    <3>2. (lb + 1) - 1 = lb
      OBVIOUS
    <3> QED
      BY <1>9, <1>22, <2>1, <3>1, <3>2 DEF FirstBlock, ColsOf, BlocksOf
  <2>3. tables'[lt].colCount = k /\ tables'[lt].rowspansUntil = rowBlocks'[(lb + 1) - 1].until
    <3>1. (lb + 1) - 1 = lb
      OBVIOUS
    <3> QED
      BY <1>8, <1>9, <2>1, <3>1
  <2>4. ASSUME NEW b \in fb .. lb PROVE BlockHooked(lt, b)'
    <3>1. CASE b = lb
      <4>1. BlockMax' = BlockMax
        BY <1>3, LayoutStable
      <4>2. rowBlocks'[lb].rows = BlockRows(lb + 1 - FirstBlock(lt)', tables'[lt].spec.rows, BlockMax')
        BY <1>8, <1>9, <1>25, <2>1, <2>2, <4>1
      <4>3. rowBlocks'[lb].from = f /\ rowBlocks'[lb].until = v /\ v = f + k /\ v <= Len(rowspans') + 1
        <5>1. v = f + k /\ v <= lr + 1
          BY <1>5, <1>23
        <5> QED
          BY <1>3, <1>8, <1>20, <1>22, <2>1, <5>1
      <4>4. \A r \in f .. v - 1 : rowspans'[r] = lb
        <5>1. v - 1 = lr
          BY <1>5
        <5> QED
          BY <1>3, <1>26, <5>1
      <4>5. ~(lb + 1 < tables'[lt].blocksUntil)
        BY <2>2
      <4> QED
        BY <2>2, <3>1, <4>2, <4>3, <4>4, <4>5 DEF BlockHooked
    <3>2. CASE b # lb
      <4>1. b \in fb .. lb - 1 /\ b \in 1..lb /\ b < lb /\ b + 1 \in 1..lb
        BY <1>23, <3>2
      <4>2. BlockHooked(lt, b) /\ rowBlocks'[b] = rowBlocks[b]
        BY <1>8, <1>27, <4>1
      <4> QED
        BY <1>10, <1>11, <2>1, <4>1, <4>2, BlockStays
    <3> QED
      BY <3>1, <3>2
  <2>5. ASSUME NEW c \in cf .. cf + k - 1 PROVE ColumnHooked(lt, c)'
    <3>1. c \in cf..lc /\ c \in Columns
      BY <1>10, <1>23
    <3>2. ColumnHooked(lt, c)
      BY <1>28, <3>1
    <3>3. FirstBlock(lt) \in RowBlockSet
      BY <1>21, FirstBlockThere
    <3> QED
      BY <1>11, <2>1, <3>1, <3>2, <3>3, ColumnStays
  <2>6. lb + 1 <= Len(rowBlocks') + 1 /\ cf + k <= Len(columns') + 1
    <3>1. cf + k <= lc + 1
      BY <1>23
    <3> QED
      BY <1>3, <1>8, <1>20, <3>1
  <2> QED
    BY <2>2, <2>3, <2>4, <2>5, <2>6 DEF TableHooked
<1>16. \A i \in HookedTables' : TableHooked(i)'
  <2>1. \A i \in 1..lt : i \in 1 .. lt - 1 \/ i = lt
    OBVIOUS
  <2> QED
    BY <1>10, <1>14, <1>15, <2>1
<1>17. \A b \in 1..lb : rowBlocks'[b].from <= Len(rowspans') + 1
  <2>1. \A b \in 1..lb : rowBlocks[b].from <= Len(rowspans) + 1
    BY <1>10 DEF ShapeInv
  <2> QED
    BY <1>3, <1>8, <2>1
<1> QED
  BY <1>4, <1>10, <1>13, <1>16, <1>17 DEF ShapeInv

(* The next row block: the last one is closed, and each column gets a      *)
(* rowspan in the new one.                                                 *)
LEMMA ShapeNextBlock ==
    ASSUME LayoutTypes, CountInv, ShapeInv, HookRowBlock, LayoutTypes',
           Len(rowBlocks) + 1 # tables[Len(tables)].blocksUntil
    PROVE  ShapeInv'
<1>1. /\ hook = "blocks" /\ InColumns /\ input \in Inputs /\ count = GeneratorCounter(input)
      /\ tables \in Seq(TableSet) /\ columns \in Seq(ColumnSet)
      /\ rowspans \in Seq(Nat) /\ rowBlocks \in Seq(RowBlockRec)
  BY DEF LayoutTypes, HookRowBlock, InColumns
<1>2. PICK lt, lb, lc, lr, cf, k, f, fb \in Nat : OpenAt(lt, lb, lc, lr, cf, k, f, fb)
  BY <1>1, OpenBlock
<1>20. lt = Len(tables) /\ lb = Len(rowBlocks) /\ lc = Len(columns) /\ lr = Len(rowspans)
  BY <1>2 DEF OpenAt
<1>21. lt \in Tables /\ lb \in RowBlockSet /\ TableSound(lt)
  BY <1>2 DEF OpenAt
<1>22. /\ cf = tables[lt].columnsFrom /\ k = ColsOf(lt) /\ f = rowBlocks[lb].from
       /\ fb = tables[lt].blocksFrom
  BY <1>2 DEF OpenAt
<1>23. /\ k # 0 /\ cf # 0 /\ f # 0 /\ fb # 0 /\ cf + k = lc + 1 /\ f + k = lr + 1 /\ fb <= lb
  BY <1>2 DEF OpenAt
<1>24. lb < tables[lt].blocksUntil
  BY <1>2 DEF OpenAt
<1>25. rowBlocks[lb].rows = BlockRows(lb + 1 - fb, tables[lt].spec.rows, BlockMax)
  BY <1>2 DEF OpenAt
<1>26. \A r \in f .. lr : rowspans[r] = lb
  BY <1>2 DEF OpenAt
<1>27. \A a \in fb .. lb - 1 : BlockHooked(lt, a)
  BY <1>2 DEF OpenAt
<1>28. \A c \in cf .. lc : ColumnHooked(lt, c)
  BY <1>2 DEF OpenAt
<1>3. /\ input' = input /\ count' = count /\ columns' = columns /\ tables' = tables
      /\ rowBlocks' = Append(Closed(rowBlocks, Len(rowspans) + 1),
                             [rows |-> BlockMax, from |-> Len(rowspans) + 1, until |-> 0])
      /\ rowspans' = rowspans \o [i \in 1 .. Len(columns) + 1 - tables[Len(tables)].columnsFrom
                                    |-> Len(rowBlocks) + 1]
      /\ hook' = hook
  BY DEF HookRowBlock, Closed, BlockMax
<1>4. InColumns' /\ hook' = "blocks"
  BY <1>1, <1>3 DEF InColumns
<1>5. PICK v \in Nat : v = lr + 1
  OBVIOUS
<1>6. lc + 1 - cf = k
  BY <1>23
<1>7. PICK m \in Nat \ {0} : m = BlockMax /\ BlockMax' = m
  BY <1>1, <1>3, CountFacts, LayoutStable
<1>30. PICK closed, u, g : /\ closed = Closed(rowBlocks, v)
                           /\ u = [rows |-> m, from |-> v, until |-> 0]
                           /\ g = [i \in 1..k |-> lb + 1]
                           /\ rowBlocks' = Append(closed, u) /\ rowspans' = rowspans \o g
  BY <1>3, <1>5, <1>6, <1>7, <1>20, <1>22
<1>31. /\ closed \in Seq(RowBlockRec) /\ Len(closed) = lb
       /\ \A b \in 1..lb : /\ closed[b].rows = rowBlocks[b].rows
                           /\ closed[b].from = rowBlocks[b].from
                           /\ b < lb => closed[b] = rowBlocks[b]
                           /\ b = lb => closed[b].until = v
  <2>1. closed = Closed(rowBlocks, v)
    BY <1>30
  <2>2. rowBlocks \in Seq(RowBlockRec) /\ lb = Len(rowBlocks)
    BY <1>1, <1>20
  <2>3. /\ closed \in Seq(RowBlockRec) /\ Len(closed) = Len(rowBlocks)
        /\ \A b \in 1..Len(rowBlocks) : /\ closed[b].rows = rowBlocks[b].rows
                                        /\ closed[b].from = rowBlocks[b].from
                                        /\ b < Len(rowBlocks) => closed[b] = rowBlocks[b]
                                        /\ b = Len(rowBlocks) => closed[b].until = v
    BY <2>1, <2>2, CloseBlock
  <2>4. ASSUME NEW b \in 1..lb
        PROVE  /\ closed[b].rows = rowBlocks[b].rows /\ closed[b].from = rowBlocks[b].from
               /\ b < lb => closed[b] = rowBlocks[b]
               /\ b = lb => closed[b].until = v
    <3>1. b \in 1..Len(rowBlocks)
      BY <2>2
    <3>2. /\ closed[b].rows = rowBlocks[b].rows /\ closed[b].from = rowBlocks[b].from
          /\ b < Len(rowBlocks) => closed[b] = rowBlocks[b]
          /\ b = Len(rowBlocks) => closed[b].until = v
      BY <2>3, <3>1
    <3>3. b < lb => b < Len(rowBlocks)
      BY <2>2
    <3>4. b = lb => b = Len(rowBlocks)
      BY <2>2
    <3> QED
      BY <3>2, <3>3, <3>4, Zenon
  <2>5. Len(closed) = lb
    BY <2>2, <2>3
  <2> QED
    BY <2>3, <2>4, <2>5
<1>32. u.rows = m /\ u.from = v
  BY <1>30
<1>33. /\ Len(rowBlocks') = lb + 1 /\ rowBlocks'[lb + 1] = u
       /\ \A b \in 1..lb : rowBlocks'[b] = closed[b]
  BY <1>30, <1>31
<1>8. /\ Len(rowBlocks') = lb + 1 /\ rowBlocks'[lb + 1].rows = m /\ rowBlocks'[lb + 1].from = v
      /\ \A b \in 1..lb : /\ rowBlocks'[b].rows = rowBlocks[b].rows
                          /\ rowBlocks'[b].from = rowBlocks[b].from
                          /\ b < lb => rowBlocks'[b] = rowBlocks[b]
                          /\ b = lb => rowBlocks'[b].until = v
  BY <1>31, <1>32, <1>33
<1>9. /\ Len(rowspans') = lr + k /\ \A r \in 1..lr : rowspans'[r] = rowspans[r]
      /\ \A r \in v .. lr + k : rowspans'[r] = lb + 1
  <2>1. g \in Seq(Nat) /\ Len(g) = k /\ \A i \in 1..k : g[i] = lb + 1
    BY <1>30
  <2>2. /\ Len(rowspans') = lr + k /\ \A r \in 1..lr : rowspans'[r] = rowspans[r]
    BY <1>1, <1>20, <1>30, <2>1
  <2>3. ASSUME NEW r \in v .. lr + k PROVE rowspans'[r] = lb + 1
    <3>1. r \in 1 .. lr + k /\ ~(r <= lr) /\ r - lr \in 1..k
      BY <1>5
    <3>2. rowspans'[r] = g[r - lr]
      BY <1>1, <1>20, <1>30, <2>1, <3>1
    <3> QED
      BY <2>1, <3>1, <3>2
  <2> QED
    BY <2>2, <2>3
<1>10. /\ Tables = 1..lt /\ Tables' = 1..lt /\ RowBlockSet = 1..lb /\ RowBlockSet' = 1 .. lb + 1
       /\ Columns = 1..lc /\ Columns' = 1..lc
       /\ HookedTables = 1 .. lt - 1 /\ HookedTables' = 1 .. lt - 1
  BY <1>1, <1>3, <1>4, <1>8, <1>20 DEF Tables, RowBlockSet, Columns, HookedTables
<1>11. Grown
  <2>1. /\ Len(columns') \in Nat /\ Len(columns) <= Len(columns')
        /\ \A c \in 1..Len(columns) : columns'[c] = columns[c]
    BY <1>3, <1>20
  <2>2. /\ Len(rowspans') \in Nat /\ Len(rowspans) <= Len(rowspans')
        /\ \A r \in 1..Len(rowspans) : rowspans'[r] = rowspans[r]
    BY <1>9, <1>20
  <2>3. Len(rowBlocks') \in Nat /\ Len(rowBlocks) <= Len(rowBlocks')
    BY <1>8, <1>20
  <2> QED
    BY <1>3, <1>8, <1>20, <2>1, <2>2, <2>3 DEF Grown
<1>12. \A i \in Tables : SamePlace(i)
  BY <1>3 DEF SamePlace
<1>13. /\ \A i \in Tables : TableSound(i)'
       /\ \A c \in Columns : \E i \in Tables :
             /\ c \in tables'[i].columnsFrom .. tables'[i].columnsFrom + ColsOf(i)' - 1
             /\ ColumnHooked(i, c)'
       /\ \A b \in RowBlockSet : \E i \in Tables : b \in BlocksOf(i)'
       /\ \A a, b \in RowBlockSet : a < b => rowBlocks'[a].from < rowBlocks'[b].from
       /\ \A i, j \in Tables : i < j => tables'[i].blocksUntil <= tables'[j].blocksFrom
  BY <1>11, <1>12, OldStay
<1>14. ASSUME NEW i \in 1 .. lt - 1 PROVE TableHooked(i)'
  <2>1. i \in Tables /\ TableSound(i) /\ TableHooked(i) /\ tables'[i] = tables[i] /\ i < lt
    <3>1. i \in 1..lt /\ i < lt
      OBVIOUS
    <3> QED
      BY <1>3, <1>10, <3>1 DEF ShapeInv
  <2>2. PICK g2, u2 \in Nat : g2 = tables[i].blocksFrom /\ u2 = tables[i].blocksUntil /\ g2 # 0
    BY <2>1, SoundFacts
  <2>3. u2 <= fb
    BY <1>21, <1>22, <2>1, <2>2 DEF ShapeInv
  <2>4. \A b \in BlocksOf(i) : b \in 1..lb /\ b < lb
    BY <1>23, <2>2, <2>3 DEF BlocksOf
  <2> QED
    BY <1>8, <1>11, <2>1, <2>4, HookedStays
<1>15. PICK e \in Nat : e = tables[lt].blocksUntil /\ lb + 1 < e
  <2>1. tables[lt].blocksUntil \in Nat
    BY <1>21, SoundFacts
  <2>2. lb + 1 # tables[lt].blocksUntil
    BY <1>20
  <2> QED
    BY <1>24, <2>1, <2>2
<1>16. /\ FirstBlock(lt)' = fb /\ ColsOf(lt)' = k /\ BlocksOf(lt)' = fb .. e - 1
       /\ tables'[lt].blocksUntil = e /\ tables'[lt].columnsFrom = cf
       /\ tables'[lt].spec = tables[lt].spec
  BY <1>3, <1>15, <1>22 DEF FirstBlock, ColsOf, BlocksOf
<1>17. lb + 1 \in fb .. e - 1
  BY <1>15, <1>23
<1>18. TableOpen(lt)'
  <2>1. rowBlocks'[lb + 1].rows
          = BlockRows((lb + 1) + 1 - FirstBlock(lt)', tables'[lt].spec.rows, BlockMax')
    <3>1. (lb + 1) + 1 - fb # 1
      BY <1>23
    <3>2. BlockRows((lb + 1) + 1 - fb, tables'[lt].spec.rows, m) = m
      BY <3>1 DEF BlockRows
    <3> QED
      BY <1>7, <1>8, <1>16, <3>2
  <2>2. rowBlocks'[lb + 1].from + (Len(columns') + 1 - tables'[lt].columnsFrom) = Len(rowspans') + 1
    <3>1. v + (lc + 1 - cf) = (lr + k) + 1
      BY <1>5, <1>6
    <3> QED
      BY <1>3, <1>8, <1>9, <1>16, <1>20, <3>1
  <2>3. \A r \in rowBlocks'[lb + 1].from .. Len(rowspans') : rowspans'[r] = lb + 1
    BY <1>8, <1>9
  <2>4. ASSUME NEW b \in fb .. (lb + 1) - 1 PROVE BlockHooked(lt, b)'
    <3>1. CASE b = lb
      <4>1. lb \in 1..lb
        BY <1>10, <1>21
      <4>2. rowBlocks'[lb].rows = BlockRows(lb + 1 - FirstBlock(lt)', tables'[lt].spec.rows, BlockMax')
        BY <1>7, <1>8, <1>16, <1>25, <4>1
      <4>3. v = f + k /\ v <= (lr + k) + 1
        BY <1>5, <1>23
      <4>4. rowBlocks'[lb].from = f /\ rowBlocks'[lb].until = v /\ v <= Len(rowspans') + 1
        BY <1>8, <1>9, <1>22, <4>1, <4>3
      <4>5. \A r \in f .. v - 1 : rowspans'[r] = lb
        <5>1. \A r \in f .. v - 1 : r \in f .. lr /\ r \in 1..lr
          BY <1>5, <1>23
        <5> QED
          BY <1>9, <1>26, <5>1
      <4>6. rowBlocks'[lb + 1].from = v
        BY <1>8
      <4> QED
        BY <1>16, <3>1, <4>2, <4>3, <4>4, <4>5, <4>6 DEF BlockHooked
    <3>2. CASE b # lb
      <4>1. b \in fb .. lb - 1 /\ b \in 1..lb /\ b < lb /\ b + 1 \in 1..lb
        BY <1>23, <3>2
      <4>2. BlockHooked(lt, b) /\ rowBlocks'[b] = rowBlocks[b] /\ SamePlace(lt)
        BY <1>8, <1>12, <1>21, <1>27, <4>1
      <4> QED
        BY <1>10, <1>11, <4>1, <4>2, BlockStays
    <3> QED
      BY <3>1, <3>2
  <2>5. \A c \in tables'[lt].columnsFrom .. Len(columns') : ColumnHooked(lt, c)'
    <3>1. SUFFICES ASSUME NEW c \in cf .. lc PROVE ColumnHooked(lt, c)'
      BY <1>3, <1>16, <1>20
    <3>2. c \in Columns
      BY <1>10, <1>23
    <3>3. ColumnHooked(lt, c) /\ SamePlace(lt) /\ FirstBlock(lt) \in RowBlockSet
      BY <1>12, <1>21, <1>28, FirstBlockThere
    <3> QED
      BY <1>11, <3>2, <3>3, ColumnStays
  <2>6. lb + 1 \in BlocksOf(lt)' /\ lb + 1 < tables'[lt].blocksUntil
    BY <1>15, <1>16, <1>17
  <2>7. Len(rowBlocks') = lb + 1 /\ hook' # "column"
    BY <1>4, <1>8
  <2> QED
    BY <1>16, <2>1, <2>2, <2>3, <2>4, <2>5, <2>6, <2>7 DEF TableOpen
<1>40. \A b \in 1..lb : rowBlocks[b].from < v /\ rowBlocks[b].from \in Nat
  BY <1>5, <1>10, <1>20, <1>21, <1>22, <1>23, BlocksBefore
<1>41. \A a, b \in 1 .. lb + 1 : a < b => rowBlocks'[a].from < rowBlocks'[b].from
  <2>1. SUFFICES ASSUME NEW a \in 1 .. lb + 1, NEW b \in 1 .. lb + 1, a < b
                 PROVE  rowBlocks'[a].from < rowBlocks'[b].from
    OBVIOUS
  <2>2. CASE b = lb + 1
    <3>1. a \in 1..lb
      BY <2>1, <2>2
    <3> QED
      BY <1>8, <1>40, <2>2, <3>1
  <2>3. CASE b # lb + 1
    <3>1. a \in 1..lb /\ b \in 1..lb
      BY <2>1, <2>3
    <3> QED
      BY <1>10, <1>13, <2>1, <3>1
  <2> QED
    BY <2>2, <2>3
<1>42. \A b \in 1 .. lb + 1 : rowBlocks'[b].from <= Len(rowspans') + 1
  <2>1. SUFFICES ASSUME NEW b \in 1 .. lb + 1 PROVE rowBlocks'[b].from <= (lr + k) + 1
    BY <1>9
  <2>2. CASE b = lb + 1
    <3>1. v <= (lr + k) + 1
      BY <1>5
    <3> QED
      BY <1>8, <2>2, <3>1
  <2>3. CASE b # lb + 1
    <3>1. b \in 1..lb
      BY <2>3
    <3>2. PICK h \in Nat : h = rowBlocks[b].from /\ h < v
      BY <1>40, <3>1
    <3>3. h <= (lr + k) + 1
      BY <1>5, <3>2
    <3> QED
      BY <1>8, <3>1, <3>2, <3>3
  <2> QED
    BY <2>2, <2>3
<1>43. \A b \in 1 .. lb + 1 : \E i \in 1..lt : b \in BlocksOf(i)'
  <2>1. SUFFICES ASSUME NEW b \in 1 .. lb + 1 PROVE \E i \in 1..lt : b \in BlocksOf(i)'
    OBVIOUS
  <2>2. CASE b = lb + 1
    BY <1>10, <1>16, <1>17, <1>21, <2>2
  <2>3. CASE b # lb + 1
    <3>1. b \in 1..lb
      BY <2>3
    <3> QED
      BY <1>10, <1>13, <3>1
  <2> QED
    BY <2>2, <2>3
<1>44. TableOpen(Len(tables))'
  BY <1>3, <1>18, <1>20
<1> QED
  BY <1>10, <1>13, <1>14, <1>41, <1>42, <1>43, <1>44 DEF ShapeInv

(* The layout is right before the loop and after each of its steps. *)
LEMMA LayoutHolds ==
    /\ Init => LayoutInv
    /\ LayoutInv /\ [Next]_vars => LayoutInv'
<1>1. ASSUME Init PROVE LayoutInv
  <2>1. LayoutTypes /\ CountInv
    BY <1>1, CountsInit
  <2>2. tables = <<>> /\ columns = <<>> /\ rowBlocks = <<>> /\ ~InColumns
    BY <1>1 DEF Init, LayoutInit, InColumns
  <2>3. Tables = {} /\ Columns = {} /\ RowBlockSet = {} /\ HookedTables = {}
    BY <2>2 DEF Tables, Columns, RowBlockSet, HookedTables
  <2>4. ShapeInv
    BY <2>2, <2>3 DEF ShapeInv
  <2> QED
    BY <2>1, <2>4 DEF LayoutInv
<1>2. ASSUME LayoutInv, [Next]_vars PROVE LayoutInv'
  <2>1. LayoutTypes /\ CountInv /\ ShapeInv
    BY <1>2 DEF LayoutInv
  <2>2. LayoutTypes' /\ CountInv'
    BY <1>2, <2>1, CountsStep
  <2>3. CASE HookStep
    <3>1. CASE HookDatabase
      <4>1. /\ input' = input /\ count' = count /\ tables' = tables /\ columns' = columns
            /\ rowspans' = rowspans /\ rowBlocks' = rowBlocks /\ ~InColumns /\ ~InColumns'
        BY <3>1 DEF HookDatabase, InColumns
      <4> QED
        BY <2>1, <2>2, <4>1, ShapeSame DEF LayoutInv
    <3>2. CASE HookTable
      BY <2>1, <2>2, <3>2, ShapeTable DEF LayoutInv
    <3>3. CASE HookColumn
      BY <2>1, <2>2, <3>3, ShapeColumn DEF LayoutInv
    <3>4. CASE HookRowBlock
      BY <2>1, <2>2, <3>4, ShapeLeave, ShapeNextBlock DEF LayoutInv
    <3> QED
      BY <2>3, <3>1, <3>2, <3>3, <3>4 DEF HookStep, Hook
  <2>4. CASE UNCHANGED layoutVars
    <3>1. /\ input' = input /\ count' = count /\ tables' = tables /\ columns' = columns
          /\ rowspans' = rowspans /\ rowBlocks' = rowBlocks /\ hook' = hook
          /\ (InColumns' <=> InColumns)
      BY <2>4 DEF layoutVars, InColumns
    <3> QED
      BY <2>1, <2>2, <3>1, ShapeSame DEF LayoutInv
  <2> QED
    BY <1>2, <2>3, <2>4, LoopOrNot
<1> QED
  BY <1>1, <1>2

-----------------------------------------------------------------------------
(***************************************************************************)
(* The finished layout                                                     *)
(***************************************************************************)

(* After the loop: each table, its columns and its row blocks. *)
LEMMA TableFacts ==
    ASSUME LayoutInv, hook = "done", NEW t \in Tables
    PROVE  /\ TableSound(t) /\ TableHooked(t)
           /\ ColsOf(t) \in Nat \ {0} /\ tables[t].colCount = ColsOf(t)
           /\ tables[t].spec.rows \in Nat \ {0} /\ tables[t].columnsFrom \in Nat \ {0}
           /\ FirstBlock(t) \in Nat \ {0} /\ FirstBlock(t) = tables[t].blocksFrom
           /\ tables[t].blocksUntil \in Nat /\ FirstBlock(t) < tables[t].blocksUntil
           /\ \A b \in BlocksOf(t) : b \in RowBlockSet /\ b \in Nat \ {0} /\ BlockHooked(t, b)
           /\ \A c \in ColumnsOf(t) : c \in Columns /\ c \in Nat /\ Parent(c) = t /\ ColumnHooked(t, c)
<1>1. LayoutTypes /\ ShapeInv /\ TableSound(t)
  BY DEF LayoutInv, ShapeInv
<1>2. t \in HookedTables
  BY DEF HookedTables, InColumns, Tables
<1>3. TableHooked(t)
  BY <1>1, <1>2 DEF ShapeInv
<1>4. /\ ColsOf(t) \in Nat \ {0} /\ tables[t].spec.rows \in Nat \ {0}
      /\ tables[t].columnsFrom \in Nat \ {0}
      /\ FirstBlock(t) \in Nat \ {0} /\ FirstBlock(t) = tables[t].blocksFrom
      /\ tables[t].blocksUntil \in Nat /\ FirstBlock(t) < tables[t].blocksUntil
  BY <1>1, SoundFacts DEF FirstBlock
<1>5. tables[t].colCount = ColsOf(t)
  BY <1>3 DEF TableHooked
<1>6. PICK lb, lc \in Nat : lb = Len(rowBlocks) /\ lc = Len(columns)
  BY <1>1 DEF LayoutTypes
<1>7. ASSUME NEW b \in BlocksOf(t) PROVE b \in RowBlockSet /\ b \in Nat \ {0} /\ BlockHooked(t, b)
  <2>1. BlockHooked(t, b)
    BY <1>3 DEF TableHooked
  <2>2. tables[t].blocksUntil <= lb + 1
    BY <1>3, <1>6 DEF TableHooked
  <2>3. b \in tables[t].blocksFrom .. tables[t].blocksUntil - 1
    BY DEF BlocksOf
  <2>4. b \in 1..lb
    BY <1>4, <2>2, <2>3
  <2> QED
    BY <1>6, <2>1, <2>4 DEF RowBlockSet
<1>8. ASSUME NEW c \in ColumnsOf(t)
      PROVE  c \in Columns /\ c \in Nat /\ Parent(c) = t /\ ColumnHooked(t, c)
  <2>1. PICK cf, n \in Nat : cf = tables[t].columnsFrom /\ n = ColsOf(t) /\ cf # 0
    BY <1>4
  <2>2. cf + n <= lc + 1
    BY <1>3, <1>6, <2>1 DEF TableHooked
  <2>3. c \in cf .. cf + n - 1
    BY <2>1 DEF ColumnsOf
  <2>4. c \in 1..lc
    BY <2>1, <2>2, <2>3
  <2>5. ColumnHooked(t, c)
    BY <1>3, <2>1, <2>3 DEF TableHooked
  <2> QED
    BY <1>6, <2>4, <2>5 DEF Columns, ColumnHooked, Parent
<1> QED
  BY <1>1, <1>3, <1>4, <1>5, <1>7, <1>8

(* Each column has a table, and each row block has one only. *)
LEMMA ParentFacts ==
    ASSUME LayoutInv, hook = "done"
    PROVE  /\ \A c \in Columns : Parent(c) \in Tables /\ c \in ColumnsOf(Parent(c))
           /\ \A t, u \in Tables : \A b : b \in BlocksOf(t) /\ b \in BlocksOf(u) => t = u
           /\ \A b \in RowBlockSet : \E t \in Tables : b \in BlocksOf(t)
<1>1. LayoutTypes /\ ShapeInv
  BY DEF LayoutInv
<1>2. ASSUME NEW c \in Columns PROVE Parent(c) \in Tables /\ c \in ColumnsOf(Parent(c))
  <2>1. PICK t \in Tables :
          c \in tables[t].columnsFrom .. tables[t].columnsFrom + ColsOf(t) - 1 /\ ColumnHooked(t, c)
    BY <1>1 DEF ShapeInv
  <2>2. Parent(c) = t
    BY <2>1 DEF ColumnHooked, Parent
  <2> QED
    BY <2>1, <2>2 DEF ColumnsOf
<1>3. ASSUME NEW t \in Tables, NEW u \in Tables, NEW b, b \in BlocksOf(t), b \in BlocksOf(u), t < u
      PROVE  FALSE
  <2>1. tables[t].blocksUntil <= tables[u].blocksFrom
    BY <1>1, <1>3 DEF ShapeInv
  <2>2. PICK f, v, g, w \in Nat : /\ f = tables[t].blocksFrom /\ v = tables[t].blocksUntil
                                  /\ g = tables[u].blocksFrom /\ w = tables[u].blocksUntil
    BY TableFacts
  <2>3. b \in f .. v - 1 /\ b \in g .. w - 1
    BY <1>3, <2>2 DEF BlocksOf
  <2> QED
    BY <2>1, <2>2, <2>3
<1>4. ASSUME NEW t \in Tables, NEW u \in Tables, NEW b, b \in BlocksOf(t), b \in BlocksOf(u)
      PROVE  t = u
  <2>1. t \in Int /\ u \in Int
    BY DEF Tables
  <2> QED
    BY <1>3, <1>4, <2>1
<1>5. \A b \in RowBlockSet : \E t \in Tables : b \in BlocksOf(t)
  BY <1>1 DEF ShapeInv
<1> QED
  BY <1>2, <1>4, <1>5

(* The rowspan of a column in a row block. *)
LEMMA AtFacts ==
    ASSUME LayoutInv, hook = "done", NEW c \in Columns, NEW b \in BlocksOf(Parent(c))
    PROVE  /\ At(c, b) \in Rowspans /\ At(c, b) \in Nat \ {0} /\ rowspans[At(c, b)] = b
           /\ At(c, b) \in rowBlocks[b].from .. rowBlocks[b].until - 1
           /\ At(c, b) - rowBlocks[b].from = c - tables[Parent(c)].columnsFrom
           /\ b + 1 < tables[Parent(c)].blocksUntil =>
                 /\ At(c, b + 1) = At(c, b) + tables[Parent(c)].colCount
                 /\ b + 1 \in BlocksOf(Parent(c))
           /\ b + 1 = tables[Parent(c)].blocksUntil =>
                 At(c, b) + tables[Parent(c)].colCount
                    = tables[Parent(c)].rowspansUntil + (c - tables[Parent(c)].columnsFrom)
<1>1. PICK t \in Tables : t = Parent(c) /\ c \in ColumnsOf(t) /\ b \in BlocksOf(t)
  BY ParentFacts
<1>2. LayoutTypes
  BY DEF LayoutInv
<1>3. PICK cf, n, u \in Nat : /\ cf = tables[t].columnsFrom /\ n = ColsOf(t) /\ cf # 0 /\ n # 0
                              /\ u = tables[t].blocksUntil
  BY TableFacts
<1>4. BlockHooked(t, b) /\ b \in RowBlockSet /\ b \in Nat /\ tables[t].colCount = n
  BY <1>1, <1>3, TableFacts
<1>5. PICK f, e \in Nat : f = rowBlocks[b].from /\ e = rowBlocks[b].until /\ f # 0
  BY <1>2, <1>4, BlockTypes
<1>6. PICK lr \in Nat : lr = Len(rowspans)
  BY <1>2 DEF LayoutTypes
<1>7. /\ e = f + n /\ e <= lr + 1 /\ \A r \in f .. e - 1 : rowspans[r] = b
      /\ b + 1 < u => rowBlocks[b + 1].from = e
  BY <1>3, <1>4, <1>5, <1>6 DEF BlockHooked
<1>8. c \in cf .. cf + n - 1
  BY <1>1, <1>3 DEF ColumnsOf
<1>9. PICK a \in Int : a = At(c, b) /\ a = f + (c - cf)
  BY <1>1, <1>3, <1>5, <1>8 DEF At
<1>10. a \in f .. e - 1 /\ a \in 1..lr /\ a - f = c - cf
  BY <1>5, <1>7, <1>8, <1>9
<1>11. /\ At(c, b) \in Rowspans /\ At(c, b) \in Nat \ {0} /\ rowspans[At(c, b)] = b
       /\ At(c, b) \in rowBlocks[b].from .. rowBlocks[b].until - 1
       /\ At(c, b) - rowBlocks[b].from = c - tables[Parent(c)].columnsFrom
  <2>1. At(c, b) \in f .. e - 1 /\ At(c, b) \in 1..lr /\ At(c, b) - f = c - cf
    BY <1>9, <1>10
  <2>2. At(c, b) \in Nat \ {0}
    BY <1>5, <2>1
  <2>3. rowspans[At(c, b)] = b
    BY <1>7, <2>1
  <2>4. tables[Parent(c)].columnsFrom = cf
    BY <1>1, <1>3
  <2> QED
    BY <1>5, <1>6, <2>1, <2>2, <2>3, <2>4, Zenon DEF Rowspans
<1>12. ASSUME b + 1 < tables[Parent(c)].blocksUntil
       PROVE  /\ At(c, b + 1) = At(c, b) + tables[Parent(c)].colCount
              /\ b + 1 \in BlocksOf(Parent(c))
  <2>1. rowBlocks[b + 1].from = f + n
    BY <1>1, <1>3, <1>7, <1>12
  <2>2. At(c, b + 1) = (f + n) + (c - cf)
    BY <1>1, <1>3, <2>1 DEF At
  <2>3. (f + n) + (c - cf) = a + n
    BY <1>8, <1>9
  <2>4. b + 1 \in BlocksOf(t)
    <3>1. PICK g \in Nat : g = tables[t].blocksFrom
      BY TableFacts
    <3>2. b \in g .. u - 1
      BY <1>1, <1>3, <3>1 DEF BlocksOf
    <3>3. b + 1 \in g .. u - 1
      BY <1>1, <1>3, <1>12, <3>2
    <3> QED
      BY <1>3, <3>1, <3>3 DEF BlocksOf
  <2> QED
    BY <1>1, <1>4, <1>9, <2>2, <2>3, <2>4
<1>13. ASSUME b + 1 = tables[Parent(c)].blocksUntil
       PROVE  At(c, b) + tables[Parent(c)].colCount
                 = tables[Parent(c)].rowspansUntil + (c - tables[Parent(c)].columnsFrom)
  <2>1. u - 1 = b
    BY <1>1, <1>3, <1>4, <1>13
  <2>2. tables[t].rowspansUntil = e
    BY <1>3, <1>5, <2>1, TableFacts DEF TableHooked
  <2>3. a + n = e + (c - cf)
    BY <1>7, <1>8, <1>9
  <2> QED
    BY <1>1, <1>3, <1>4, <1>9, <2>2, <2>3
<1> QED
  BY <1>11, <1>12, <1>13

(* A column's rowspans are in the order of the row blocks, and they end    *)
(* before those of the table do.                                           *)
LEMMA AtOrder ==
    ASSUME LayoutInv, hook = "done", NEW c \in Columns, NEW b \in BlocksOf(Parent(c))
    PROVE  /\ \A a \in BlocksOf(Parent(c)) : a < b => At(c, a) < At(c, b)
           /\ At(c, b) < tables[Parent(c)].rowspansUntil
           /\ At(c, b) < tables[Parent(c)].rowspansUntil + (c - tables[Parent(c)].columnsFrom)
           /\ tables[Parent(c)].rowspansUntil \in Nat
           /\ c - tables[Parent(c)].columnsFrom \in Nat
<1>1. PICK t \in Tables : t = Parent(c) /\ c \in ColumnsOf(t) /\ b \in BlocksOf(t)
  BY ParentFacts
<1>2. LayoutTypes /\ ShapeInv
  BY DEF LayoutInv
<1>3. PICK cf, n, u, g \in Nat : /\ cf = tables[t].columnsFrom /\ n = ColsOf(t)
                                 /\ u = tables[t].blocksUntil /\ g = tables[t].blocksFrom /\ g < u
  BY TableFacts
<1>4. c \in cf .. cf + n - 1 /\ b \in g .. u - 1
  BY <1>1, <1>3 DEF ColumnsOf, BlocksOf
<1>5. PICK k \in Nat : k = c - cf /\ k < n
  BY <1>4
<1>6. \A a \in BlocksOf(t) : /\ rowBlocks[a].from \in Nat /\ At(c, a) = rowBlocks[a].from + k
                             /\ a \in RowBlockSet
                             /\ rowBlocks[a].until = rowBlocks[a].from + n
  BY <1>1, <1>2, <1>3, <1>5, TableFacts, BlockTypes DEF At, BlockHooked
<1>7. ASSUME NEW a \in BlocksOf(t), NEW d \in BlocksOf(t), a < d PROVE At(c, a) < At(c, d)
  <2>1. PICK x, y \in Nat : x = rowBlocks[a].from /\ y = rowBlocks[d].from
    BY <1>6
  <2>2. x < y
    BY <1>2, <1>6, <1>7, <2>1 DEF ShapeInv
  <2> QED
    BY <1>6, <2>1, <2>2
<1>8. u - 1 \in BlocksOf(t)
  BY <1>3 DEF BlocksOf
<1>9. PICK e, f \in Nat : f = rowBlocks[u - 1].from /\ e = f + n /\ tables[t].rowspansUntil = e
  <2>1. tables[t].rowspansUntil = rowBlocks[u - 1].until
    BY <1>3, TableFacts DEF TableHooked
  <2> QED
    BY <1>6, <1>8, <2>1
<1>10. At(c, b) <= f + k
  <2>1. At(c, u - 1) = f + k
    BY <1>6, <1>8, <1>9
  <2>2. b = u - 1 \/ b < u - 1
    BY <1>4
  <2>3. At(c, b) \in Int
    <3>1. PICK x \in Nat : x = rowBlocks[b].from
      BY <1>1, <1>6
    <3> QED
      BY <1>1, <1>6, <3>1
  <2> QED
    BY <1>1, <1>7, <1>8, <2>1, <2>2, <2>3
<1>11. PICK x \in Int : x = At(c, b)
  <2>1. PICK y \in Nat : y = rowBlocks[b].from
    BY <1>1, <1>6
  <2> QED
    BY <1>1, <1>6, <2>1
<1>12. x < e /\ x < e + k
  BY <1>5, <1>9, <1>10, <1>11
<1> QED
  BY <1>1, <1>3, <1>5, <1>7, <1>9, <1>11, <1>12

(* No two columns, and no two row blocks, share a rowspan. *)
LEMMA AtUnique ==
    ASSUME LayoutInv, hook = "done", NEW c \in Columns, NEW b \in BlocksOf(Parent(c)),
           NEW d \in Columns, NEW e \in BlocksOf(Parent(d)), At(c, b) = At(d, e)
    PROVE  c = d /\ b = e
<1>1. b = e
  BY AtFacts
<1>2. PICK t \in Tables : t = Parent(c) /\ c \in ColumnsOf(t)
  BY ParentFacts
<1>3. Parent(d) = t /\ d \in ColumnsOf(t)
  BY <1>1, <1>2, ParentFacts
<1>4. PICK cf \in Nat : cf = tables[t].columnsFrom
  BY TableFacts
<1>5. c - cf = d - cf
  BY <1>1, <1>2, <1>3, <1>4, AtFacts
<1>6. c \in Nat /\ d \in Nat
  BY <1>2, <1>3, TableFacts
<1> QED
  BY <1>1, <1>5, <1>6

(* The rows before a row block: none before the first, the table's before  *)
(* the end of the last.                                                    *)
LEMMA RowsBeforeFacts ==
    ASSUME LayoutInv, hook = "done", NEW t \in Tables
    PROVE  /\ RowsBefore(t, tables[t].blocksFrom) = 0
           /\ \A b \in BlocksOf(t) :
                /\ RowsBefore(t, b) \in Nat /\ rowBlocks[b].rows \in Nat \ {0}
                /\ RowsBefore(t, b + 1) = RowsBefore(t, b) + rowBlocks[b].rows
                /\ RowsBefore(t, b) + rowBlocks[b].rows <= tables[t].spec.rows
           /\ RowsBefore(t, tables[t].blocksUntil) = tables[t].spec.rows
<1>1. LayoutTypes /\ BlockMax \in Nat \ {0}
  BY CountFacts DEF LayoutInv, LayoutTypes
<1>2. PICK g, u, rs, m \in Nat : /\ g = tables[t].blocksFrom /\ u = tables[t].blocksUntil /\ g < u
                                 /\ rs = tables[t].spec.rows /\ rs # 0 /\ m = BlockMax /\ m # 0
  BY <1>1, TableFacts
<1>3. PICK G : G = [a \in g .. u - 1 |-> rowBlocks[a].rows]
  OBVIOUS
<1>4. PICK f0 \in Nat \ {0} : f0 = BlockRows(1, rs, m)
  <2>1. rs \in Nat \ {0} /\ m \in Nat \ {0} /\ 1 \in Nat \ {0}
    BY <1>2
  <2>2. BlockRows(1, rs, m) \in Nat \ {0}
    BY <2>1, BlockFacts
  <2> QED
    BY <2>2
<1>5. u = g + BlockCount(rs, m) /\ f0 + m * (u - g - 1) = rs
  <2>1. u = g + BlockCount(rs, m)
    BY <1>2, TableFacts DEF TableSound, FirstBlock
  <2>2. PICK n \in Nat \ {0} : n = BlockCount(rs, m) /\ f0 + m * (n - 1) = rs
    BY <1>2, <1>4, BlockFacts
  <2>3. u - g - 1 = n - 1
    BY <1>2, <2>1, <2>2
  <2> QED
    BY <2>1, <2>2, <2>3
<1>6. ASSUME NEW b \in g .. u - 1
      PROVE  G[b] = rowBlocks[b].rows /\ G[b] = IF b = g THEN f0 ELSE m
  <2>1. b \in BlocksOf(t)
    BY <1>2 DEF BlocksOf
  <2>2. rowBlocks[b].rows = BlockRows(b + 1 - g, rs, m)
    BY <1>2, <2>1, TableFacts DEF BlockHooked, FirstBlock
  <2>3. b = g => b + 1 - g = 1
    BY <1>2
  <2>4. b # g => b + 1 - g # 1
    BY <1>2
  <2>5. BlockRows(b + 1 - g, rs, m) = IF b = g THEN f0 ELSE m
    BY <1>4, <2>3, <2>4 DEF BlockRows
  <2> QED
    BY <1>3, <2>2, <2>5
<1>7. \A b \in g .. u - 1 : G[b] \in Nat \ {0} /\ G[b] \in Int
  BY <1>2, <1>4, <1>6
<1>8. ASSUME NEW b \in g .. u PROVE RowsBefore(t, b) = Sum(G, g .. b - 1)
  <2>1. PICK F : F = [a \in g .. b - 1 |-> rowBlocks[a].rows]
    OBVIOUS
  <2>2. DOMAIN F = g .. b - 1
    BY <2>1
  <2>3. RowsBefore(t, b) = Sum(F, g .. b - 1)
    <3>1. RowsBefore(t, b) = SumFunction(F)
      BY <1>2, <2>1, Zenon DEF RowsBefore
    <3> QED
      BY <2>2, <3>1, Zenon DEF SumFunction, Sum
  <2>4. \A a \in g .. b - 1 : a \in g .. u - 1
    BY <1>2
  <2>5. \A a \in g .. b - 1 : F[a] = G[a] /\ F[a] \in Int
    BY <1>6, <1>7, <2>1, <2>4
  <2>6. IsFiniteSet(g .. b - 1)
    <3>1. g \in Int /\ b - 1 \in Int
      BY <1>2
    <3> QED
      BY <3>1, FS_Interval
  <2>7. Sum(F, g .. b - 1) = Sum(G, g .. b - 1)
    BY <2>5, <2>6, SumSame
  <2> QED
    BY <2>3, <2>7
<1>9. RowsBefore(t, g) = 0
  <2>1. g .. g - 1 = {}
    BY <1>2
  <2>2. g \in g .. u
    BY <1>2
  <2>3. Sum(G, g .. g - 1) = 0
    BY <2>1, SumEmpty, Zenon
  <2> QED
    BY <1>8, <2>2, <2>3
<1>10. ASSUME NEW b \in g .. u - 1, RowsBefore(t, b) \in Int
       PROVE  RowsBefore(t, b + 1) = RowsBefore(t, b) + G[b]
  <2>1. b \in g .. u /\ b + 1 \in g .. u /\ b \in Int /\ g <= b /\ (b + 1) - 1 = b
    BY <1>2
  <2>2. \A x \in g .. b : x \in g .. u - 1
    BY <1>2
  <2>3. \A x \in g .. b : G[x] \in Int
    BY <1>7, <2>2
  <2>4. Sum(G, g .. b) = Sum(G, g .. b - 1) + G[b]
    BY <1>2, <2>1, <2>3, SumInterval
  <2>5. RowsBefore(t, b + 1) = Sum(G, g .. b)
    BY <1>8, <2>1
  <2> QED
    BY <1>8, <2>1, <2>4, <2>5
<1> DEFINE T == {j \in Nat : g + 1 + j <= u => RowsBefore(t, g + 1 + j) = f0 + m * j}
<1>11. \A j \in Nat : j \in T
  <2>1. 0 \in T
    <3>1. RowsBefore(t, g + 1) = 0 + G[g]
      BY <1>2, <1>9, <1>10
    <3>2. G[g] = f0
      BY <1>2, <1>6
    <3>3. g + 1 + 0 = g + 1 /\ f0 + m * 0 = f0 /\ 0 + f0 = f0
      BY <1>2, <1>4
    <3> QED
      BY <3>1, <3>2, <3>3
  <2>2. ASSUME NEW j \in T PROVE j + 1 \in T
    <3>1. j \in Nat /\ j + 1 \in Nat
      OBVIOUS
    <3>2. ASSUME g + 1 + (j + 1) <= u
          PROVE  RowsBefore(t, g + 1 + (j + 1)) = f0 + m * (j + 1)
      <4>1. PICK b \in Nat : b = g + 1 + j /\ b \in g .. u - 1 /\ b # g /\ g + 1 + (j + 1) = b + 1
        BY <1>2, <3>1, <3>2
      <4>2. RowsBefore(t, b) = f0 + m * j
        BY <1>2, <2>2, <4>1
      <4>3. PICK x \in Nat : x = m * j
        BY <1>2, <3>1
      <4>4. RowsBefore(t, b + 1) = (f0 + x) + m
        BY <1>4, <1>6, <1>10, <4>1, <4>2, <4>3
      <4>5. m * (j + 1) = x + m
        BY <1>2, <3>1, <4>3
      <4> QED
        BY <1>2, <1>4, <4>1, <4>3, <4>4, <4>5
    <3> QED
      BY <3>1, <3>2
  <2>3. T \in SUBSET Nat
    OBVIOUS
  <2> HIDE DEF T
  <2> QED
    BY <2>1, <2>2, <2>3, Induction
<1>12. ASSUME NEW b \in g .. u
       PROVE  RowsBefore(t, b) \in Nat /\ RowsBefore(t, b) <= rs
  <2>1. CASE b = g
    BY <1>2, <1>9, <2>1
  <2>2. CASE b # g
    <3>1. PICK j \in Nat : b = g + 1 + j /\ j <= u - g - 1
      <4>1. b - g - 1 \in Nat /\ b = g + 1 + (b - g - 1) /\ b - g - 1 <= u - g - 1
        BY <1>2, <2>2
      <4> QED
        BY <4>1
    <3>2. j \in T
      BY <1>11
    <3>3. RowsBefore(t, b) = f0 + m * j
      BY <1>2, <3>1, <3>2
    <3>4. PICK k \in Nat : k = u - g - 1
      BY <1>2
    <3>5. m * j <= m * k /\ m * j \in Nat /\ m * k \in Nat
      BY <1>2, <3>1, <3>4
    <3> QED
      BY <1>2, <1>4, <1>5, <3>3, <3>4, <3>5
  <2> QED
    BY <2>1, <2>2
<1>13. RowsBefore(t, u) = rs
  <2>1. PICK k \in Nat : k = u - g - 1 /\ u = g + 1 + k
    BY <1>2
  <2>2. k \in T
    BY <1>11
  <2> QED
    BY <1>2, <1>5, <2>1, <2>2
<1>14. ASSUME NEW b \in BlocksOf(t)
       PROVE  /\ RowsBefore(t, b) \in Nat /\ rowBlocks[b].rows \in Nat \ {0}
              /\ RowsBefore(t, b + 1) = RowsBefore(t, b) + rowBlocks[b].rows
              /\ RowsBefore(t, b) + rowBlocks[b].rows <= rs
  <2>1. b \in g .. u - 1 /\ b \in g .. u /\ b + 1 \in g .. u
    BY <1>2 DEF BlocksOf
  <2>2. rowBlocks[b].rows \in Nat \ {0}
    BY <1>6, <1>7, <2>1
  <2>3. RowsBefore(t, b) \in Nat /\ RowsBefore(t, b + 1) <= rs
    BY <1>12, <2>1
  <2>4. RowsBefore(t, b + 1) = RowsBefore(t, b) + rowBlocks[b].rows
    BY <1>6, <1>10, <2>1, <2>3
  <2> QED
    BY <2>2, <2>3, <2>4
<1> QED
  BY <1>2, <1>9, <1>13, <1>14

(* Nothing after the loop changes the layout. *)
LEMMA LayoutStill ==
    ASSUME UNCHANGED layoutVars
    PROVE  /\ hook' = hook /\ Tables' = Tables /\ Columns' = Columns /\ Rowspans' = Rowspans
           /\ RowBlockSet' = RowBlockSet /\ columns' = columns /\ tables' = tables
           /\ rowBlocks' = rowBlocks /\ rowspans' = rowspans /\ count' = count
           /\ \A c : Parent(c)' = Parent(c)
           /\ \A t : BlocksOf(t)' = BlocksOf(t) /\ ColumnsOf(t)' = ColumnsOf(t)
           /\ \A c, b : At(c, b)' = At(c, b)
           /\ \A t, b : RowsBefore(t, b)' = RowsBefore(t, b)
<1>1. /\ hook' = hook /\ columns' = columns /\ tables' = tables
      /\ rowBlocks' = rowBlocks /\ rowspans' = rowspans /\ count' = count
  BY DEF layoutVars
<1>2. /\ Tables' = Tables /\ Columns' = Columns /\ Rowspans' = Rowspans
      /\ RowBlockSet' = RowBlockSet
  BY <1>1 DEF Tables, Columns, Rowspans, RowBlockSet
<1>3. \A c : Parent(c)' = Parent(c)
  BY <1>1 DEF Parent
<1>4. \A t : BlocksOf(t)' = BlocksOf(t) /\ ColumnsOf(t)' = ColumnsOf(t)
  BY <1>1 DEF BlocksOf, ColumnsOf, ColsOf
<1>5. \A c, b : At(c, b)' = At(c, b)
  BY <1>1 DEF At, Parent
<1>6. \A t, b : RowsBefore(t, b)' = RowsBefore(t, b)
  BY <1>1, Zenon DEF RowsBefore
<1> QED
  BY <1>1, <1>2, <1>3, <1>4, <1>5, <1>6

-----------------------------------------------------------------------------
(***************************************************************************)
(* Columns and row blocks at work                                          *)
(***************************************************************************)
(* The cells of the columns; column 0 is a pointer that is not set. *)
CellSet == [col : Nat, row : Nat]

(* The types of the variables of the stages. *)
BuildTypes ==
    /\ stage \in {"hook", "columns", "init", "blocks", "write", "done"}
    /\ stage = "hook" => cell = <<>> /\ written = <<>> /\ finished = {}
    /\ stage # "hook" =>
          /\ hook = "done"
          /\ from \in [Columns -> Nat] /\ row \in [Columns -> Nat]
          /\ cell \in [Rowspans -> CellSet]
          /\ written \in [RowBlockSet -> Seq(Seq(CellSet))]

(* Column c is about to fill row block b... *)
Reached(c, b) ==
    /\ from[c] = At(c, b)
    /\ row[c] = RowsBefore(Parent(c), b) + 1

(* ... or has filled it, or is done: it steps col_count rowspans past its  *)
(* last one.                                                               *)
Past(c, b) == from[c] > At(c, b)

Over(c) == from[c] = tables[Parent(c)].rowspansUntil + (c - tables[Parent(c)].columnsFrom)

(* A column's walk: not begun, at a row block, or over. *)
WalkInv(c) ==
    IF stage = "columns" /\ c \notin finished
    THEN \/ from[c] = 0 /\ row[c] = 1
         \/ \E b \in BlocksOf(Parent(c)) : Reached(c, b)
    ELSE Over(c)

(* The rows of b behind its cell pointers: the last row does not move them. *)
Moved(b) == IF Len(written[b]) = rowBlocks[b].rows THEN Len(written[b]) - 1 ELSE Len(written[b])

(* The rowspan of column c in row block b points at the next row... *)
Filled(c, b) == cell[At(c, b)] = [col |-> c, row |-> RowsBefore(Parent(c), b) + 1 + Moved(b)]

(* ... as soon as the column has been there. *)
FillInv(c, b) == Past(c, b) => Filled(c, b)

(* Only a column fills a rowspan. *)
OwnInv(r) ==
    cell[r].col = 0 \/ \E c \in Columns : \E b \in BlocksOf(Parent(c)) : r = At(c, b) /\ Past(c, b)

(* How many rows row block b has written. *)
WriteInv(b) ==
    /\ Len(written[b]) <= rowBlocks[b].rows
    /\ stage \in {"columns", "init"} => written[b] = <<>>
    /\ stage = "blocks" => (b \in finished <=> Len(written[b]) = rowBlocks[b].rows)
    /\ stage \in {"write", "done"} => Len(written[b]) = rowBlocks[b].rows

(* Row k of a row block, as it should be. *)
RowOf(t, b, k) ==
    [i \in 1..tables[t].colCount |->
        [col |-> tables[t].columnsFrom + i - 1, row |-> RowsBefore(t, b) + k]]

(* The rows written are as they should be. *)
AlignInv(t, b) == \A k \in 1..Len(written[b]) : written[b][k] = RowOf(t, b, k)

(* The invariant of the stages. *)
BuildInv ==
    /\ BuildTypes
    /\ stage # "hook" =>
          /\ \A c \in Columns : WalkInv(c)
          /\ \A c \in Columns : \A b \in BlocksOf(Parent(c)) : FillInv(c, b)
          /\ \A r \in Rowspans : OwnInv(r)
          /\ \A b \in RowBlockSet : WriteInv(b)
          /\ \A t \in Tables : \A b \in BlocksOf(t) : AlignInv(t, b)

(* Before the pool starts. *)
LEMMA BuildInit == Init => BuildInv
<1> SUFFICES ASSUME Init PROVE BuildInv
  OBVIOUS
<1>1. stage = "hook" /\ cell = <<>> /\ written = <<>> /\ finished = {}
  BY DEF Init
<1> QED
  BY <1>1 DEF BuildInv, BuildTypes

(* The row a block should have, and how far its cell pointers are. *)
LEMMA RowsStill ==
    ASSUME UNCHANGED layoutVars
    PROVE  /\ \A t, b, k : RowOf(t, b, k)' = RowOf(t, b, k)
           /\ \A c : from'[c] = from[c] => (Over(c)' <=> Over(c))
           /\ \A c, b : from'[c] = from[c] => (Past(c, b)' <=> Past(c, b))
           /\ \A c, b : from'[c] = from[c] /\ row'[c] = row[c] => (Reached(c, b)' <=> Reached(c, b))
           /\ \A b : written'[b] = written[b] => Moved(b)' = Moved(b)
           /\ \A t, b : written'[b] = written[b] => (AlignInv(t, b)' <=> AlignInv(t, b))
           /\ \A c, b : written'[b] = written[b] /\ cell'[At(c, b)] = cell[At(c, b)]
                          => (Filled(c, b)' <=> Filled(c, b))
<1>1. ASSUME NEW t, NEW b, NEW k PROVE RowOf(t, b, k)' = RowOf(t, b, k)
  <2>1. RowsBefore(t, b)' = RowsBefore(t, b) /\ tables' = tables
    BY LayoutStill
  <2> QED
    BY <2>1, Zenon DEF RowOf
<1>2. ASSUME NEW c, from'[c] = from[c] PROVE Over(c)' <=> Over(c)
  BY <1>2, LayoutStill DEF Over
<1>3. ASSUME NEW c, NEW b, from'[c] = from[c] PROVE Past(c, b)' <=> Past(c, b)
  BY <1>3, LayoutStill DEF Past
<1>4. ASSUME NEW c, NEW b, from'[c] = from[c], row'[c] = row[c]
      PROVE  Reached(c, b)' <=> Reached(c, b)
  BY <1>4, LayoutStill DEF Reached
<1>5. ASSUME NEW b, written'[b] = written[b] PROVE Moved(b)' = Moved(b)
  BY <1>5, LayoutStill DEF Moved
<1>6. ASSUME NEW t, NEW b, written'[b] = written[b] PROVE AlignInv(t, b)' <=> AlignInv(t, b)
  BY <1>1, <1>6 DEF AlignInv
<1>7. ASSUME NEW c, NEW b, written'[b] = written[b], cell'[At(c, b)] = cell[At(c, b)]
      PROVE  Filled(c, b)' <=> Filled(c, b)
  <2>1. /\ At(c, b)' = At(c, b) /\ Moved(b)' = Moved(b)
        /\ RowsBefore(Parent(c), b)' = RowsBefore(Parent(c), b)
    BY <1>5, <1>7, LayoutStill
  <2> QED
    BY <1>7, <2>1 DEF Filled
<1> QED
  BY <1>1, <1>2, <1>3, <1>4, <1>5, <1>6, <1>7

(* A step that changes neither the cells nor the rows. *)
LEMMA BuildSame ==
    ASSUME BuildInv, stage # "hook", UNCHANGED <<layoutVars, from, row, cell, written>>,
           stage' \in {"columns", "init", "blocks", "write", "done"},
           \A c \in Columns : WalkInv(c)', \A b \in RowBlockSet : WriteInv(b)'
    PROVE  BuildInv'
<1>1. /\ UNCHANGED layoutVars /\ from' = from /\ row' = row /\ cell' = cell
      /\ written' = written
  OBVIOUS
<1>2. BuildTypes'
  <2>1. hook' = "done" /\ Columns' = Columns /\ Rowspans' = Rowspans /\ RowBlockSet' = RowBlockSet
    BY <1>1, LayoutStill DEF BuildInv, BuildTypes
  <2> QED
    BY <1>1, <2>1 DEF BuildInv, BuildTypes
<1>3. (\A c \in Columns : \A b \in BlocksOf(Parent(c)) : FillInv(c, b))'
  BY <1>1, LayoutStill, RowsStill DEF BuildInv, FillInv
<1>4. (\A r \in Rowspans : OwnInv(r))'
  BY <1>1, LayoutStill, RowsStill DEF BuildInv, OwnInv
<1>5. (\A t \in Tables : \A b \in BlocksOf(t) : AlignInv(t, b))'
  BY <1>1, LayoutStill, RowsStill DEF BuildInv
<1>6. (\A c \in Columns : WalkInv(c))' /\ (\A b \in RowBlockSet : WriteInv(b))'
  BY <1>1, LayoutStill
<1> QED
  BY <1>2, <1>3, <1>4, <1>5, <1>6 DEF BuildInv

(* Steps of the loop. *)
LEMMA BuildHook ==
    ASSUME BuildInv, HookStep
    PROVE  BuildInv'
<1>1. stage' = "hook" /\ cell' = <<>> /\ written' = <<>> /\ finished' = {}
  BY DEF BuildInv, BuildTypes, HookStep, buildVars
<1> QED
  BY <1>1 DEF BuildInv, BuildTypes

(* The pool starts with no cell hooked and no row written. *)
LEMMA BuildPool ==
    ASSUME LayoutInv, BuildInv, StartPool
    PROVE  BuildInv'
<1>1. /\ stage' = "columns" /\ hook = "done" /\ finished' = {} /\ UNCHANGED layoutVars
      /\ from' = [c \in Columns |-> 0] /\ row' = [c \in Columns |-> 1]
      /\ cell' = [r \in Rowspans |-> [col |-> 0, row |-> 0]]
      /\ written' = [b \in RowBlockSet |-> <<>>]
  BY DEF StartPool, BuildInv, BuildTypes
<1>2. BuildTypes'
  <2>1. hook' = "done" /\ Columns' = Columns /\ Rowspans' = Rowspans /\ RowBlockSet' = RowBlockSet
    BY <1>1, LayoutStill
  <2>2. [col |-> 0, row |-> 0] \in CellSet
    BY DEF CellSet
  <2> QED
    BY <1>1, <2>1, <2>2 DEF BuildTypes
<1>3. (\A c \in Columns : WalkInv(c))'
  BY <1>1, LayoutStill DEF WalkInv
<1>4. (\A c \in Columns : \A b \in BlocksOf(Parent(c)) : FillInv(c, b))'
  <2>1. ASSUME NEW c \in Columns, NEW b \in BlocksOf(Parent(c)) PROVE ~Past(c, b)'
    <3>1. PICK x \in Nat : x = At(c, b)
      BY <1>1, AtFacts
    <3>2. from'[c] = 0 /\ At(c, b)' = x
      BY <1>1, <3>1, LayoutStill
    <3> QED
      BY <3>1, <3>2 DEF Past
  <2> QED
    BY <1>1, <2>1, LayoutStill DEF FillInv
<1>5. (\A r \in Rowspans : OwnInv(r))'
  BY <1>1, LayoutStill DEF OwnInv
<1>6. ASSUME NEW b \in RowBlockSet PROVE WriteInv(b)'
  <2>1. rowBlocks'[b].rows \in Nat
    BY <1>1, LayoutStill, BlockTypes DEF LayoutInv
  <2>2. written'[b] = <<>>
    BY <1>1
  <2> QED
    BY <1>1, <2>1, <2>2 DEF WriteInv
<1>7. ASSUME NEW t \in Tables, NEW b \in BlocksOf(t) PROVE AlignInv(t, b)'
  <2>1. written'[b] = <<>>
    BY <1>1, TableFacts
  <2> QED
    BY <2>1 DEF AlignInv
<1>8. (\A b \in RowBlockSet : WriteInv(b))' /\ (\A t \in Tables : \A b \in BlocksOf(t) : AlignInv(t, b))'
  BY <1>1, <1>6, <1>7, LayoutStill
<1> QED
  BY <1>2, <1>3, <1>4, <1>5, <1>8 DEF BuildInv

(* The barriers between the stages. *)
LEMMA BuildStages ==
    ASSUME LayoutInv, BuildInv,
           \/ NextStage("columns", "init", Columns)
           \/ NextStage("init", "blocks", Tables)
           \/ NextStage("blocks", "write", RowBlockSet)
           \/ NextStage("write", "done", Tables)
    PROVE  BuildInv'
<1>1. /\ UNCHANGED <<layoutVars, from, row, cell, written>> /\ finished' = {}
      /\ \/ stage = "columns" /\ stage' = "init" /\ finished = Columns
         \/ stage = "init" /\ stage' = "blocks"
         \/ stage = "blocks" /\ stage' = "write" /\ finished = RowBlockSet
         \/ stage = "write" /\ stage' = "done"
  BY DEF NextStage
<1>2. /\ UNCHANGED layoutVars /\ from' = from /\ row' = row /\ written' = written
      /\ stage # "hook" /\ stage' \in {"columns", "init", "blocks", "write", "done"}
      /\ stage' # "columns" /\ hook = "done"
  BY <1>1 DEF BuildInv, BuildTypes
<1>3. ASSUME NEW c \in Columns PROVE WalkInv(c)'
  <2>1. Over(c)
    BY <1>1 DEF BuildInv, WalkInv
  <2>2. Over(c)'
    BY <1>2, <2>1, RowsStill
  <2> QED
    BY <1>2, <2>2 DEF WalkInv
<1>4. ASSUME NEW b \in RowBlockSet PROVE WriteInv(b)'
  <2>1. PICK t \in Tables : b \in BlocksOf(t)
    BY <1>2, ParentFacts
  <2>2. rowBlocks[b].rows \in Nat \ {0} /\ rowBlocks' = rowBlocks
    BY <1>2, <2>1, RowsBeforeFacts, LayoutStill
  <2>3. WriteInv(b)
    BY <1>2 DEF BuildInv
  <2> QED
    BY <1>1, <1>2, <2>2, <2>3 DEF WriteInv
<1> QED
  BY <1>1, <1>2, <1>3, <1>4, BuildSame

(* The tasks of the tables change none of it. *)
LEMMA BuildTables ==
    ASSUME LayoutInv, BuildInv, NEW t, build_table_init(t) \/ build_table_write(t)
    PROVE  BuildInv'
<1>1. /\ UNCHANGED <<layoutVars, from, row, cell, written>> /\ stage' = stage
      /\ stage \in {"init", "write"}
  BY DEF build_table_init, build_table_write
<1>2. UNCHANGED layoutVars /\ from' = from /\ row' = row /\ written' = written
  BY <1>1
<1>3. ASSUME NEW c \in Columns PROVE WalkInv(c)'
  <2>1. Over(c)
    BY <1>1 DEF BuildInv, WalkInv
  <2>2. Over(c)'
    BY <1>2, <2>1, RowsStill
  <2> QED
    BY <1>1, <2>2 DEF WalkInv
<1>4. ASSUME NEW b \in RowBlockSet PROVE WriteInv(b)'
  <2>1. WriteInv(b) /\ rowBlocks' = rowBlocks
    BY <1>1, <1>2, LayoutStill DEF BuildInv
  <2> QED
    BY <1>1, <1>2, <2>1 DEF WriteInv
<1> QED
  BY <1>1, <1>2, <1>3, <1>4, BuildSame

(* The first rowspan of a column. *)
LEMMA FirstSpan ==
    ASSUME LayoutInv, hook = "done", NEW c \in Columns
    PROVE  \E b \in BlocksOf(Parent(c)) :
              /\ columns[c].rowspansFrom = At(c, b) /\ RowsBefore(Parent(c), b) = 0
              /\ \A a \in BlocksOf(Parent(c)) : ~(At(c, b) > At(c, a))
<1>1. PICK t \in Tables : t = Parent(c) /\ c \in ColumnsOf(t)
  BY ParentFacts
<1>2. PICK b, u \in Nat : b = tables[t].blocksFrom /\ u = tables[t].blocksUntil /\ b < u
  BY TableFacts
<1>3. b \in BlocksOf(t)
  BY <1>2 DEF BlocksOf
<1>4. columns[c].rowspansFrom = At(c, b)
  BY <1>1, <1>2, TableFacts DEF ColumnHooked, At, FirstBlock
<1>5. RowsBefore(t, b) = 0
  BY <1>2, RowsBeforeFacts
<1>6. ASSUME NEW a \in BlocksOf(t) PROVE ~(At(c, b) > At(c, a))
  <2>1. a \in b .. u - 1
    BY <1>2 DEF BlocksOf
  <2>2. CASE a = b
    <3>1. PICK x \in Nat : x = At(c, b)
      BY <1>1, <1>3, AtFacts
    <3> QED
      BY <2>2, <3>1
  <2>3. CASE b < a
    <3>1. PICK x, y \in Nat : x = At(c, b) /\ y = At(c, a)
      BY <1>1, <1>3, AtFacts
    <3>2. x < y
      BY <1>1, <1>3, <2>3, <3>1, AtOrder
    <3> QED
      BY <3>1, <3>2
  <2> QED
    BY <1>2, <2>1, <2>2, <2>3
<1> QED
  BY <1>1, <1>3, <1>4, <1>5, <1>6

(* Where a column's walk ends: past all of its rowspans. *)
LEMMA EndFacts ==
    ASSUME LayoutInv, hook = "done", NEW c \in Columns
    PROVE  \E z \in Nat \ {0} :
              /\ z = tables[Parent(c)].rowspansUntil + (c - tables[Parent(c)].columnsFrom)
              /\ \A b \in BlocksOf(Parent(c)) : At(c, b) \in Nat \ {0} /\ z > At(c, b)
<1>1. PICK b \in BlocksOf(Parent(c)) : TRUE
  BY FirstSpan
<1>2. PICK x \in Nat \ {0} : x = At(c, b)
  BY AtFacts
<1>3. PICK u, k \in Nat : /\ u = tables[Parent(c)].rowspansUntil
                          /\ k = c - tables[Parent(c)].columnsFrom /\ x < u + k
  BY <1>2, AtOrder
<1>4. PICK z \in Nat \ {0} : z = u + k
  BY <1>2, <1>3
<1>5. ASSUME NEW a \in BlocksOf(Parent(c)) PROVE At(c, a) \in Nat \ {0} /\ z > At(c, a)
  <2>1. PICK y \in Nat \ {0} : y = At(c, a)
    BY AtFacts
  <2>2. y < u + k
    BY <1>3, <2>1, AtOrder
  <2> QED
    BY <1>3, <1>4, <2>1, <2>2
<1> QED
  BY <1>3, <1>4, <1>5

(* A column that is done has filled all of its rowspans. *)
LEMMA OverFacts ==
    ASSUME LayoutInv, hook = "done", NEW c \in Columns, Over(c)
    PROVE  from[c] > 0 /\ \A b \in BlocksOf(Parent(c)) : Past(c, b)
<1>1. PICK z \in Nat \ {0} :
         /\ z = tables[Parent(c)].rowspansUntil + (c - tables[Parent(c)].columnsFrom)
         /\ \A b \in BlocksOf(Parent(c)) : At(c, b) \in Nat \ {0} /\ z > At(c, b)
  BY EndFacts
<1>2. from[c] = z
  BY <1>1 DEF Over
<1>3. from[c] > 0
  BY <1>2
<1> QED
  BY <1>1, <1>2, <1>3 DEF Past

(* A column that has not started is where it should be. *)
LEMMA NotStarted ==
    ASSUME LayoutInv, BuildInv, stage = "columns", NEW c \in Columns, from[c] = 0
    PROVE  /\ c \notin finished /\ row[c] = 1
           /\ \A b \in BlocksOf(Parent(c)) : ~Past(c, b)
<1>1. hook = "done" /\ WalkInv(c)
  BY DEF BuildInv, BuildTypes
<1>2. ASSUME NEW b \in BlocksOf(Parent(c)) PROVE At(c, b) # 0 /\ ~Past(c, b)
  <2>1. PICK x \in Nat \ {0} : x = At(c, b)
    BY <1>1, AtFacts
  <2> QED
    BY <2>1 DEF Past
<1>3. ~Over(c)
  <2>1. ~(from[c] > 0)
    OBVIOUS
  <2> QED
    BY <1>1, <2>1, OverFacts
<1>4. ~\E b \in BlocksOf(Parent(c)) : Reached(c, b)
  BY <1>2 DEF Reached
<1> QED
  BY <1>1, <1>2, <1>3, <1>4 DEF WalkInv

(* A column starts at its first rowspan, or not at all. *)
LEMMA BuildStart ==
    ASSUME LayoutInv, BuildInv, NEW c \in Columns, StartColumn(c)
    PROVE  BuildInv'
<1>1. /\ UNCHANGED layoutVars /\ stage = "columns" /\ stage' = stage /\ from[c] = 0 /\ row' = row
      /\ finished' = finished /\ cell' = cell /\ written' = written
      /\ from' = from \/ from' = [from EXCEPT ![c] = columns[c].rowspansFrom]
  BY DEF StartColumn
<1>2. hook = "done" /\ from \in [Columns -> Nat]
  BY <1>1 DEF BuildInv, BuildTypes
<1>3. /\ c \notin finished /\ row[c] = 1 /\ \A b \in BlocksOf(Parent(c)) : ~Past(c, b)
  BY <1>1, NotStarted
<1>4. ASSUME NEW b \in RowBlockSet PROVE WriteInv(b)'
  <2>1. WriteInv(b) /\ rowBlocks' = rowBlocks
    BY <1>1, LayoutStill DEF BuildInv
  <2> QED
    BY <1>1, <2>1 DEF WriteInv
<1>5. ASSUME NEW d \in Columns, from'[d] = from[d] PROVE WalkInv(d)'
  <2>1. WalkInv(d)
    BY <1>1 DEF BuildInv
  <2>2. BlocksOf(Parent(d))' = BlocksOf(Parent(d))
    BY <1>1, LayoutStill
  <2> QED
    BY <1>1, <1>5, <2>1, <2>2, RowsStill DEF WalkInv
<1>6. CASE from' = from
  <2>1. \A d \in Columns : WalkInv(d)'
    BY <1>5, <1>6
  <2>2. UNCHANGED <<layoutVars, from, row, cell, written>>
    BY <1>1, <1>6
  <2> QED
    BY <1>1, <1>4, <2>1, <2>2, BuildSame
<1>7. CASE from' = [from EXCEPT ![c] = columns[c].rowspansFrom]
  <2>1. PICK b \in BlocksOf(Parent(c)) :
            /\ columns[c].rowspansFrom = At(c, b) /\ RowsBefore(Parent(c), b) = 0
            /\ \A a \in BlocksOf(Parent(c)) : ~(At(c, b) > At(c, a))
    BY <1>2, FirstSpan
  <2>2. PICK x \in Nat : x = At(c, b)
    BY <1>2, AtFacts
  <2>3. from'[c] = x /\ \A d \in Columns : d # c => from'[d] = from[d]
    BY <1>2, <1>7, <2>1, <2>2
  <2>4. WalkInv(c)'
    <3>1. /\ At(c, b)' = x /\ RowsBefore(Parent(c), b)' = 0 /\ b \in BlocksOf(Parent(c))'
      BY <1>1, <2>1, <2>2, LayoutStill
    <3>2. Reached(c, b)'
      BY <1>1, <1>3, <2>3, <3>1 DEF Reached
    <3> QED
      BY <1>1, <1>3, <3>1, <3>2 DEF WalkInv
  <2>5. \A a \in BlocksOf(Parent(c)) : ~Past(c, a)'
    BY <1>1, <2>1, <2>2, <2>3, LayoutStill DEF Past
  <2>6. BuildTypes'
    <3>1. hook' = "done" /\ Columns' = Columns /\ Rowspans' = Rowspans /\ RowBlockSet' = RowBlockSet
      BY <1>1, <1>2, LayoutStill
    <3>2. from' \in [Columns -> Nat]
      BY <1>2, <1>7, <2>1, <2>2
    <3> QED
      BY <1>1, <3>1, <3>2 DEF BuildInv, BuildTypes
  <2>7. (\A d \in Columns : WalkInv(d))' /\ (\A a \in RowBlockSet : WriteInv(a))'
    BY <1>1, <1>4, <1>5, <2>3, <2>4, LayoutStill
  <2>8. ASSUME NEW d \in Columns, NEW a \in BlocksOf(Parent(d)) PROVE FillInv(d, a)'
    <3>1. CASE d = c
      BY <2>5, <3>1 DEF FillInv
    <3>2. CASE d # c
      <4>1. FillInv(d, a)
        BY <1>1 DEF BuildInv
      <4>2. from'[d] = from[d] /\ written'[a] = written[a] /\ cell'[At(d, a)] = cell[At(d, a)]
        BY <1>1, <2>3, <3>2
      <4> QED
        BY <1>1, <4>1, <4>2, RowsStill DEF FillInv
    <3> QED
      BY <3>1, <3>2
  <2>9. ASSUME NEW r \in Rowspans PROVE OwnInv(r)'
    <3>1. OwnInv(r)
      BY <1>1 DEF BuildInv
    <3>2. CASE cell[r].col = 0
      BY <1>1, <3>2 DEF OwnInv
    <3>3. CASE \E d \in Columns : \E a \in BlocksOf(Parent(d)) : r = At(d, a) /\ Past(d, a)
      <4>1. PICK d \in Columns : \E a \in BlocksOf(Parent(d)) : r = At(d, a) /\ Past(d, a)
        BY <3>3
      <4>2. PICK a \in BlocksOf(Parent(d)) : r = At(d, a) /\ Past(d, a)
        BY <4>1
      <4>3. d # c
        BY <1>3, <4>2
      <4>4. Past(d, a)' /\ r = At(d, a)' /\ d \in Columns' /\ a \in BlocksOf(Parent(d))'
        BY <1>1, <2>3, <4>2, <4>3, RowsStill, LayoutStill
      <4> QED
        BY <4>4 DEF OwnInv
    <3> QED
      BY <3>1, <3>2, <3>3 DEF OwnInv
  <2>10. (\A t \in Tables : \A a \in BlocksOf(t) : AlignInv(t, a))'
    BY <1>1, LayoutStill, RowsStill DEF BuildInv
  <2>11. (\A d \in Columns : \A a \in BlocksOf(Parent(d)) : FillInv(d, a))'
         /\ (\A r \in Rowspans : OwnInv(r))'
    BY <1>1, <2>8, <2>9, LayoutStill
  <2> QED
    BY <2>6, <2>7, <2>10, <2>11 DEF BuildInv
<1> QED
  BY <1>1, <1>6, <1>7

(* One turn of a column's loop: from row block b to the next, or past the  *)
(* table's rowspans.                                                       *)
LEMMA FillMoves ==
    ASSUME LayoutInv, BuildInv, NEW c \in Columns, FillRowspan(c)
    PROVE  \E b \in BlocksOf(Parent(c)) :
              /\ Reached(c, b) /\ rowspans[from[c]] = b /\ ~Past(c, b) /\ Past(c, b)'
              /\ \A a \in BlocksOf(Parent(c)) : a # b => (Past(c, a)' <=> Past(c, a))
              /\ ~Over(c)
              /\ IF NextRowspan(c) >= tables[Parent(c)].rowspansUntil
                 THEN /\ Over(c)'
                      /\ RowsBefore(Parent(c), b) + rowBlocks[b].rows = tables[Parent(c)].spec.rows
                 ELSE ~Over(c)' /\ b + 1 \in BlocksOf(Parent(c)) /\ Reached(c, b + 1)'
<1>1. /\ UNCHANGED layoutVars /\ stage = "columns" /\ from[c] > 0 /\ c \notin finished
  BY DEF FillRowspan
<1>2. hook = "done" /\ from \in [Columns -> Nat] /\ row \in [Columns -> Nat]
  BY <1>1 DEF BuildInv, BuildTypes
<1>3. PICK b \in BlocksOf(Parent(c)) : Reached(c, b)
  <2>1. WalkInv(c)
    BY <1>1 DEF BuildInv
  <2>2. from[c] # 0
    BY <1>1, <1>2
  <2> QED
    BY <1>1, <2>1, <2>2 DEF WalkInv
<1>4. PICK t \in Tables : t = Parent(c) /\ c \in ColumnsOf(t)
  BY <1>2, ParentFacts
<1>5. PICK x \in Nat \ {0} : x = At(c, b) /\ rowspans[x] = b
  BY <1>2, <1>3, AtFacts
<1>6. PICK n \in Nat \ {0}, before \in Nat :
         /\ n = rowBlocks[b].rows /\ before = RowsBefore(t, b) /\ RowsBefore(t, b + 1) = before + n
  BY <1>2, <1>3, <1>4, RowsBeforeFacts
<1>7. from[c] = x /\ row[c] = before + 1
  BY <1>3, <1>4, <1>5, <1>6 DEF Reached
<1>8. PICK w \in Nat : w = tables[t].colCount /\ w # 0
  BY <1>2, TableFacts
<1>9. NextRowspan(c) = x + w /\ from'[c] = x + w /\ row'[c] = before + n + 1
  <2>1. NextRowspan(c) = x + w
    BY <1>4, <1>7, <1>8 DEF NextRowspan
  <2>2. from' = [from EXCEPT ![c] = x + w] /\ row' = [row EXCEPT ![c] = row[c] + n]
    BY <1>5, <1>6, <1>7, <2>1 DEF FillRowspan
  <2> QED
    BY <1>2, <1>6, <1>7, <2>1, <2>2
<1>10. PICK u, e, k \in Nat :
          /\ u = tables[t].blocksUntil /\ b + 1 <= u /\ b \in Nat
          /\ e = tables[t].rowspansUntil /\ k = c - tables[t].columnsFrom /\ x < e /\ x < e + k
  <2>1. PICK u, g \in Nat : u = tables[t].blocksUntil /\ g = tables[t].blocksFrom
    BY <1>2, TableFacts
  <2>2. b \in g .. u - 1
    BY <1>3, <1>4, <2>1 DEF BlocksOf
  <2>3. b + 1 <= u /\ b \in Nat
    BY <2>1, <2>2
  <2> QED
    BY <1>2, <1>3, <1>4, <1>5, <2>1, <2>3, AtOrder
<1>11. \A a \in BlocksOf(t) : At(c, a)' = At(c, a) /\ At(c, a) \in Nat /\ a \in Nat
  BY <1>1, <1>2, <1>4, LayoutStill, AtFacts, TableFacts
<1>12. ~Past(c, b) /\ Past(c, b)' /\ ~Over(c)
  <2>1. ~(x > x) /\ x + w > x /\ x # e + k
    BY <1>8, <1>10
  <2> QED
    BY <1>3, <1>4, <1>5, <1>7, <1>9, <1>10, <1>11, <2>1 DEF Past, Over
<1>13. Over(c)' <=> x + w = e + k
  BY <1>1, <1>4, <1>9, <1>10, LayoutStill DEF Over
<1>14. CASE b + 1 < u
  <2>1. b + 1 \in BlocksOf(t) /\ At(c, b + 1) = x + w
    BY <1>2, <1>3, <1>4, <1>5, <1>8, <1>10, <1>14, AtFacts
  <2>2. x + w < e /\ x + w < e + k
    BY <1>2, <1>4, <1>10, <2>1, AtOrder
  <2>3. ~(NextRowspan(c) >= e) /\ ~Over(c)'
    BY <1>9, <1>13, <2>2
  <2>4. Reached(c, b + 1)'
    <3>1. At(c, b + 1)' = x + w /\ RowsBefore(Parent(c), b + 1)' = before + n
      BY <1>1, <1>4, <1>6, <2>1, LayoutStill
    <3> QED
      BY <1>9, <3>1 DEF Reached
  <2>5. ASSUME NEW a \in BlocksOf(t), a # b PROVE Past(c, a)' <=> Past(c, a)
    <3>1. PICK y \in Nat : y = At(c, a) /\ y = At(c, a)' /\ a \in Nat
      BY <1>11
    <3>2. CASE a < b
      <4>1. y < x
        BY <1>2, <1>3, <1>4, <1>5, <3>1, <3>2, AtOrder
      <4>2. x > y /\ x + w > y
        BY <4>1
      <4> QED
        BY <1>7, <1>9, <3>1, <4>2 DEF Past
    <3>3. CASE b < a
      <4>1. ~(x + w > y)
        <5>1. CASE a = b + 1
          <6>1. y = x + w
            BY <2>1, <3>1, <5>1
          <6> QED
            BY <6>1
        <5>2. CASE b + 1 < a
          <6>1. At(c, b + 1) < At(c, a)
            BY <1>2, <1>4, <2>1, <5>2, AtOrder
          <6> QED
            BY <2>1, <3>1, <6>1
        <5> QED
          BY <1>10, <3>1, <3>3, <5>1, <5>2
      <4>2. ~(x > y)
        BY <4>1
      <4> QED
        BY <1>7, <1>9, <3>1, <4>1, <4>2 DEF Past
    <3> QED
      BY <1>10, <2>5, <3>1, <3>2, <3>3
  <2> QED
    BY <1>3, <1>4, <1>5, <1>7, <1>10, <1>12, <2>1, <2>3, <2>4, <2>5
<1>15. CASE b + 1 = u
  <2>1. x + w = e + k
    BY <1>2, <1>3, <1>4, <1>5, <1>8, <1>10, <1>15, AtFacts
  <2>2. NextRowspan(c) >= e /\ Over(c)'
    BY <1>9, <1>10, <1>13, <2>1
  <2>3. before + n = tables[t].spec.rows
    BY <1>2, <1>6, <1>10, <1>15, RowsBeforeFacts
  <2>4. ASSUME NEW a \in BlocksOf(t), a # b PROVE Past(c, a)' <=> Past(c, a)
    <3>1. PICK y \in Nat : y = At(c, a) /\ y = At(c, a)' /\ a \in Nat
      BY <1>11
    <3>2. a < b
      <4>1. PICK g \in Nat : g = tables[t].blocksFrom
        BY <1>2, TableFacts
      <4>2. a \in g .. u - 1
        BY <1>10, <4>1 DEF BlocksOf
      <4> QED
        BY <1>10, <1>15, <2>4, <4>1, <4>2
    <3>3. y < x
      BY <1>2, <1>3, <1>4, <1>5, <3>1, <3>2, AtOrder
    <3>4. x > y /\ x + w > y
      BY <3>3
    <3> QED
      BY <1>7, <1>9, <3>1, <3>4 DEF Past
  <2> QED
    BY <1>3, <1>4, <1>5, <1>6, <1>7, <1>10, <1>12, <2>2, <2>3, <2>4
<1>16. b + 1 < u \/ b + 1 = u
  BY <1>10
<1> QED
  BY <1>14, <1>15, <1>16

(* ... and what it leaves as it should be. *)
LEMMA BuildFill ==
    ASSUME LayoutInv, BuildInv, NEW c \in Columns, FillRowspan(c)
    PROVE  BuildInv'
<1>1. /\ UNCHANGED layoutVars /\ stage = "columns" /\ stage' = stage
      /\ c \notin finished /\ written' = written
  BY DEF FillRowspan
<1>2. /\ hook = "done" /\ from \in [Columns -> Nat] /\ row \in [Columns -> Nat]
      /\ cell \in [Rowspans -> CellSet]
  BY <1>1 DEF BuildInv, BuildTypes
<1>3. PICK b \in BlocksOf(Parent(c)) :
         /\ Reached(c, b) /\ rowspans[from[c]] = b /\ Past(c, b)'
         /\ \A a \in BlocksOf(Parent(c)) : a # b => (Past(c, a)' <=> Past(c, a))
         /\ IF NextRowspan(c) >= tables[Parent(c)].rowspansUntil
            THEN Over(c)'
            ELSE b + 1 \in BlocksOf(Parent(c)) /\ Reached(c, b + 1)'
  BY FillMoves
<1>4. PICK t \in Tables : t = Parent(c) /\ c \in ColumnsOf(t)
  BY <1>2, ParentFacts
<1>5. PICK x \in Nat \ {0} : x = At(c, b) /\ x \in Rowspans /\ x = from[c]
  BY <1>2, <1>3, AtFacts DEF Reached
<1>6. PICK n \in Nat \ {0}, before \in Nat : n = rowBlocks[b].rows /\ before = RowsBefore(t, b)
  BY <1>2, <1>3, <1>4, RowsBeforeFacts
<1>7. row[c] = before + 1
  BY <1>3, <1>4, <1>6 DEF Reached
<1>8. PICK next \in Nat : next = NextRowspan(c)
  <2>1. tables[t].colCount \in Nat
    BY <1>2, TableFacts
  <2> QED
    BY <1>4, <1>5, <2>1 DEF NextRowspan
<1>9. /\ cell' = [cell EXCEPT ![x] = [col |-> c, row |-> before + 1]]
      /\ row' = [row EXCEPT ![c] = row[c] + n] /\ from' = [from EXCEPT ![c] = next]
      /\ finished' = IF next >= tables[Parent(c)].rowspansUntil THEN finished \cup {c} ELSE finished
  BY <1>3, <1>5, <1>6, <1>7, <1>8 DEF FillRowspan
<1>10. /\ cell'[x] = [col |-> c, row |-> before + 1]
       /\ \A d \in Columns : d # c => from'[d] = from[d] /\ row'[d] = row[d]
       /\ \A r \in Rowspans : r # x => cell'[r] = cell[r]
       /\ \A d \in Columns : d # c => (d \in finished' <=> d \in finished)
  BY <1>2, <1>5, <1>9
<1>11. BuildTypes'
  <2>1. hook' = "done" /\ Columns' = Columns /\ Rowspans' = Rowspans /\ RowBlockSet' = RowBlockSet
    BY <1>1, <1>2, LayoutStill
  <2>2. row[c] + n \in Nat /\ before + 1 \in Nat /\ c \in Nat
    BY <1>2, <1>4, <1>6, <1>7, TableFacts
  <2>3. from' \in [Columns -> Nat] /\ row' \in [Columns -> Nat]
    BY <1>2, <1>9, <2>2
  <2>4. [col |-> c, row |-> before + 1] \in CellSet
    BY <2>2 DEF CellSet
  <2>5. cell' \in [Rowspans -> CellSet]
    BY <1>2, <1>9, <2>4
  <2> QED
    BY <1>1, <2>1, <2>3, <2>5 DEF BuildInv, BuildTypes
<1>12. ASSUME NEW d \in Columns, d # c PROVE WalkInv(d)'
  <2>1. WalkInv(d)
    BY <1>1 DEF BuildInv
  <2>2. BlocksOf(Parent(d))' = BlocksOf(Parent(d))
    BY <1>1, LayoutStill
  <2> QED
    BY <1>1, <1>10, <1>12, <2>1, <2>2, RowsStill DEF WalkInv
<1>13. WalkInv(c)'
  <2>1. BlocksOf(Parent(c))' = BlocksOf(Parent(c))
    BY <1>1, LayoutStill
  <2>2. CASE next >= tables[Parent(c)].rowspansUntil
    BY <1>3, <1>8, <1>9, <2>2 DEF WalkInv
  <2>3. CASE ~(next >= tables[Parent(c)].rowspansUntil)
    BY <1>1, <1>3, <1>8, <1>9, <2>1, <2>3 DEF WalkInv
  <2> QED
    BY <2>2, <2>3
<1>14. ASSUME NEW d \in Columns, NEW a \in BlocksOf(Parent(d)), <<d, a>> # <<c, b>>
       PROVE  FillInv(d, a)' /\ (Past(d, a)' <=> Past(d, a))
  <2>0. At(d, a) # At(c, b)
    BY <1>2, <1>14, AtUnique
  <2>1. FillInv(d, a) /\ At(d, a) \in Rowspans /\ At(d, a) # x
    BY <1>1, <1>2, <1>5, <2>0, AtFacts DEF BuildInv
  <2>2. Filled(d, a)' <=> Filled(d, a)
    BY <1>1, <1>10, <2>1, RowsStill
  <2>3. Past(d, a)' <=> Past(d, a)
    BY <1>1, <1>3, <1>10, <1>14, RowsStill
  <2> QED
    BY <2>1, <2>2, <2>3 DEF FillInv
<1>15. FillInv(c, b)' /\ Past(c, b)'
  <2>1. /\ At(c, b)' = x /\ RowsBefore(Parent(c), b)' = before /\ rowBlocks' = rowBlocks
    BY <1>1, <1>4, <1>5, <1>6, LayoutStill
  <2>2. written'[b] = <<>>
    <3>1. b \in RowBlockSet
      BY <1>2, <1>3, <1>4, TableFacts
    <3> QED
      BY <1>1, <3>1 DEF BuildInv, WriteInv
  <2>3. Moved(b)' = 0
    BY <1>6, <2>1, <2>2 DEF Moved
  <2>4. before + 1 + 0 = before + 1
    BY <1>6
  <2>5. Filled(c, b)'
    BY <1>10, <2>1, <2>3, <2>4 DEF Filled
  <2> QED
    BY <1>3, <2>5 DEF FillInv
<1>16. ASSUME NEW r \in Rowspans PROVE OwnInv(r)'
  <2>1. OwnInv(r)
    BY <1>1 DEF BuildInv
  <2>2. CASE r = x
    <3>1. r = At(c, b)' /\ c \in Columns' /\ b \in BlocksOf(Parent(c))'
      BY <1>1, <1>3, <1>5, <2>2, LayoutStill
    <3> QED
      BY <1>15, <3>1 DEF OwnInv
  <2>3. CASE r # x /\ cell[r].col = 0
    BY <1>10, <2>3 DEF OwnInv
  <2>4. CASE \E d \in Columns : \E a \in BlocksOf(Parent(d)) : r = At(d, a) /\ Past(d, a)
    <3>1. PICK d \in Columns : \E a \in BlocksOf(Parent(d)) : r = At(d, a) /\ Past(d, a)
      BY <2>4
    <3>2. PICK a \in BlocksOf(Parent(d)) : r = At(d, a) /\ Past(d, a)
      BY <3>1
    <3>3. Past(d, a)'
      BY <1>14, <1>15, <3>2
    <3>4. r = At(d, a)' /\ d \in Columns' /\ a \in BlocksOf(Parent(d))'
      BY <1>1, <3>2, LayoutStill
    <3> QED
      BY <3>3, <3>4 DEF OwnInv
  <2> QED
    BY <2>1, <2>2, <2>3, <2>4 DEF OwnInv
<1>17. ASSUME NEW a \in RowBlockSet PROVE WriteInv(a)'
  <2>1. WriteInv(a) /\ rowBlocks' = rowBlocks
    BY <1>1, LayoutStill DEF BuildInv
  <2> QED
    BY <1>1, <2>1 DEF WriteInv
<1>18. (\A s \in Tables : \A a \in BlocksOf(s) : AlignInv(s, a))'
  BY <1>1, LayoutStill, RowsStill DEF BuildInv
<1>19. (\A d \in Columns : WalkInv(d))' /\ (\A a \in RowBlockSet : WriteInv(a))'
  BY <1>1, <1>12, <1>13, <1>17, LayoutStill
<1>20. ASSUME NEW d \in Columns, NEW a \in BlocksOf(Parent(d)) PROVE FillInv(d, a)'
  BY <1>14, <1>15
<1>21. (\A d \in Columns : \A a \in BlocksOf(Parent(d)) : FillInv(d, a))'
       /\ (\A r \in Rowspans : OwnInv(r))'
  BY <1>1, <1>16, <1>20, LayoutStill
<1> QED
  BY <1>11, <1>18, <1>19, <1>21 DEF BuildInv

(* The cells a row block is at: those of the row it writes next. *)
LEMMA RowCells ==
    ASSUME LayoutInv, BuildInv, stage = "blocks", NEW t \in Tables, NEW b \in BlocksOf(t),
           b \notin finished, NEW c \in ColumnsOf(t)
    PROVE  /\ c \in Columns /\ Parent(c) = t /\ Past(c, b)
           /\ At(c, b) = rowBlocks[b].from + (c - tables[t].columnsFrom)
           /\ At(c, b) \in rowBlocks[b].from .. rowBlocks[b].until - 1
           /\ cell[At(c, b)] = [col |-> c, row |-> RowsBefore(t, b) + 1 + Len(written[b])]
<1>1. hook = "done" /\ b \in RowBlockSet
  BY TableFacts DEF BuildInv, BuildTypes
<1>2. c \in Columns /\ Parent(c) = t
  BY <1>1, TableFacts
<1>3. At(c, b) = rowBlocks[b].from + (c - tables[t].columnsFrom)
  BY <1>2 DEF At
<1>4. At(c, b) \in rowBlocks[b].from .. rowBlocks[b].until - 1
  BY <1>1, <1>2, AtFacts
<1>5. Past(c, b)
  BY <1>1, <1>2, OverFacts DEF BuildInv, WalkInv
<1>6. Filled(c, b)
  BY <1>2, <1>5 DEF BuildInv, FillInv
<1>7. Moved(b) = Len(written[b])
  BY <1>1 DEF Moved, BuildInv, WriteInv
<1> QED
  BY <1>2, <1>3, <1>4, <1>5, <1>6, <1>7 DEF Filled

(* A row block writes a row, and moves its cell pointers on if another     *)
(* follows.                                                                *)
LEMMA BuildRow ==
    ASSUME LayoutInv, BuildInv, NEW b \in RowBlockSet, build_row_block(b)
    PROVE  BuildInv'
<1>1. /\ UNCHANGED layoutVars /\ stage = "blocks" /\ stage' = stage /\ b \notin finished
      /\ from' = from /\ row' = row
  BY DEF build_row_block
<1>2. /\ hook = "done" /\ cell \in [Rowspans -> CellSet]
      /\ written \in [RowBlockSet -> Seq(Seq(CellSet))] /\ LayoutTypes
  BY <1>1 DEF BuildInv, BuildTypes, LayoutInv
<1>3. PICK t \in Tables : b \in BlocksOf(t)
  BY <1>2, ParentFacts
<1>4. PICK f, e, cf, w \in Nat : /\ f = rowBlocks[b].from /\ e = rowBlocks[b].until /\ f # 0
                                 /\ cf = tables[t].columnsFrom /\ w = tables[t].colCount
  BY <1>2, TableFacts, BlockTypes
<1>5. e = f + w /\ \A r \in f .. e - 1 : r \in Rowspans /\ rowspans[r] = b
  <2>1. BlockHooked(t, b) /\ ColsOf(t) = w
    BY <1>2, <1>3, <1>4, TableFacts
  <2>2. PICK lr \in Nat : lr = Len(rowspans)
    BY <1>2 DEF LayoutTypes
  <2>3. e = f + w /\ e <= lr + 1 /\ \A r \in f .. e - 1 : rowspans[r] = b
    BY <1>4, <2>1, <2>2 DEF BlockHooked
  <2>4. \A r \in f .. e - 1 : r \in 1..lr
    BY <1>4, <2>3
  <2> QED
    BY <2>2, <2>3, <2>4 DEF Rowspans
<1>6. PICK before \in Nat, n \in Nat \ {0} : before = RowsBefore(t, b) /\ n = rowBlocks[b].rows
  BY <1>2, <1>3, RowsBeforeFacts
<1>7. PICK k \in Nat : k = Len(written[b]) /\ k < n
  <2>1. WriteInv(b)
    BY <1>1 DEF BuildInv
  <2>2. PICK k \in Nat : k = Len(written[b])
    BY <1>2
  <2> QED
    BY <1>1, <1>6, <2>1, <2>2 DEF WriteInv
<1>8. PICK cells : cells = [i \in 1..w |-> cell[f + i - 1]]
  OBVIOUS
<1>9. /\ written' = [written EXCEPT ![b] = Append(written[b], cells)]
      /\ cell' = IF k + 1 = n THEN cell
                 ELSE [r \in Rowspans |-> IF r \in f .. e - 1
                          THEN [cell[r] EXCEPT !.row = @ + 1] ELSE cell[r]]
      /\ finished' = IF k + 1 = n THEN finished \cup {b} ELSE finished
  <2>1. Cardinality(f .. e - 1) = w
    <3>1. f \in Int /\ e - 1 \in Int
      BY <1>4
    <3>2. Cardinality(f .. e - 1) = IF f > e - 1 THEN 0 ELSE (e - 1) - f + 1
      BY <3>1, FS_Interval
    <3>3. e = f + w
      BY <1>5
    <3>4. w = 0 => f > e - 1
      BY <1>4, <3>3
    <3>5. w # 0 => ~(f > e - 1)
      BY <1>4, <3>3
    <3>6. (e - 1) - f + 1 = w
      BY <1>4, <3>3
    <3> QED
      BY <3>2, <3>4, <3>5, <3>6
  <2> QED
    BY <1>4, <1>6, <1>7, <1>8, <2>1 DEF build_row_block
(* The cells of the row. *)
<1>10. ASSUME NEW c \in ColumnsOf(t)
       PROVE  /\ c \in Columns /\ Parent(c) = t /\ At(c, b) = f + (c - cf) /\ At(c, b) \in f .. e - 1
              /\ cell[At(c, b)] = [col |-> c, row |-> before + 1 + k]
  BY <1>1, <1>3, <1>4, <1>6, <1>7, RowCells
<1>11. cells = RowOf(t, b, k + 1)
  <2>1. ASSUME NEW i \in 1..w
        PROVE  cell[f + i - 1] = [col |-> cf + i - 1, row |-> before + (k + 1)]
    <3>1. PICK c \in Nat : c = cf + i - 1 /\ c \in cf .. cf + w - 1 /\ f + (c - cf) = f + i - 1
      <4>1. cf + i - 1 \in Nat /\ cf + i - 1 \in cf .. cf + w - 1
            /\ f + ((cf + i - 1) - cf) = f + i - 1
        BY <1>4
      <4> QED
        BY <4>1
    <3>2. c \in ColumnsOf(t)
      <4>1. ColsOf(t) = w
        BY <1>2, <1>4, TableFacts
      <4> QED
        BY <1>4, <3>1, <4>1 DEF ColumnsOf
    <3>3. before + 1 + k = before + (k + 1)
      OBVIOUS
    <3> QED
      BY <1>10, <3>1, <3>2, <3>3
  <2>2. RowOf(t, b, k + 1) = [i \in 1..w |-> [col |-> cf + i - 1, row |-> before + (k + 1)]]
    BY <1>4, <1>6, Zenon DEF RowOf
  <2> QED
    BY <1>8, <2>1, <2>2
<1>12. /\ \A r \in Rowspans : r \notin f .. e - 1 => cell'[r] = cell[r]
       /\ \A r \in f .. e - 1 : k + 1 = n => cell'[r] = cell[r]
       /\ \A r \in f .. e - 1 : k + 1 # n => cell'[r] = [cell[r] EXCEPT !.row = @ + 1]
       /\ \A a \in RowBlockSet : a # b => written'[a] = written[a]
       /\ written'[b] = Append(written[b], cells)
  BY <1>2, <1>5, <1>9
<1>13. \A r \in Rowspans : cell[r] \in CellSet /\ cell'[r] \in CellSet /\ cell'[r].col = cell[r].col
  <2>1. ASSUME NEW r \in Rowspans
        PROVE  cell[r] \in CellSet /\ cell'[r] \in CellSet /\ cell'[r].col = cell[r].col
    <3>1. cell[r] \in CellSet
      BY <1>2
    <3>2. cell'[r] = cell[r] \/ cell'[r] = [cell[r] EXCEPT !.row = @ + 1]
      BY <1>12
    <3> QED
      BY <3>1, <3>2 DEF CellSet
  <2> QED
    BY <2>1
<1>14. BuildTypes'
  <2>1. hook' = "done" /\ Columns' = Columns /\ Rowspans' = Rowspans /\ RowBlockSet' = RowBlockSet
    BY <1>1, <1>2, LayoutStill
  <2>2. cell' \in [Rowspans -> CellSet]
    <3>1. DOMAIN cell' = Rowspans /\ cell' = [r \in Rowspans |-> cell'[r]]
      BY <1>2, <1>9
    <3> QED
      BY <1>13, <3>1
  <2>3. cells \in Seq(CellSet)
    <3>1. \A i \in 1..w : f + i - 1 \in f .. e - 1
      BY <1>4, <1>5
    <3>2. \A i \in 1..w : cell[f + i - 1] \in CellSet
      BY <1>5, <1>13, <3>1
    <3>3. cells \in [1..w -> CellSet]
      BY <1>8, <3>2
    <3> QED
      BY <1>4, <3>3, SeqDef
  <2>4. Append(written[b], cells) \in Seq(Seq(CellSet))
    BY <1>2, <2>3
  <2>5. written' \in [RowBlockSet -> Seq(Seq(CellSet))]
    BY <1>2, <1>9, <2>4
  <2> QED
    BY <1>1, <2>1, <2>2, <2>5 DEF BuildInv, BuildTypes
<1>15. ASSUME NEW c \in Columns PROVE WalkInv(c)'
  <2>1. Over(c)
    BY <1>1 DEF BuildInv, WalkInv
  <2>2. Over(c)'
    BY <1>1, <2>1, RowsStill
  <2> QED
    BY <1>1, <2>2 DEF WalkInv
<1>16. /\ Len(written'[b]) = k + 1 /\ written'[b][k + 1] = cells
       /\ \A j \in 1..k : written'[b][j] = written[b][j]
  <2>1. PICK s \in Seq(Seq(CellSet)) : s = written[b]
    BY <1>2
  <2>2. Len(Append(s, cells)) = Len(s) + 1 /\ Append(s, cells)[Len(s) + 1] = cells
    BY <2>1
  <2>3. \A j \in 1..Len(s) : Append(s, cells)[j] = s[j]
    BY <2>1
  <2> QED
    BY <1>7, <1>12, <2>1, <2>2, <2>3
<1>17. ASSUME NEW d \in Columns, NEW a \in BlocksOf(Parent(d)) PROVE FillInv(d, a)'
  <2>1. FillInv(d, a) /\ At(d, a) \in Rowspans /\ rowspans[At(d, a)] = a /\ (Past(d, a)' <=> Past(d, a))
    BY <1>1, <1>2, AtFacts, RowsStill DEF BuildInv
  <2>2. Parent(d) \in Tables /\ d \in ColumnsOf(Parent(d)) /\ a \in RowBlockSet
    BY <1>2, ParentFacts, TableFacts
  <2>3. CASE a # b
    <3>1. At(d, a) \notin f .. e - 1
      BY <1>5, <2>1, <2>3
    <3>2. cell'[At(d, a)] = cell[At(d, a)] /\ written'[a] = written[a]
      BY <1>12, <2>1, <2>2, <2>3, <3>1
    <3> QED
      BY <1>1, <2>1, <3>2, RowsStill DEF FillInv
  <2>4. CASE a = b
    <3>1. Parent(d) = t /\ d \in ColumnsOf(t)
      BY <1>2, <1>3, <2>2, <2>4, ParentFacts
    <3>2. At(d, b) \in f .. e - 1 /\ cell[At(d, b)] = [col |-> d, row |-> before + 1 + k]
      BY <1>10, <3>1
    <3>3. /\ At(d, b)' = At(d, b) /\ RowsBefore(Parent(d), b)' = before /\ rowBlocks' = rowBlocks
      BY <1>1, <1>6, <3>1, LayoutStill
    <3>4. Moved(b)' = IF k + 1 = n THEN k ELSE k + 1
      BY <1>6, <1>7, <1>16, <3>3 DEF Moved
    <3>5. cell'[At(d, b)] = [col |-> d, row |-> before + 1 + IF k + 1 = n THEN k ELSE k + 1]
      <4>1. CASE k + 1 = n
        BY <1>12, <3>2, <4>1
      <4>2. CASE k + 1 # n
        <5>0. before + 1 + k \in Nat /\ before + 1 + (k + 1) = (before + 1 + k) + 1
          OBVIOUS
        <5>1. PICK y \in Nat : y = before + 1 + k /\ before + 1 + (k + 1) = y + 1
          BY <5>0
        <5>2. cell'[At(d, b)] = [[col |-> d, row |-> y] EXCEPT !.row = @ + 1]
          BY <1>12, <3>2, <4>2, <5>1
        <5>3. [[col |-> d, row |-> y] EXCEPT !.row = @ + 1] = [col |-> d, row |-> y + 1]
          OBVIOUS
        <5> QED
          BY <4>2, <5>1, <5>2, <5>3
      <4> QED
        BY <4>1, <4>2
    <3>6. Filled(d, b)'
      BY <3>3, <3>4, <3>5 DEF Filled
    <3> QED
      BY <2>4, <3>6 DEF FillInv
  <2> QED
    BY <2>3, <2>4
<1>18. ASSUME NEW r \in Rowspans PROVE OwnInv(r)'
  <2>1. OwnInv(r) /\ cell'[r].col = cell[r].col
    BY <1>1, <1>13 DEF BuildInv
  <2>2. (\E c \in Columns : \E a \in BlocksOf(Parent(c)) : r = At(c, a) /\ Past(c, a))'
        <=> \E c \in Columns : \E a \in BlocksOf(Parent(c)) : r = At(c, a) /\ Past(c, a)
    BY <1>1, LayoutStill, RowsStill
  <2> QED
    BY <2>1, <2>2 DEF OwnInv
<1>19. ASSUME NEW a \in RowBlockSet PROVE WriteInv(a)'
  <2>1. WriteInv(a) /\ rowBlocks' = rowBlocks
    BY <1>1, LayoutStill DEF BuildInv
  <2>2. CASE a # b
    BY <1>1, <1>9, <1>12, <2>1, <2>2 DEF WriteInv
  <2>3. CASE a = b
    <3>1. k + 1 <= n /\ (b \in finished' <=> k + 1 = n)
      BY <1>1, <1>6, <1>7, <1>9
    <3> QED
      BY <1>1, <1>6, <1>16, <2>1, <2>3, <3>1 DEF WriteInv
  <2> QED
    BY <2>2, <2>3
<1>20. ASSUME NEW s \in Tables, NEW a \in BlocksOf(s) PROVE AlignInv(s, a)'
  <2>1. AlignInv(s, a) /\ a \in RowBlockSet
    BY <1>1, <1>2, TableFacts DEF BuildInv
  <2>2. CASE a # b
    BY <1>1, <1>12, <2>1, <2>2, RowsStill
  <2>3. CASE a = b
    <3>1. s = t
      BY <1>2, <1>3, <2>3, ParentFacts
    <3>2. ASSUME NEW j \in 1..k + 1 PROVE written'[b][j] = RowOf(t, b, j)
      <4>1. CASE j = k + 1
        <5>1. written'[b][k + 1] = RowOf(t, b, k + 1)
          BY <1>11, <1>16, Zenon
        <5> QED
          BY <4>1, <5>1, Zenon
      <4>2. CASE j \in 1..k
        BY <1>7, <1>16, <2>1, <2>3, <3>1, <4>2 DEF AlignInv
      <4> QED
        BY <1>7, <4>1, <4>2
    <3>3. \A j : RowOf(t, b, j)' = RowOf(t, b, j)
      BY <1>1, RowsStill
    <3> QED
      BY <1>16, <2>3, <3>1, <3>2, <3>3 DEF AlignInv
  <2> QED
    BY <2>2, <2>3
<1>21. /\ (\A c \in Columns : WalkInv(c))' /\ (\A a \in RowBlockSet : WriteInv(a))'
       /\ (\A r \in Rowspans : OwnInv(r))'
  BY <1>1, <1>15, <1>18, <1>19, LayoutStill
<1>22. /\ (\A d \in Columns : \A a \in BlocksOf(Parent(d)) : FillInv(d, a))'
       /\ (\A s \in Tables : \A a \in BlocksOf(s) : AlignInv(s, a))'
  BY <1>1, <1>17, <1>20, LayoutStill
<1> QED
  BY <1>14, <1>21, <1>22 DEF BuildInv

(* A step that changes nothing. *)
LEMMA BuildRest ==
    ASSUME BuildInv, UNCHANGED vars
    PROVE  BuildInv'
<1>1. /\ UNCHANGED layoutVars /\ stage' = stage /\ finished' = finished
      /\ UNCHANGED <<layoutVars, from, row, cell, written>>
      /\ from' = from /\ row' = row /\ cell' = cell /\ written' = written
  BY DEF vars, buildVars
<1>2. CASE stage = "hook"
  BY <1>1, <1>2 DEF BuildInv, BuildTypes
<1>3. CASE stage # "hook"
  <2>1. ASSUME NEW c \in Columns PROVE WalkInv(c)'
    <3>1. WalkInv(c) /\ BlocksOf(Parent(c))' = BlocksOf(Parent(c))
      BY <1>1, <1>3, LayoutStill DEF BuildInv
    <3> QED
      BY <1>1, <3>1, RowsStill DEF WalkInv
  <2>2. ASSUME NEW b \in RowBlockSet PROVE WriteInv(b)'
    <3>1. WriteInv(b) /\ rowBlocks' = rowBlocks
      BY <1>1, <1>3, LayoutStill DEF BuildInv
    <3> QED
      BY <1>1, <3>1 DEF WriteInv
  <2>3. stage' \in {"columns", "init", "blocks", "write", "done"}
    BY <1>1, <1>3 DEF BuildInv, BuildTypes
  <2> QED
    BY <1>1, <1>3, <2>1, <2>2, <2>3, BuildSame
<1> QED
  BY <1>2, <1>3

(* The invariant of the stages holds on top of that of the loop. *)
LEMMA BuildStep ==
    ASSUME LayoutInv, BuildInv, [Next]_vars
    PROVE  BuildInv'
<1>1. CASE HookStep
  BY <1>1, BuildHook
<1>2. CASE StartPool
  BY <1>2, BuildPool
<1>3. CASE \/ NextStage("columns", "init", Columns)
           \/ NextStage("init", "blocks", Tables)
           \/ NextStage("blocks", "write", RowBlockSet)
           \/ NextStage("write", "done", Tables)
  BY <1>3, BuildStages
<1>4. CASE \E c \in Columns : StartColumn(c) \/ FillRowspan(c)
  BY <1>4, BuildStart, BuildFill
<1>5. CASE \E t \in Tables : build_table_init(t) \/ build_table_write(t)
  BY <1>5, BuildTables
<1>6. CASE \E b \in RowBlockSet : build_row_block(b)
  BY <1>6, BuildRow
<1>7. CASE Stopped \/ UNCHANGED vars
  BY <1>7, BuildRest DEF Stopped
<1> QED
  BY <1>1, <1>2, <1>3, <1>4, <1>5, <1>6, <1>7, Zenon DEF Next

(* What the invariant says of the cell pointers. *)
LEMMA BuildCells ==
    ASSUME LayoutInv, BuildInv
    PROVE  CellsExist
<1>1. CASE stage = "hook"
  <2>1. 1..Len(cell) = {}
    BY <1>1 DEF BuildInv, BuildTypes
  <2> QED
    BY <2>1 DEF CellsExist
<1>2. CASE stage # "hook"
  <2>1. hook = "done" /\ LayoutTypes /\ cell \in [Rowspans -> CellSet]
    BY <1>2 DEF BuildInv, BuildTypes, LayoutInv
  <2>2. 1..Len(cell) = Rowspans
    <3>1. PICK lr \in Nat : lr = Len(rowspans)
      BY <2>1 DEF LayoutTypes
    <3>2. cell \in [1..lr -> CellSet]
      BY <2>1, <3>1 DEF Rowspans
    <3>3. cell \in Seq(CellSet) /\ DOMAIN cell = 1..lr
      BY <3>2, SeqDef
    <3>4. Len(cell) = lr
      BY <3>1, <3>3
    <3> QED
      BY <3>1, <3>4 DEF Rowspans
  <2>3. ASSUME NEW r \in Rowspans, NEW c, c = cell[r].col, c # 0
        PROVE  /\ cell[r].row <= tables[Parent(c)].spec.rows
               /\ columns[c].spec.build = "unique" => cell[r].row <= count.counter_upto
               /\ rowspans[r] \in BlocksOf(Parent(c))
               /\ r - rowBlocks[rowspans[r]].from = c - tables[Parent(c)].columnsFrom
    <3>1. PICK d \in Columns : \E b \in BlocksOf(Parent(d)) : r = At(d, b) /\ Past(d, b)
      BY <1>2, <2>3 DEF BuildInv, OwnInv
    <3>2. PICK b \in BlocksOf(Parent(d)) : r = At(d, b) /\ Past(d, b)
      BY <3>1
    <3>3. cell[r] = [col |-> d, row |-> RowsBefore(Parent(d), b) + 1 + Moved(b)]
      BY <1>2, <3>2 DEF BuildInv, FillInv, Filled
    <3>4. c = d
      BY <2>3, <3>3
    <3>5. PICK t \in Tables : t = Parent(c) /\ c \in ColumnsOf(t) /\ b \in BlocksOf(t)
      BY <2>1, <3>2, <3>4, ParentFacts
    <3>6. PICK before \in Nat, n \in Nat \ {0}, rs \in Nat :
             /\ before = RowsBefore(t, b) /\ n = rowBlocks[b].rows /\ rs = tables[t].spec.rows
             /\ before + n <= rs
      <4>1. PICK rs \in Nat : rs = tables[t].spec.rows
        BY <2>1, TableFacts
      <4> QED
        BY <2>1, <3>5, <4>1, RowsBeforeFacts
    <3>7. PICK k \in Nat : k = Len(written[b]) /\ k <= n
      <4>1. b \in RowBlockSet
        BY <2>1, <3>5, TableFacts
      <4>2. WriteInv(b) /\ Len(written[b]) \in Nat
        BY <1>2, <4>1 DEF BuildInv, BuildTypes
      <4> QED
        BY <3>6, <4>2 DEF WriteInv
    <3>8. Moved(b) = IF k = n THEN k - 1 ELSE k
      BY <3>6, <3>7 DEF Moved
    <3>9. PICK m \in Nat : m = Moved(b) /\ m + 1 <= n
      BY <3>7, <3>8
    <3>10. PICK x \in Nat : x = cell[r].row /\ x <= rs
      <4>1. cell[r].row = before + 1 + m
        BY <3>3, <3>4, <3>5, <3>6, <3>9
      <4>2. before + 1 + m \in Nat /\ before + 1 + m <= rs
        BY <3>6, <3>9
      <4> QED
        BY <4>1, <4>2
    <3>11. ASSUME columns[c].spec.build = "unique" PROVE x <= count.counter_upto
      <4>1. PICK cf, w \in Nat : cf = tables[t].columnsFrom /\ w = ColsOf(t)
        BY <2>1, TableFacts
      <4>2. c \in cf .. cf + w - 1
        BY <3>5, <4>1 DEF ColumnsOf
      <4>3. PICK i \in 1..w : i = c + 1 - cf
        <5>1. c + 1 - cf \in 1..w
          BY <4>1, <4>2
        <5> QED
          BY <5>1
      <4>4. tables[t].spec.cols[i].build = "unique"
        BY <2>1, <3>5, <3>11, <4>1, <4>3, TableFacts DEF ColumnHooked
      <4>5. Counted(tables[t].spec)
        BY <4>1, <4>3, <4>4 DEF Counted, ColsOf
      <4>6. IsSpec(tables[t].spec)
        BY <2>1, TableFacts DEF TableSound, IsSpec
      <4>7. rs <= count.counter_upto /\ count.counter_upto \in Nat
        BY <2>1, <3>6, <4>5, <4>6, CountFacts DEF LayoutTypes
      <4>8. PICK upto \in Nat : upto = count.counter_upto
        BY <4>7
      <4> QED
        BY <3>6, <3>10, <4>7, <4>8
    <3>12. rowspans[r] = b /\ r - rowBlocks[b].from = c - tables[t].columnsFrom
      BY <2>1, <3>2, <3>4, <3>5, AtFacts
    <3> QED
      BY <3>5, <3>6, <3>10, <3>11, <3>12
  <2> QED
    BY <2>2, <2>3 DEF CellsExist
<1> QED
  BY <1>1, <1>2

(* What the invariant says of the rows. *)
LEMMA BuildRows ==
    ASSUME BuildInv
    PROVE  RowsAligned
<1>1. CASE stage = "hook"
  <2>1. 1..Len(written) = {}
    BY <1>1 DEF BuildInv, BuildTypes
  <2> QED
    BY <2>1 DEF RowsAligned
<1>2. CASE stage # "hook"
  BY <1>2, Zenon DEF BuildInv, AlignInv, RowOf, RowsAligned
<1> QED
  BY <1>1, <1>2

(* CellsExist holds whatever the input: a column that steps col_count      *)
(* rowspans on (generate/column_integer.c) stays in its column and its     *)
(* rows, and a row block (generate/row_block.c) never moves a cell pointer *)
(* past the last row of the table, or of the counter's strings.            *)
THEOREM CellPointersStayInColumn == Spec => []CellsExist
<1>1. Init => LayoutInv /\ BuildInv
  BY LayoutHolds, BuildInit
<1>2. LayoutInv /\ BuildInv /\ [Next]_vars => (LayoutInv /\ BuildInv)'
  BY LayoutHolds, BuildStep
<1>3. LayoutInv /\ BuildInv => CellsExist
  BY BuildCells
<1> QED
  BY <1>1, <1>2, <1>3, PTL DEF Spec

(* RowsAligned holds whatever the input, the sizes of the row blocks and   *)
(* the order of the tasks: row k of a table's file is made of the k-th     *)
(* cell of every column.                                                   *)
THEOREM RowsAreAligned == Spec => []RowsAligned
<1>1. Init => LayoutInv /\ BuildInv
  BY LayoutHolds, BuildInit
<1>2. LayoutInv /\ BuildInv /\ [Next]_vars => (LayoutInv /\ BuildInv)'
  BY LayoutHolds, BuildStep
<1>3. LayoutInv /\ BuildInv => RowsAligned
  BY BuildRows
<1> QED
  BY <1>1, <1>2, <1>3, PTL DEF Spec

-----------------------------------------------------------------------------
(***************************************************************************)
(* Bytes                                                                   *)
(***************************************************************************)

(* The bytes of the first r cells of column c. *)
Off(c, r) ==
    IF r = 0 THEN 0
    ELSE IF columns[c].spec.build = "fixed" THEN r * columns[c].spec.width
    ELSE counter_size_upto(r)

(* What a cell, and a run of cells, adds to them. *)
LEMMA OffFacts ==
    ASSUME LayoutInv, hook = "done", NEW c \in Columns, NEW r \in Nat \ {0}
    PROVE  /\ r <= tables[Parent(c)].spec.rows =>
                 /\ Off(c, r) \in Nat /\ Off(c, r - 1) \in Nat /\ Width(c, r) \in Nat \ {0}
                 /\ Off(c, r) = Off(c, r - 1) + Width(c, r)
           /\ \A n \in Nat \ {0} :
                 r + n - 1 <= tables[Parent(c)].spec.rows =>
                    /\ CellBytes(c, r, n) = Off(c, r + n - 1) - Off(c, r - 1)
                    /\ Off(c, r + n - 1) \in Nat /\ Off(c, r - 1) \in Nat
                    /\ CellBytes(c, r, n) \in Int
<1>1. PICK t \in Tables : t = Parent(c)
  BY ParentFacts
<1>2. PICK rs \in Nat : rs = tables[t].spec.rows /\ rs <= UPTO_MAX
  <2>1. IsSpec(tables[t].spec) /\ input \in Inputs
    BY TableFacts DEF TableSound, IsSpec, LayoutInv, LayoutTypes
  <2> QED
    BY <2>1, TableFacts, SpecFacts DEF IsSpec
<1>3. PICK w \in Nat \ {0} : w = columns[c].spec.width
  <2>1. columns[c] \in ColumnSet
    BY DEF LayoutInv, LayoutTypes, Columns
  <2>2. columns[c].spec \in ColSpecSet
    BY <2>1 DEF ColumnSet
  <2>3. columns[c].spec.width \in Nat \ {0}
    BY <2>2 DEF ColSpecSet
  <2> QED
    BY <2>3
<1>4. ASSUME NEW k \in Nat, k <= rs PROVE Off(c, k) \in Nat
  <2>1. CASE k = 0
    BY <2>1 DEF Off
  <2>2. CASE k # 0 /\ columns[c].spec.build = "fixed"
    <3>1. k * w \in Nat
      OBVIOUS
    <3> QED
      BY <1>3, <2>2, <3>1 DEF Off
  <2>3. CASE k # 0 /\ columns[c].spec.build # "fixed"
    <3>1. k \in 1..UPTO_MAX
      BY <1>2, <1>4, <2>3, UptoNatural
    <3> QED
      BY <2>3, <3>1, SizeStep DEF Off
  <2> QED
    BY <2>1, <2>2, <2>3
<1>5. ASSUME r <= rs PROVE Width(c, r) \in Nat \ {0} /\ Off(c, r) = Off(c, r - 1) + Width(c, r)
  <2>1. CASE columns[c].spec.build = "fixed"
    <3>1. Width(c, r) = w
      BY <1>3, <2>1 DEF Width
    <3>2. Off(c, r) = r * w
      BY <1>3, <2>1 DEF Off
    <3>3. Off(c, r - 1) = (r - 1) * w
      <4>1. 0 * w = 0
        OBVIOUS
      <4> QED
        BY <1>3, <2>1, <4>1 DEF Off
    <3>4. r * w = (r - 1) * w + w
      OBVIOUS
    <3> QED
      BY <3>1, <3>2, <3>3, <3>4
  <2>2. CASE columns[c].spec.build # "fixed"
    <3>1. r \in 1..UPTO_MAX
      BY <1>2, <1>5, UptoNatural
    <3>2. Width(c, r) = counter_size_mag_upto(r) /\ Off(c, r) = counter_size_upto(r)
      BY <2>2 DEF Width, Off
    <3>3. CASE r = 1
      <4>1. Off(c, r - 1) = 0
        BY <3>3 DEF Off
      <4> QED
        BY <3>1, <3>2, <3>3, <4>1, SizeStep
    <3>4. CASE r > 1
      <4>1. Off(c, r - 1) = counter_size_upto(r - 1)
        BY <2>2, <3>4 DEF Off
      <4> QED
        BY <3>1, <3>2, <3>4, <4>1, SizeStep
    <3> QED
      BY <3>3, <3>4
  <2> QED
    BY <2>1, <2>2
<1>6. ASSUME NEW n \in Nat \ {0}, r + n - 1 <= rs
      PROVE  /\ CellBytes(c, r, n) = Off(c, r + n - 1) - Off(c, r - 1)
             /\ Off(c, r + n - 1) \in Nat /\ Off(c, r - 1) \in Nat
             /\ CellBytes(c, r, n) \in Int
  <2>1. PICK e \in Nat \ {0} : e = r + n - 1 /\ e <= rs
    BY <1>6
  <2>2. PICK d \in Nat : d = r - 1 /\ d <= rs /\ e - d = n
    BY <1>2, <1>6, <2>1
  <2>3. Off(c, e) \in Nat /\ Off(c, d) \in Nat
    BY <1>4, <2>1, <2>2
  <2>4. CellBytes(c, r, n) = Off(c, e) - Off(c, d)
    <3>1. CASE columns[c].spec.build = "fixed"
      <4>1. CellBytes(c, r, n) = n * w
        BY <1>3, <3>1 DEF CellBytes
      <4>2. Off(c, e) = e * w
        BY <1>3, <2>1, <3>1 DEF Off
      <4>3. Off(c, d) = d * w
        <5>1. 0 * w = 0
          OBVIOUS
        <5> QED
          BY <1>3, <3>1, <5>1 DEF Off
      <4>4. e * w - d * w = (e - d) * w
        OBVIOUS
      <4> QED
        BY <2>2, <4>1, <4>2, <4>3, <4>4
    <3>2. CASE columns[c].spec.build # "fixed"
      <4>1. Off(c, e) = counter_size_upto(e)
        BY <2>1, <3>2 DEF Off
      <4>2. Off(c, d) = IF r = 1 THEN 0 ELSE counter_size_upto(d)
        BY <2>2, <3>2 DEF Off
      <4>3. CellBytes(c, r, n) = counter_size_upto(e) - IF r = 1 THEN 0 ELSE counter_size_upto(d)
        BY <2>1, <2>2, <3>2 DEF CellBytes
      <4> QED
        BY <4>1, <4>2, <4>3
    <3> QED
      BY <3>1, <3>2
  <2> QED
    BY <2>1, <2>2, <2>3, <2>4
<1>7. ASSUME r <= rs PROVE Off(c, r) \in Nat /\ Off(c, r - 1) \in Nat
  BY <1>2, <1>4, <1>7
<1> QED
  BY <1>1, <1>2, <1>5, <1>6, <1>7

(* The cells of columns 1, 2, ... of table t: n cells each from row r on,  *)
(* and the first r.                                                        *)
CellsOf(t, r, n) == [c \in ColumnsOf(t) |-> CellBytes(c, r, n)]
OffsOf(t, r) == [c \in ColumnsOf(t) |-> Off(c, r)]

(* The text of the first r rows of table t: a cell's null byte makes room  *)
(* for the delimiter or the newline after it, except in a join.            *)
TextTo(t, r) == Sum(OffsOf(t, r), ColumnsOf(t)) - Joins(t) * r

(* The columns of a table, counted. *)
LEMMA ColumnFacts ==
    ASSUME LayoutInv, hook = "done", NEW t \in Tables
    PROVE  /\ IsFiniteSet(ColumnsOf(t)) /\ Cardinality(ColumnsOf(t)) = ColsOf(t)
           /\ IsFiniteSet({i \in 2..Len(ColSpecs(t)) : ColSpecs(t)[i].name = 0})
           /\ Joins(t) \in Nat /\ Joins(t) + 1 <= ColsOf(t) /\ Len(ColSpecs(t)) = ColsOf(t)
           /\ Cardinality({i \in 2..Len(ColSpecs(t)) : ColSpecs(t)[i].name # 0})
                 = ColsOf(t) - 1 - Joins(t)
<1>1. PICK cf \in Nat, w \in Nat \ {0} : cf = tables[t].columnsFrom /\ w = ColsOf(t)
  BY TableFacts
<1>2. Len(ColSpecs(t)) = w
  BY <1>1 DEF ColsOf, ColSpecs
<1>3. IsFiniteSet(ColumnsOf(t)) /\ Cardinality(ColumnsOf(t)) = w
  <2>1. cf \in Int /\ cf + w - 1 \in Int
    BY <1>1
  <2>2. IsFiniteSet(cf .. cf + w - 1)
        /\ Cardinality(cf .. cf + w - 1) = IF cf > cf + w - 1 THEN 0 ELSE cf + w - 1 - cf + 1
    BY <2>1, FS_Interval
  <2>3. ~(cf > cf + w - 1) /\ cf + w - 1 - cf + 1 = w
    BY <1>1
  <2> QED
    BY <1>1, <2>2, <2>3, Zenon DEF ColumnsOf
<1>4. IsFiniteSet(2..w) /\ Cardinality(2..w) = w - 1
  <2>1. IsFiniteSet(2..w) /\ Cardinality(2..w) = IF 2 > w THEN 0 ELSE w - 2 + 1
    BY FS_Interval
  <2> QED
    BY <2>1
<1> DEFINE J == {i \in 2..w : ColSpecs(t)[i].name = 0}
<1>5. IsFiniteSet(J) /\ Cardinality(J) <= w - 1 /\ Cardinality(J) \in Nat
  <2>1. J \in SUBSET (2..w)
    OBVIOUS
  <2> HIDE DEF J
  <2>2. IsFiniteSet(J) /\ Cardinality(J) <= Cardinality(2..w)
    BY <1>4, <2>1, FS_Subset
  <2> QED
    BY <1>4, <2>2, FS_CardinalityType
<1>6. Joins(t) = Cardinality(J)
  BY <1>2 DEF Joins
<1>7. Cardinality({i \in 2..w : ColSpecs(t)[i].name # 0}) = w - 1 - Cardinality(J)
  <2>1. {i \in 2..w : ColSpecs(t)[i].name # 0} = (2..w) \ J
    OBVIOUS
  <2>2. (2..w) \cap J = J
    OBVIOUS
  <2> HIDE DEF J
  <2>3. Cardinality((2..w) \ J) = Cardinality(2..w) - Cardinality((2..w) \cap J)
    BY <1>4, FS_Difference
  <2> QED
    BY <1>4, <2>1, <2>2, <2>3
<1>8. Cardinality(J) + 1 <= w
  BY <1>5
<1> QED
  BY <1>1, <1>2, <1>3, <1>5, <1>6, <1>7, <1>8

(* What a run of rows adds to the text of its table. *)
LEMMA TextFacts ==
    ASSUME LayoutInv, hook = "done", NEW t \in Tables
    PROVE  /\ TextTo(t, 0) = 0
           /\ \A r \in 0..tables[t].spec.rows : TextTo(t, r) \in Int
           /\ \A r, n \in Nat \ {0} :
                 r + n - 1 <= tables[t].spec.rows =>
                    /\ Sum(CellsOf(t, r, n), ColumnsOf(t)) \in Int
                    /\ Sum(CellsOf(t, r, n), ColumnsOf(t)) - Joins(t) * n
                          = TextTo(t, r + n - 1) - TextTo(t, r - 1)
<1>1. PICK rs \in Nat : rs = tables[t].spec.rows
  BY TableFacts
<1>2. PICK S : S = ColumnsOf(t) /\ IsFiniteSet(S)
  BY ColumnFacts
<1>3. PICK j \in Nat : j = Joins(t)
  BY ColumnFacts
<1>4. \A c \in S : c \in Columns /\ Parent(c) = t
  BY <1>2, TableFacts
<1>5. ASSUME NEW r \in Nat, r <= rs
      PROVE  Sum(OffsOf(t, r), S) \in Int /\ TextTo(t, r) = Sum(OffsOf(t, r), S) - j * r
             /\ \A c \in S : OffsOf(t, r)[c] = Off(c, r) /\ Off(c, r) \in Int
  <2>1. \A c \in S : OffsOf(t, r)[c] = Off(c, r)
    BY <1>2 DEF OffsOf
  <2>2. ASSUME NEW c \in S PROVE Off(c, r) \in Int
    <3>1. CASE r = 0
      BY <3>1 DEF Off
    <3>2. CASE r # 0
      BY <1>1, <1>4, <1>5, <3>2, OffFacts
    <3> QED
      BY <3>1, <3>2
  <2>3. Sum(OffsOf(t, r), S) \in Int
    BY <1>2, <2>1, <2>2, SumType
  <2>4. TextTo(t, r) = Sum(OffsOf(t, r), S) - j * r
    BY <1>2, <1>3, Zenon DEF TextTo
  <2> QED
    BY <2>1, <2>2, <2>3, <2>4
<1>6. TextTo(t, 0) = 0
  <2>1. \A c \in S : OffsOf(t, 0)[c] = 0
    BY <1>2 DEF OffsOf, Off
  <2>2. {} \in SUBSET S /\ \A c \in S : OffsOf(t, 0)[c] \in Int
    BY <2>1
  <2>3. Sum(OffsOf(t, 0), S) = Sum(OffsOf(t, 0), {})
    BY <1>2, <2>1, <2>2, SumZeroes
  <2>4. Sum(OffsOf(t, 0), {}) = 0
    BY SumEmpty
  <2>5. j * 0 = 0 /\ 0 <= rs /\ 0 \in Nat
    OBVIOUS
  <2>6. TextTo(t, 0) = Sum(OffsOf(t, 0), S) - j * 0
    BY <1>5, <2>5
  <2> QED
    BY <2>3, <2>4, <2>5, <2>6
<1>7. ASSUME NEW r \in 0..rs PROVE TextTo(t, r) \in Int
  <2>1. r \in Nat /\ r <= rs
    OBVIOUS
  <2>2. PICK x \in Int : x = Sum(OffsOf(t, r), S) /\ TextTo(t, r) = x - j * r
    BY <1>5, <2>1
  <2>3. j * r \in Int
    BY <2>1
  <2> QED
    BY <2>2, <2>3
<1>8. ASSUME NEW r \in Nat \ {0}, NEW n \in Nat \ {0}, r + n - 1 <= rs
      PROVE  /\ Sum(CellsOf(t, r, n), S) \in Int
             /\ Sum(CellsOf(t, r, n), S) - j * n = TextTo(t, r + n - 1) - TextTo(t, r - 1)
  <2>1. PICK e, d \in Nat : e = r + n - 1 /\ d = r - 1 /\ e <= rs /\ d <= rs /\ e = d + n
    BY <1>8
  <2>2. ASSUME NEW c \in S
        PROVE  /\ CellsOf(t, r, n)[c] \in Int /\ OffsOf(t, d)[c] \in Int
               /\ OffsOf(t, e)[c] = CellsOf(t, r, n)[c] + OffsOf(t, d)[c]
    <3>1. CellsOf(t, r, n)[c] = CellBytes(c, r, n)
      BY <1>2 DEF CellsOf
    <3>2. CellBytes(c, r, n) = Off(c, e) - Off(c, d) /\ Off(c, e) \in Nat /\ Off(c, d) \in Nat
      BY <1>1, <1>4, <1>8, <2>1, OffFacts
    <3>3. OffsOf(t, e)[c] = Off(c, e) /\ OffsOf(t, d)[c] = Off(c, d)
      BY <1>5, <2>1
    <3> QED
      BY <3>1, <3>2, <3>3
  <2>3. Sum(OffsOf(t, e), S) = Sum(CellsOf(t, r, n), S) + Sum(OffsOf(t, d), S)
    BY <1>2, <2>2, SumPlus
  <2>4. Sum(CellsOf(t, r, n), S) \in Int
    BY <1>2, <2>2, SumType
  <2>5. PICK x, y, z \in Int : /\ x = Sum(OffsOf(t, e), S) /\ y = Sum(OffsOf(t, d), S)
                               /\ z = Sum(CellsOf(t, r, n), S) /\ x = z + y
    BY <1>5, <2>1, <2>3, <2>4
  <2>6. TextTo(t, e) = x - j * e /\ TextTo(t, d) = y - j * d
    BY <1>5, <2>1, <2>5
  <2>7. j * e = j * d + j * n /\ j * e \in Int /\ j * d \in Int /\ j * n \in Int
    BY <2>1
  <2>8. z - j * n = (x - j * e) - (y - j * d)
    BY <2>5, <2>7
  <2> QED
    BY <2>1, <2>5, <2>6, <2>8
<1> QED
  BY <1>1, <1>2, <1>3, <1>6, <1>7, <1>8

(* The cells of row r of table t without their null bytes. *)
WidthsOf(t, r) == [c \in ColumnsOf(t) |-> Width(c, r) - 1]

(* What a row adds to the text of its table. *)
LEMMA RowText ==
    ASSUME LayoutInv, hook = "done", NEW t \in Tables, NEW r \in Nat \ {0},
           r <= tables[t].spec.rows
    PROVE  /\ Sum(WidthsOf(t, r), ColumnsOf(t)) \in Nat
           /\ TextTo(t, r) - TextTo(t, r - 1)
                 = 1 + Sum(WidthsOf(t, r), ColumnsOf(t)) + (ColsOf(t) - 1 - Joins(t))
           /\ TextTo(t, r - 1) < TextTo(t, r)
<1>1. PICK rs \in Nat : rs = tables[t].spec.rows
  BY TableFacts
<1>2. PICK S : /\ S = ColumnsOf(t) /\ IsFiniteSet(S)
               /\ ColsOf(t) \in Nat /\ Cardinality(S) = ColsOf(t)
  BY ColumnFacts, TableFacts
<1>0. PICK w \in Nat : w = ColsOf(t) /\ Cardinality(S) = w
  BY <1>2
<1>3. PICK j \in Nat : j = Joins(t) /\ j + 1 <= w
  BY <1>0, ColumnFacts
<1>4. \A c \in S : c \in Columns /\ Parent(c) = t
  BY <1>2, TableFacts
<1>5. PICK one : one = [c \in S |-> 1]
  OBVIOUS
<1>6. ASSUME NEW c \in S
      PROVE  /\ WidthsOf(t, r)[c] \in Nat /\ one[c] = 1
             /\ CellsOf(t, r, 1)[c] = WidthsOf(t, r)[c] + one[c]
  <2>1. PICK x \in Nat \ {0} : x = Width(c, r) /\ Off(c, r) = Off(c, r - 1) + x
    BY <1>4, OffFacts
  <2>2. WidthsOf(t, r)[c] = x - 1
    BY <1>2, <2>1 DEF WidthsOf
  <2>3. 1 \in Nat \ {0} /\ r + 1 - 1 = r
    OBVIOUS
  <2>4. CellBytes(c, r, 1) = Off(c, r) - Off(c, r - 1) /\ Off(c, r) \in Nat /\ Off(c, r - 1) \in Nat
    BY <1>4, <2>3, OffFacts
  <2>5. CellBytes(c, r, 1) = x
    BY <2>1, <2>4
  <2>6. CellsOf(t, r, 1)[c] = x
    BY <1>2, <2>5 DEF CellsOf
  <2> QED
    BY <1>5, <2>2, <2>6
<1>7. \A c \in S : WidthsOf(t, r)[c] \in Int /\ one[c] \in Int
  BY <1>6
<1>8. Sum(WidthsOf(t, r), S) \in Nat
  BY <1>2, <1>6, SumType
<1>9. Sum(one, S) = w
  BY <1>0, <1>2, <1>6, SumOnes
<1>10. Sum(CellsOf(t, r, 1), S) = Sum(WidthsOf(t, r), S) + Sum(one, S)
  BY <1>2, <1>6, <1>7, SumPlus
<1>11. Sum(CellsOf(t, r, 1), S) - j * 1 = TextTo(t, r + 1 - 1) - TextTo(t, r - 1)
  <2>1. 1 \in Nat \ {0} /\ r + 1 - 1 <= rs
    BY <1>1
  <2> QED
    BY <1>1, <1>2, <1>3, <2>1, TextFacts
<1>12. PICK x, y \in Int : x = TextTo(t, r) /\ y = TextTo(t, r - 1)
  <2>1. r \in 0..rs /\ r - 1 \in 0..rs
    BY <1>1
  <2> QED
    BY <1>1, <2>1, TextFacts
<1>13. PICK z \in Nat : z = Sum(WidthsOf(t, r), S)
  BY <1>8
<1>14. (z + w) - j = x - y
  <2>1. r + 1 - 1 = r /\ j * 1 = j
    OBVIOUS
  <2> QED
    BY <1>9, <1>10, <1>11, <1>12, <1>13, <2>1
<1>15. x - y = 1 + z + (w - 1 - j) /\ y < x
  BY <1>3, <1>14
<1> QED
  BY <1>0, <1>2, <1>3, <1>8, <1>12, <1>13, <1>15

(* More rows, more text. *)
LEMMA TextGrows ==
    ASSUME LayoutInv, hook = "done", NEW t \in Tables,
           NEW r \in Nat, NEW n \in Nat, r + n <= tables[t].spec.rows
    PROVE  TextTo(t, r) <= TextTo(t, r + n)
<1>1. PICK rs \in Nat : rs = tables[t].spec.rows
  BY TableFacts
<1> DEFINE T == {k \in Nat : r + k <= rs => TextTo(t, r) <= TextTo(t, r + k)}
<1>2. 0 \in T
  <2>1. r \in 0..rs /\ r + 0 = r
    BY <1>1
  <2>2. PICK x \in Int : x = TextTo(t, r)
    BY <1>1, <2>1, TextFacts
  <2>3. x <= x
    OBVIOUS
  <2> QED
    BY <2>1, <2>2, <2>3
<1>3. ASSUME NEW k \in T PROVE k + 1 \in T
  <2>1. k \in Nat /\ k + 1 \in Nat
    OBVIOUS
  <2>2. ASSUME r + (k + 1) <= rs PROVE TextTo(t, r) <= TextTo(t, r + (k + 1))
    <3>1. PICK q \in Nat \ {0} : q = r + (k + 1) /\ q <= rs /\ q - 1 = r + k /\ r + k <= rs
      BY <2>1, <2>2
    <3>2. TextTo(t, r) <= TextTo(t, q - 1)
      BY <3>1
    <3>3. TextTo(t, q - 1) < TextTo(t, q)
      BY <1>1, <3>1, RowText
    <3>4. r \in 0..rs /\ q - 1 \in 0..rs /\ q \in 0..rs
      BY <1>1, <3>1
    <3>5. PICK x, y, z \in Int : x = TextTo(t, r) /\ y = TextTo(t, q - 1) /\ z = TextTo(t, q)
      BY <1>1, <3>4, TextFacts
    <3>6. x <= z
      BY <3>2, <3>3, <3>5
    <3> QED
      BY <3>1, <3>5, <3>6
  <2> QED
    BY <2>1, <2>2
<1>4. T \in SUBSET Nat
  OBVIOUS
<1> HIDE DEF T
<1>5. n \in T
  BY <1>2, <1>3, <1>4, Induction
<1> QED
  BY <1>1, <1>5 DEF T

(* The size of the file: its header, and the totals without the null bytes *)
(* that no delimiter replaces.                                             *)
LEMMA HeaderFacts ==
    ASSUME LayoutInv, hook = "done", NEW t \in Tables, tableTotal[t] \in Int
    PROVE  /\ table_put_header(t) \in Int
           /\ table_size_contents(t)
                 = table_put_header(t) + (tableTotal[t] - Joins(t) * tables[t].spec.rows)
<1>1. PICK w \in Nat \ {0} : w = ColsOf(t)
  BY TableFacts
<1>2. PICK cs : cs = ColSpecs(t)
  OBVIOUS
<1>3. cs \in Seq(ColSpecSet) /\ Len(cs) = w /\ cs # <<>>
  <2>1. IsSpec(tables[t].spec) /\ input \in Inputs
    BY TableFacts DEF TableSound, IsSpec, LayoutInv, LayoutTypes
  <2>2. tables[t].spec.cols \in Seq(ColSpecSet) /\ Len(tables[t].spec.cols) = w
    BY <1>1, <2>1, SpecFacts DEF IsSpec, ColsOf
  <2>3. cs \in Seq(ColSpecSet) /\ Len(cs) = w
    BY <1>2, <2>2 DEF ColSpecs
  <2> QED
    BY <2>3
<1>4. \A i \in 1..w : cs[i].name \in Nat
  <2>1. \A i \in 1..w : cs[i] \in ColSpecSet
    BY <1>3
  <2> QED
    BY <2>1 DEF ColSpecSet
<1>5. PICK G : G = [i \in 2..w |-> IF cs[i].name = 0 THEN 0 ELSE 1 + cs[i].name]
  OBVIOUS
<1>6. \A i \in 2..w : G[i] \in Int
  BY <1>4, <1>5
<1>7. IsFiniteSet(2..w)
  BY FS_Interval
<1> DEFINE Named(s) == IF s.name = 0 THEN 0 ELSE 1 + s.name
           N == {i \in 2..w : cs[i].name # 0}
<1>8. SumOver(Tail(cs), Named) = Sum(G, 2..w)
  <2>1. PICK F : F = [i \in DOMAIN Tail(cs) |-> Named(Tail(cs)[i])]
    OBVIOUS
  <2>2. DOMAIN Tail(cs) = 1 .. w - 1 /\ \A i \in 1 .. w - 1 : Tail(cs)[i] = cs[i + 1]
    BY <1>3
  <2>3. DOMAIN F = 1 .. w - 1
    BY <2>1, <2>2
  <2>4. SumOver(Tail(cs), Named) = Sum(F, 1 .. w - 1)
    <3>1. SumOver(Tail(cs), Named) = SumFunction(F)
      BY <2>1, Zenon DEF SumOver
    <3> QED
      BY <2>3, <3>1, Zenon DEF SumFunction, Sum
  <2>5. PICK n \in Nat : n = w - 1
    OBVIOUS
  <2>6. ASSUME NEW i \in 0 .. n - 1 PROVE F[1 + i] = G[2 + i] /\ F[1 + i] \in Int
    <3>1. PICK k \in 1 .. w - 1 : k = 1 + i
      BY <2>5
    <3>2. k + 1 = 2 + i /\ k + 1 \in 2..w
      BY <2>5, <3>1
    <3>3. F[k] = Named(cs[k + 1])
      BY <2>1, <2>2
    <3>4. G[k + 1] = Named(cs[k + 1])
      BY <1>5, <3>2
    <3> QED
      BY <1>6, <3>1, <3>2, <3>3, <3>4
  <2>7. Sum(F, 1 .. 1 + n - 1) = Sum(G, 2 .. 2 + n - 1)
    <3>1. 1 \in Int /\ 2 \in Int
      OBVIOUS
    <3>2. PICK a, b \in Int : a = 1 /\ b = 2
      BY <3>1
    <3>3. SameTerms(F, G, a, b, n)
      BY <2>6, <3>2 DEF SameTerms
    <3>4. Sum(F, a .. a + n - 1) = Sum(G, b .. b + n - 1)
      BY <3>3, SumShift
    <3>5. a .. a + n - 1 = 1 .. 1 + n - 1 /\ b .. b + n - 1 = 2 .. 2 + n - 1
      BY <3>2
    <3> QED
      BY <3>4, <3>5, Zenon
  <2>8. 1 + n - 1 = w - 1 /\ 2 + n - 1 = w
    BY <2>5
  <2> QED
    BY <2>4, <2>7, <2>8
<1>9. SumFunction([i \in N |-> 1 + cs[i].name]) = Sum(G, 2..w)
  <2>1. PICK F : F = [i \in N |-> 1 + cs[i].name]
    OBVIOUS
  <2>2. SumFunction(F) = Sum(F, N)
    <3>1. DOMAIN F = N
      BY <2>1
    <3> QED
      BY <3>1, Zenon DEF SumFunction, Sum
  <2>3. N \in SUBSET (2..w) /\ \A i \in (2..w) \ N : G[i] = 0
    BY <1>5
  <2>4. \A i \in N : F[i] = G[i] /\ F[i] \in Int
    BY <1>4, <1>5, <2>1
  <2> HIDE DEF N
  <2>5. Sum(G, 2..w) = Sum(G, N)
    BY <1>6, <1>7, <2>3, SumZeroes
  <2>6. IsFiniteSet(N)
    BY <1>7, <2>3, FS_Subset
  <2>7. Sum(F, N) = Sum(G, N)
    BY <2>4, <2>6, SumSame
  <2> QED
    BY <2>1, <2>2, <2>5, <2>7
<1>10. PICK g \in Int : g = Sum(G, 2..w)
  BY <1>6, <1>7, SumType
<1>11. /\ TABLE_HEADER[1] = 4 /\ TABLE_HEADER[2] = 78 /\ TABLE_HEADER[3] = 37
       /\ TABLE_HEADER[4] = 55 /\ TABLE_HEADER[5] = 347 /\ DOMAIN TABLE_HEADER = 1..5
  BY DEF TABLE_HEADER
<1>12. TABLE_HEADER_BASE_SIZE = 4 + 78 + 37 + 55 + 347
  <2>1. PICK h : h = TABLE_HEADER
    OBVIOUS
  <2>2. TABLE_HEADER_BASE_SIZE = Sum(h, 1..5)
    BY <1>11, <2>1, Zenon DEF TABLE_HEADER_BASE_SIZE, SumFunction, Sum
  <2>3. \A k \in 1..5 : h[k] \in Nat
    BY <1>11, <2>1
  <2>4. /\ Sum(h, 1..0) = 0
        /\ \A k \in 1..5 : Sum(h, 1..k) = Sum(h, 1 .. k - 1) + h[k]
    BY <2>3, FirstSums
  <2>5. Sum(h, 1..1) = 4
    BY <1>11, <2>1, <2>4
  <2>6. Sum(h, 1..2) = 4 + 78
    BY <1>11, <2>1, <2>4, <2>5
  <2>7. Sum(h, 1..3) = 4 + 78 + 37
    BY <1>11, <2>1, <2>4, <2>6
  <2>8. Sum(h, 1..4) = 4 + 78 + 37 + 55
    BY <1>11, <2>1, <2>4, <2>7
  <2>9. Sum(h, 1..5) = 4 + 78 + 37 + 55 + 347
    BY <1>11, <2>1, <2>4, <2>8
  <2> QED
    BY <2>2, <2>9
<1>13. PICK nm \in Nat, k \in Nat : nm = cs[1].name /\ k = NAMES
  BY <1>3, <1>4 DEF NAMES
<1>14. table_put_header(t) = 4 + 78 + 37 + 55 + k + nm + g + 347
  BY <1>2, <1>3, <1>9, <1>10, <1>11, <1>13 DEF table_put_header
<1>15. PICK x \in Int, y \in Int : x = tableTotal[t] /\ y = Joins(t) * tables[t].spec.rows
  <2>1. PICK a, b \in Nat : a = Joins(t) /\ b = tables[t].spec.rows
    BY ColumnFacts, TableFacts
  <2>2. a * b \in Int
    OBVIOUS
  <2> QED
    BY <2>1, <2>2
<1>16. table_size_contents(t) = 4 + 78 + 37 + 55 + 347 + k + x + nm + g - y
  BY <1>2, <1>8, <1>10, <1>12, <1>13, <1>15 DEF table_size_contents
<1> QED
  BY <1>14, <1>15, <1>16

-----------------------------------------------------------------------------
(***************************************************************************)
(* The invariant of the lengths and places                                 *)
(***************************************************************************)
(* Lengths and places are numbers. *)
BytesTypes ==
    stage # "hook" =>
        /\ join \in [Rowspans -> BOOLEAN]
        /\ blockTotal \in [RowBlockSet -> Int] /\ tableTotal \in [Tables -> Int]
        /\ length \in [Tables -> Int]
        /\ contents \in [RowBlockSet -> Int] /\ ptr \in [RowBlockSet -> Int]

(* A column marks its rowspans as joined when it has no name. *)
JoinInv(c, b) == Past(c, b) => (join[At(c, b)] <=> columns[c].spec.name = 0)

(* The columns whose cells are in the total of row block b... *)
FilledBy(t, b) == {c \in ColumnsOf(t) : Past(c, b)}

(* ... so that this is its total... *)
BlockBytes(t, b) == Sum(CellsOf(t, RowsBefore(t, b) + 1, rowBlocks[b].rows), FilledBy(t, b))

(* ... and in that of table t: a fixed column's when it starts, a unique   *)
(* one's when it is done.                                                  *)
Added(c) == IF columns[c].spec.build = "fixed" THEN from[c] > 0 ELSE Over(c)

AddedBy(t) == {c \in ColumnsOf(t) : Added(c)}

(* ... so that this is its total. *)
TableBytes(t) == Sum(CellsOf(t, 1, tables[t].spec.rows), AddedBy(t))

(* The row blocks have their places. *)
Ready(t) == stage \in {"blocks", "write", "done"} \/ (stage = "init" /\ t \in finished)

(* The length of the file, and the places of its row blocks. *)
PlaceInv(t) ==
    Ready(t) =>
        /\ length[t] = table_put_header(t) + TextTo(t, tables[t].spec.rows)
        /\ \A b \in BlocksOf(t) : contents[b] = table_put_header(t) + TextTo(t, RowsBefore(t, b))

(* Where row block b writes next. *)
PtrInv(t, b) ==
    written[b] # <<>> =>
        ptr[b] = table_put_header(t) + TextTo(t, RowsBefore(t, b) + Len(written[b]))

(* The invariant of lengths and places. *)
BytesInv ==
    /\ BytesTypes
    /\ stage # "hook" =>
          /\ \A c \in Columns : \A b \in BlocksOf(Parent(c)) : JoinInv(c, b)
          /\ \A t \in Tables : \A b \in BlocksOf(t) : blockTotal[b] = BlockBytes(t, b)
          /\ \A t \in Tables : tableTotal[t] = TableBytes(t)
          /\ \A t \in Tables : PlaceInv(t)
          /\ \A t \in Tables : \A b \in BlocksOf(t) : PtrInv(t, b)

(* Before the pool starts. *)
LEMMA BytesInit == Init => BytesInv
  BY DEF Init, BytesInv, BytesTypes

(* What depends on the layout only. *)
LEMMA BytesStill ==
    ASSUME UNCHANGED layoutVars
    PROVE  /\ \A t, r, n : CellsOf(t, r, n)' = CellsOf(t, r, n)
           /\ \A t, r : TextTo(t, r)' = TextTo(t, r)
           /\ \A t : table_put_header(t)' = table_put_header(t)
<1>1. tables' = tables /\ columns' = columns /\ \A t : ColumnsOf(t)' = ColumnsOf(t)
  BY LayoutStill
<1>2. ASSUME NEW t, NEW r, NEW n PROVE CellsOf(t, r, n)' = CellsOf(t, r, n)
  BY <1>1, Zenon DEF CellsOf, CellBytes
<1>3. ASSUME NEW t, NEW r PROVE TextTo(t, r)' = TextTo(t, r)
  <2>1. OffsOf(t, r)' = OffsOf(t, r)
    BY <1>1, Zenon DEF OffsOf, Off
  <2>2. Joins(t)' = Joins(t)
    BY <1>1, Zenon DEF Joins, ColSpecs
  <2> QED
    BY <1>1, <2>1, <2>2, Zenon DEF TextTo, Sum
<1>4. ASSUME NEW t PROVE table_put_header(t)' = table_put_header(t)
  BY <1>1, Zenon DEF table_put_header, ColSpecs
<1> QED
  BY <1>2, <1>3, <1>4

(* The parts of the invariant that a step leaves alone. *)
LEMMA PartsStill ==
    ASSUME UNCHANGED layoutVars
    PROVE  /\ \A c, b : (Past(c, b)' <=> Past(c, b)) /\ join'[At(c, b)] = join[At(c, b)]
                           => (JoinInv(c, b)' <=> JoinInv(c, b))
           /\ \A t, b : BlockBytes(t, b)' = Sum(CellsOf(t, RowsBefore(t, b) + 1, rowBlocks[b].rows),
                                                FilledBy(t, b)')
           /\ \A t : TableBytes(t)' = Sum(CellsOf(t, 1, tables[t].spec.rows), AddedBy(t)')
           /\ \A t : /\ Ready(t)' => Ready(t)
                     /\ length'[t] = length[t] /\ \A b \in BlocksOf(t) : contents'[b] = contents[b]
                     /\ PlaceInv(t)
                     => PlaceInv(t)'
           /\ \A t, b : ptr'[b] = ptr[b] /\ written'[b] = written[b] /\ PtrInv(t, b) => PtrInv(t, b)'
<1>1. columns' = columns /\ tables' = tables /\ rowBlocks' = rowBlocks
  BY LayoutStill
<1>2. ASSUME NEW c, NEW b, Past(c, b)' <=> Past(c, b), join'[At(c, b)] = join[At(c, b)]
      PROVE  JoinInv(c, b)' <=> JoinInv(c, b)
  BY <1>1, <1>2, LayoutStill DEF JoinInv
<1>3. ASSUME NEW t, NEW b
      PROVE  BlockBytes(t, b)' = Sum(CellsOf(t, RowsBefore(t, b) + 1, rowBlocks[b].rows),
                                     FilledBy(t, b)')
  <2>1. RowsBefore(t, b)' = RowsBefore(t, b)
    BY LayoutStill
  <2>2. \A r, n : CellsOf(t, r, n)' = CellsOf(t, r, n)
    BY BytesStill
  <2> QED
    BY <1>1, <2>1, <2>2 DEF BlockBytes, Sum
<1>4. ASSUME NEW t PROVE TableBytes(t)' = Sum(CellsOf(t, 1, tables[t].spec.rows), AddedBy(t)')
  <2>1. \A r, n : CellsOf(t, r, n)' = CellsOf(t, r, n)
    BY BytesStill
  <2> QED
    BY <1>1, <2>1 DEF TableBytes, Sum
<1>5. ASSUME NEW t, Ready(t)' => Ready(t), length'[t] = length[t], PlaceInv(t),
             \A b \in BlocksOf(t) : contents'[b] = contents[b]
      PROVE  PlaceInv(t)'
  <2>1. /\ table_put_header(t)' = table_put_header(t)
        /\ \A r : TextTo(t, r)' = TextTo(t, r)
        /\ BlocksOf(t)' = BlocksOf(t) /\ \A b : RowsBefore(t, b)' = RowsBefore(t, b)
    BY BytesStill, LayoutStill
  <2>2. TextTo(t, tables[t].spec.rows)' = TextTo(t, tables[t].spec.rows)
    BY <1>1, <2>1 DEF TextTo
  <2>3. \A b : TextTo(t, RowsBefore(t, b))' = TextTo(t, RowsBefore(t, b))
    BY <2>1 DEF TextTo
  <2> QED
    BY <1>5, <2>1, <2>2, <2>3 DEF PlaceInv
<1>6. ASSUME NEW t, NEW b, ptr'[b] = ptr[b], written'[b] = written[b], PtrInv(t, b)
      PROVE  PtrInv(t, b)'
  <2>1. table_put_header(t)' = table_put_header(t)
    BY BytesStill
  <2>2. TextTo(t, RowsBefore(t, b) + Len(written[b]))' = TextTo(t, RowsBefore(t, b) + Len(written[b]))
    BY <1>6, BytesStill, LayoutStill DEF TextTo
  <2> QED
    BY <1>6, <2>1, <2>2 DEF PtrInv
<1> QED
  BY <1>2, <1>3, <1>4, <1>5, <1>6

(* A step that changes none of the lengths and places, and lets no table   *)
(* be taken for placed.                                                    *)
LEMMA BytesSame ==
    ASSUME BytesInv, stage # "hook", stage' # "hook", UNCHANGED layoutVars,
           UNCHANGED <<from, join, blockTotal, tableTotal, length, contents, ptr, written>>,
           \A t \in Tables : Ready(t)' => Ready(t)
    PROVE  BytesInv'
<1>1. /\ from' = from /\ join' = join /\ blockTotal' = blockTotal /\ tableTotal' = tableTotal
      /\ length' = length /\ contents' = contents /\ ptr' = ptr /\ written' = written
  OBVIOUS
<1>2. /\ Tables' = Tables /\ Columns' = Columns /\ Rowspans' = Rowspans
      /\ RowBlockSet' = RowBlockSet /\ columns' = columns
  BY LayoutStill
<1>3. BytesTypes'
  BY <1>1, <1>2 DEF BytesInv, BytesTypes
<1>4. \A c, b : Past(c, b)' <=> Past(c, b)
  BY <1>1, RowsStill
<1>5. \A c : Added(c)' <=> Added(c)
  BY <1>1, <1>2, RowsStill DEF Added
<1>6. (\A c \in Columns : \A b \in BlocksOf(Parent(c)) : JoinInv(c, b))'
  BY <1>1, <1>2, <1>4, LayoutStill, PartsStill DEF BytesInv
<1>7. \A t, b : BlockBytes(t, b)' = BlockBytes(t, b)
  <2>1. \A t, b : FilledBy(t, b)' = FilledBy(t, b)
    BY <1>4, LayoutStill DEF FilledBy
  <2> QED
    BY <2>1, PartsStill DEF BlockBytes
<1>8. \A t : TableBytes(t)' = TableBytes(t)
  <2>1. \A t : AddedBy(t)' = AddedBy(t)
    BY <1>5, LayoutStill DEF AddedBy
  <2> QED
    BY <2>1, PartsStill DEF TableBytes
<1>9. (\A t \in Tables : \A b \in BlocksOf(t) : blockTotal[b] = BlockBytes(t, b))'
      /\ (\A t \in Tables : tableTotal[t] = TableBytes(t))'
  BY <1>1, <1>2, <1>7, <1>8, LayoutStill DEF BytesInv
<1>10. (\A t \in Tables : PlaceInv(t))' /\ (\A t \in Tables : \A b \in BlocksOf(t) : PtrInv(t, b))'
  BY <1>1, <1>2, LayoutStill, PartsStill DEF BytesInv
<1> QED
  BY <1>3, <1>6, <1>9, <1>10 DEF BytesInv

(* The pool starts with empty totals. *)
LEMMA BytesPool ==
    ASSUME LayoutInv, StartPool
    PROVE  BytesInv'
<1>1. /\ stage' = "columns" /\ hook = "done" /\ UNCHANGED layoutVars
      /\ from' = [c \in Columns |-> 0] /\ join' = [r \in Rowspans |-> FALSE]
      /\ blockTotal' = [b \in RowBlockSet |-> 0] /\ tableTotal' = [t \in Tables |-> 0]
      /\ length' = [t \in Tables |-> 0]
      /\ contents' = [b \in RowBlockSet |-> 0] /\ ptr' = [b \in RowBlockSet |-> 0]
      /\ written' = [b \in RowBlockSet |-> <<>>]
  BY DEF StartPool
<1>2. /\ Tables' = Tables /\ Columns' = Columns /\ Rowspans' = Rowspans
      /\ RowBlockSet' = RowBlockSet /\ columns' = columns
      /\ \A t : BlocksOf(t)' = BlocksOf(t) /\ ColumnsOf(t)' = ColumnsOf(t)
      /\ \A c : BlocksOf(Parent(c))' = BlocksOf(Parent(c))
  BY <1>1, LayoutStill
<1>3. BytesTypes'
  BY <1>1, <1>2 DEF BytesTypes
<1>4. ASSUME NEW c \in Columns PROVE ~Added(c)' /\ \A b \in BlocksOf(Parent(c)) : ~Past(c, b)'
  <2>1. PICK z \in Nat \ {0} :
           /\ z = tables[Parent(c)].rowspansUntil + (c - tables[Parent(c)].columnsFrom)
           /\ \A b \in BlocksOf(Parent(c)) : At(c, b) \in Nat \ {0} /\ z > At(c, b)
    BY <1>1, EndFacts
  <2>2. from'[c] = 0
    BY <1>1
  <2>3. ~Over(c)'
    BY <1>1, <2>1, <2>2, LayoutStill DEF Over
  <2>4. ~(from'[c] > 0)
    BY <2>2
  <2>5. ASSUME NEW b \in BlocksOf(Parent(c)) PROVE ~Past(c, b)'
    <3>1. PICK x \in Nat : x = At(c, b) /\ x = At(c, b)'
      BY <1>1, <2>1, LayoutStill
    <3> QED
      BY <2>2, <3>1 DEF Past
  <2> QED
    BY <2>3, <2>4, <2>5 DEF Added
<1>5. (\A c \in Columns : \A b \in BlocksOf(Parent(c)) : JoinInv(c, b))'
  BY <1>2, <1>4 DEF JoinInv
<1>6. ASSUME NEW t \in Tables
      PROVE  /\ tableTotal'[t] = TableBytes(t)' /\ PlaceInv(t)'
             /\ \A b \in BlocksOf(t) : blockTotal'[b] = BlockBytes(t, b)' /\ PtrInv(t, b)'
  <2>1. \A c \in ColumnsOf(t) : c \in Columns /\ Parent(c) = t
    BY <1>1, TableFacts
  <2>2. AddedBy(t)' = {}
    BY <1>2, <1>4, <2>1 DEF AddedBy
  <2>3. TableBytes(t)' = 0
    BY <1>1, <2>2, PartsStill, SumEmpty
  <2>4. PlaceInv(t)'
    BY <1>1 DEF PlaceInv, Ready
  <2>5. ASSUME NEW b \in BlocksOf(t) PROVE blockTotal'[b] = BlockBytes(t, b)' /\ PtrInv(t, b)'
    <3>1. FilledBy(t, b)' = {}
      BY <1>2, <1>4, <2>1 DEF FilledBy
    <3>2. BlockBytes(t, b)' = 0
      BY <1>1, <3>1, PartsStill, SumEmpty
    <3>3. b \in RowBlockSet
      BY <1>1, TableFacts
    <3> QED
      BY <1>1, <3>2, <3>3 DEF PtrInv
  <2> QED
    BY <1>1, <2>3, <2>4, <2>5
<1>7. /\ (\A t \in Tables : \A b \in BlocksOf(t) : blockTotal[b] = BlockBytes(t, b))'
      /\ (\A t \in Tables : tableTotal[t] = TableBytes(t))'
      /\ (\A t \in Tables : PlaceInv(t))'
      /\ (\A t \in Tables : \A b \in BlocksOf(t) : PtrInv(t, b))'
  BY <1>2, <1>6
<1> QED
  BY <1>3, <1>5, <1>7 DEF BytesInv

(* Steps of the loop, the barriers between the stages, the last task of a  *)
(* table, and steps that change nothing.                                   *)
LEMMA BytesRest ==
    ASSUME BuildInv, BytesInv, NEW t,
           \/ HookStep
           \/ NextStage("columns", "init", Columns)
           \/ NextStage("init", "blocks", Tables)
           \/ NextStage("blocks", "write", RowBlockSet)
           \/ NextStage("write", "done", Tables)
           \/ build_table_write(t)
           \/ UNCHANGED vars
    PROVE  BytesInv'
<1>1. CASE HookStep
  BY <1>1 DEF HookStep, buildVars, BytesInv, BytesTypes
<1>2. CASE UNCHANGED vars
  <2>1. /\ UNCHANGED layoutVars /\ stage' = stage /\ finished' = finished
        /\ UNCHANGED <<from, join, blockTotal, tableTotal, length, contents, ptr, written>>
    BY <1>2 DEF vars, buildVars
  <2>2. CASE stage = "hook"
    BY <2>1, <2>2 DEF BytesInv, BytesTypes
  <2>3. CASE stage # "hook"
    <3>1. \A s \in Tables : Ready(s)' => Ready(s)
      BY <2>1 DEF Ready
    <3> QED
      BY <2>1, <2>3, <3>1, BytesSame
  <2> QED
    BY <2>2, <2>3
<1>3. CASE NextStage("init", "blocks", Tables)
  <2>1. /\ UNCHANGED layoutVars /\ stage = "init" /\ stage' = "blocks" /\ finished = Tables
        /\ UNCHANGED <<from, join, blockTotal, tableTotal, length, contents, ptr, written>>
    BY <1>3 DEF NextStage
  <2>2. \A s \in Tables : Ready(s)' => Ready(s)
    BY <2>1 DEF Ready
  <2> QED
    BY <2>1, <2>2, BytesSame
<1>4. CASE \/ NextStage("columns", "init", Columns) \/ NextStage("blocks", "write", RowBlockSet)
           \/ NextStage("write", "done", Tables) \/ build_table_write(t)
  <2>1. /\ UNCHANGED layoutVars
        /\ UNCHANGED <<from, join, blockTotal, tableTotal, length, contents, ptr, written>>
        /\ \/ stage = "columns" /\ stage' = "init" /\ finished' = {}
           \/ stage \in {"blocks", "write"} /\ stage' \in {"write", "done"}
    BY <1>4 DEF NextStage, build_table_write
  <2>2. stage # "hook" /\ stage' # "hook" /\ \A s \in Tables : Ready(s)' => Ready(s)
    BY <2>1 DEF Ready
  <2> QED
    BY <2>1, <2>2, BytesSame
<1> QED
  BY <1>1, <1>2, <1>3, <1>4, Zenon

(* The lengths of runs of cells are numbers. *)
LEMMA CellsFacts ==
    ASSUME LayoutInv, hook = "done", NEW t \in Tables, NEW r \in Nat \ {0}, NEW n \in Nat \ {0},
           r + n - 1 <= tables[t].spec.rows
    PROVE  \A c \in ColumnsOf(t) : CellsOf(t, r, n)[c] = CellBytes(c, r, n) /\ CellBytes(c, r, n) \in Int
<1>1. ASSUME NEW c \in ColumnsOf(t)
      PROVE  CellsOf(t, r, n)[c] = CellBytes(c, r, n) /\ CellBytes(c, r, n) \in Int
  <2>1. c \in Columns /\ Parent(c) = t
    BY TableFacts
  <2>2. CellBytes(c, r, n) \in Int
    BY <2>1, OffFacts
  <2> QED
    BY <2>2 DEF CellsOf
<1> QED
  BY <1>1

(* A column adds its length to its table, and to no other. *)
LEMMA TotalsAdd ==
    ASSUME LayoutInv, hook = "done", UNCHANGED layoutVars, NEW c \in Columns,
           tableTotal \in [Tables -> Int], \A t \in Tables : tableTotal[t] = TableBytes(t),
           ~Added(c), Added(c)', \A d \in Columns : d # c => (Added(d)' <=> Added(d)),
           tableTotal' = length_lock_increment(tableTotal, Parent(c),
                             CellBytes(c, 1, tables[Parent(c)].spec.rows))
    PROVE  tableTotal' \in [Tables -> Int] /\ \A t \in Tables : tableTotal'[t] = TableBytes(t)'
<1>1. PICK t \in Tables : t = Parent(c) /\ c \in ColumnsOf(t)
  BY ParentFacts
<1>2. PICK rs \in Nat \ {0} : rs = tables[t].spec.rows
  BY TableFacts
<1>3. PICK F : F = CellsOf(t, 1, rs)
  OBVIOUS
<1>4. \A d \in ColumnsOf(t) : F[d] = CellBytes(d, 1, rs) /\ F[d] \in Int
  <2>1. 1 \in Nat \ {0} /\ 1 + rs - 1 <= rs
    OBVIOUS
  <2> QED
    BY <1>2, <1>3, <2>1, CellsFacts
<1>5. PICK A : A = AddedBy(t) /\ IsFiniteSet(A) /\ A \in SUBSET ColumnsOf(t) /\ c \notin A
  <2>1. AddedBy(t) \in SUBSET ColumnsOf(t) /\ c \notin AddedBy(t)
    BY DEF AddedBy
  <2>2. IsFiniteSet(AddedBy(t))
    BY <2>1, ColumnFacts, FS_Subset
  <2> QED
    BY <2>1, <2>2
<1>6. AddedBy(t)' = A \cup {c}
  <2>1. ColumnsOf(t)' = ColumnsOf(t)
    BY LayoutStill
  <2>2. \A d \in ColumnsOf(t) : d \in Columns
    BY TableFacts
  <2> QED
    BY <1>1, <1>5, <2>1, <2>2 DEF AddedBy
<1>7. Sum(F, A \cup {c}) = Sum(F, A) + F[c] /\ Sum(F, A) \in Int /\ F[c] \in Int
  <2>1. \A d \in A \cup {c} : F[d] \in Int
    BY <1>1, <1>4, <1>5
  <2> QED
    BY <1>5, <2>1, SumInsert
<1>8. TableBytes(t)' = Sum(F, A \cup {c}) /\ TableBytes(t) = Sum(F, A)
  <2>1. TableBytes(t)' = Sum(CellsOf(t, 1, tables[t].spec.rows), AddedBy(t)')
    BY PartsStill
  <2> QED
    BY <1>2, <1>3, <1>5, <1>6, <2>1, Zenon DEF TableBytes
<1>9. tableTotal' = [tableTotal EXCEPT ![t] = tableTotal[t] + F[c]]
  BY <1>1, <1>2, <1>4 DEF length_lock_increment
<1>10. PICK x, y \in Int : x = tableTotal[t] /\ y = F[c]
  BY <1>7
<1>11. tableTotal' \in [Tables -> Int] /\ tableTotal'[t] = x + y
       /\ \A s \in Tables : s # t => tableTotal'[s] = tableTotal[s]
  BY <1>9, <1>10
<1>12. ASSUME NEW s \in Tables, s # t PROVE TableBytes(s)' = TableBytes(s)
  <2>1. \A d \in ColumnsOf(s) : d \in Columns /\ Parent(d) = s
    BY TableFacts
  <2>2. \A d \in ColumnsOf(s) : d # c
    BY <1>1, <1>12, <2>1
  <2>3. ColumnsOf(s)' = ColumnsOf(s)
    BY LayoutStill
  <2>4. AddedBy(s)' = AddedBy(s)
    BY <2>1, <2>2, <2>3 DEF AddedBy
  <2>5. TableBytes(s)' = Sum(CellsOf(s, 1, tables[s].spec.rows), AddedBy(s)')
    BY PartsStill
  <2> QED
    BY <2>4, <2>5, Zenon DEF TableBytes
<1>13. tableTotal'[t] = TableBytes(t)'
  BY <1>7, <1>8, <1>10, <1>11
<1> QED
  BY <1>11, <1>12, <1>13

(* No column adds its length. *)
LEMMA TotalsKeep ==
    ASSUME LayoutInv, hook = "done", UNCHANGED layoutVars,
           \A t \in Tables : tableTotal[t] = TableBytes(t),
           \A d \in Columns : Added(d)' <=> Added(d), tableTotal' = tableTotal
    PROVE  \A t \in Tables : tableTotal'[t] = TableBytes(t)'
<1>1. ASSUME NEW t \in Tables PROVE TableBytes(t)' = TableBytes(t)
  <2>1. \A d \in ColumnsOf(t) : d \in Columns
    BY TableFacts
  <2>2. ColumnsOf(t)' = ColumnsOf(t)
    BY LayoutStill
  <2>3. AddedBy(t)' = AddedBy(t)
    BY <2>1, <2>2 DEF AddedBy
  <2>4. TableBytes(t)' = Sum(CellsOf(t, 1, tables[t].spec.rows), AddedBy(t)')
    BY PartsStill
  <2> QED
    BY <2>3, <2>4, Zenon DEF TableBytes
<1> QED
  BY <1>1

(* A fixed column adds its length when it starts. *)
LEMMA BytesStart ==
    ASSUME LayoutInv, BuildInv, BytesInv, NEW c \in Columns, StartColumn(c)
    PROVE  BytesInv'
<1>1. /\ UNCHANGED layoutVars /\ stage = "columns" /\ stage' = stage /\ from[c] = 0
      /\ join' = join /\ blockTotal' = blockTotal /\ length' = length /\ contents' = contents
      /\ ptr' = ptr /\ written' = written
      /\ UNCHANGED <<join, blockTotal, length, contents, ptr, written>>
  BY DEF StartColumn
<1>2. hook = "done" /\ from \in [Columns -> Nat]
  BY <1>1 DEF BuildInv, BuildTypes
<1>3. \A t \in Tables : ~Ready(t)'
  BY <1>1 DEF Ready
<1>4. CASE from' = from /\ tableTotal' = tableTotal
  <2>1. UNCHANGED <<from, join, blockTotal, tableTotal, length, contents, ptr, written>>
    BY <1>1, <1>4
  <2>2. stage # "hook" /\ stage' # "hook" /\ \A t \in Tables : Ready(t)' => Ready(t)
    BY <1>1, <1>3
  <2> QED
    BY <1>1, <2>1, <2>2, BytesSame
<1>5. CASE /\ from' = [from EXCEPT ![c] = columns[c].rowspansFrom]
           /\ tableTotal' = IF columns[c].spec.build # "fixed" THEN tableTotal
                ELSE length_lock_increment(tableTotal, Parent(c),
                         CellBytes(c, 1, tables[Parent(c)].spec.rows))
  <2>1. PICK b \in BlocksOf(Parent(c)) :
            /\ columns[c].rowspansFrom = At(c, b)
            /\ \A a \in BlocksOf(Parent(c)) : ~(At(c, b) > At(c, a))
    BY <1>2, FirstSpan
  <2>2. PICK z \in Nat \ {0} :
           /\ z = tables[Parent(c)].rowspansUntil + (c - tables[Parent(c)].columnsFrom)
           /\ \A a \in BlocksOf(Parent(c)) : At(c, a) \in Nat \ {0} /\ z > At(c, a)
    BY <1>2, EndFacts
  <2>3. PICK x \in Nat \ {0} : x = At(c, b) /\ z > x
    BY <2>1, <2>2
  <2>4. from'[c] = x /\ \A d \in Columns : d # c => from'[d] = from[d]
    BY <1>2, <1>5, <2>1, <2>3
  <2>5. /\ Tables' = Tables /\ Columns' = Columns /\ Rowspans' = Rowspans
        /\ RowBlockSet' = RowBlockSet /\ columns' = columns
        /\ \A t : BlocksOf(t)' = BlocksOf(t) /\ ColumnsOf(t)' = ColumnsOf(t)
        /\ \A d : BlocksOf(Parent(d))' = BlocksOf(Parent(d))
    BY <1>1, LayoutStill
  <2>6. ASSUME NEW d \in Columns, NEW a \in BlocksOf(Parent(d)) PROVE Past(d, a)' <=> Past(d, a)
    <3>1. CASE d # c
      BY <1>1, <2>4, <3>1, RowsStill
    <3>2. CASE d = c
      <4>1. ~Past(c, a)
        BY <1>1, <3>2, NotStarted
      <4>2. ~Past(c, a)'
        BY <1>1, <2>1, <2>3, <2>4, <3>2, LayoutStill DEF Past
      <4> QED
        BY <3>2, <4>1, <4>2
    <3> QED
      BY <3>1, <3>2
  <2>7. \A d \in Columns : d # c => (Added(d)' <=> Added(d))
    BY <1>1, <2>4, <2>5, RowsStill DEF Added
  <2>8. ~Added(c) /\ (Added(c)' <=> columns[c].spec.build = "fixed")
    <3>1. ~Over(c) /\ ~Over(c)'
      BY <1>1, <2>2, <2>3, <2>4, LayoutStill DEF Over
    <3>2. ~(from[c] > 0) /\ from'[c] > 0
      BY <1>1, <2>3, <2>4
    <3> QED
      BY <2>5, <3>1, <3>2 DEF Added
  <2>9. tableTotal' \in [Tables -> Int] /\ \A t \in Tables : tableTotal'[t] = TableBytes(t)'
    <3>1. tableTotal \in [Tables -> Int] /\ \A t \in Tables : tableTotal[t] = TableBytes(t)
      BY <1>1 DEF BytesInv, BytesTypes
    <3>2. CASE columns[c].spec.build = "fixed"
      BY <1>1, <1>2, <1>5, <2>7, <2>8, <3>1, <3>2, TotalsAdd
    <3>3. CASE columns[c].spec.build # "fixed"
      <4>1. tableTotal' = tableTotal /\ \A d \in Columns : Added(d)' <=> Added(d)
        BY <1>5, <2>7, <2>8, <3>3
      <4> QED
        BY <1>1, <1>2, <3>1, <4>1, TotalsKeep
    <3> QED
      BY <3>2, <3>3
  <2>10. BytesTypes'
    BY <1>1, <2>5, <2>9 DEF BytesInv, BytesTypes
  <2>11. (\A d \in Columns : \A a \in BlocksOf(Parent(d)) : JoinInv(d, a))'
    BY <1>1, <2>5, <2>6, PartsStill DEF BytesInv
  <2>12. ASSUME NEW t \in Tables, NEW a \in BlocksOf(t) PROVE BlockBytes(t, a)' = BlockBytes(t, a)
    <3>1. \A d \in ColumnsOf(t) : d \in Columns /\ Parent(d) = t
      BY <1>2, TableFacts
    <3>2. FilledBy(t, a)' = FilledBy(t, a)
      BY <2>5, <2>6, <3>1 DEF FilledBy
    <3>3. BlockBytes(t, a)' = Sum(CellsOf(t, RowsBefore(t, a) + 1, rowBlocks[a].rows), FilledBy(t, a)')
      BY <1>1, PartsStill
    <3> QED
      BY <3>2, <3>3, Zenon DEF BlockBytes
  <2>13. (\A t \in Tables : \A a \in BlocksOf(t) : blockTotal[a] = BlockBytes(t, a))'
    BY <1>1, <2>5, <2>12 DEF BytesInv
  <2>14. (\A t \in Tables : PlaceInv(t))'
    BY <1>3, <2>5 DEF PlaceInv
  <2>15. (\A t \in Tables : \A a \in BlocksOf(t) : PtrInv(t, a))'
    BY <1>1, <2>5, PartsStill DEF BytesInv
  <2>16. (\A t \in Tables : tableTotal[t] = TableBytes(t))'
    BY <2>5, <2>9
  <2> QED
    BY <2>10, <2>11, <2>13, <2>14, <2>15, <2>16 DEF BytesInv
<1>6. \/ from' = from /\ tableTotal' = tableTotal
      \/ /\ from' = [from EXCEPT ![c] = columns[c].rowspansFrom]
         /\ tableTotal' = IF columns[c].spec.build # "fixed" THEN tableTotal
              ELSE length_lock_increment(tableTotal, Parent(c),
                       CellBytes(c, 1, tables[Parent(c)].spec.rows))
  BY DEF StartColumn
<1> QED
  BY <1>4, <1>5, <1>6

(* A column adds the length of the cells it hooks to their row block, and  *)
(* a unique column its whole length to its table after the last.           *)
LEMMA BytesFill ==
    ASSUME LayoutInv, BuildInv, BytesInv, NEW c \in Columns, FillRowspan(c)
    PROVE  BytesInv'
<1>1. /\ UNCHANGED layoutVars /\ stage = "columns" /\ stage' = stage /\ from[c] > 0
      /\ length' = length /\ contents' = contents /\ ptr' = ptr /\ written' = written
  BY DEF FillRowspan
<1>2. /\ hook = "done" /\ from \in [Columns -> Nat] /\ join \in [Rowspans -> BOOLEAN]
      /\ blockTotal \in [RowBlockSet -> Int] /\ tableTotal \in [Tables -> Int]
  BY <1>1 DEF BuildInv, BuildTypes, BytesInv, BytesTypes
<1>3. PICK b \in BlocksOf(Parent(c)) :
         /\ Reached(c, b) /\ rowspans[from[c]] = b /\ ~Past(c, b) /\ Past(c, b)'
         /\ \A a \in BlocksOf(Parent(c)) : a # b => (Past(c, a)' <=> Past(c, a))
         /\ ~Over(c)
         /\ IF NextRowspan(c) >= tables[Parent(c)].rowspansUntil
            THEN /\ Over(c)'
                 /\ RowsBefore(Parent(c), b) + rowBlocks[b].rows = tables[Parent(c)].spec.rows
            ELSE ~Over(c)'
  BY FillMoves
<1>4. PICK t \in Tables : t = Parent(c) /\ c \in ColumnsOf(t) /\ b \in BlocksOf(t) /\ b \in RowBlockSet
  BY <1>2, <1>3, ParentFacts, TableFacts
<1>5. PICK x \in Nat \ {0} : x = At(c, b) /\ x \in Rowspans /\ x = from[c]
  BY <1>2, <1>3, AtFacts DEF Reached
<1>6. PICK n \in Nat \ {0}, before \in Nat, rs \in Nat \ {0} :
         /\ n = rowBlocks[b].rows /\ before = RowsBefore(t, b) /\ rs = tables[t].spec.rows
         /\ before + n <= rs
  BY <1>2, <1>4, RowsBeforeFacts, TableFacts
<1>7. PICK r \in Nat \ {0} : r = before + 1 /\ r = row[c] /\ r + n - 1 = before + n
  <2>1. row[c] = before + 1
    BY <1>3, <1>4, <1>6 DEF Reached
  <2> QED
    BY <2>1, <1>6
<1>8. PICK next \in Nat : next = NextRowspan(c) /\ next > 0
  <2>1. PICK w \in Nat : w = tables[t].colCount
    BY <1>2, TableFacts
  <2>2. NextRowspan(c) = x + w
    BY <1>4, <1>5, <2>1 DEF NextRowspan
  <2> QED
    BY <2>2
<1>9. /\ join' = [join EXCEPT ![x] = (columns[c].spec.name = 0)]
      /\ blockTotal' = [blockTotal EXCEPT ![b] = blockTotal[b] + CellBytes(c, r, n)]
      /\ from' = [from EXCEPT ![c] = next]
      /\ tableTotal' = IF next >= tables[t].rowspansUntil /\ columns[c].spec.build = "unique"
                       THEN length_lock_increment(tableTotal, t, CellBytes(c, 1, r + n - 1))
                       ELSE tableTotal
  BY <1>3, <1>4, <1>5, <1>6, <1>7, <1>8 DEF FillRowspan, length_lock_increment
<1>10. /\ from'[c] = next /\ \A d \in Columns : d # c => from'[d] = from[d]
       /\ join'[x] = (columns[c].spec.name = 0) /\ \A q \in Rowspans : q # x => join'[q] = join[q]
  BY <1>2, <1>5, <1>9
<1>11. /\ Tables' = Tables /\ Columns' = Columns /\ Rowspans' = Rowspans
       /\ RowBlockSet' = RowBlockSet /\ columns' = columns
       /\ \A s : BlocksOf(s)' = BlocksOf(s) /\ ColumnsOf(s)' = ColumnsOf(s)
       /\ \A d : BlocksOf(Parent(d))' = BlocksOf(Parent(d))
  BY <1>1, LayoutStill
<1>12. ASSUME NEW d \in Columns, NEW a \in BlocksOf(Parent(d)), <<d, a>> # <<c, b>>
       PROVE  (Past(d, a)' <=> Past(d, a)) /\ JoinInv(d, a)'
  <2>1. Past(d, a)' <=> Past(d, a)
    BY <1>1, <1>3, <1>10, <1>12, RowsStill
  <2>0. At(d, a) # At(c, b)
    BY <1>2, <1>12, AtUnique
  <2>2. At(d, a) # x /\ At(d, a) \in Rowspans
    BY <1>2, <1>5, <2>0, AtFacts
  <2>3. join'[At(d, a)] = join[At(d, a)]
    BY <1>10, <2>2
  <2>4. JoinInv(d, a)
    BY <1>1 DEF BytesInv
  <2> QED
    BY <1>1, <2>1, <2>3, <2>4, PartsStill
<1>13. JoinInv(c, b)'
  <2>1. At(c, b)' = x
    BY <1>1, <1>5, LayoutStill
  <2> QED
    BY <1>10, <1>11, <2>1 DEF JoinInv
<1>14. (\A d \in Columns : \A a \in BlocksOf(Parent(d)) : JoinInv(d, a))'
  <2>1. ASSUME NEW d \in Columns, NEW a \in BlocksOf(Parent(d)) PROVE JoinInv(d, a)'
    BY <1>12, <1>13
  <2> QED
    BY <1>11, <2>1
(* The total of the row block. *)
<1>15. PICK F : F = CellsOf(t, r, n)
  OBVIOUS
<1>16. \A d \in ColumnsOf(t) : F[d] = CellBytes(d, r, n) /\ F[d] \in Int
  <2>1. r + n - 1 <= tables[t].spec.rows
    BY <1>6, <1>7
  <2> QED
    BY <1>2, <1>15, <2>1, CellsFacts
<1>17. PICK A : A = FilledBy(t, b) /\ IsFiniteSet(A) /\ A \in SUBSET ColumnsOf(t) /\ c \notin A
  <2>1. FilledBy(t, b) \in SUBSET ColumnsOf(t) /\ c \notin FilledBy(t, b)
    BY <1>3 DEF FilledBy
  <2>2. IsFiniteSet(FilledBy(t, b))
    BY <1>2, <2>1, ColumnFacts, FS_Subset
  <2> QED
    BY <2>1, <2>2
<1>18. FilledBy(t, b)' = A \cup {c}
  <2>1. \A d \in ColumnsOf(t) : d \in Columns /\ Parent(d) = t
    BY <1>2, TableFacts
  <2>2. \A d \in ColumnsOf(t) : d # c => (Past(d, b)' <=> Past(d, b))
    BY <1>4, <1>12, <2>1
  <2>3. FilledBy(t, b)' = {d \in ColumnsOf(t) : Past(d, b)'}
    BY <1>11 DEF FilledBy
  <2> QED
    BY <1>3, <1>4, <1>17, <2>2, <2>3 DEF FilledBy
<1>19. Sum(F, A \cup {c}) = Sum(F, A) + F[c] /\ Sum(F, A) \in Int /\ F[c] \in Int
  <2>1. \A d \in A \cup {c} : F[d] \in Int
    BY <1>4, <1>16, <1>17
  <2> QED
    BY <1>17, <2>1, SumInsert
<1>20. BlockBytes(t, b)' = Sum(F, A \cup {c}) /\ BlockBytes(t, b) = Sum(F, A)
  <2>1. BlockBytes(t, b)' = Sum(CellsOf(t, RowsBefore(t, b) + 1, rowBlocks[b].rows), FilledBy(t, b)')
    BY <1>1, PartsStill
  <2>2. RowsBefore(t, b) + 1 = r
    BY <1>6, <1>7
  <2> QED
    BY <1>6, <1>15, <1>17, <1>18, <2>1, <2>2, Zenon DEF BlockBytes
<1>21. PICK y, z \in Int : y = blockTotal[b] /\ z = F[c] /\ z = CellBytes(c, r, n)
  BY <1>2, <1>4, <1>16, <1>19
<1>22. blockTotal' \in [RowBlockSet -> Int] /\ blockTotal'[b] = y + z
       /\ \A a \in RowBlockSet : a # b => blockTotal'[a] = blockTotal[a]
  BY <1>2, <1>4, <1>9, <1>21
<1>23. blockTotal'[b] = BlockBytes(t, b)'
  <2>1. blockTotal[b] = BlockBytes(t, b)
    BY <1>1, <1>4 DEF BytesInv
  <2> QED
    BY <1>19, <1>20, <1>21, <1>22, <2>1
<1>24. ASSUME NEW s \in Tables, NEW a \in BlocksOf(s), a # b PROVE blockTotal'[a] = BlockBytes(s, a)'
  <2>1. \A d \in ColumnsOf(s) : d \in Columns /\ Parent(d) = s
    BY <1>2, TableFacts
  <2>2. \A d \in ColumnsOf(s) : Past(d, a)' <=> Past(d, a)
    BY <1>12, <1>24, <2>1
  <2>3. FilledBy(s, a)' = FilledBy(s, a)
    BY <1>11, <2>2 DEF FilledBy
  <2>4. BlockBytes(s, a)' = Sum(CellsOf(s, RowsBefore(s, a) + 1, rowBlocks[a].rows), FilledBy(s, a)')
    BY <1>1, PartsStill
  <2>5. BlockBytes(s, a)' = BlockBytes(s, a)
    BY <2>3, <2>4, Zenon DEF BlockBytes
  <2>6. a \in RowBlockSet /\ blockTotal[a] = BlockBytes(s, a)
    BY <1>1, <1>2, TableFacts DEF BytesInv
  <2> QED
    BY <1>22, <1>24, <2>5, <2>6
<1>25. (\A s \in Tables : \A a \in BlocksOf(s) : blockTotal[a] = BlockBytes(s, a))'
  <2>1. ASSUME NEW s \in Tables, NEW a \in BlocksOf(s) PROVE blockTotal'[a] = BlockBytes(s, a)'
    <3>1. a = b => s = t
      BY <1>2, <1>4, ParentFacts
    <3> QED
      BY <1>23, <1>24, <3>1
  <2> QED
    BY <1>11, <2>1
(* The total of the table. *)
<1>26. \A d \in Columns : d # c => (Added(d)' <=> Added(d))
  BY <1>1, <1>10, <1>11, RowsStill DEF Added
<1>27. tableTotal' \in [Tables -> Int] /\ \A s \in Tables : tableTotal'[s] = TableBytes(s)'
  <2>1. \A s \in Tables : tableTotal[s] = TableBytes(s)
    BY <1>1 DEF BytesInv
  <2>2. from'[c] > 0
    BY <1>8, <1>10
  <2>3. columns[c].spec.build = "fixed" \/ columns[c].spec.build = "unique"
    <3>1. columns[c] \in ColumnSet
      BY DEF LayoutInv, LayoutTypes, Columns
    <3> QED
      BY <3>1 DEF ColumnSet, ColSpecSet
  <2>4. CASE columns[c].spec.build = "unique" /\ next >= tables[t].rowspansUntil
    <3>1. ~Added(c) /\ Added(c)' /\ before + n = rs
      BY <1>3, <1>4, <1>6, <1>8, <1>11, <2>4 DEF Added
    <3>2. tableTotal' = length_lock_increment(tableTotal, Parent(c),
                            CellBytes(c, 1, tables[Parent(c)].spec.rows))
      BY <1>4, <1>6, <1>7, <1>9, <2>4, <3>1
    <3> QED
      BY <1>1, <1>2, <1>26, <2>1, <3>1, <3>2, TotalsAdd
  <2>5. CASE ~(columns[c].spec.build = "unique" /\ next >= tables[t].rowspansUntil)
    <3>1. Added(c)' <=> Added(c)
      BY <1>1, <1>3, <1>4, <1>8, <1>11, <2>2, <2>3, <2>5 DEF Added
    <3>2. tableTotal' = tableTotal /\ \A d \in Columns : Added(d)' <=> Added(d)
      BY <1>9, <1>26, <2>5, <3>1
    <3> QED
      BY <1>1, <1>2, <2>1, <3>2, TotalsKeep
  <2> QED
    BY <2>4, <2>5
<1>28. (\A s \in Tables : tableTotal[s] = TableBytes(s))'
  BY <1>11, <1>27
<1>29. BytesTypes'
  <2>1. join' \in [Rowspans -> BOOLEAN]
    <3>1. (columns[c].spec.name = 0) \in BOOLEAN
      OBVIOUS
    <3> QED
      BY <1>2, <1>9, <3>1
  <2> QED
    BY <1>1, <1>11, <1>22, <1>27, <2>1 DEF BytesInv, BytesTypes
<1>30. (\A s \in Tables : PlaceInv(s))'
  BY <1>1, <1>11 DEF PlaceInv, Ready
<1>31. (\A s \in Tables : \A a \in BlocksOf(s) : PtrInv(s, a))'
  BY <1>1, <1>11, PartsStill DEF BytesInv
<1> QED
  BY <1>14, <1>25, <1>28, <1>29, <1>30, <1>31 DEF BytesInv

(* When the columns are done, the totals of a table and its row blocks are *)
(* those of all of its columns.                                            *)
LEMMA TotalsDone ==
    ASSUME LayoutInv, BytesInv, hook = "done", stage # "hook", NEW t \in Tables,
           \A c \in Columns : Over(c)
    PROVE  /\ tableTotal[t] \in Int
           /\ tableTotal[t] - Joins(t) * tables[t].spec.rows = TextTo(t, tables[t].spec.rows)
           /\ TextTo(t, tables[t].spec.rows) \in Int
           /\ \A b \in BlocksOf(t) :
                 /\ TextTo(t, RowsBefore(t, b)) \in Int /\ TextTo(t, RowsBefore(t, b + 1)) \in Int
                 /\ blockTotal[b] - Joins(t) * rowBlocks[b].rows
                       = TextTo(t, RowsBefore(t, b + 1)) - TextTo(t, RowsBefore(t, b))
<1>1. PICK rs \in Nat \ {0} : rs = tables[t].spec.rows
  BY TableFacts
<1>2. PICK S : S = ColumnsOf(t) /\ \A c \in S : c \in Columns /\ Parent(c) = t
  BY TableFacts
<1>3. PICK j \in Nat : j = Joins(t)
  BY ColumnFacts
<1>4. AddedBy(t) = S /\ \A b \in BlocksOf(t) : FilledBy(t, b) = S
  BY <1>2, OverFacts DEF AddedBy, Added, FilledBy
<1>5. /\ tableTotal[t] \in Int /\ tableTotal[t] - j * rs = TextTo(t, rs)
      /\ TextTo(t, rs) \in Int
  <2>1. tableTotal[t] = Sum(CellsOf(t, 1, rs), S)
    BY <1>1, <1>4 DEF BytesInv, TableBytes
  <2>2. 1 \in Nat \ {0} /\ 1 + rs - 1 <= rs /\ 1 + rs - 1 = rs /\ 1 - 1 = 0 /\ rs \in 0..rs
    OBVIOUS
  <2>3. /\ Sum(CellsOf(t, 1, rs), S) \in Int
        /\ Sum(CellsOf(t, 1, rs), S) - j * rs = TextTo(t, 1 + rs - 1) - TextTo(t, 1 - 1)
    BY <1>1, <1>2, <1>3, <2>2, TextFacts
  <2>4. TextTo(t, 0) = 0 /\ TextTo(t, rs) \in Int
    BY <1>1, <2>2, TextFacts
  <2> QED
    BY <2>1, <2>2, <2>3, <2>4
<1>6. ASSUME NEW b \in BlocksOf(t)
      PROVE  /\ TextTo(t, RowsBefore(t, b)) \in Int /\ TextTo(t, RowsBefore(t, b + 1)) \in Int
             /\ blockTotal[b] - j * rowBlocks[b].rows
                   = TextTo(t, RowsBefore(t, b + 1)) - TextTo(t, RowsBefore(t, b))
  <2>1. PICK before \in Nat, n \in Nat \ {0} :
           /\ before = RowsBefore(t, b) /\ n = rowBlocks[b].rows
           /\ RowsBefore(t, b + 1) = before + n /\ before + n <= rs
    BY <1>1, RowsBeforeFacts
  <2>2. PICK r \in Nat \ {0} : r = before + 1 /\ r + n - 1 = before + n /\ r - 1 = before
    <3>1. before + 1 \in Nat \ {0} /\ (before + 1) + n - 1 = before + n /\ (before + 1) - 1 = before
      OBVIOUS
    <3> QED
      BY <3>1
  <2>3. blockTotal[b] = Sum(CellsOf(t, r, n), S)
    BY <1>4, <2>1, <2>2 DEF BytesInv, BlockBytes
  <2>4. Sum(CellsOf(t, r, n), S) - j * n = TextTo(t, r + n - 1) - TextTo(t, r - 1)
    BY <1>1, <1>2, <1>3, <2>1, <2>2, TextFacts
  <2>5. before \in 0..rs /\ before + n \in 0..rs
    BY <2>1
  <2>6. TextTo(t, before) \in Int /\ TextTo(t, before + n) \in Int
    BY <1>1, <2>5, TextFacts
  <2> QED
    BY <2>1, <2>2, <2>3, <2>4, <2>6
<1> QED
  BY <1>1, <1>3, <1>5, <1>6

(* Where build_table_init puts a row block: after the text of the rows     *)
(* before it.                                                              *)
LEMMA Places ==
    ASSUME LayoutInv, BytesInv, hook = "done", stage # "hook", NEW t \in Tables,
           \A c \in Columns : Over(c), NEW b \in BlocksOf(t)
    PROVE  SumFunction([a \in tables[t].blocksFrom .. b - 1 |->
                           blockTotal[a] - Joins(t) * rowBlocks[a].rows])
              = TextTo(t, RowsBefore(t, b))
<1>1. PICK g, u \in Nat : g = tables[t].blocksFrom /\ u = tables[t].blocksUntil
  BY TableFacts
<1>2. b \in g .. u - 1 /\ b \in Int /\ g <= b /\ g \in Int
  BY <1>1 DEF BlocksOf
<1>3. PICK f : f = [a \in g .. b - 1 |-> blockTotal[a] - Joins(t) * rowBlocks[a].rows]
  OBVIOUS
<1>4. PICK d : d = [a \in g .. b |-> TextTo(t, RowsBefore(t, a))]
  OBVIOUS
<1>5. \A a \in g .. b : a \in BlocksOf(t)
  BY <1>1, <1>2 DEF BlocksOf
<1>6. \A a \in g .. b : d[a] = TextTo(t, RowsBefore(t, a)) /\ d[a] \in Int
  BY <1>4, <1>5, TotalsDone
<1>7. ASSUME NEW a \in g .. b - 1 PROVE d[a] \in Int /\ d[a + 1] \in Int /\ f[a] = d[a + 1] - d[a]
  <2>1. a \in g .. b /\ a + 1 \in g .. b
    BY <1>2
  <2>2. f[a] = TextTo(t, RowsBefore(t, a + 1)) - TextTo(t, RowsBefore(t, a))
    BY <1>3, <1>5, <2>1, TotalsDone
  <2> QED
    BY <1>6, <2>1, <2>2
<1>8. Telescopes(f, d, g, b)
  BY <1>7 DEF Telescopes
<1>9. g \in g .. b /\ b \in g .. b
  BY <1>2
<1>10. Sum(f, g .. b - 1) = d[b] - d[g]
  BY <1>2, <1>6, <1>8, <1>9, SumSteps
<1>11. d[g] = 0
  <2>1. RowsBefore(t, g) = 0
    BY <1>1, RowsBeforeFacts
  <2> QED
    BY <1>6, <1>9, <2>1, TextFacts
<1>12. SumFunction(f) = Sum(f, g .. b - 1)
  <2>1. DOMAIN f = g .. b - 1
    BY <1>3
  <2> QED
    BY <2>1, Zenon DEF SumFunction, Sum
<1>13. SumFunction(f) = TextTo(t, RowsBefore(t, b))
  BY <1>6, <1>9, <1>10, <1>11, <1>12
<1> QED
  BY <1>1, <1>3, <1>13, Zenon

(* build_table_init gives the row blocks of its table their places. *)
LEMMA BytesTableInit ==
    ASSUME LayoutInv, BuildInv, BytesInv, NEW t \in Tables, build_table_init(t)
    PROVE  BytesInv'
<1>1. /\ UNCHANGED layoutVars /\ stage = "init" /\ stage' = stage
      /\ from' = from /\ join' = join /\ blockTotal' = blockTotal /\ tableTotal' = tableTotal
      /\ ptr' = ptr /\ written' = written
  BY DEF build_table_init
<1>2. hook = "done" /\ \A c \in Columns : Over(c)
  BY <1>1 DEF BuildInv, BuildTypes, WalkInv
<1>3. CASE length' = length /\ contents' = contents /\ finished' = finished
  <2>1. UNCHANGED <<from, join, blockTotal, tableTotal, length, contents, ptr, written>>
    BY <1>1, <1>3
  <2>2. stage # "hook" /\ stage' # "hook" /\ \A s \in Tables : Ready(s)' => Ready(s)
    BY <1>1, <1>3 DEF Ready
  <2> QED
    BY <1>1, <2>1, <2>2, BytesSame
<1>4. CASE /\ length' = [length EXCEPT ![t] = table_size_contents(t)]
           /\ contents' = [b \in RowBlockSet |->
                IF b \notin BlocksOf(t) THEN contents[b]
                ELSE table_put_header(t)
                     + SumFunction([a \in tables[t].blocksFrom .. b - 1 |->
                           blockTotal[a] - Joins(t) * rowBlocks[a].rows])]
           /\ finished' = finished \cup {t}
  <2>1. /\ length \in [Tables -> Int] /\ contents \in [RowBlockSet -> Int]
        /\ tableTotal \in [Tables -> Int]
    BY <1>1 DEF BytesInv, BytesTypes
  <2>2. PICK h \in Int, x \in Int : h = table_put_header(t) /\ x = TextTo(t, tables[t].spec.rows)
    BY <1>1, <1>2, <2>1, HeaderFacts, TotalsDone
  <2>3. table_size_contents(t) = h + x
    <3>1. table_size_contents(t) = h + (tableTotal[t] - Joins(t) * tables[t].spec.rows)
      BY <1>2, <2>1, <2>2, HeaderFacts
    <3>2. tableTotal[t] - Joins(t) * tables[t].spec.rows = x
      BY <1>1, <1>2, <2>2, TotalsDone
    <3> QED
      BY <3>1, <3>2
  <2>4. length' \in [Tables -> Int] /\ length'[t] = h + x
        /\ \A s \in Tables : s # t => length'[s] = length[s]
    BY <1>4, <2>1, <2>2, <2>3
  <2>5. ASSUME NEW b \in BlocksOf(t)
        PROVE  /\ contents'[b] = h + TextTo(t, RowsBefore(t, b))
               /\ TextTo(t, RowsBefore(t, b)) \in Int
    <3>1. b \in RowBlockSet
      BY <1>2, TableFacts
    <3>2. contents'[b] = h + SumFunction([a \in tables[t].blocksFrom .. b - 1 |->
                                blockTotal[a] - Joins(t) * rowBlocks[a].rows])
      BY <1>4, <2>2, <3>1
    <3>3. SumFunction([a \in tables[t].blocksFrom .. b - 1 |->
                                blockTotal[a] - Joins(t) * rowBlocks[a].rows])
             = TextTo(t, RowsBefore(t, b))
      BY <1>1, <1>2, Places
    <3>4. TextTo(t, RowsBefore(t, b)) \in Int
      BY <1>1, <1>2, TotalsDone
    <3> QED
      BY <3>2, <3>3, <3>4
  <2>6. \A b \in RowBlockSet : b \notin BlocksOf(t) => contents'[b] = contents[b]
    BY <1>4
  <2>7. contents' \in [RowBlockSet -> Int]
    <3>1. \A b \in RowBlockSet : contents'[b] \in Int
      BY <2>1, <2>5, <2>6
    <3>2. DOMAIN contents' = RowBlockSet /\ contents' = [b \in RowBlockSet |-> contents'[b]]
      BY <1>4
    <3> QED
      BY <3>1, <3>2
  <2>8. /\ Tables' = Tables /\ Columns' = Columns /\ Rowspans' = Rowspans
        /\ RowBlockSet' = RowBlockSet /\ columns' = columns /\ tables' = tables
        /\ \A s : BlocksOf(s)' = BlocksOf(s) /\ ColumnsOf(s)' = ColumnsOf(s)
        /\ \A d : BlocksOf(Parent(d))' = BlocksOf(Parent(d))
    BY <1>1, LayoutStill
  <2>9. BytesTypes'
    BY <1>1, <2>4, <2>7, <2>8 DEF BytesInv, BytesTypes
  <2>10. /\ \A c, b : Past(c, b)' <=> Past(c, b)
         /\ \A c : Added(c)' <=> Added(c)
    BY <1>1, <2>8, RowsStill DEF Added
  <2>11. (\A c \in Columns : \A b \in BlocksOf(Parent(c)) : JoinInv(c, b))'
    BY <1>1, <2>8, <2>10, PartsStill DEF BytesInv
  <2>12. \A s, b : BlockBytes(s, b)' = BlockBytes(s, b)
    <3>1. \A s, b : FilledBy(s, b)' = FilledBy(s, b)
      BY <2>8, <2>10 DEF FilledBy
    <3> QED
      BY <1>1, <3>1, PartsStill DEF BlockBytes
  <2>13. \A s : TableBytes(s)' = TableBytes(s)
    <3>1. \A s : AddedBy(s)' = AddedBy(s)
      BY <2>8, <2>10 DEF AddedBy
    <3> QED
      BY <1>1, <3>1, PartsStill DEF TableBytes
  <2>14. /\ (\A s \in Tables : \A b \in BlocksOf(s) : blockTotal[b] = BlockBytes(s, b))'
         /\ (\A s \in Tables : tableTotal[s] = TableBytes(s))'
         /\ (\A s \in Tables : \A b \in BlocksOf(s) : PtrInv(s, b))'
    BY <1>1, <2>8, <2>12, <2>13, PartsStill DEF BytesInv
  <2>15. ASSUME NEW s \in Tables, s # t PROVE PlaceInv(s)'
    <3>1. PlaceInv(s)
      BY <1>1 DEF BytesInv
    <3>2. Ready(s)' => Ready(s)
      BY <1>1, <1>4, <2>15 DEF Ready
    <3>3. \A b \in BlocksOf(s) : contents'[b] = contents[b]
      BY <1>2, <2>6, <2>15, ParentFacts, TableFacts
    <3> QED
      BY <1>1, <2>4, <2>15, <3>1, <3>2, <3>3, PartsStill
  <2>16. PlaceInv(t)'
    <3>1. table_put_header(t)' = h /\ BlocksOf(t)' = BlocksOf(t)
      BY <1>1, <2>2, <2>8, BytesStill
    <3>2. TextTo(t, tables[t].spec.rows)' = x
      BY <1>1, <2>2, <2>8, BytesStill DEF TextTo
    <3>3. \A b : TextTo(t, RowsBefore(t, b))' = TextTo(t, RowsBefore(t, b))
      BY <1>1, BytesStill, LayoutStill DEF TextTo
    <3> QED
      BY <2>4, <2>5, <3>1, <3>2, <3>3 DEF PlaceInv
  <2>17. (\A s \in Tables : PlaceInv(s))'
    BY <2>8, <2>15, <2>16
  <2> QED
    BY <2>9, <2>11, <2>14, <2>17 DEF BytesInv
<1> QED
  BY <1>3, <1>4 DEF build_table_init

(* The row a row block writes next. *)
NextRow(t, b, r) == r = RowsBefore(t, b) + 1 + Len(written[b]) /\ r <= tables[t].spec.rows

(* The bytes of that row: what it adds to the text of its table. *)
LEMMA RowLength ==
    ASSUME LayoutInv, BuildInv, BytesInv, stage = "blocks", NEW t \in Tables,
           NEW b \in BlocksOf(t), b \notin finished,
           NEW r \in Nat \ {0}, NextRow(t, b, r)
    PROVE  RowBytes(rowBlocks[b].from .. rowBlocks[b].until - 1) = TextTo(t, r) - TextTo(t, r - 1)
<1>1. hook = "done" /\ b \in RowBlockSet /\ LayoutTypes
  BY TableFacts DEF BuildInv, BuildTypes, LayoutInv
<1>2. PICK f, e, cf, w \in Nat : /\ f = rowBlocks[b].from /\ e = rowBlocks[b].until /\ f # 0
                                 /\ cf = tables[t].columnsFrom /\ w = ColsOf(t) /\ w # 0
  BY <1>1, TableFacts, BlockTypes
<1>3. e = f + w
  BY <1>1, <1>2, TableFacts DEF BlockHooked
<1>4. PICK spans : spans = f .. e - 1
  OBVIOUS
<1>14. spans = f .. f + w - 1
  BY <1>3, <1>4
<1>5. ColumnsOf(t) = cf .. cf + w - 1
  BY <1>2 DEF ColumnsOf
<1>6. ASSUME NEW i \in 0 .. w - 1
      PROVE  /\ cf + i \in ColumnsOf(t) /\ cell[f + i] = [col |-> cf + i, row |-> r]
             /\ join[f + i] <=> ColSpecs(t)[i + 1].name = 0
  <2>1. PICK c \in cf .. cf + w - 1 : c = cf + i /\ c + 1 - cf = i + 1 /\ f + (c - cf) = f + i
    <3>1. cf + i \in cf .. cf + w - 1 /\ (cf + i) + 1 - cf = i + 1 /\ f + ((cf + i) - cf) = f + i
      OBVIOUS
    <3> QED
      BY <3>1
  <2>2. c \in ColumnsOf(t)
    BY <1>5, <2>1
  <2>3. /\ c \in Columns /\ Parent(c) = t /\ Past(c, b) /\ At(c, b) = f + i
        /\ cell[At(c, b)] = [col |-> c, row |-> r]
    <3>1. /\ c \in Columns /\ Parent(c) = t /\ Past(c, b)
          /\ At(c, b) = rowBlocks[b].from + (c - tables[t].columnsFrom)
          /\ cell[At(c, b)] = [col |-> c, row |-> RowsBefore(t, b) + 1 + Len(written[b])]
      BY <2>2, RowCells
    <3> QED
      BY <1>2, <2>1, <3>1 DEF NextRow
  <2>4. columns[c].spec = ColSpecs(t)[i + 1]
    <3>1. ColumnHooked(t, c)
      BY <1>1, <2>2, TableFacts
    <3> QED
      BY <1>2, <2>1, <3>1 DEF ColumnHooked, ColSpecs
  <2>5. JoinInv(c, b)
    BY <2>3 DEF BytesInv
  <2> QED
    BY <2>1, <2>2, <2>3, <2>4, <2>5 DEF JoinInv
<1>7. PICK G : G = [s \in spans |-> Width(cell[s].col, cell[s].row) - 1]
  OBVIOUS
<1>8. SumFunction(G) = Sum(WidthsOf(t, r), ColumnsOf(t))
  <2>1. ASSUME NEW i \in 0 .. w - 1
        PROVE  G[f + i] = WidthsOf(t, r)[cf + i] /\ G[f + i] \in Int
    <3>1. f + i \in spans
      BY <1>14
    <3>2. cell[f + i].col = cf + i /\ cell[f + i].row = r /\ cf + i \in ColumnsOf(t)
      <4>1. PICK x : x = cf + i
        OBVIOUS
      <4>2. cell[f + i] = [col |-> x, row |-> r] /\ x \in ColumnsOf(t)
        BY <1>6, <4>1
      <4> QED
        BY <4>1, <4>2
    <3>3. cf + i \in Columns /\ Parent(cf + i) = t
      BY <1>1, <3>2, TableFacts
    <3>4. Width(cf + i, r) \in Nat \ {0}
      BY <1>1, <3>3, OffFacts DEF NextRow
    <3>5. G[f + i] = Width(cf + i, r) - 1
      BY <1>7, <3>1, <3>2
    <3>6. WidthsOf(t, r)[cf + i] = Width(cf + i, r) - 1
      BY <3>2 DEF WidthsOf
    <3> QED
      BY <3>4, <3>5, <3>6
  <2>2. SameTerms(G, WidthsOf(t, r), f, cf, w)
    BY <2>1 DEF SameTerms
  <2>3. f \in Int /\ cf \in Int /\ w \in Nat
    BY <1>2
  <2>4. Sum(G, f .. f + w - 1) = Sum(WidthsOf(t, r), cf .. cf + w - 1)
    BY <2>2, <2>3, SumShift
  <2>5. DOMAIN G = spans
    BY <1>7
  <2>6. SumFunction(G) = Sum(G, spans)
    BY <2>5, Zenon DEF SumFunction, Sum
  <2> QED
    BY <1>5, <1>14, <2>4, <2>6, Zenon
<1> DEFINE D == {s \in spans : ~join[s] /\ s - 1 \in spans}
           N == {i \in 2..w : ColSpecs(t)[i].name # 0}
<1>9. Cardinality(D) = Cardinality(N)
  <2>1. PICK k \in Int : k = f - 1
    BY <1>2
  <2>2. D \in SUBSET Int /\ N \in SUBSET Int
    BY <1>14
  <2>3. IsFiniteSet(N)
    <3>1. IsFiniteSet(2..w) /\ N \in SUBSET (2..w)
      BY <1>2, FS_Interval
    <3> HIDE DEF N
    <3> QED
      BY <3>1, FS_Subset
  <2>4. ASSUME NEW x \in N PROVE x + k \in D
    <3>1. PICK i \in 0 .. w - 1 : i = x - 1 /\ i # 0 /\ i + 1 = x /\ f + i = x + k
      <4>1. x \in 2..w
        OBVIOUS
      <4>2. x - 1 \in 0 .. w - 1 /\ x - 1 # 0 /\ (x - 1) + 1 = x /\ f + (x - 1) = x + k
        BY <2>1, <4>1
      <4> QED
        BY <4>2
    <3>2. f + i \in spans /\ f + i - 1 \in spans
      BY <1>14, <3>1
    <3>3. ~join[f + i]
      BY <1>6, <3>1
    <3> QED
      BY <3>1, <3>2, <3>3
  <2>5. ASSUME NEW y \in D PROVE y - k \in N
    <3>1. PICK i \in 0 .. w - 1 : /\ f + i = y /\ i # 0 /\ i + 1 = y - k
                                  /\ i + 1 \in 2..w
      <4>1. y \in f .. f + w - 1 /\ y - 1 \in f .. f + w - 1
        BY <1>14
      <4>2. y - f \in 0 .. w - 1 /\ y - f # 0 /\ f + (y - f) = y /\ (y - f) + 1 = y - k
            /\ (y - f) + 1 \in 2..w
        BY <2>1, <4>1
      <4> QED
        BY <4>2
    <3>2. ~join[f + i]
      BY <3>1
    <3>3. ColSpecs(t)[i + 1].name # 0
      BY <1>6, <3>2
    <3> QED
      BY <3>1, <3>3
  <2> HIDE DEF D, N
  <2> QED
    BY <2>1, <2>2, <2>3, <2>4, <2>5, CardShift
<1>10. PICK j \in Nat : j = Joins(t) /\ j + 1 <= w /\ Cardinality(N) = w - 1 - j
  BY <1>1, <1>2, ColumnFacts
<1>11. RowBytes(spans) = 1 + SumFunction(G) + Cardinality(D)
  BY <1>7, Zenon DEF RowBytes
<1>12. PICK z \in Nat : z = Sum(WidthsOf(t, r), ColumnsOf(t))
                        /\ TextTo(t, r) - TextTo(t, r - 1) = 1 + z + (ColsOf(t) - 1 - Joins(t))
  BY <1>1, RowText DEF NextRow
<1>13. RowBytes(spans) = 1 + z + (w - 1 - j)
  BY <1>8, <1>9, <1>10, <1>11, <1>12
<1> QED
  BY <1>2, <1>4, <1>10, <1>12, <1>13

(* A row block writes its rows one after the other. *)
LEMMA BytesRow ==
    ASSUME LayoutInv, BuildInv, BytesInv, NEW b \in RowBlockSet, build_row_block(b)
    PROVE  BytesInv'
<1>1. /\ UNCHANGED layoutVars /\ stage = "blocks" /\ stage' = stage /\ b \notin finished
      /\ from' = from /\ join' = join /\ blockTotal' = blockTotal /\ tableTotal' = tableTotal
      /\ length' = length /\ contents' = contents
  BY DEF build_row_block
<1>2. /\ hook = "done" /\ ptr \in [RowBlockSet -> Int] /\ contents \in [RowBlockSet -> Int]
      /\ written \in [RowBlockSet -> Seq(Seq(CellSet))]
  BY <1>1 DEF BuildInv, BuildTypes, BytesInv, BytesTypes
<1>3. PICK t \in Tables : b \in BlocksOf(t)
  BY <1>2, ParentFacts
<1>4. PICK before \in Nat, n \in Nat \ {0}, rs \in Nat :
         /\ before = RowsBefore(t, b) /\ n = rowBlocks[b].rows /\ rs = tables[t].spec.rows
         /\ before + n <= rs
  <2>1. PICK rs \in Nat : rs = tables[t].spec.rows
    BY <1>2, TableFacts
  <2> QED
    BY <1>2, <1>3, <2>1, RowsBeforeFacts
<1>5. PICK k \in Nat : k = Len(written[b]) /\ k < n
  <2>1. WriteInv(b)
    BY <1>1 DEF BuildInv
  <2>2. PICK k \in Nat : k = Len(written[b])
    BY <1>2
  <2> QED
    BY <1>1, <1>4, <2>1, <2>2 DEF WriteInv
<1>6. PICK r \in Nat \ {0} : r = before + 1 + k /\ r <= rs /\ r = before + (k + 1) /\ r - 1 = before + k
  <2>0. before + n <= rs /\ k < n
    BY <1>4, <1>5
  <2>1. before + 1 + k \in Nat \ {0} /\ before + 1 + k <= rs /\ before + 1 + k = before + (k + 1)
        /\ (before + 1 + k) - 1 = before + k
    BY <2>0
  <2> QED
    BY <2>1
<1>7. PICK x, y \in Int : x = TextTo(t, r) /\ y = TextTo(t, r - 1)
  <2>1. r \in 0..rs /\ r - 1 \in 0..rs
    BY <1>6
  <2> QED
    BY <1>2, <1>4, <2>1, TextFacts
<1>8. PICK h \in Int : h = table_put_header(t)
  <2>1. tableTotal[t] \in Int
    BY <1>1 DEF BytesInv, BytesTypes
  <2> QED
    BY <1>2, <2>1, HeaderFacts
<1>9. RowBytes(rowBlocks[b].from .. rowBlocks[b].until - 1) = x - y
  <2>1. NextRow(t, b, r)
    BY <1>4, <1>5, <1>6 DEF NextRow
  <2> QED
    BY <1>1, <1>3, <1>7, <2>1, RowLength
(* Where the row begins. *)
<1>10. (IF written[b] = <<>> THEN contents[b] ELSE ptr[b]) = h + y
  <2>1. CASE written[b] = <<>>
    <3>1. k = 0 /\ r - 1 = before
      BY <1>5, <1>6, <2>1
    <3>2. PlaceInv(t) /\ Ready(t)
      BY <1>1 DEF BytesInv, Ready
    <3> QED
      BY <1>3, <1>4, <1>7, <1>8, <2>1, <3>1, <3>2 DEF PlaceInv
  <2>2. CASE written[b] # <<>>
    <3>1. PtrInv(t, b)
      BY <1>1, <1>3 DEF BytesInv
    <3> QED
      BY <1>4, <1>5, <1>6, <1>7, <1>8, <2>2, <3>1 DEF PtrInv
  <2> QED
    BY <2>1, <2>2
<1>11. ptr' = [ptr EXCEPT ![b] = (IF written[b] = <<>> THEN contents[b] ELSE ptr[b])
                                 + RowBytes(rowBlocks[b].from .. rowBlocks[b].until - 1)]
  BY DEF build_row_block
<1>12. ptr' = [ptr EXCEPT ![b] = h + x]
  <2>1. (h + y) + (x - y) = h + x
    BY <1>7, <1>8
  <2> QED
    BY <1>9, <1>10, <1>11, <2>1
<1>13. ptr' \in [RowBlockSet -> Int] /\ ptr'[b] = h + x
       /\ \A a \in RowBlockSet : a # b => ptr'[a] = ptr[a]
  BY <1>2, <1>7, <1>8, <1>12
<1>14. /\ Len(written'[b]) = k + 1
       /\ \A a \in RowBlockSet : a # b => written'[a] = written[a]
  <2>1. PICK cells : cells = [i \in 1..Cardinality(rowBlocks[b].from .. rowBlocks[b].until - 1) |->
                                 cell[rowBlocks[b].from + i - 1]]
    OBVIOUS
  <2>2. written' = [written EXCEPT ![b] = Append(written[b], cells)]
    BY <2>1 DEF build_row_block
  <2>3. PICK s \in Seq(Seq(CellSet)) : s = written[b]
    BY <1>2
  <2>4. Len(Append(s, cells)) = Len(s) + 1
    OBVIOUS
  <2> QED
    BY <1>2, <1>5, <2>2, <2>3, <2>4
<1>15. /\ Tables' = Tables /\ Columns' = Columns /\ Rowspans' = Rowspans
       /\ RowBlockSet' = RowBlockSet /\ columns' = columns
       /\ \A s : BlocksOf(s)' = BlocksOf(s) /\ ColumnsOf(s)' = ColumnsOf(s)
       /\ \A d : BlocksOf(Parent(d))' = BlocksOf(Parent(d))
  BY <1>1, LayoutStill
<1>16. BytesTypes'
  BY <1>1, <1>13, <1>15 DEF BytesInv, BytesTypes
<1>17. /\ \A c, a : Past(c, a)' <=> Past(c, a)
       /\ \A c : Added(c)' <=> Added(c)
  BY <1>1, <1>15, RowsStill DEF Added
<1>18. (\A c \in Columns : \A a \in BlocksOf(Parent(c)) : JoinInv(c, a))'
  BY <1>1, <1>15, <1>17, PartsStill DEF BytesInv
<1>19. \A s, a : BlockBytes(s, a)' = BlockBytes(s, a)
  <2>1. \A s, a : FilledBy(s, a)' = FilledBy(s, a)
    BY <1>15, <1>17 DEF FilledBy
  <2> QED
    BY <1>1, <2>1, PartsStill DEF BlockBytes
<1>20. \A s : TableBytes(s)' = TableBytes(s)
  <2>1. \A s : AddedBy(s)' = AddedBy(s)
    BY <1>15, <1>17 DEF AddedBy
  <2> QED
    BY <1>1, <2>1, PartsStill DEF TableBytes
<1>21. /\ (\A s \in Tables : \A a \in BlocksOf(s) : blockTotal[a] = BlockBytes(s, a))'
       /\ (\A s \in Tables : tableTotal[s] = TableBytes(s))'
  BY <1>1, <1>15, <1>19, <1>20 DEF BytesInv
<1>22. (\A s \in Tables : PlaceInv(s))'
  <2>1. \A s : Ready(s)' => Ready(s)
    BY <1>1 DEF Ready
  <2> QED
    BY <1>1, <1>15, <2>1, PartsStill DEF BytesInv
<1>23. ASSUME NEW s \in Tables, NEW a \in BlocksOf(s) PROVE PtrInv(s, a)'
  <2>1. PtrInv(s, a) /\ a \in RowBlockSet
    BY <1>1, <1>2, TableFacts DEF BytesInv
  <2>2. CASE a # b
    BY <1>1, <1>13, <1>14, <2>1, <2>2, PartsStill
  <2>3. CASE a = b
    <3>1. s = t
      BY <1>2, <1>3, <2>3, ParentFacts
    <3>2. table_put_header(t)' = h /\ RowsBefore(t, b)' = before
      BY <1>1, <1>4, <1>8, BytesStill, LayoutStill
    <3>3. TextTo(t, RowsBefore(t, b) + Len(written[b]))' = x
      <4>1. (RowsBefore(t, b) + Len(written[b]))' = r
        BY <1>6, <1>14, <3>2
      <4>2. TextTo(t, r)' = x
        BY <1>1, <1>7, BytesStill
      <4> QED
        BY <4>1, <4>2 DEF TextTo
    <3> QED
      BY <1>13, <2>3, <3>1, <3>2, <3>3 DEF PtrInv
  <2> QED
    BY <2>2, <2>3
<1>24. (\A s \in Tables : \A a \in BlocksOf(s) : PtrInv(s, a))'
  BY <1>15, <1>23
<1> QED
  BY <1>16, <1>18, <1>21, <1>22, <1>24 DEF BytesInv

(* The invariant of the lengths holds on top of that of the stages. *)
LEMMA BytesStep ==
    ASSUME LayoutInv, BuildInv, BytesInv, [Next]_vars
    PROVE  BytesInv'
<1>1. CASE StartPool
  BY <1>1, BytesPool
<1>2. CASE \/ HookStep
           \/ NextStage("columns", "init", Columns)
           \/ NextStage("init", "blocks", Tables)
           \/ NextStage("blocks", "write", RowBlockSet)
           \/ NextStage("write", "done", Tables)
           \/ Stopped \/ UNCHANGED vars
  BY <1>2, BytesRest DEF Stopped
<1>3. CASE \E c \in Columns : StartColumn(c) \/ FillRowspan(c)
  BY <1>3, BytesStart, BytesFill
<1>4. CASE \E t \in Tables : build_table_init(t) \/ build_table_write(t)
  BY <1>4, BytesTableInit, BytesRest
<1>5. CASE \E b \in RowBlockSet : build_row_block(b)
  BY <1>5, BytesRow
<1> QED
  BY <1>1, <1>2, <1>3, <1>4, <1>5, Zenon DEF Next

(* What the invariant says of the places of the rows. *)
LEMMA BytesTile ==
    ASSUME LayoutInv, BuildInv, BytesInv
    PROVE  BlocksTile
<1>1. CASE stage = "hook"
  <2>1. 1..Len(written) = {}
    BY <1>1 DEF BuildInv, BuildTypes
  <2> QED
    BY <2>1 DEF BlocksTile
<1>2. ASSUME stage # "hook", NEW t \in Tables, NEW b \in BlocksOf(t),
             NEW end, end = IF b + 1 = tables[t].blocksUntil THEN length[t] ELSE contents[b + 1]
      PROVE  /\ written[b] # <<>> => ptr[b] <= end
             /\ Len(written[b]) = rowBlocks[b].rows => ptr[b] = end
             /\ stage \in {"write", "done"} => Len(written[b]) = rowBlocks[b].rows
  <2>1. hook = "done" /\ b \in RowBlockSet
    BY <1>2, TableFacts DEF BuildInv, BuildTypes
  <2>2. WriteInv(b) /\ written[b] \in Seq(Seq(CellSet))
    BY <1>2, <2>1 DEF BuildInv, BuildTypes
  <2>3. PICK rs \in Nat : rs = tables[t].spec.rows
    BY <2>1, TableFacts
  <2>4. PICK before \in Nat, n \in Nat \ {0} :
           /\ before = RowsBefore(t, b) /\ n = rowBlocks[b].rows
           /\ RowsBefore(t, b + 1) = before + n /\ before + n <= rs
    BY <2>1, <2>3, RowsBeforeFacts
  <2>5. PICK k \in Nat : k = Len(written[b]) /\ k <= n /\ (k = 0 <=> written[b] = <<>>)
    BY <2>2, <2>4 DEF WriteInv
  <2>6. PICK h \in Int : h = table_put_header(t)
    <3>1. tableTotal[t] \in Int
      BY <1>2 DEF BytesInv, BytesTypes
    <3> QED
      BY <2>1, <3>1, HeaderFacts
  <2>7. ASSUME k # 0 PROVE ptr[b] <= end /\ (k = n => ptr[b] = end)
    <3>1. stage \in {"blocks", "write", "done"}
      BY <1>2, <2>2, <2>5, <2>7 DEF WriteInv, BuildInv, BuildTypes
    <3>2. PlaceInv(t) /\ Ready(t) /\ PtrInv(t, b)
      BY <1>2, <3>1 DEF BytesInv, Ready
    <3>3. ptr[b] = h + TextTo(t, before + k)
      BY <2>4, <2>5, <2>6, <2>7, <3>2 DEF PtrInv
    <3>4. end = h + TextTo(t, before + n)
      <4>1. CASE b + 1 = tables[t].blocksUntil
        <5>1. before + n = rs
          BY <2>1, <2>3, <2>4, <4>1, RowsBeforeFacts
        <5> QED
          BY <1>2, <2>3, <2>6, <3>2, <4>1, <5>1 DEF PlaceInv
      <4>2. CASE b + 1 # tables[t].blocksUntil
        <5>1. PICK g, u \in Nat : g = tables[t].blocksFrom /\ u = tables[t].blocksUntil
          BY <2>1, TableFacts
        <5>2. b \in g .. u - 1
          BY <1>2, <5>1 DEF BlocksOf
        <5>3. b + 1 \in g .. u - 1
          BY <4>2, <5>1, <5>2
        <5>4. b + 1 \in BlocksOf(t)
          BY <5>1, <5>3 DEF BlocksOf
        <5> QED
          BY <1>2, <2>4, <2>6, <3>2, <4>2, <5>4 DEF PlaceInv
      <4> QED
        BY <4>1, <4>2
    <3>5. PICK j \in Nat : j = n - k /\ (before + k) + j = before + n
      <4>0. k <= n
        BY <2>5
      <4>1. n - k \in Nat /\ (before + k) + (n - k) = before + n
        BY <4>0
      <4> QED
        BY <4>1
    <3>6. before + k \in 0..rs /\ before + n \in 0..rs /\ before + k \in Nat
      BY <2>4, <2>5
    <3>7. PICK x, y \in Int : x = TextTo(t, before + k) /\ y = TextTo(t, before + n)
      BY <2>1, <2>3, <3>6, TextFacts
    <3>8. x <= y
      <4>1. TextTo(t, before + k) <= TextTo(t, (before + k) + j)
        BY <2>1, <2>3, <2>4, <3>5, <3>6, TextGrows
      <4> QED
        BY <3>5, <3>7, <4>1
    <3>9. k = n => x = y
      BY <3>7
    <3> QED
      BY <3>3, <3>4, <3>7, <3>8, <3>9
  <2>8. k = n => k # 0
    BY <2>4
  <2> QED
    BY <2>2, <2>4, <2>5, <2>7, <2>8 DEF WriteInv
<1>3. CASE stage # "hook"
  BY <1>2, <1>3 DEF BlocksTile
<1> QED
  BY <1>1, <1>3

(* BlocksTile holds whatever the input and the order of the tasks:         *)
(* build_table_init (generate/table.c) sizes the file and places           *)
(* its row blocks from the totals that the columns added up under their    *)
(* locks, and build_row_block (generate/row_block.c), which takes no lock, *)
(* writes exactly up to the place of the next row block.                   *)
THEOREM RowBlocksTileTheFile == Spec => []BlocksTile
<1>1. Init => LayoutInv /\ BuildInv /\ BytesInv
  BY LayoutHolds, BuildInit, BytesInit
<1>2. LayoutInv /\ BuildInv /\ BytesInv /\ [Next]_vars => (LayoutInv /\ BuildInv /\ BytesInv)'
  BY LayoutHolds, BuildStep, BytesStep
<1>3. LayoutInv /\ BuildInv /\ BytesInv => BlocksTile
  BY BytesTile
<1> QED
  BY <1>1, <1>2, <1>3, PTL DEF Spec
=============================================================================
