----------------------------- MODULE RowBlocks -----------------------------
(***************************************************************************)
(* How mysql_seed_generate (generate/generate.h) divides the rows of its   *)
(* tables into row blocks, the unit of work of the third stage.            *)
(***************************************************************************)
EXTENDS Integers

CONSTANT COUNT_GENERATOR_WORKERS

ASSUME WorkersAssumption == COUNT_GENERATOR_WORKERS \in Nat \ {0}

(* row_block_row_count_max, from the largest ROW_COUNT of all tables. *)
RowBlockRowCountMax(rowCountMax) ==
    IF rowCountMax < COUNT_GENERATOR_WORKERS THEN rowCountMax
    ELSE rowCountMax \div COUNT_GENERATOR_WORKERS

(* The row blocks of a table of so many rows... *)
BlockCount(rows, max) == rows \div max + IF rows % max > 0 THEN 1 ELSE 0

(* A slip for comparison: all row blocks are full. *)
BlockRowsFull(b, rows, max) == max

(* ... and the rows of block b.  The first takes what the others leave. *)
BlockRows(b, rows, max) == IF b = 1 /\ rows % max > 0 THEN rows % max ELSE max
=============================================================================
