---------------------------- MODULE MCTableBuild ----------------------------
(***************************************************************************)
(* Inputs for TLC: one or two databases of small tables.                   *)
(***************************************************************************)
EXTENDS TableBuild

Fixed(name, width) == [build |-> "fixed", name |-> name, width |-> width]
Unique(name) == [build |-> "unique", name |-> name, width |-> 1]
Table(rows, cols) == [rows |-> rows, cols |-> cols]

(* An empty fixed string takes one byte; rows 9 and 10 have different      *)
(* widths in a unique column.                                              *)
Lists == {<<Fixed(3, 1)>>, <<Unique(2)>>,
          <<Unique(2), Fixed(0, 4)>>, <<Fixed(1, 3), Unique(0)>>,
          <<Unique(1), Unique(2)>>, <<Fixed(1, 2), Unique(0), Fixed(2, 1)>>}

OneTable == {<< <<Table(r, cs)>> >> : r \in {1, 3, 4, 5, 7, 11}, cs \in Lists}

Short == {<<Fixed(3, 2)>>, <<Unique(2), Fixed(0, 1)>>}

(* The larger table sets the size of a row block, the smaller is divided   *)
(* by it.                                                                  *)
TwoTables ==
    {<< <<Table(r, cs), Table(q, ds)>> >> :
        r \in {1, 2, 3}, q \in {3, 5, 8}, cs \in Short, ds \in Short}
    \cup {<< <<Table(r, cs)>>, <<Table(q, ds)>> >> :
        r \in {9, 2}, q \in {4, 5}, cs \in {<<Fixed(3, 2)>>}, ds \in Short}

MCInputs == OneTable \cup TwoTables
=============================================================================
