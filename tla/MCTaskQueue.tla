---------------------------- MODULE MCTaskQueue ----------------------------
(***************************************************************************)
(* Instances of TaskQueue for TLC.                                         *)
(***************************************************************************)
EXTENDS TaskQueue

(* Which node is which cannot matter: no action or property names one.     *)
Symmetry == Permutations(Nodes)
=============================================================================
