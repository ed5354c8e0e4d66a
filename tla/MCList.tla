------------------------------- MODULE MCList -------------------------------
(* An instance of List: four nodes, with every index that names one of  *)
(* them or a gap between them, out of range for the shorter lists.          *)
EXTENDS List, TLC

CONSTANTS n1, n2, n3, n4
AllIndexes == -4 .. 3
Symmetric == Permutations(Node)
=============================================================================
