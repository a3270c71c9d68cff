------------------------------ MODULE MCSearchAPI ------------------------------
(* A small instance of SearchAPI for TLC.                                  *)
EXTENDS SearchAPI, TLC

Symmetry == Permutations(Row)
================================================================================
