----------------------------- MODULE MCHybridSearch -----------------------------
(* A small instance of HybridSearch for TLC.                               *)
EXTENDS HybridSearch, TLC
================================================================================
