------------------------------ MODULE MCEmbedDrain ------------------------------
(* Small instances of EmbedDrain for TLC.                                  *)
EXTENDS EmbedDrain, TLC

(* No operator orders the loops.                                           *)
Symmetry == Permutations(Worker)
================================================================================
