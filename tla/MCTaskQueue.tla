------------------------------ MODULE MCTaskQueue ------------------------------
(* Small instances of TaskQueue for TLC.                                   *)
EXTENDS TaskQueue, TLC

(* Entities, models and workers are interchangeable: no operator orders    *)
(* them.  Stamps are not permuted, Fresh picks one.                        *)
Symmetry == Permutations(Entity) \cup Permutations(Model) \cup Permutations(Worker)
================================================================================
