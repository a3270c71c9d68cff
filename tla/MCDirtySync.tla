------------------------------- MODULE MCDirtySync -------------------------------
(* Small instances of DirtySync for TLC.                                   *)
EXTENDS DirtySync, TLC
================================================================================
