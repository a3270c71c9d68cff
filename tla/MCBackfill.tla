------------------------------- MODULE MCBackfill -------------------------------
(* Small instances of Backfill for TLC; entities are numbers, which order  *)
(* the host's listing.                                                     *)
EXTENDS Backfill, TLC
================================================================================
