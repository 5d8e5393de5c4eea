-------------------------- MODULE MCIndexPipeline --------------------------
(***************************************************************************)
(* Instances of IndexPipeline for TLC: two files, two indexable contents   *)
(* and an unindexable one.                                                 *)
(***************************************************************************)
EXTENDS IndexClaims

CONSTANTS a, b, x, y, z, Edits, Outages, Faults, Crashes

MCBudget == [edits |-> Edits, outages |-> Outages, faults |-> Faults, crashes |-> Crashes]
=============================================================================
