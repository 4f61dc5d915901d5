-------------------------- MODULE MCIndexingCycle ---------------------------
(***************************************************************************)
(* Instances of IndexingCycle for TLC: three repositories and two permits, *)
(* so that one always waits; two cycles, so that a run of the first may    *)
(* still be at work in the second.                                         *)
(***************************************************************************)
EXTENDS IndexingCycle
=============================================================================
