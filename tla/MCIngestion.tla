----------------------------- MODULE MCIngestion -----------------------------
(***************************************************************************)
(* Small instances of Ingestion.  Worker processes and requests are        *)
(* interchangeable, so safety runs take them up to permutation.            *)
(***************************************************************************)
EXTENDS Ingestion, TLC

Symmetry == Permutations(Workers) \cup Permutations(Requests)
=============================================================================
