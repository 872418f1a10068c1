--------------------------- MODULE MCIngestionRun ---------------------------
(* Small instances of IngestionRun for TLC. *)
EXTENDS IngestionRun, TLC

Symmetric == Permutations(Calls)
=============================================================================
