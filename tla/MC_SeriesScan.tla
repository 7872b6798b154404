---------------------------- MODULE MC_SeriesScan ----------------------------
(* Small instances of SeriesScan. *)
EXTENDS SeriesScan
=============================================================================
