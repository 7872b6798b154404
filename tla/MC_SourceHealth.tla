--------------------------- MODULE MC_SourceHealth ---------------------------
(* TLC instances of SourceHealth: a source of one series. *)
EXTENDS SourceHealth
==============================================================================
