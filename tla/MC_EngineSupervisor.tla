------------------------- MODULE MC_EngineSupervisor -------------------------
(* Two apps over one data directory. *)
EXTENDS EngineSupervisor
=============================================================================
