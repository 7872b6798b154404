--------------------------- MODULE MC_OfflineQueue ---------------------------
(* The TLC instance of OfflineQueue: the sets are model values in the .cfg file. *)
EXTENDS OfflineQueue
=============================================================================
