----------------------------- MODULE MC_ScanLoops -----------------------------
(* TLC instances of ScanLoops: each row on a source of its own. *)
EXTENDS ScanLoops

HomeApart == [r \in Row |-> r]
================================================================================
