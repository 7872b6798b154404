--------------------------- MODULE MC_ReleaseLedger ---------------------------
(* TLC instances of ReleaseLedger: "s" is a Suwayomi series, "m" the MangaDex one.
   The chapter is out on "s" before "m" has it, which lists it as scheduled. *)
EXTENDS ReleaseLedger

OneChapter == [s |-> <<1>>, m |-> <<2>>]
================================================================================
