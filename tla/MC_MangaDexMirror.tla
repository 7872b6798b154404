--------------------------- MODULE MC_MangaDexMirror ---------------------------
(* TLC instances of MangaDexMirror. *)
EXTENDS MangaDexMirror

(* One work, and every chapter is its. *)
Single == [c \in Chapters |-> CHOOSE w \in Works : TRUE]
==============================================================================
