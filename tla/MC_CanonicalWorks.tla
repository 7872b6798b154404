-------------------------- MODULE MC_CanonicalWorks --------------------------
(* TLC instances of CanonicalWorks: "m" is MangaDex's, "a" and "b" are Suwayomi's, and
   "b" is a translation.  All have the title that makes matches. *)
EXTENDS CanonicalWorks, TLC

SameTitle == [s \in Source |-> "long"]
NoUuid == [s \in Source |-> None]
SameTrait == [s \in Source |-> IF s \in Mirror THEN None ELSE "x"]

Symmetric == Permutations(Work) \cup Permutations(Adder)
================================================================================
