---------------------------- MODULE MC_IngestJobs ----------------------------
(* The TLC instance of IngestJobs. *)
EXTENDS IngestJobs

(* The source answers popular with a single page and no next one, as those the comment
   on LISTINGS names. Latest repeats its series, hides it, or brings a new one and
   ends: a walk of it ends in each of the three ways, and no two pages of it fit
   together unless they happen to. *)
Answer(items, more) == [items |-> items, more |-> more]
ServedAnswers ==
    << {Answer({"a"}, FALSE)},
       {Answer({"a"}, TRUE), Answer({}, TRUE), Answer({"a", "b"}, FALSE)} >>
==============================================================================
