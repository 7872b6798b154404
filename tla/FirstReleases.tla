----------------------------- MODULE FirstReleases -----------------------------
(***************************************************************************)
(* What the ledger promises to readers of /updates (release_event,         *)
(* migration 0091): a book with at most one date for each chapter of each  *)
(* work, the day it was first released.  A date is entered once, on that   *)
(* day or later, and stands: it goes where the work goes, and of two works *)
(* that become one the earlier date stays.  Which source brought a         *)
(* chapter, in which order sources and worker wrote it, what failed and    *)
(* which sources have gone since cannot be read from it.                   *)
(***************************************************************************)
EXTENDS Naturals

CONSTANTS Work, Key

VARIABLES
    today,
    live,       \* the works there are
    released    \* the date of each chapter of each work, 0 when there is none

Blank == [k \in Key |-> 0]

Init ==
    /\ today = 1
    /\ live \in SUBSET Work
    /\ released = [w \in Work |-> Blank]

(* Chapters of a work without a date are given one, of today or of the past. *)
Enter(w) ==
    /\ \E dates \in [Key -> 0 .. today] :
         /\ \A k \in Key : released[w][k] # 0 => dates[k] = released[w][k]
         /\ released' = [released EXCEPT ![w] = dates]
    /\ UNCHANGED <<today, live>>

(* A work there was not. *)
Found(w) ==
    /\ live' = live \cup {w}
    /\ UNCHANGED <<today, released>>

Sooner(d, e) == IF e = 0 \/ (d # 0 /\ d <= e) THEN d ELSE e

(* One work goes into another. *)
Absorb(loser, survivor) ==
    /\ loser # survivor
    /\ live' = live \ {loser}
    /\ released' = [released EXCEPT
           ![survivor] = [k \in Key |-> Sooner(released[survivor][k], released[loser][k])],
           ![loser] = Blank]
    /\ UNCHANGED today

(* A part of a work becomes a work, and takes the dates of some chapters along. *)
Detach(whole, part, taken) ==
    /\ part \notin live
    /\ live' = live \cup {part}
    /\ released' = [released EXCEPT
           ![part] = [k \in Key |-> IF k \in taken THEN released[whole][k] ELSE 0],
           ![whole] = [k \in Key |-> IF k \in taken THEN 0 ELSE released[whole][k]]]
    /\ UNCHANGED today

Day == today' = today + 1 /\ UNCHANGED <<live, released>>

Next ==
    \/ \E w \in live : Enter(w)
    \/ \E w \in Work \ live : Found(w)
    \/ \E loser, survivor \in live : Absorb(loser, survivor)
    \/ \E whole \in live, part \in Work, taken \in SUBSET Key : Detach(whole, part, taken)
    \/ Day

Spec == Init /\ [][Next]_<<today, live, released>>
================================================================================
