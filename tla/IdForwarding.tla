----------------------------- MODULE IdForwarding -----------------------------
(***************************************************************************)
(* What the catalogue promises about the ids it gives out (work_redirect,  *)
(* migration 0056, and load_work_following_redirect in apps/server/src/    *)
(* graphql): an id leads to the work it named or to the one that work went *)
(* into, however many merges ago, where its sources are too.  It leads to  *)
(* nothing only when the work was deleted, and its sources with it.        *)
(***************************************************************************)
CONSTANTS Source, Work, None, Unborn, Gone

VARIABLES
    home,       \* the work each id leads to
    owner       \* the work each source is in

Live == {w \in Work : home[w] = w}

Init ==
    /\ home = [w \in Work |-> Unborn]
    /\ owner = [s \in Source |-> None]

(* Sources come to works, or from one to another, which may be new. *)
Place ==
    /\ \/ UNCHANGED home
       \/ \E w \in Work : home[w] = Unborn /\ home' = [home EXCEPT ![w] = w]
    /\ owner' \in [Source -> Live' \cup {None}]

(* All that was in one work, or led to it, goes to the other. *)
Absorb(loser, survivor) ==
    /\ loser # survivor
    /\ home' = [w \in Work |-> IF home[w] = loser THEN survivor ELSE home[w]]
    /\ owner' = [s \in Source |-> IF owner[s] = loser THEN survivor ELSE owner[s]]

(* Works disappear, and sources, among them all that were in these works. *)
Delete(dead) ==
    /\ home' = [w \in Work |-> IF home[w] \in dead THEN Gone ELSE home[w]]
    /\ \A s \in Source : owner'[s] \in (IF owner[s] \in dead THEN {} ELSE {owner[s]}) \cup {None}
    /\ owner' \in [Source -> Live' \cup {None}]

Next ==
    \/ Place
    \/ \E loser, survivor \in Live : Absorb(loser, survivor)
    \/ \E dead \in SUBSET Live : Delete(dead)

Spec == Init /\ [][Next]_<<home, owner>>
===============================================================================
