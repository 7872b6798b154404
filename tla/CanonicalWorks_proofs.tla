------------------------ MODULE CanonicalWorks_proofs ------------------------
(***************************************************************************)
(* Theorems about CanonicalWorks, for any sources, works, candidates and   *)
(* calls under way.  Every action does one of five things to the tables    *)
(* that say where an id leads (Kinds); the invariants and the refinement   *)
(* are shown for these five.                                               *)
(***************************************************************************)
EXTENDS CanonicalWorks, TLAPS

(* The assumption, without the parts about data. *)
LEMMA Constants ==
    /\ Mirror \subseteq Source /\ Foreign \subseteq Source \ Mirror
    /\ None \notin Source /\ None \notin Work /\ None \notin Trait
    /\ "unborn" \notin Work /\ "gone" \notin Work
    /\ "unborn" # None /\ "gone" # None
  BY CanonicalWorksAssumption

(* pick_survivor picks among what it is given, resolve_ex among the works there are. *)
LEMMA BestIn == ASSUME NEW set PROVE Best(set) \subseteq set
  BY DEF Best

LEMMA DecisionsIn ==
    ASSUME NEW titles, NEW self, NEW look, NEW d \in Decisions(titles, self, look),
           works \subseteq Work
    PROVE  d.auto \in BOOLEAN /\ d.to \in works \cup {None} /\ (d.auto => d.to # None)
  <1>1. PICK near : /\ near \subseteq works
                    /\ \/ \E w \in near : d = [to |-> w, auto |-> TRUE]
                       \/ \E w \in near : d = [to |-> w, auto |-> FALSE]
                       \/ d = [to |-> None, auto |-> FALSE]
    <2> DEFINE hits == Hits(titles, self)
               near == IF hits = {} THEN works \ {self} ELSE hits
    <2>1. near \subseteq works
      BY DEF Hits
    <2>2. \/ \E w \in near : d = [to |-> w, auto |-> TRUE]
          \/ \E w \in near : d = [to |-> w, auto |-> FALSE]
          \/ d = [to |-> None, auto |-> FALSE]
      BY DEF Decisions
    <2> QED
      BY <2>1, <2>2
  <1>2. ASSUME NEW w \in near, NEW b \in BOOLEAN, d = [to |-> w, auto |-> b]
        PROVE  d.auto \in BOOLEAN /\ d.to \in works \cup {None} /\ (d.auto => d.to # None)
    BY <1>1, <1>2, Constants
  <1>3. CASE \E w \in near : d = [to |-> w, auto |-> TRUE]
    BY <1>2, <1>3
  <1>4. CASE \E w \in near : d = [to |-> w, auto |-> FALSE]
    BY <1>2, <1>4
  <1>5. CASE d = [to |-> None, auto |-> FALSE]
    BY <1>5
  <1> QED
    BY <1>1, <1>3, <1>4, <1>5

-----------------------------------------------------------------------------
(* Types. *)

(* What a fold leaves. *)
LEMMA FoldTypes ==
    ASSUME TypeOK, NEW loser \in works, NEW survivor \in works, loser # survivor,
           Fold(loser, survivor), used' = used, splits' = splits, wanted' = wanted
    PROVE  TablesOK' /\ CandsOK'
  <1>1. /\ works \subseteq Work /\ None \notin works
        /\ survivor \in works' /\ works' = works \ {loser}
    BY Constants DEF TypeOK, TablesOK, Fold
  <1>2. owner' \in [Source -> works' \cup {None}] /\ anchor' \in [Mirror -> works' \cup {None}]
    BY <1>1 DEF TypeOK, TablesOK, Fold, FoldSources, FoldIdentity
  <1>3. alias' \in [Work -> SUBSET Title] /\ trait' \in [Work -> Trait \cup {None}]
    BY <1>1 DEF TypeOK, TablesOK, Fold, FoldIdentity
  <1>4. /\ redirect' \in [Work -> used \cup {None}]
        /\ \A w \in Work \ used : redirect'[w] = None
    BY <1>1 DEF TypeOK, TablesOK, Fold, LeaveRedirect
  <1>5. library' \subseteq used
    BY DEF TypeOK, TablesOK, Fold, FoldLibrary
  <1>6. CandsOK'
    <2>1. ASSUME NEW r \in Row
          PROVE  /\ cands'[r] \in Candidates \cup {NoRow}
                 /\ cands'[r] # NoRow => owner'[cands'[r].source] # None /\ cands'[r].work \in works'
      <3> DEFINE moved == IF cands[r].work = loser THEN [cands[r] EXCEPT !.work = survivor]
                                                   ELSE cands[r]
      <3>1. cands'[r] \in {NoRow, moved}
        BY <2>1 DEF Fold, FoldSources
      <3>2. CASE cands[r] = NoRow
        BY <3>1, <3>2, <1>1 DEF NoRow
      <3>3. CASE cands[r] # NoRow
        <4>1. /\ cands[r] \in Candidates /\ owner[cands[r].source] # None
              /\ cands[r].work \in works /\ cands[r].source \in Source
          BY <2>1, <3>3 DEF TypeOK, CandsOK, Candidates
        <4>2. /\ moved \in Candidates /\ moved.source = cands[r].source
              /\ moved.work \in works'
          BY <4>1, <1>1 DEF Candidates
        <4>3. owner'[cands[r].source] # None
          BY <4>1, <1>1 DEF TypeOK, TablesOK, Fold, FoldSources
        <4> QED
          BY <3>1, <4>2, <4>3
      <3> QED
        BY <3>2, <3>3
    <2>2. cands' = [r \in Row |-> cands'[r]]
      BY DEF Fold, FoldSources
    <2> QED
      BY <2>1, <2>2 DEF CandsOK
  <1> QED
    BY <1>1, <1>2, <1>3, <1>4, <1>5, <1>6 DEF TypeOK, TablesOK, Fold

LEMMA DeleteTypes ==
    ASSUME TypeOK, NEW dead \in SUBSET works, NEW lost, DeleteWorks(dead, lost),
           used' = used, splits' = splits, wanted' = wanted
    PROVE  TablesOK' /\ CandsOK'
  <1>1. works' = works \ dead /\ None \notin works
    BY Constants DEF TypeOK, TablesOK, DeleteWorks
  <1>2. owner' \in [Source -> works' \cup {None}] /\ anchor' \in [Mirror -> works' \cup {None}]
    BY <1>1 DEF TypeOK, TablesOK, DeleteWorks
  <1>3. alias' \in [Work -> SUBSET Title] /\ trait' \in [Work -> Trait \cup {None}]
    BY DEF TypeOK, TablesOK, DeleteWorks
  <1>4. CandsOK'
    BY <1>1 DEF TypeOK, CandsOK, DeleteWorks
  <1> QED
    BY <1>1, <1>2, <1>3, <1>4 DEF TypeOK, TablesOK, DeleteWorks

LEMMA ProposeTypes ==
    ASSUME TypeOK, NEW s \in Source, owner[s] # None, NEW w \in works, Propose(s, w),
           owner' = owner, works' = works
    PROVE  CandsOK'
  <1>1. [source |-> s, work |-> w, status |-> "pending"] \in Candidates
    BY DEF TypeOK, TablesOK, Candidates
  <1> QED
    BY <1>1 DEF TypeOK, CandsOK, Propose

LEMMA SameTables ==
    ASSUME TypeOK, UNCHANGED <<used, rows, splits, wanted>>
    PROVE  TablesOK' /\ (UNCHANGED cands => CandsOK')
  BY DEF TypeOK, TablesOK, CandsOK, rows

LEMMA SweepRest == Rest \in SweepStates /\ Rest \in DeskStates /\ Away \in AdderStates
  BY DEF Rest, Away, SweepStates, DeskStates, AdderStates

(* The works and sources of a sync, of an addition and of a split. *)
LEMMA UpsertTypes == ASSUME TypeOK, NEW m \in Mirror, Upsert(m) PROVE TypeOK'
  <1>1. PICK w \in IF anchor[m] = None THEN Fresh ELSE {anchor[m]}, t \in Trait :
          /\ used' = used \cup {w}
          /\ works' = works \cup {w}
          /\ anchor' = [anchor EXCEPT ![m] = w]
          /\ owner' = [owner EXCEPT ![m] = IF @ = None THEN w ELSE @]
          /\ alias' = [alias EXCEPT ![w] = @ \cup {TitleOf[m]}]
          /\ trait' = [trait EXCEPT ![w] = t]
    BY DEF Upsert
  <1>2. w \in Work /\ w # None /\ m \in Source /\ TitleOf[m] \in Title
    BY CanonicalWorksAssumption DEF TypeOK, TablesOK, Fresh
  <1>3. UNCHANGED <<redirect, splits, cands, library, wanted, adder, sweep, desk>>
    BY DEF Upsert, calls
  <1>4. owner' \in [Source -> works' \cup {None}] /\ anchor' \in [Mirror -> works' \cup {None}]
    BY <1>1, <1>2 DEF TypeOK, TablesOK
  <1>5. alias' \in [Work -> SUBSET Title] /\ trait' \in [Work -> Trait \cup {None}]
    BY <1>1, <1>2 DEF TypeOK, TablesOK
  <1>6. TablesOK'
    BY <1>1, <1>2, <1>3, <1>4, <1>5 DEF TypeOK, TablesOK
  <1>7. CandsOK'
    BY <1>1, <1>2, <1>3 DEF TypeOK, TablesOK, CandsOK, Candidates
  <1> QED
    BY <1>3, <1>6, <1>7 DEF TypeOK, CallsOK

LEMMA MintTypes == ASSUME TypeOK, NEW p \in Adder, MintWork(p) PROVE TypeOK'
  <1>1. PICK w \in Fresh :
         /\ used' = used \cup {w} /\ works' = works \cup {w}
         /\ alias' = [alias EXCEPT ![w] = {TitleOf[adder[p].source]}]
         /\ trait' = [trait EXCEPT ![w] = TraitOf[adder[p].source]]
         /\ adder' = [adder EXCEPT ![p].at = "link", ![p].to = w, ![p].minted = TRUE]
    BY DEF MintWork
  <1>2. UNCHANGED <<owner, anchor, redirect, splits, cands, library, wanted, sweep, desk>>
    BY DEF MintWork
  <1>3. adder[p] \in AdderStates /\ w \in Work
    BY DEF TypeOK, CallsOK, Fresh
  <1>4. TitleOf[adder[p].source] \in Title /\ TraitOf[adder[p].source] \in Trait \cup {None}
    BY CanonicalWorksAssumption, <1>3 DEF AdderStates, MintWork, Away
  <1>5. TablesOK'
    BY <1>1, <1>2, <1>3, <1>4 DEF TypeOK, TablesOK
  <1>6. CandsOK'
    BY <1>1, <1>2 DEF TypeOK, CandsOK
  <1>7. CallsOK'
    <2>1. adder[p] \in AdderStates \ {Away}
      BY <1>3 DEF MintWork, Away
    <2>2. [adder[p] EXCEPT !.at = "link", !.to = w, !.minted = TRUE] \in AdderStates
      BY <2>1, <1>3 DEF AdderStates
    <2>3. adder' = [adder EXCEPT ![p] = [adder[p] EXCEPT !.at = "link", !.to = w, !.minted = TRUE]]
      BY <1>1 DEF TypeOK, CallsOK
    <2> QED
      BY <1>2, <2>2, <2>3 DEF TypeOK, CallsOK
  <1> QED
    BY <1>5, <1>6, <1>7 DEF TypeOK

LEMMA SplitTypes == ASSUME TypeOK, NEW d \in Desk, SplitWrite(d) PROVE TypeOK'
  <1>1. /\ UNCHANGED <<redirect, cands, library, wanted, adder, sweep>>
        /\ desk' = [desk EXCEPT ![d] = Rest]
    BY DEF SplitWrite
  <1>2. CallsOK'
    BY <1>1, SweepRest DEF TypeOK, CallsOK
  <1>3. CASE UNCHANGED <<used, works, owner, anchor, alias, trait, splits>>
    BY <1>1, <1>2, <1>3 DEF TypeOK, TablesOK, CandsOK
  <1>4. CASE ~UNCHANGED <<used, works, owner, anchor, alias, trait, splits>>
    <2> DEFINE w == desk[d].work
               pick == desk[d].pick
    <2>1. PICK n \in Fresh, s \in pick :
            /\ pick \subseteq Of(w) /\ w \in works
            /\ used' = used \cup {n} /\ works' = works \cup {n}
            /\ owner' = [x \in Source |-> IF x \in pick THEN n ELSE owner[x]]
            /\ anchor' = [m \in Mirror |-> IF m \in pick /\ anchor[m] = w THEN n ELSE anchor[m]]
            /\ alias' = [alias EXCEPT ![n] = {TitleOf[s]}]
            /\ trait' = [trait EXCEPT ![n] = IF s \in Mirror THEN None ELSE TraitOf[s]]
            /\ splits' = splits \cup {{w, n}}
      BY <1>4 DEF SplitWrite
    <2>2. n \in Work /\ n # None /\ s \in Source
      BY <2>1, Constants DEF Fresh, Of
    <2>3. TitleOf[s] \in Title /\ TraitOf[s] \in Trait \cup {None}
      BY <2>2, CanonicalWorksAssumption
    <2>4. owner' \in [Source -> works' \cup {None}] /\ anchor' \in [Mirror -> works' \cup {None}]
      BY <2>1 DEF TypeOK, TablesOK
    <2>5. alias' \in [Work -> SUBSET Title] /\ trait' \in [Work -> Trait \cup {None}]
      BY <2>1, <2>2, <2>3 DEF TypeOK, TablesOK
    <2>6. /\ used' \subseteq Work /\ works' \subseteq used' /\ splits' \subseteq SUBSET used'
      BY <2>1, <2>2 DEF TypeOK, TablesOK
    <2>7. /\ redirect' \in [Work -> used' \cup {None}]
          /\ \A v \in Work \ used' : redirect'[v] = None
          /\ library' \subseteq used' /\ wanted' \subseteq used'
      BY <1>1, <2>1 DEF TypeOK, TablesOK
    <2>8. CandsOK'
      BY <1>1, <2>1, <2>2 DEF TypeOK, CandsOK, Candidates
    <2> QED
      BY <1>2, <2>4, <2>5, <2>6, <2>7, <2>8 DEF TypeOK, TablesOK
  <1> QED
    BY <1>3, <1>4

(* One step per action. *)
LEMMA TypeNext == TypeOK /\ [Next]_vars => TypeOK'
  <1> SUFFICES ASSUME TypeOK, [Next]_vars PROVE TypeOK'
    OBVIOUS
  <1> USE DEF TypeOK
  <1>a. works \subseteq Work /\ None \notin works
    BY Constants DEF TablesOK
  <1>1. ASSUME NEW m \in Mirror, Upsert(m) PROVE TypeOK'
    BY <1>1, UpsertTypes
  <1>2. CASE Purge
    BY <1>2, DeleteTypes DEF Purge, calls, CallsOK
  <1>3. ASSUME NEW p \in Adder, NEW s \in Source, Add(p, s) PROVE TypeOK'
    <2>1. PICK dec \in IF UuidOf[s] # None /\ owner[UuidOf[s]] # None
                       THEN {[to |-> owner[UuidOf[s]], auto |-> TRUE]}
                       ELSE Decisions({TitleOf[s]}, None, TraitOf[s]),
               direct \in BOOLEAN :
            adder' = [adder EXCEPT ![p] =
                       [at |-> IF direct THEN "link" ELSE "mint", source |-> s,
                        to |-> IF direct THEN dec.to ELSE None, minted |-> FALSE,
                        review |-> IF direct THEN None ELSE dec.to]]
      BY <1>3 DEF Add
    <2>2. dec.to \in Work \cup {None}
      <3>1. CASE UuidOf[s] # None /\ owner[UuidOf[s]] # None
        <4>1. UuidOf[s] \in Source
          BY <3>1, CanonicalWorksAssumption
        <4> QED
          BY <2>1, <3>1, <4>1, <1>a DEF TablesOK
      <3>2. CASE ~(UuidOf[s] # None /\ owner[UuidOf[s]] # None)
        BY <2>1, <3>2, <1>a, DecisionsIn
      <3> QED
        BY <3>1, <3>2
    <2>3. s \in Source \ Mirror
      BY <1>3 DEF Add
    <2>4. CallsOK'
      BY <1>3, <2>1, <2>2, <2>3 DEF CallsOK, AdderStates, Add
    <2> QED
      BY <1>3, <2>4, SameTables DEF Add, tables
  <1>4. ASSUME NEW p \in Adder, MintWork(p) PROVE TypeOK'
    BY <1>4, MintTypes
  <1>5. ASSUME NEW p \in Adder, Link(p) PROVE TypeOK'
    <2>1. adder[p] \in AdderStates \ {Away}
      BY <1>5 DEF CallsOK, Link, Away
    <2>2. CallsOK'
      BY <1>5, <2>1, SweepRest DEF CallsOK, AdderStates, Link, Away
    <2>3. owner' \in [Source -> works \cup {None}] /\ \A s \in Source : owner[s] # None => owner'[s] # None
      BY <1>5, <1>a DEF Link, TablesOK
    <2>4. UNCHANGED <<used, works, anchor, alias, trait, redirect, library, cands, splits, wanted>>
      BY <1>5 DEF Link
    <2>5. TablesOK'
      BY <2>3, <2>4 DEF TablesOK
    <2>6. CandsOK'
      BY <2>3, <2>4 DEF CandsOK, Candidates
    <2> QED
      BY <2>2, <2>5, <2>6
  <1>6. ASSUME NEW p \in Adder, CheckClaim(p) PROVE TypeOK'
    <2>1. adder[p] \in AdderStates \ {Away}
      BY <1>6 DEF CallsOK, CheckClaim, Away
    <2>2. CallsOK'
      BY <1>6, <2>1, SweepRest DEF CallsOK, AdderStates, CheckClaim
    <2> QED
      BY <1>6, <2>2, SameTables DEF CheckClaim, tables
  <1>7. ASSUME NEW p \in Adder, Reclaim(p) PROVE TypeOK'
    <2>1. TablesOK' /\ CandsOK'
      BY <1>7, DeleteTypes DEF Reclaim
    <2> QED
      BY <1>7, <2>1, SweepRest DEF Reclaim, CallsOK
  <1>8. ASSUME NEW p \in Adder, ProposeMatch(p) PROVE TypeOK'
    <2>1. adder[p].source \in Source
      BY <1>8 DEF CallsOK, AdderStates, ProposeMatch, Away
    <2>2. CandsOK'
      BY <1>8, <2>1, ProposeTypes, SameTables DEF ProposeMatch, rows
    <2> QED
      BY <1>8, <2>2, SameTables, SweepRest DEF ProposeMatch, CallsOK
  <1>9. ASSUME NEW w \in Work, Reconcile(w) PROVE TypeOK'
    <2>1. sweep' \in SweepStates
      BY <1>9 DEF Reconcile, SweepStates
    <2> QED
      BY <1>9, <2>1, SameTables DEF Reconcile, tables, CallsOK
  <1>10. CASE Match
    <2>1. sweep.work \in Work
      BY <1>10 DEF Match, CallsOK, SweepStates, Rest
    <2>2. CASE sweep.work \notin works
      BY <1>10, <2>2, SameTables, SweepRest DEF Match, CallsOK
    <2>3. CASE sweep.work \in works
      <3> DEFINE w == sweep.work
      <3>1. PICK dec \in Decisions(alias[w], w, trait[w]) :
              \/ /\ dec.auto
                 /\ sweep' = [at |-> "fold", loser |-> w, survivor |-> dec.to, judged |-> <<>>]
                 /\ UNCHANGED cands
              \/ /\ ~dec.auto /\ dec.to # None
                 /\ sweep' = Rest
                 /\ IF Of(w) \ Mirror = {} THEN UNCHANGED cands
                    ELSE \E s \in Of(w) \ Mirror : Propose(s, dec.to)
              \/ dec.to = None /\ sweep' = Rest /\ UNCHANGED cands
        BY <1>10, <2>3 DEF Match
      <3>2. dec.to \in works \cup {None} /\ (dec.auto => dec.to # None)
        BY <1>a, DecisionsIn
      <3>3. sweep' \in SweepStates
        BY <3>1, <3>2, <2>1, <1>a, SweepRest DEF SweepStates, Judgements
      <3>4. UNCHANGED <<used, rows, splits, wanted, adder, desk>>
        BY <1>10 DEF Match
      <3>5. ASSUME NEW s \in Of(w) PROVE s \in Source /\ owner[s] # None
        BY <2>3, <1>a DEF Of
      <3>6. CandsOK'
        BY <3>1, <3>2, <3>4, <3>5, SameTables, ProposeTypes DEF rows
      <3> QED
        BY <3>3, <3>4, <3>6, SameTables DEF CallsOK
    <2> QED
      BY <2>2, <2>3
  <1>11. ASSUME NEW t \in Title, Consolidate(t) PROVE TypeOK'
    <2> DEFINE cluster == {w \in works : t \in alias[w]}
    <2>1. PICK survivor \in cluster, loser \in cluster :
            \/ /\ sweep' = [at |-> "fold", loser |-> loser, survivor |-> survivor,
                              judged |-> <<trait[loser], trait[survivor]>>]
               /\ UNCHANGED cands
            \/ /\ UNCHANGED sweep
               /\ \E s \in Of(loser) : Propose(s, survivor)
      BY <1>11, BestIn DEF Consolidate
    <2>2. loser \in works /\ survivor \in works
      BY <2>1
    <2>3. <<trait[loser], trait[survivor]>> \in Judgements
      BY <2>2, <1>a DEF TablesOK, Judgements
    <2>4. sweep' \in SweepStates
      BY <2>1, <2>2, <2>3, <1>a DEF SweepStates, CallsOK
    <2>5. UNCHANGED <<used, rows, splits, wanted, adder, desk>>
      BY <1>11 DEF Consolidate
    <2>6. ASSUME NEW s \in Of(loser) PROVE s \in Source /\ owner[s] # None
      BY <2>2, <1>a DEF Of
    <2>7. CandsOK'
      BY <2>1, <2>2, <2>5, <2>6, SameTables, ProposeTypes DEF rows
    <2> QED
      BY <2>4, <2>5, <2>7, SameTables DEF CallsOK
  <1>12. CASE SweepFold
    <2>1. TablesOK' /\ CandsOK'
      BY <1>12, FoldTypes, SameTables DEF SweepFold, Mergeable, tables
    <2> QED
      BY <1>12, <2>1, SweepRest DEF SweepFold, CallsOK
  <1>13. ASSUME NEW loser \in Work, NEW survivor \in Work, MergeWorks(loser, survivor) PROVE TypeOK'
    BY <1>13, FoldTypes DEF MergeWorks, Mergeable, calls, CallsOK
  <1>14. ASSUME NEW d \in Desk, NEW w \in Work, SplitRead(d, w) PROVE TypeOK'
    <2>1. PICK pick \in SUBSET Source :
            desk' = [desk EXCEPT ![d] = [at |-> "split", work |-> w, pick |-> pick]]
      BY <1>14 DEF SplitRead, Of
    <2>2. desk' \in [Desk -> DeskStates]
      BY <2>1 DEF CallsOK, DeskStates
    <2> QED
      BY <1>14, <2>2, SameTables DEF SplitRead, tables, CallsOK
  <1>15. ASSUME NEW d \in Desk, SplitWrite(d) PROVE TypeOK'
    BY <1>15, SplitTypes
  <1>16. ASSUME NEW d \in Desk, NEW r \in Row, Accept(d, r) PROVE TypeOK'
    <2>1. /\ cands[r] \in Candidates /\ owner[cands[r].source] \in works
          /\ cands[r].work \in works /\ cands[r].source \in Source
      BY <1>16 DEF Accept, CandsOK, TablesOK, Candidates, NoRow
    <2>2. desk' \in [Desk -> DeskStates]
      BY <1>16, <2>1, <1>a DEF Accept, CallsOK, DeskStates
    <2>3. CandsOK'
      <3>1. [cands[r] EXCEPT !.status = "confirmed"] \in Candidates
        BY <2>1 DEF Candidates
      <3>2. /\ cands' = [cands EXCEPT ![r] = [cands[r] EXCEPT !.status = "confirmed"]]
            /\ owner' = owner /\ works' = works
        BY <1>16 DEF Accept, rows
      <3> QED
        BY <3>1, <3>2, <2>1, <1>a DEF CandsOK, Candidates
    <2> QED
      BY <1>16, <2>2, <2>3, SameTables DEF Accept, CallsOK
  <1>17. ASSUME NEW d \in Desk, AcceptFold(d) PROVE TypeOK'
    <2>1. TablesOK' /\ CandsOK'
      <3>1. CASE Mergeable(desk[d].loser, desk[d].survivor, <<>>)
        BY <1>17, <3>1, FoldTypes DEF AcceptFold, Mergeable
      <3>2. CASE ~Mergeable(desk[d].loser, desk[d].survivor, <<>>)
        <4>1. /\ \/ cands' = cands
                 \/ \E r \in Row : /\ cands[r].status = "confirmed"
                                   /\ cands' = [cands EXCEPT ![r].status = "pending"]
              /\ UNCHANGED <<used, rows, splits, wanted>>
          <5>1. desk[d].row \in Row
            BY <1>17 DEF AcceptFold, CallsOK, DeskStates, Rest
          <5>2. cands' = [cands EXCEPT ![desk[d].row].status =
                           IF @ = "confirmed" /\ desk[d].loser # desk[d].survivor
                           THEN "pending" ELSE @]
            BY <1>17, <3>2 DEF AcceptFold
          <5>3. cands[desk[d].row] \in Candidates \cup {NoRow}
            BY <5>1 DEF CandsOK
          <5>4. CASE ~(cands[desk[d].row].status = "confirmed" /\ desk[d].loser # desk[d].survivor)
            BY <5>1, <5>2, <5>3, <5>4, <1>17, <3>2 DEF CandsOK, Candidates, NoRow, AcceptFold
          <5>5. CASE cands[desk[d].row].status = "confirmed" /\ desk[d].loser # desk[d].survivor
            BY <5>1, <5>2, <5>5, <1>17, <3>2 DEF AcceptFold
          <5> QED
            BY <5>4, <5>5
        <4>2. CandsOK'
          BY <4>1 DEF CandsOK, Candidates, NoRow, rows
        <4> QED
          BY <4>1, <4>2, SameTables
      <3> QED
        BY <3>1, <3>2
    <2> QED
      BY <1>17, <2>1, SweepRest DEF AcceptFold, CallsOK
  <1>18. ASSUME NEW d \in Desk, NEW w \in Work, NEW t \in Title, AddTitle(d, w, t) PROVE TypeOK'
    <2> DEFINE involved == {v \in works : t \in alias[v]} \cup {w}
    <2>1. PICK survivor \in involved :
            desk' = [desk EXCEPT ![d] =
                       IF involved = {w} THEN Rest
                       ELSE [at |-> "alias", survivor |-> survivor, rest |-> involved \ {survivor}]]
      BY <1>18, BestIn DEF AddTitle
    <2>2. involved \subseteq Work
      BY <1>a
    <2>3. desk' \in [Desk -> DeskStates]
      BY <2>1, <2>2, SweepRest DEF CallsOK, DeskStates
    <2>4. alias' \in [Work -> SUBSET Title]
      BY <1>18 DEF AddTitle, TablesOK
    <2>5. UNCHANGED <<used, works, owner, anchor, trait, redirect, library, cands, splits, wanted, adder, sweep>>
      BY <1>18 DEF AddTitle
    <2>6. TablesOK'
      BY <2>4, <2>5 DEF TablesOK
    <2>7. CandsOK'
      BY <2>5 DEF CandsOK
    <2> QED
      BY <2>3, <2>5, <2>6, <2>7 DEF CallsOK
  <1>19. ASSUME NEW d \in Desk, TitleFold(d) PROVE TypeOK'
    <2>1. desk[d] \in [at : {"alias"}, survivor : Work, rest : SUBSET Work]
      BY <1>19 DEF TitleFold, CallsOK, DeskStates, Rest
    <2>2. PICK v \in desk[d].rest :
            /\ \/ UNCHANGED tables
               \/ Mergeable(v, desk[d].survivor, <<>>) /\ Fold(v, desk[d].survivor)
            /\ desk' \in {[desk EXCEPT ![d] = Rest],
                          [desk EXCEPT ![d] = [desk[d] EXCEPT !.rest = desk[d].rest \ {v}]]}
      BY <1>19 DEF TitleFold
    <2>3. [desk[d] EXCEPT !.rest = desk[d].rest \ {v}] \in DeskStates
      BY <2>1 DEF DeskStates
    <2>4. desk' \in [Desk -> DeskStates]
      BY <2>2, <2>3, SweepRest DEF CallsOK
    <2>5. UNCHANGED <<used, splits, wanted, adder, sweep>>
      BY <1>19 DEF TitleFold
    <2>6. TablesOK' /\ CandsOK'
      BY <2>2, <2>5, FoldTypes, SameTables DEF Mergeable, tables
    <2> QED
      BY <2>4, <2>5, <2>6 DEF CallsOK
  <1>20. ASSUME NEW r \in Row, Reject(r) PROVE TypeOK'
    <2>1. CandsOK'
      BY <1>20 DEF Reject, CandsOK, Candidates, NoRow, rows
    <2> QED
      BY <1>20, <2>1, SameTables DEF Reject, calls, CallsOK
  <1>21. ASSUME NEW w \in Work, Mark(w) PROVE TypeOK'
    BY <1>21 DEF Mark, TablesOK, CandsOK, CallsOK, calls
  <1>22. ASSUME NEW w \in Work, Unmark(w) PROVE TypeOK'
    BY <1>22 DEF Unmark, TablesOK, CandsOK, CallsOK, calls
  <1>23. CASE Crash
    BY <1>23, SameTables, SweepRest DEF Crash, CallsOK, tables
  <1>24. CASE UNCHANGED vars
    BY <1>24, SameTables DEF vars, CallsOK, calls, tables
  <1> QED
    BY <1>1, <1>2, <1>3, <1>4, <1>5, <1>6, <1>7, <1>8, <1>9, <1>10, <1>11, <1>12, <1>13, <1>14,
       <1>15, <1>16, <1>17, <1>18, <1>19, <1>20, <1>21, <1>22, <1>23, <1>24, Zenon DEF Next

(* Every table and every call keeps its type; no foreign key dangles: a source or a
   MangaDex id names a work there is, a candidate a source and a work. *)
THEOREM WorksTypes == Spec => []TypeOK
  <1>1. Init => TypeOK
    BY SweepRest, Constants DEF Init, TypeOK, TablesOK, CandsOK, CallsOK
  <1> QED
    BY <1>1, TypeNext, PTL DEF Spec

-----------------------------------------------------------------------------
(* What a step does to the ids. *)

Keeping == UNCHANGED <<used, works, owner, anchor, redirect, library, wanted>>

(* New sources or works, or sources from one work to another. *)
Placing ==
    /\ \/ UNCHANGED <<used, works>>
       \/ \E n \in Fresh : used' = used \cup {n} /\ works' = works \cup {n}
    /\ owner' \in [Source -> works' \cup {None}]
    /\ \A m \in Mirror : anchor[m] = owner[m] => anchor'[m] = owner'[m]
    /\ UNCHANGED <<redirect, library, wanted>>

Folding ==
    \E loser, survivor \in works :
      loser # survivor /\ Fold(loser, survivor) /\ UNCHANGED <<used, wanted>>

Deleting ==
    \E dead \in SUBSET works, lost \in SUBSET (Source \ Mirror) :
      DeleteWorks(dead, lost) /\ UNCHANGED <<used, wanted>>

Marking == \E w \in Work : Mark(w) \/ Unmark(w)

LEMMA Kinds ==
    ASSUME TypeOK, [Next]_vars
    PROVE  Keeping \/ Placing \/ Folding \/ Deleting \/ Marking
  <1> DEFINE Goal == Keeping \/ Placing \/ Folding \/ Deleting \/ Marking
  <1> USE DEF TypeOK
  <1>a. works \subseteq Work /\ None \notin works
    BY Constants DEF TablesOK
  <1>1. ASSUME NEW m \in Mirror, Upsert(m) PROVE Goal
    <2>1. m \in Source
      BY Constants
    <2>2. PICK w \in IF anchor[m] = None THEN Fresh ELSE {anchor[m]} :
            /\ used' = used \cup {w}
            /\ works' = works \cup {w}
            /\ anchor' = [anchor EXCEPT ![m] = w]
            /\ owner' = [owner EXCEPT ![m] = IF @ = None THEN w ELSE @]
      BY <1>1 DEF Upsert
    <2>3. owner' \in [Source -> works' \cup {None}]
      BY <2>1, <2>2 DEF TablesOK
    <2>4. \A n \in Mirror : anchor[n] = owner[n] => anchor'[n] = owner'[n]
      BY <2>1, <2>2, Constants DEF TablesOK
    <2>5. UNCHANGED <<used, works>> \/ w \in Fresh
      BY <2>2 DEF TablesOK
    <2>6. UNCHANGED <<redirect, library, wanted>>
      BY <1>1 DEF Upsert
    <2> QED
      BY <2>2, <2>3, <2>4, <2>5, <2>6 DEF Placing
  <1>2. CASE Purge
    BY <1>2, Constants DEF Purge, Deleting
  <1>3. ASSUME NEW p \in Adder, NEW s \in Source, Add(p, s) PROVE Goal
    BY <1>3 DEF Add, Keeping, tables, rows
  <1>4. ASSUME NEW p \in Adder, MintWork(p) PROVE Goal
    BY <1>4 DEF MintWork, Placing, TablesOK
  <1>5. ASSUME NEW p \in Adder, Link(p) PROVE Goal
    <2>1. adder[p].source \in Source \ Mirror
      BY <1>5 DEF CallsOK, AdderStates, Link, Away
    <2>2. /\ UNCHANGED <<used, works, anchor, redirect, library, wanted>>
          /\ \/ UNCHANGED owner
             \/ \E w \in works : owner' = [owner EXCEPT ![adder[p].source] = w]
      BY <1>5, <2>1, <1>a DEF Link, TablesOK
    <2>3. owner' \in [Source -> works \cup {None}] /\ \A m \in Mirror : owner'[m] = owner[m]
      BY <2>1, <2>2, Constants DEF TablesOK
    <2> QED
      BY <2>2, <2>3 DEF Placing
  <1>6. ASSUME NEW p \in Adder, CheckClaim(p) PROVE Goal
    BY <1>6 DEF CheckClaim, Keeping, tables, rows
  <1>7. ASSUME NEW p \in Adder, Reclaim(p) PROVE Goal
    BY <1>7 DEF Reclaim, Deleting
  <1>8. ASSUME NEW p \in Adder, ProposeMatch(p) PROVE Goal
    BY <1>8 DEF ProposeMatch, Keeping, rows
  <1>9. ASSUME NEW w \in Work, Reconcile(w) PROVE Goal
    BY <1>9 DEF Reconcile, Keeping, tables, rows
  <1>10. CASE Match
    BY <1>10 DEF Match, Keeping, rows
  <1>11. ASSUME NEW t \in Title, Consolidate(t) PROVE Goal
    BY <1>11 DEF Consolidate, Keeping, rows
  <1>12. CASE SweepFold
    BY <1>12 DEF SweepFold, Mergeable, Folding, Keeping, tables, rows
  <1>13. ASSUME NEW loser \in Work, NEW survivor \in Work, MergeWorks(loser, survivor) PROVE Goal
    BY <1>13 DEF MergeWorks, Mergeable, Folding
  <1>14. ASSUME NEW d \in Desk, NEW w \in Work, SplitRead(d, w) PROVE Goal
    BY <1>14 DEF SplitRead, Keeping, tables, rows
  <1>15. ASSUME NEW d \in Desk, SplitWrite(d) PROVE Goal
    <2>1. UNCHANGED <<redirect, library, wanted>>
      BY <1>15 DEF SplitWrite
    <2>2. CASE UNCHANGED <<used, works, owner, anchor>>
      BY <2>1, <2>2 DEF Keeping
    <2>3. CASE ~UNCHANGED <<used, works, owner, anchor>>
      <3> DEFINE w == desk[d].work
                 pick == desk[d].pick
      <3>1. PICK n \in Fresh :
              /\ pick \subseteq Of(w)
              /\ used' = used \cup {n} /\ works' = works \cup {n}
              /\ owner' = [x \in Source |-> IF x \in pick THEN n ELSE owner[x]]
              /\ anchor' = [m \in Mirror |-> IF m \in pick /\ anchor[m] = w THEN n ELSE anchor[m]]
        BY <1>15, <2>3 DEF SplitWrite
      <3>2. \A m \in Mirror : anchor[m] = owner[m] => anchor'[m] = owner'[m]
        BY <3>1, Constants DEF Of
      <3> QED
        BY <2>1, <3>1, <3>2 DEF Placing, TablesOK
    <2> QED
      BY <2>2, <2>3
  <1>16. ASSUME NEW d \in Desk, NEW r \in Row, Accept(d, r) PROVE Goal
    BY <1>16 DEF Accept, Keeping, rows
  <1>17. ASSUME NEW d \in Desk, AcceptFold(d) PROVE Goal
    BY <1>17 DEF AcceptFold, Mergeable, Folding, Keeping, rows
  <1>18. ASSUME NEW d \in Desk, NEW w \in Work, NEW t \in Title, AddTitle(d, w, t) PROVE Goal
    BY <1>18 DEF AddTitle, Keeping
  <1>19. ASSUME NEW d \in Desk, TitleFold(d) PROVE Goal
    BY <1>19 DEF TitleFold, Mergeable, Folding, Keeping, tables, rows
  <1>20. ASSUME NEW r \in Row, Reject(r) PROVE Goal
    BY <1>20 DEF Reject, Keeping, rows
  <1>21. ASSUME NEW w \in Work, Mark(w) \/ Unmark(w) PROVE Goal
    BY <1>21 DEF Marking
  <1>22. CASE Crash
    BY <1>22 DEF Crash, Keeping, tables, rows
  <1>23. CASE UNCHANGED vars
    BY <1>23 DEF vars, Keeping, tables, rows
  <1> QED
    BY <1>1, <1>2, <1>3, <1>4, <1>5, <1>6, <1>7, <1>8, <1>9, <1>10, <1>11, <1>12, <1>13, <1>14,
       <1>15, <1>16, <1>17, <1>18, <1>19, <1>20, <1>21, <1>22, <1>23, Zenon DEF Next

-----------------------------------------------------------------------------
(* Redirects. *)

LEMMA FlatNext ==
    ASSUME TypeOK, RedirectsFlat, [Next]_vars
    PROVE  RedirectsFlat'
  <1> USE DEF RedirectsFlat, TypeOK, TablesOK
  <1>a. works \subseteq Work /\ None \notin works /\ None \notin Work
    BY Constants
  <1>1. CASE Keeping
    BY <1>1 DEF Keeping
  <1>2. CASE Placing
    <2>1. ASSUME NEW w \in used', redirect'[w] # None
          PROVE  w \in used /\ w \notin works' /\ redirect'[redirect'[w]] = None
      BY <1>2, <2>1 DEF Placing, Fresh
    <2> QED
      BY <2>1
  <1>3. CASE Folding
    <2>1. PICK loser \in works, survivor \in works :
            loser # survivor /\ Fold(loser, survivor) /\ used' = used
      BY <1>3 DEF Folding
    <2>2. redirect[survivor] = None
      BY <2>1
    <2>3. /\ redirect' = [w \in Work |-> IF w = loser \/ redirect[w] = loser THEN survivor ELSE redirect[w]]
          /\ works' = works \ {loser}
      BY <2>1 DEF Fold, LeaveRedirect
    <2>4. redirect'[survivor] = None
      BY <2>1, <2>2, <2>3, <1>a
    <2>5. ASSUME NEW w \in used, redirect'[w] # None
          PROVE  w \notin works' /\ redirect'[redirect'[w]] = None
      <3>1. CASE w = loser \/ redirect[w] = loser
        BY <2>3, <2>4, <3>1, <1>a
      <3>2. CASE ~(w = loser \/ redirect[w] = loser)
        <4>1. redirect'[w] = redirect[w] /\ w \notin works /\ redirect[redirect[w]] = None
          BY <2>3, <2>5, <3>2
        <4>2. redirect[w] \in Work /\ redirect[w] # loser
          BY <2>5, <3>2, <4>1
        <4> QED
          BY <2>3, <4>1, <4>2, <1>a
      <3> QED
        BY <3>1, <3>2
    <2> QED
      BY <2>1, <2>5
  <1>4. CASE Deleting
    BY <1>4 DEF Deleting, DeleteWorks
  <1>5. CASE Marking
    BY <1>5 DEF Marking, Mark, Unmark
  <1> QED
    BY <1>1, <1>2, <1>3, <1>4, <1>5, Kinds

(* load_work_following_redirect needs no second hop: whatever merges, splits and
   deletions there were, what a redirect names has no redirect. *)
THEOREM RedirectsAreFlat == Spec => []RedirectsFlat
  <1>1. Init => RedirectsFlat
    BY DEF Init, RedirectsFlat
  <1> QED
    BY <1>1, FlatNext, WorksTypes, PTL DEF Spec

-----------------------------------------------------------------------------
(* The MangaDex ids. *)

LEMMA AnchorNext ==
    ASSUME TypeOK, AnchorAgrees, [Next]_vars
    PROVE  AnchorAgrees'
  <1> USE DEF AnchorAgrees
  <1>1. CASE Keeping
    BY <1>1 DEF Keeping
  <1>2. CASE Placing
    BY <1>2 DEF Placing
  <1>3. CASE Folding
    BY <1>3, Constants DEF Folding, Fold, FoldIdentity, FoldSources
  <1>4. CASE Deleting
    BY <1>4, Constants DEF Deleting, DeleteWorks
  <1>5. CASE Marking
    BY <1>5 DEF Marking, Mark, Unmark
  <1> QED
    BY <1>1, <1>2, <1>3, <1>4, <1>5, Kinds

(* work_external_id and source_series never name two works for one MangaDex id. *)
THEOREM AnchorsAgree == Spec => []AnchorAgrees
  <1>1. Init => AnchorAgrees
    BY Constants DEF Init, AnchorAgrees
  <1> QED
    BY <1>1, AnchorNext, WorksTypes, PTL DEF Spec

-----------------------------------------------------------------------------
(* Where an id leads, after each kind of step. *)

(* An id that leads to the loser leads to the survivor, all others where they led. *)
LEMMA HomeFold ==
    ASSUME TypeOK, RedirectsFlat, NEW loser \in works, NEW survivor \in works,
           loser # survivor, Fold(loser, survivor), NEW w \in used
    PROVE  Home(w)' = IF Home(w) = loser THEN survivor ELSE Home(w)
  <1>1. /\ redirect' = [v \in Work |-> IF v = loser \/ redirect[v] = loser THEN survivor ELSE redirect[v]]
        /\ works' = works \ {loser} /\ w \in Work /\ works \subseteq Work /\ None \notin works
    BY Constants DEF Fold, LeaveRedirect, TypeOK, TablesOK
  <1>2. CASE w = loser
    BY <1>1, <1>2 DEF Home
  <1>3. CASE w \in works \ {loser}
    BY <1>1, <1>3 DEF Home
  <1>4. CASE w \notin works
    <2>1. CASE redirect[w] = loser
      BY <1>1, <1>4, <2>1 DEF Home
    <2>2. CASE redirect[w] # loser
      BY <1>1, <1>4, <2>2 DEF Home
    <2> QED
      BY <2>1, <2>2
  <1> QED
    BY <1>2, <1>3, <1>4

(* An id that led to a deleted work leads nowhere. *)
LEMMA HomeDelete ==
    ASSUME TypeOK, RedirectsFlat, NEW dead \in SUBSET works, NEW lost,
           DeleteWorks(dead, lost), NEW w \in used
    PROVE  Home(w)' = IF Home(w) \in dead THEN None ELSE Home(w)
  <1>1. /\ redirect' = redirect /\ works' = works \ dead
        /\ None \notin works /\ (w \in works => redirect[w] = None)
    BY Constants DEF DeleteWorks, TypeOK, TablesOK, RedirectsFlat
  <1> QED
    BY <1>1 DEF Home

(* A new work is where its own id leads. *)
LEMMA HomePlace ==
    ASSUME TypeOK, Placing
    PROVE  /\ \A w \in used : Home(w)' = Home(w)
           /\ \A w \in used' \ used : Home(w)' = w
  <1>1. redirect' = redirect /\ None \notin Work
    BY Constants DEF Placing
  <1>2. CASE UNCHANGED <<used, works>>
    BY <1>1, <1>2 DEF Home
  <1>3. CASE ~UNCHANGED <<used, works>>
    <2>1. PICK n \in Fresh : used' = used \cup {n} /\ works' = works \cup {n}
      BY <1>3 DEF Placing
    <2>2. ASSUME NEW w \in used PROVE Home(w)' = Home(w)
      <3>1. w # n /\ redirect[w] # n
        BY <2>1, <1>1 DEF Fresh, TypeOK, TablesOK
      <3> QED
        BY <1>1, <2>1, <3>1 DEF Home
    <2>3. Home(n)' = n
      BY <2>1 DEF Home
    <2> QED
      BY <2>1, <2>2, <2>3
  <1> QED
    BY <1>2, <1>3

LEMMA HomeIn == ASSUME TypeOK, NEW w PROVE Home(w) \in works \cup {None}
  BY DEF Home

-----------------------------------------------------------------------------
(* Libraries. *)

LEMMA LibraryNext ==
    ASSUME TypeOK, RedirectsFlat, LibraryKept, [Next]_vars
    PROVE  LibraryKept'
  <1>a. wanted \subseteq used /\ works \subseteq used /\ None \notin works
    BY Constants DEF TypeOK, TablesOK
  <1>1. CASE Keeping
    BY <1>1 DEF Keeping, LibraryKept, Home
  <1>2. CASE Placing
    BY <1>2, <1>a, HomePlace DEF LibraryKept, Placing
  <1>3. CASE Folding
    <2>1. PICK loser \in works, survivor \in works :
            loser # survivor /\ Fold(loser, survivor) /\ wanted' = wanted
      BY <1>3 DEF Folding
    <2>2. library' = IF loser \in library THEN (library \ {loser}) \cup {survivor} ELSE library
      BY <2>1 DEF Fold, FoldLibrary
    <2>3. ASSUME NEW w \in wanted PROVE Home(w)' \in library' \cup {None}
      <3>1. Home(w)' = IF Home(w) = loser THEN survivor ELSE Home(w)
        BY <2>1, <1>a, HomeFold
      <3>2. Home(w) \in library \cup {None}
        BY DEF LibraryKept
      <3> QED
        BY <2>2, <3>1, <3>2, <1>a
    <2> QED
      BY <2>1, <2>3 DEF LibraryKept
  <1>4. CASE Deleting
    <2>1. PICK dead \in SUBSET works, lost \in SUBSET (Source \ Mirror) :
            DeleteWorks(dead, lost) /\ wanted' = wanted
      BY <1>4 DEF Deleting
    <2>2. library' = library
      BY <2>1 DEF DeleteWorks
    <2>3. ASSUME NEW w \in wanted PROVE Home(w)' \in library' \cup {None}
      BY <2>1, <2>2, <1>a, HomeDelete DEF LibraryKept
    <2> QED
      BY <2>1, <2>3 DEF LibraryKept
  <1>5. ASSUME NEW w \in Work, Mark(w) PROVE LibraryKept'
    BY <1>5 DEF Mark, LibraryKept, Home
  <1>6. ASSUME NEW w \in Work, Unmark(w) PROVE LibraryKept'
    BY <1>6 DEF Unmark, LibraryKept, Home
  <1> QED
    BY <1>1, <1>2, <1>3, <1>4, <1>5, <1>6, Kinds DEF Marking

(* No merge, split or deletion takes a work out of a library that its reader put there,
   by whatever id they know it. *)
THEOREM LibrariesAreKept == Spec => []LibraryKept
  <1>1. Init => LibraryKept
    BY DEF Init, LibraryKept
  <1> QED
    BY <1>1, LibraryNext, WorksTypes, RedirectsAreFlat, PTL DEF Spec

-----------------------------------------------------------------------------
(* The refinement. *)

LEMMA LiveWorks == TypeOK => Forwarding!Live = works
  <1> SUFFICES ASSUME TypeOK PROVE Forwarding!Live = works
    OBVIOUS
  <1>1. ASSUME NEW w \in works PROVE home[w] = w /\ w \in Work
    BY Constants DEF home, Home, TypeOK, TablesOK
  <1>2. ASSUME NEW w \in Work, home[w] = w PROVE w \in works
    BY <1>2, Constants, HomeIn DEF home
  <1> QED
    BY <1>1, <1>2 DEF Forwarding!Live

LEMMA HomeNow ==
    /\ DOMAIN home = Work /\ home = [w \in Work |-> home[w]]
    /\ \A w \in Work : home[w] = IF w \notin used THEN "unborn"
                                 ELSE IF Home(w) = None THEN "gone" ELSE Home(w)
  BY DEF home

LEMMA HomeNext ==
    /\ home' = [w \in Work |-> home'[w]]
    /\ \A w \in Work : home'[w] = IF w \notin used' THEN "unborn"
                                  ELSE IF Home(w)' = None THEN "gone" ELSE Home(w)'
  BY DEF home

LEMMA ForwardsNext ==
    ASSUME TypeOK, TypeOK', RedirectsFlat, [Next]_vars
    PROVE  [Forwarding!Next]_<<home, owner>>
  <1>a. /\ works \subseteq used /\ used \subseteq Work /\ None \notin Work
        /\ "unborn" \notin Work /\ "gone" \notin Work /\ "unborn" # None /\ "gone" # None
    BY Constants DEF TypeOK, TablesOK
  <1>b. Forwarding!Live = works /\ (Forwarding!Live)' = works'
    <2>1. (TypeOK => Forwarding!Live = works)'
      BY LiveWorks, PTL
    <2> QED
      BY LiveWorks, <2>1
  <1>1. CASE Keeping
    <2>1. \A w \in Work : home'[w] = home[w]
      BY <1>1, HomeNow, HomeNext DEF Keeping, Home
    <2> QED
      BY <1>1, <2>1, HomeNow, HomeNext DEF Keeping
  <1>2. CASE Placing
    <2>1. \A w \in used : home'[w] = home[w]
      BY <1>2, <1>a, HomePlace, HomeNow, HomeNext DEF Placing
    <2>2. \A w \in used' \ used : home[w] = "unborn" /\ (w \in Work => home'[w] = w)
      BY <1>2, <1>a, HomePlace, HomeNow, HomeNext DEF Placing, Fresh
    <2>3. \/ home' = home
          \/ \E w \in Work : home[w] = "unborn" /\ home' = [home EXCEPT ![w] = w]
      <3>1. CASE used' = used
        BY <2>1, <3>1, HomeNow, HomeNext
      <3>2. CASE used' # used
        <4>1. PICK n \in Fresh : used' = used \cup {n}
          BY <1>2, <3>2 DEF Placing
        <4>2. \A w \in Work : home'[w] = IF w = n THEN n ELSE home[w]
          BY <2>1, <2>2, <4>1, HomeNow, HomeNext DEF Fresh
        <4> QED
          BY <2>2, <4>1, <4>2, HomeNow, HomeNext DEF Fresh
      <3> QED
        BY <3>1, <3>2
    <2> QED
      BY <1>2, <1>b, <2>3 DEF Placing, Forwarding!Next, Forwarding!Place
  <1>3. CASE Folding
    <2>1. PICK loser \in works, survivor \in works :
            loser # survivor /\ Fold(loser, survivor) /\ used' = used
      BY <1>3 DEF Folding
    <2>2. \A w \in Work : home'[w] = IF home[w] = loser THEN survivor ELSE home[w]
      BY <2>1, <1>a, HomeFold, HomeNow, HomeNext
    <2>3. home' = [w \in Work |-> IF home[w] = loser THEN survivor ELSE home[w]]
      BY <2>2, HomeNext
    <2>4. owner' = [s \in Source |-> IF owner[s] = loser THEN survivor ELSE owner[s]]
      BY <2>1 DEF Fold, FoldSources
    <2> QED
      BY <1>b, <2>1, <2>3, <2>4 DEF Forwarding!Next, Forwarding!Absorb
  <1>4. CASE Deleting
    <2>1. PICK dead \in SUBSET works, lost \in SUBSET (Source \ Mirror) :
            DeleteWorks(dead, lost) /\ used' = used
      BY <1>4 DEF Deleting
    <2>2. \A w \in Work : home'[w] = IF home[w] \in dead THEN "gone" ELSE home[w]
      BY <2>1, <1>a, HomeDelete, HomeNow, HomeNext
    <2>3. home' = [w \in Work |-> IF home[w] \in dead THEN "gone" ELSE home[w]]
      BY <2>2, HomeNext
    <2>4. \A s \in Source :
            owner'[s] \in (IF owner[s] \in dead THEN {} ELSE {owner[s]}) \cup {None}
      BY <2>1 DEF DeleteWorks
    <2>5. owner' \in [Source -> works' \cup {None}]
      BY DEF TypeOK, TablesOK
    <2> QED
      BY <1>b, <2>3, <2>4, <2>5 DEF Forwarding!Next, Forwarding!Delete
  <1>5. CASE Marking
    <2>1. UNCHANGED <<used, works, owner, redirect>>
      BY <1>5 DEF Marking, Mark, Unmark
    <2>2. \A w \in Work : home'[w] = home[w]
      BY <2>1, HomeNow, HomeNext DEF Home
    <2> QED
      BY <2>1, <2>2, HomeNow, HomeNext
  <1> QED
    BY <1>1, <1>2, <1>3, <1>4, <1>5, Kinds

(* The catalogue implements IdForwarding: however merges, splits, deletions and restarts
   interleave with calls that hold ids, an id leads to the work it named, to the one that
   work went into, or to nothing because its work was deleted. *)
THEOREM ForwardsIds == Spec => Forwards
  <1>1. Init => Forwarding!Init
    BY Constants DEF Init, Forwarding!Init, home
  <1>2. TypeOK /\ TypeOK' /\ RedirectsFlat /\ [Next]_vars => [Forwarding!Next]_<<home, owner>>
    BY ForwardsNext
  <1> QED
    BY <1>1, <1>2, WorksTypes, RedirectsAreFlat, PTL DEF Spec, Forwards, Forwarding!Spec

-----------------------------------------------------------------------------
(* Merges nobody asked for by naming both works. *)

(* What the sweep has decided on and not merged yet: a split made since then names a
   new work, so it cannot be of this pair, and the gate found the two alike. *)
Decided ==
    sweep.at = "fold" =>
      /\ {sweep.loser, sweep.survivor} \subseteq used
      /\ {sweep.loser, sweep.survivor} \notin splits
      /\ sweep.judged # <<>> => sweep.judged[1] = sweep.judged[2]

(* resolve_ex does not decide for a work that was split off. *)
LEMMA DecisionsHonour ==
    ASSUME NEW titles, NEW self, NEW look, NEW d \in Decisions(titles, self, look), d.auto
    PROVE  {self, d.to} \notin splits
  <1> DEFINE hits == Hits(titles, self)
             near == IF hits = {} THEN works \ {self} ELSE hits
  <1>1. \/ \E w \in near : {self, w} \notin splits /\ d = [to |-> w, auto |-> TRUE]
        \/ \E w \in near : d = [to |-> w, auto |-> FALSE]
        \/ d = [to |-> None, auto |-> FALSE]
    BY DEF Decisions
  <1>2. ~(d = [to |-> None, auto |-> FALSE]) /\ \A w \in near : d # [to |-> w, auto |-> FALSE]
    OBVIOUS
  <1>3. PICK w \in near : {self, w} \notin splits /\ d = [to |-> w, auto |-> TRUE]
    BY <1>1, <1>2
  <1>4. d.to = w
    BY <1>3
  <1> QED
    BY <1>3, <1>4

(* The steps that leave the sweep and the splits alone. *)
SweepKept == UNCHANGED <<sweep, splits>> /\ used \subseteq used'

LEMMA SweepSteps ==
    ASSUME TypeOK, [Next]_vars
    PROVE  \/ SweepKept \/ Match \/ (\E t \in Title : Consolidate(t))
           \/ (sweep'.at # "fold" /\ UNCHANGED splits)
           \/ \E d \in Desk : SplitWrite(d)
  <1> DEFINE Goal == \/ SweepKept \/ Match \/ (\E t \in Title : Consolidate(t))
                     \/ (sweep'.at # "fold" /\ UNCHANGED splits)
                     \/ \E d \in Desk : SplitWrite(d)
  <1>1. ASSUME NEW m \in Mirror, Upsert(m) PROVE Goal
    BY <1>1 DEF Upsert, SweepKept, calls
  <1>2. ASSUME Purge \/ (\E w \in Work : Mark(w) \/ Unmark(w)) \/ (\E r \in Row : Reject(r))
        PROVE  Goal
    BY <1>2 DEF Purge, Mark, Unmark, Reject, SweepKept, calls
  <1>3. ASSUME NEW p \in Adder, \/ \E s \in Source : Add(p, s)
                                \/ MintWork(p) \/ Link(p) \/ CheckClaim(p) \/ Reclaim(p)
                                \/ ProposeMatch(p)
        PROVE  Goal
    BY <1>3 DEF Add, MintWork, Link, CheckClaim, Reclaim, ProposeMatch, SweepKept
  <1>4. ASSUME (\E w \in Work : Reconcile(w)) \/ SweepFold \/ Crash PROVE Goal
    BY <1>4 DEF Reconcile, SweepFold, Crash, Rest
  <1>5. ASSUME NEW loser \in Work, NEW survivor \in Work, MergeWorks(loser, survivor) PROVE Goal
    BY <1>5 DEF MergeWorks, SweepKept, calls
  <1>6. ASSUME NEW d \in Desk, \/ \E w \in Work : SplitRead(d, w)
                               \/ \E r \in Row : Accept(d, r)
                               \/ AcceptFold(d)
                               \/ \E w \in Work, t \in Title : AddTitle(d, w, t)
                               \/ TitleFold(d)
        PROVE  Goal
    BY <1>6 DEF SplitRead, Accept, AcceptFold, AddTitle, TitleFold, SweepKept
  <1>7. ASSUME UNCHANGED vars PROVE Goal
    BY <1>7 DEF vars, calls, SweepKept
  <1> HIDE DEF Goal
  <1>8. ASSUME Match \/ (\E t \in Title : Consolidate(t)) \/ \E d \in Desk : SplitWrite(d) PROVE Goal
    BY <1>8 DEF Goal
  <1>9. Goal
    BY <1>1, <1>2, <1>3, <1>4, <1>5, <1>6, <1>7, <1>8, Zenon DEF Next
  <1> QED
    BY <1>9 DEF Goal

LEMMA DecidedNext == TypeOK /\ Decided /\ [Next]_vars => Decided'
  <1> SUFFICES ASSUME TypeOK, Decided, [Next]_vars PROVE Decided'
    OBVIOUS
  <1>a. works \subseteq used /\ None \notin works /\ works \subseteq Work
    BY Constants DEF TypeOK, TablesOK
  <1>1. CASE SweepKept
    BY <1>1 DEF SweepKept, Decided
  <1>2. CASE Match
    <2>1. UNCHANGED <<splits, used>>
      BY <1>2 DEF Match
    <2>2. CASE sweep'.at # "fold"
      BY <2>2 DEF Decided
    <2>3. CASE sweep'.at = "fold"
      <3>1. sweep.work \in works
        BY <1>2, <2>3 DEF Match, Rest
      <3>2. PICK d \in Decisions(alias[sweep.work], sweep.work, trait[sweep.work]) :
              /\ d.auto
              /\ sweep' = [at |-> "fold", loser |-> sweep.work, survivor |-> d.to, judged |-> <<>>]
        BY <1>2, <2>3, <3>1 DEF Match, Rest
      <3>3. {sweep.work, d.to} \notin splits /\ d.to \in works
        BY <3>2, <1>a, DecisionsHonour, DecisionsIn
      <3> QED
        BY <2>1, <3>1, <3>2, <3>3, <1>a DEF Decided
    <2> QED
      BY <2>2, <2>3
  <1>3. ASSUME NEW t \in Title, Consolidate(t) PROVE Decided'
    <2> DEFINE cluster == {w \in works : t \in alias[w]}
    <2>1. UNCHANGED <<splits, used>> /\ sweep = Rest
      BY <1>3 DEF Consolidate
    <2>2. PICK survivor \in cluster, loser \in cluster :
            /\ {loser, survivor} \notin splits
            /\ \/ /\ sweep' = [at |-> "fold", loser |-> loser, survivor |-> survivor,
                                judged |-> <<trait[loser], trait[survivor]>>]
                  /\ Gate(t, loser, survivor)
               \/ UNCHANGED sweep
      BY <1>3, BestIn DEF Consolidate
    <2>3. CASE UNCHANGED sweep
      BY <2>1, <2>3 DEF Decided, Rest
    <2>4. CASE ~UNCHANGED sweep
      <3>1. /\ sweep'.at = "fold" /\ sweep'.loser = loser /\ sweep'.survivor = survivor
            /\ sweep'.judged = <<trait[loser], trait[survivor]>>
            /\ trait[loser] = trait[survivor]
        BY <2>2, <2>4 DEF Gate
      <3> QED
        BY <2>1, <2>2, <3>1, <1>a DEF Decided
    <2> QED
      BY <2>3, <2>4
  <1>4. CASE sweep'.at # "fold"
    BY <1>4 DEF Decided
  <1>5. ASSUME NEW d \in Desk, SplitWrite(d) PROVE Decided'
    <2>1. /\ sweep' = sweep
          /\ \/ UNCHANGED <<used, splits>>
             \/ \E n \in Fresh : used' = used \cup {n} /\ splits' = splits \cup {{desk[d].work, n}}
      BY <1>5 DEF SplitWrite
    <2> QED
      BY <2>1 DEF Decided, Fresh
  <1> QED
    BY <1>1, <1>2, <1>3, <1>4, <1>5, SweepSteps

(* A merge still to be made by a sweep is one that no split forbids, however many splits
   were made since the sweep decided on it. *)
THEOREM WhatWasDecided == Spec => []Decided
  <1>1. Init => Decided
    BY DEF Init, Decided, Rest
  <1> QED
    BY <1>1, DecidedNext, WorksTypes, PTL DEF Spec

(* Only the merge itself, or a restart, ends a sweep that has decided on one. *)
LEMMA FoldingSteps ==
    ASSUME TypeOK, [Next]_vars, sweep.at = "fold", sweep' # sweep
    PROVE  SweepFold \/ Crash
  <1>2. ASSUME NEW m \in Mirror PROVE ~Upsert(m)
    BY DEF Upsert, calls
  <1>3. ~Purge /\ (\A w \in Work : ~Mark(w) /\ ~Unmark(w)) /\ (\A r \in Row : ~Reject(r))
    BY DEF Purge, Mark, Unmark, Reject, calls
  <1>4. ASSUME NEW p \in Adder
        PROVE  /\ \A s \in Source : ~Add(p, s)
               /\ ~MintWork(p) /\ ~Link(p) /\ ~CheckClaim(p) /\ ~Reclaim(p) /\ ~ProposeMatch(p)
    BY DEF Add, MintWork, Link, CheckClaim, Reclaim, ProposeMatch
  <1>5. (\A w \in Work : ~Reconcile(w)) /\ ~Match /\ (\A t \in Title : ~Consolidate(t))
    BY DEF Reconcile, Match, Consolidate, Rest
  <1>6. \A loser, survivor \in Work : ~MergeWorks(loser, survivor)
    BY DEF MergeWorks, calls
  <1>7. ASSUME NEW d \in Desk
        PROVE  /\ \A w \in Work : ~SplitRead(d, w) /\ \A t \in Title : ~AddTitle(d, w, t)
               /\ ~SplitWrite(d) /\ (\A r \in Row : ~Accept(d, r)) /\ ~AcceptFold(d)
               /\ ~TitleFold(d)
    BY DEF SplitRead, SplitWrite, Accept, AcceptFold, AddTitle, TitleFold
  <1>8. ~UNCHANGED vars
    BY DEF vars, calls
  <1> QED
    BY <1>2, <1>3, <1>4, <1>5, <1>6, <1>7, <1>8, Zenon DEF Next

LEMMA TitleSteps ==
    ASSUME TypeOK, [Next]_vars, NEW d \in Desk, desk[d].at = "alias", desk'[d] # desk[d]
    PROVE  TitleFold(d) \/ Crash
  <1>0. desk \in [Desk -> DeskStates]
    BY DEF TypeOK, CallsOK
  <1>2. ASSUME NEW m \in Mirror PROVE ~Upsert(m)
    BY DEF Upsert, calls
  <1>3. ~Purge /\ (\A w \in Work : ~Mark(w) /\ ~Unmark(w)) /\ (\A r \in Row : ~Reject(r))
    BY DEF Purge, Mark, Unmark, Reject, calls
  <1>4. ASSUME NEW p \in Adder
        PROVE  /\ \A s \in Source : ~Add(p, s)
               /\ ~MintWork(p) /\ ~Link(p) /\ ~CheckClaim(p) /\ ~Reclaim(p) /\ ~ProposeMatch(p)
    BY DEF Add, MintWork, Link, CheckClaim, Reclaim, ProposeMatch
  <1>5. (\A w \in Work : ~Reconcile(w)) /\ ~Match /\ (\A t \in Title : ~Consolidate(t)) /\ ~SweepFold
    BY DEF Reconcile, Match, Consolidate, SweepFold
  <1>6. \A loser, survivor \in Work : ~MergeWorks(loser, survivor)
    BY DEF MergeWorks, calls
  <1>7. ASSUME NEW e \in Desk
        PROVE  /\ \A w \in Work : ~SplitRead(e, w) /\ \A t \in Title : ~AddTitle(e, w, t)
               /\ ~SplitWrite(e) /\ (\A r \in Row : ~Accept(e, r)) /\ ~AcceptFold(e)
               /\ (TitleFold(e) => e = d)
    <2>1. ASSUME NEW other \in {"split", "accept"}, desk[e].at = other, NEW x, desk' = [desk EXCEPT ![e] = x]
          PROVE  FALSE
      BY <1>0, <2>1
    <2>2. ASSUME desk[e] = Rest, NEW x, desk' = [desk EXCEPT ![e] = x] PROVE FALSE
      BY <1>0, <2>2 DEF Rest
    <2>3. ASSUME e # d, NEW x, desk' = [desk EXCEPT ![e] = x] PROVE FALSE
      BY <1>0, <2>3
    <2>4. \A w \in Work : ~SplitRead(e, w) /\ \A t \in Title : ~AddTitle(e, w, t)
      BY <2>2 DEF SplitRead, AddTitle
    <2>5. ~SplitWrite(e) /\ ~AcceptFold(e)
      BY <2>1 DEF SplitWrite, AcceptFold
    <2>6. \A r \in Row : ~Accept(e, r)
      BY <2>2 DEF Accept
    <2>7. TitleFold(e) => e = d
      BY <2>3 DEF TitleFold
    <2> QED
      BY <2>4, <2>5, <2>6, <2>7
  <1>8. ~UNCHANGED vars
    BY DEF vars, calls
  <1> QED
    BY <1>2, <1>3, <1>4, <1>5, <1>6, <1>7, <1>8, Zenon DEF Next

LEMMA HonouredNext ==
    ASSUME TypeOK, Decided, [Next]_vars, NEW loser \in Work, NEW survivor \in Work,
           Automatic(loser, survivor)
    PROVE  {loser, survivor} \notin splits
  <1>1. loser \in works /\ loser \notin works' /\ redirect'[loser] = survivor
    BY DEF Automatic
  <1>2. ~Crash
    BY <1>1 DEF Crash, tables, rows
  <1>3. ASSUME NEW l, NEW v, Fold(l, v) PROVE l = loser /\ v = survivor
    BY <1>1, <1>3 DEF Fold, LeaveRedirect
  <1>4. CASE sweep.at = "fold" /\ sweep' # sweep
    <2>1. SweepFold
      BY <1>2, <1>4, FoldingSteps
    <2>2. Fold(sweep.loser, sweep.survivor)
      BY <1>1, <2>1 DEF SweepFold, tables, rows
    <2> QED
      BY <1>3, <1>4, <2>2 DEF Decided
  <1>5. ASSUME NEW d \in Desk, desk[d].at = "alias", desk'[d] # desk[d]
        PROVE  {loser, survivor} \notin splits
    <2>1. TitleFold(d)
      BY <1>2, <1>5, TitleSteps
    <2>2. PICK v \in desk[d].rest : {v, desk[d].survivor} \notin splits /\ Fold(v, desk[d].survivor)
      BY <1>1, <2>1 DEF TitleFold, tables, rows
    <2> QED
      BY <1>3, <2>2
  <1> QED
    BY <1>4, <1>5 DEF Automatic

(* SplitHonoured: neither the sweeps nor a new title merge the halves of a split again,
   although the sweep decides on a read that is several steps old when it merges. *)
THEOREM SplitsAreHonoured == Spec => SplitHonoured
  <1>1. TypeOK /\ Decided /\ [Next]_vars =>
          [\A loser, survivor \in Work :
             Automatic(loser, survivor) => {loser, survivor} \notin splits]_vars
    BY HonouredNext
  <1> QED
    BY <1>1, WorksTypes, WhatWasDecided, PTL DEF Spec, SplitHonoured

(* MergesAlike: what consolidate_gate found alike is merged only while it is alike. *)
THEOREM MergesOnlyAlike == Spec => MergesAlike
  <1>1. ASSUME TypeOK, Decided, [Next]_vars, sweep.at = "fold", sweep' # sweep, works' # works,
               sweep.judged # <<>>
        PROVE  trait[sweep.loser] = trait[sweep.survivor]
    <2>1. SweepFold
      BY <1>1, FoldingSteps DEF Crash, tables, rows
    <2>2. Mergeable(sweep.loser, sweep.survivor, sweep.judged)
      BY <1>1, <2>1 DEF SweepFold, tables, rows
    <2>3. sweep.judged = <<trait[sweep.loser], trait[sweep.survivor]>>
      BY <1>1, <2>2 DEF Mergeable, Unchanged
    <2>4. sweep.judged[1] = sweep.judged[2]
      BY <1>1 DEF Decided
    <2> QED
      BY <2>3, <2>4
  <1>2. TypeOK /\ Decided /\ [Next]_vars =>
          [sweep.at = "fold" /\ sweep' # sweep /\ works' # works /\ sweep.judged # <<>>
             => trait[sweep.loser] = trait[sweep.survivor]]_vars
    BY <1>1
  <1> QED
    BY <1>2, WorksTypes, WhatWasDecided, PTL DEF Spec, MergesAlike
=============================================================================
