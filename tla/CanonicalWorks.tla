---------------------------- MODULE CanonicalWorks ----------------------------
(***************************************************************************)
(* Canonical works (apps/server/src: catalog/mod.rs, dedup.rs, and their   *)
(* callers in graphql/mod.rs).                                             *)
(*                                                                         *)
(* A work is what several sources call the same series.  Adding a source   *)
(* matches it against the works there are, and links it to one or to a     *)
(* new one, in several transactions; the MangaDex sync writes works by     *)
(* their external id.  A sweep merges works it takes for duplicates, on    *)
(* what it read before; admins merge works, split them, decide candidates, *)
(* and add titles, which merges too.  A merge deletes a work for good: it  *)
(* leaves a redirect, and what hung on the work hangs on the survivor.     *)
(***************************************************************************)
EXTENDS Naturals, FiniteSets

CONSTANTS
    Source,     \* natural keys of source_series
    Mirror,     \* those of MangaDex, which are external ids as well
    Foreign,    \* Suwayomi series in another language, which get purged
    UuidOf,     \* the MangaDex id in the url of a Suwayomi series
    Title,      \* normalised titles
    Long,       \* titles of at least EXACT_MERGE_MIN_TITLE_CHARS
    TitleOf,    \* what a source calls its series
    Trait,      \* what the gate compares: primary title, year, author, cover
    TraitOf,    \* what a Suwayomi series says of itself
    Work,       \* ids; bound: how many are ever minted
    Row,        \* bound: rows of merge_candidate
    None,
    Adder,      \* calls of add_source_series and federated_search under way
    Desk,       \* calls of an admin under way
    MaxCalls    \* bound: calls under way at once, a sweep among them

ASSUME CanonicalWorksAssumption ==
    /\ IsFiniteSet(Work)
    /\ Mirror \subseteq Source /\ Foreign \subseteq Source \ Mirror
    /\ UuidOf \in [Source -> Mirror \cup {None}]
    /\ Long \subseteq Title
    /\ TitleOf \in [Source -> Title]
    /\ TraitOf \in [Source -> Trait \cup {None}]
    /\ None \notin Source \cup Work \cup Trait
    /\ "unborn" \notin Work \cup {None} /\ "gone" \notin Work \cup {None}

VARIABLES
    used,       \* the ids minted so far
    works,      \* rows of work
    owner,      \* source_series.work_id
    anchor,     \* work_external_id of the MangaDex ids
    alias,      \* work_alias
    trait,      \* the identity columns of work
    redirect,   \* work_redirect
    splits,     \* work_split
    cands,      \* merge_candidate
    library,    \* user_library of a reader
    wanted,     \* the series this reader has put there
    adder, sweep, desk

rows == <<works, owner, anchor, alias, trait, redirect, library>>
tables == <<rows, cands>>
calls == <<adder, sweep, desk>>
vars == <<used, tables, splits, wanted, calls>>

NoRow == [source |-> None, work |-> None, status |-> "none"]
Away == [at |-> "idle", source |-> None, to |-> None, minted |-> FALSE, review |-> None]
Rest == [at |-> "idle"]

Candidates == [source : Source, work : Work, status : {"pending", "confirmed", "rejected"}]
AdderStates ==
    {Away} \cup [at : {"mint", "link", "check", "reclaim", "propose"}, source : Source \ Mirror,
                 to : Work \cup {None}, minted : BOOLEAN, review : Work \cup {None}]
Judgements == {<<>>} \cup ((Trait \cup {None}) \X (Trait \cup {None}))
SweepStates ==
    {Rest} \cup [at : {"match"}, work : Work]
    \cup [at : {"fold"}, loser : Work, survivor : Work, judged : Judgements]
DeskStates ==
    {Rest} \cup [at : {"split"}, work : Work, pick : SUBSET Source]
    \cup [at : {"accept"}, row : Row, loser : Work, survivor : Work]
    \cup [at : {"alias"}, survivor : Work, rest : SUBSET Work]

TablesOK ==
    /\ works \subseteq used /\ used \subseteq Work
    /\ owner \in [Source -> works \cup {None}]
    /\ anchor \in [Mirror -> works \cup {None}]
    /\ alias \in [Work -> SUBSET Title]
    /\ trait \in [Work -> Trait \cup {None}]
    /\ redirect \in [Work -> used \cup {None}]
    /\ \A w \in Work \ used : redirect[w] = None
    /\ splits \subseteq SUBSET used
    /\ library \subseteq used /\ wanted \subseteq used

(* The foreign keys of a candidate hold. *)
CandsOK ==
    /\ cands \in [Row -> Candidates \cup {NoRow}]
    /\ \A r \in Row : cands[r] # NoRow =>
         owner[cands[r].source] # None /\ cands[r].work \in works

CallsOK ==
    /\ adder \in [Adder -> AdderStates]
    /\ sweep \in SweepStates
    /\ desk \in [Desk -> DeskStates]

TypeOK == TablesOK /\ CandsOK /\ CallsOK

Init ==
    /\ used = {} /\ works = {} /\ splits = {} /\ library = {} /\ wanted = {}
    /\ owner = [s \in Source |-> None]
    /\ anchor = [m \in Mirror |-> None]
    /\ alias = [w \in Work |-> {}]
    /\ trait = [w \in Work |-> None]
    /\ redirect = [w \in Work |-> None]
    /\ cands = [r \in Row |-> NoRow]
    /\ adder = [p \in Adder |-> Away]
    /\ sweep = Rest
    /\ desk = [d \in Desk |-> Rest]

-----------------------------------------------------------------------------
(* What the calls read and write. *)

Of(w) == {s \in Source : owner[s] = w}

(* load_work_following_redirect: one hop. *)
Home(w) ==
    IF w \in works THEN w
    ELSE IF redirect[w] \in works THEN redirect[w] ELSE None

(* Another call may start. *)
Open ==
    Cardinality({p \in Adder : adder[p] # Away} \cup {d \in Desk : desk[d] # Rest}
                \cup {x \in {None} : sweep # Rest}) < MaxCalls

(* new_id: a uuid nobody has seen. *)
Fresh == Work \ used

(* pick_survivor, and the order of consolidate_exact_duplicates_from: anchored on
   MangaDex, then the most sources; the ids that break ties are random. *)
Better(v, w) ==
    LET anchored(x) == Of(x) \cap Mirror # {} IN
    \/ anchored(v) /\ ~anchored(w)
    \/ (anchored(v) <=> anchored(w)) /\ Cardinality(Of(v)) > Cardinality(Of(w))

Best(set) == {w \in set : \A v \in set : ~Better(v, w)}

(* dedup::resolve_ex: works with the very title, or else any that resemble it; the
   best of them merges outright when it is the only one and the title is long, or
   when the covers agree.  The scores are not modelled: any candidate may be best. *)
Hits(titles, self) == {w \in works \ {self} : alias[w] \cap titles # {}}

DecisionsMutSplit(titles, self, look) ==
    LET hits == Hits(titles, self) IN
    IF hits = {} THEN {[to |-> None, auto |-> FALSE]}
    ELSE {[to |-> w, auto |-> Cardinality(hits) = 1] : w \in hits}

Decisions(titles, self, look) ==
    LET hits == Hits(titles, self)
        near == IF hits = {} THEN works \ {self} ELSE hits
        exact(w) == hits = {w} /\ (alias[w] \cap titles \cap Long) # {}
        same(w) == look # None /\ trait[w] = look
        split(w) == {self, w} \in splits
    IN  {[to |-> w, auto |-> TRUE] : w \in {v \in near : ~split(v) /\ (exact(v) \/ same(v))}}
        \cup {[to |-> w, auto |-> FALSE] : w \in {v \in near : ~split(v) /\ ~exact(v)}}
        \cup {[to |-> None, auto |-> FALSE] :
                 w \in IF hits = {} THEN {None} ELSE {v \in near : split(v)}}

(* insert_merge_candidate: nothing when the pair has a row in any status. *)
Propose(s, w) ==
    IF \E r \in Row : cands[r].source = s /\ cands[r].work = w
    THEN UNCHANGED cands
    ELSE \E r \in Row : /\ cands[r] = NoRow
                        /\ cands' = [cands EXCEPT ![r] =
                                       [source |-> s, work |-> w, status |-> "pending"]]

(* The row of a work deleted for good, and by cascade all that refers to it. *)
DeleteWorks(dead, lost) ==
    /\ works' = works \ dead
    /\ owner' = [s \in Source |-> IF s \in lost \/ owner[s] \in dead THEN None ELSE owner[s]]
    /\ anchor' = [m \in Mirror |-> IF anchor[m] \in dead THEN None ELSE anchor[m]]
    /\ alias' = [w \in Work |-> IF w \in dead THEN {} ELSE alias[w]]
    /\ trait' = [w \in Work |-> IF w \in dead THEN None ELSE trait[w]]
    /\ cands' = [r \in Row |->
                   IF cands[r] # NoRow /\ (cands[r].work \in dead \/ owner'[cands[r].source] = None)
                   THEN NoRow ELSE cands[r]]
    /\ UNCHANGED <<redirect, library>>

-----------------------------------------------------------------------------
(* merge_works_checked, one transaction. *)

(* work_external_id was once copied: the copy met its own original, was ignored, and
   both were gone. *)
FoldIdentityMutCopy(loser, survivor) ==
    /\ anchor' = [m \in Mirror |-> IF anchor[m] = loser THEN None ELSE anchor[m]]
    /\ alias' = [alias EXCEPT ![survivor] = @ \cup alias[loser], ![loser] = {}]
    /\ trait' = [trait EXCEPT ![survivor] = IF @ = None THEN trait[loser] ELSE @,
                              ![loser] = None]

(* What identifies the loser identifies the survivor. *)
FoldIdentity(loser, survivor) ==
    /\ anchor' = [m \in Mirror |-> IF anchor[m] = loser THEN survivor ELSE anchor[m]]
    /\ alias' = [alias EXCEPT ![survivor] = @ \cup alias[loser], ![loser] = {}]
    /\ trait' = [trait EXCEPT ![survivor] = IF @ = None THEN trait[loser] ELSE @,
                              ![loser] = None]

(* The sources, and the candidates that propose the loser or have become idle. *)
FoldSources(loser, survivor) ==
    /\ owner' = [s \in Source |-> IF owner[s] = loser THEN survivor ELSE owner[s]]
    /\ cands' =
         LET moved(r) == IF cands[r].work = loser THEN [cands[r] EXCEPT !.work = survivor]
                                                   ELSE cands[r]
             idle(row) == row.work = survivor /\ row.status = "pending"
                             /\ owner'[row.source] = survivor
         IN  [r \in Row |-> IF idle(moved(r)) THEN NoRow ELSE moved(r)]

FoldLibraryMutDrop(loser, survivor) == library' = library \ {loser}

(* user_library, and likewise reviews, progress, comments, activity: a reader who had
   both keeps the survivor's row. *)
FoldLibrary(loser, survivor) ==
    library' = IF loser \in library THEN (library \ {loser}) \cup {survivor} ELSE library

LeaveRedirectMutChain(loser, survivor) == redirect' = [redirect EXCEPT ![loser] = survivor]

LeaveRedirectMutNone(loser, survivor) ==
    redirect' = [w \in Work |-> IF redirect[w] = loser THEN survivor ELSE redirect[w]]

(* A forwarding address, and those that led to the loser led on. *)
LeaveRedirect(loser, survivor) ==
    redirect' = [w \in Work |-> IF w = loser \/ redirect[w] = loser THEN survivor
                                ELSE redirect[w]]

Fold(loser, survivor) ==
    /\ FoldIdentity(loser, survivor)
    /\ FoldSources(loser, survivor)
    /\ FoldLibrary(loser, survivor)
    /\ LeaveRedirect(loser, survivor)
    /\ works' = works \ {loser}

UnchangedMutTrust(loser, survivor, judged) == TRUE

(* It bails when a work is gone, or is not what the caller judged. *)
Unchanged(loser, survivor, judged) == judged = <<>> \/ judged = <<trait[loser], trait[survivor]>>

Mergeable(loser, survivor, judged) ==
    /\ loser # survivor
    /\ {loser, survivor} \subseteq works
    /\ Unchanged(loser, survivor, judged)

-----------------------------------------------------------------------------
(* The MangaDex sync: upsert_work_from_mangadex, one transaction.  What the upstream
   record says may differ each time. *)
Upsert(m) ==
    /\ \E w \in IF anchor[m] = None THEN Fresh ELSE {anchor[m]}, t \in Trait :
         /\ used' = used \cup {w}
         /\ works' = works \cup {w}
         /\ anchor' = [anchor EXCEPT ![m] = w]
         /\ owner' = [owner EXCEPT ![m] = IF @ = None THEN w ELSE @]
         /\ alias' = [alias EXCEPT ![w] = @ \cup {TitleOf[m]}]
         /\ trait' = [trait EXCEPT ![w] = t]
    /\ UNCHANGED <<redirect, splits, cands, library, wanted, calls>>

(* purge_foreign_language_suwayomi, one transaction. *)
Purge ==
    /\ \E s \in Foreign : owner[s] # None
    /\ DeleteWorks({w \in works : Of(w) # {} /\ Of(w) \subseteq Foreign}, Foreign)
    /\ UNCHANGED <<used, splits, wanted, calls>>

-----------------------------------------------------------------------------
(* Adding a source: add_source_series_core_ex. *)

(* The series is not linked yet; what it is matched to is decided on this read. *)
Add(p, s) ==
    /\ adder[p] = Away /\ Open /\ s \notin Mirror /\ owner[s] = None
    /\ \E d \in IF UuidOf[s] # None /\ owner[UuidOf[s]] # None
                THEN {[to |-> owner[UuidOf[s]], auto |-> TRUE]}
                ELSE Decisions({TitleOf[s]}, None, TraitOf[s]) :
         \E direct \in IF d.auto THEN {TRUE}
                        ELSE {FALSE, d.to # None /\ TitleOf[s] \in Long} :
           adder' = [adder EXCEPT ![p] =
                       [at |-> IF direct THEN "link" ELSE "mint", source |-> s,
                        to |-> IF direct THEN d.to ELSE None, minted |-> FALSE,
                        review |-> IF direct THEN None ELSE d.to]]
    /\ UNCHANGED <<used, tables, splits, wanted, sweep, desk>>

(* create_work: a provisional work, without a source yet. *)
MintWork(p) ==
    /\ adder[p].at = "mint"
    /\ \E w \in Fresh :
         /\ used' = used \cup {w} /\ works' = works \cup {w}
         /\ alias' = [alias EXCEPT ![w] = {TitleOf[adder[p].source]}]
         /\ trait' = [trait EXCEPT ![w] = TraitOf[adder[p].source]]
         /\ adder' = [adder EXCEPT ![p].at = "link", ![p].to = w, ![p].minted = TRUE]
    /\ UNCHANGED <<owner, anchor, redirect, splits, cands, library, wanted, sweep, desk>>

(* upsert_source_series: the first to insert the row claims the series; the foreign
   key refuses a work that is gone. *)
Link(p) ==
    /\ adder[p].at = "link"
    /\ LET s == adder[p].source
           w == adder[p].to
       IN  IF owner[s] = None /\ w \notin works
           THEN /\ adder' = [adder EXCEPT ![p] = Away]
                /\ UNCHANGED owner
           ELSE /\ adder' = [adder EXCEPT ![p].at = "check"]
                /\ owner' = [owner EXCEPT ![s] = IF @ = None THEN w ELSE @]
    /\ UNCHANGED <<used, works, anchor, alias, trait, redirect, library>>
    /\ UNCHANGED <<cands, splits, wanted, sweep, desk>>

(* The claim is read again; a work minted for nothing is to be deleted. *)
CheckClaim(p) ==
    /\ adder[p].at = "check"
    /\ LET won == owner[adder[p].source] \in {adder[p].to, None}
       IN  adder' = [adder EXCEPT ![p] =
                       IF won /\ adder[p].review # None THEN [adder[p] EXCEPT !.at = "propose"]
                       ELSE IF ~won /\ adder[p].minted THEN [adder[p] EXCEPT !.at = "reclaim"]
                       ELSE Away]
    /\ UNCHANGED <<used, tables, splits, wanted, sweep, desk>>

(* delete_work_cascade *)
Reclaim(p) ==
    /\ adder[p].at = "reclaim"
    /\ DeleteWorks({adder[p].to} \cap works, {})
    /\ adder' = [adder EXCEPT ![p] = Away]
    /\ UNCHANGED <<used, splits, wanted, sweep, desk>>

(* The candidate of a provisional work, if both are still there. *)
ProposeMatch(p) ==
    /\ adder[p].at = "propose"
    /\ IF owner[adder[p].source] # None /\ adder[p].review \in works
       THEN Propose(adder[p].source, adder[p].review)
       ELSE UNCHANGED cands
    /\ adder' = [adder EXCEPT ![p] = Away]
    /\ UNCHANGED <<used, rows, splits, wanted, sweep, desk>>

-----------------------------------------------------------------------------
(* The sweeps, of which RECONCILE_RUNNING admits one at a time. *)

(* reconcile_provisional_works: a page of works with Suwayomi sources alone. *)
Reconcile(w) ==
    /\ sweep = Rest /\ Open
    /\ Of(w) # {} /\ Of(w) \cap Mirror = {}
    /\ \A r \in Row : cands[r].status = "pending" => owner[cands[r].source] # w
    /\ sweep' = [at |-> "match", work |-> w]
    /\ UNCHANGED <<used, tables, splits, wanted, adder, desk>>

(* reconcile_one, up to the merge. *)
Match ==
    /\ sweep.at = "match"
    /\ LET w == sweep.work IN
       IF w \notin works
       THEN sweep' = Rest /\ UNCHANGED cands
       ELSE \E d \in Decisions(alias[w], w, trait[w]) :
              \/ /\ d.auto
                 /\ sweep' = [at |-> "fold", loser |-> w, survivor |-> d.to, judged |-> <<>>]
                 /\ UNCHANGED cands
              \/ /\ ~d.auto /\ d.to # None
                 /\ sweep' = Rest
                 /\ IF Of(w) \ Mirror = {} THEN UNCHANGED cands
                    ELSE \E s \in Of(w) \ Mirror : Propose(s, d.to)
              \/ d.to = None /\ sweep' = Rest /\ UNCHANGED cands
    /\ UNCHANGED <<used, rows, splits, wanted, adder, desk>>

(* consolidate_exact_duplicates_from on one title: the gate judges what was read here. *)
Gate(t, loser, survivor) ==
    t \in Long /\ trait[loser] # None /\ trait[loser] = trait[survivor]

Consolidate(t) ==
    LET cluster == {w \in works : t \in alias[w]} IN
    /\ sweep = Rest /\ Open /\ Cardinality(cluster) > 1
    /\ \E survivor \in Best(cluster) : \E loser \in cluster \ {survivor} :
         /\ {loser, survivor} \notin splits
         /\ IF Cardinality(cluster) = 2 /\ Gate(t, loser, survivor)
            THEN /\ sweep' = [at |-> "fold", loser |-> loser, survivor |-> survivor,
                              judged |-> <<trait[loser], trait[survivor]>>]
                 /\ UNCHANGED cands
            ELSE /\ UNCHANGED sweep
                 /\ \E s \in Of(loser) : Propose(s, survivor)
    /\ UNCHANGED <<used, rows, splits, wanted, adder, desk>>

(* The merge either has decided on; an error is logged and the sweep goes on. *)
SweepFold ==
    /\ sweep.at = "fold"
    /\ IF Mergeable(sweep.loser, sweep.survivor, sweep.judged)
       THEN Fold(sweep.loser, sweep.survivor)
       ELSE UNCHANGED tables
    /\ sweep' = Rest
    /\ UNCHANGED <<used, splits, wanted, adder, desk>>

-----------------------------------------------------------------------------
(* Admins. *)

MergeWorks(loser, survivor) ==
    /\ Mergeable(loser, survivor, <<>>)
    /\ Fold(loser, survivor)
    /\ UNCHANGED <<used, splits, wanted, calls>>

(* split_source_series: what to detach is checked on a read of its own. *)
SplitRead(d, w) ==
    /\ desk[d] = Rest /\ Open
    /\ \E pick \in SUBSET Of(w) \ {{}, Of(w)} :
         desk' = [desk EXCEPT ![d] = [at |-> "split", work |-> w, pick |-> pick]]
    /\ UNCHANGED <<used, tables, splits, wanted, adder, sweep>>

SplitWrite(d) ==
    /\ desk[d].at = "split"
    /\ LET w == desk[d].work
           pick == desk[d].pick
       IN  IF w \in works /\ pick \subseteq Of(w)
           THEN \E n \in Fresh, s \in pick :
                  /\ s \in Mirror \/ pick \cap Mirror = {}
                  /\ used' = used \cup {n} /\ works' = works \cup {n}
                  /\ owner' = [x \in Source |-> IF x \in pick THEN n ELSE owner[x]]
                  /\ anchor' = [m \in Mirror |-> IF m \in pick /\ anchor[m] = w THEN n
                                                 ELSE anchor[m]]
                  /\ alias' = [alias EXCEPT ![n] = {TitleOf[s]}]
                  /\ trait' = [trait EXCEPT ![n] = IF s \in Mirror THEN None ELSE TraitOf[s]]
                  /\ splits' = splits \cup {{w, n}}
           ELSE UNCHANGED <<used, works, owner, anchor, alias, trait, splits>>
    /\ desk' = [desk EXCEPT ![d] = Rest]
    /\ UNCHANGED <<redirect, cands, library, wanted, adder, sweep>>

(* resolve_merge_candidate: the row is claimed first, in a transaction of its own. *)
Reject(r) ==
    /\ cands[r].status = "pending"
    /\ cands' = [cands EXCEPT ![r].status = "rejected"]
    /\ UNCHANGED <<used, rows, splits, wanted, calls>>

Accept(d, r) ==
    /\ desk[d] = Rest /\ Open /\ cands[r].status = "pending"
    /\ cands' = [cands EXCEPT ![r].status = "confirmed"]
    /\ desk' = [desk EXCEPT ![d] =
                  [at |-> "accept", row |-> r, loser |-> owner[cands[r].source],
                   survivor |-> cands[r].work]]
    /\ UNCHANGED <<used, rows, splits, wanted, adder, sweep>>

(* When the merge fails the row is pending again. *)
AcceptFold(d) ==
    /\ desk[d].at = "accept"
    /\ IF Mergeable(desk[d].loser, desk[d].survivor, <<>>)
       THEN Fold(desk[d].loser, desk[d].survivor)
       ELSE /\ cands' = [cands EXCEPT ![desk[d].row].status =
                           IF @ = "confirmed" /\ desk[d].loser # desk[d].survivor
                           THEN "pending" ELSE @]
            /\ UNCHANGED rows
    /\ desk' = [desk EXCEPT ![d] = Rest]
    /\ UNCHANGED <<used, splits, wanted, adder, sweep>>

(* addSeriesAltTitle: all works of that title are to become one. *)
AddTitle(d, w, t) ==
    LET involved == {v \in works : t \in alias[v]} \cup {w} IN
    /\ desk[d] = Rest /\ Open /\ w \in works
    /\ alias' = [alias EXCEPT ![w] = @ \cup {t}]
    /\ \E survivor \in Best(involved) :
         desk' = [desk EXCEPT ![d] =
                    IF involved = {w} THEN Rest
                    ELSE [at |-> "alias", survivor |-> survivor, rest |-> involved \ {survivor}]]
    /\ UNCHANGED <<used, works, owner, anchor, trait, redirect, library>>
    /\ UNCHANGED <<cands, splits, wanted, adder, sweep>>

(* One after the other; the first that fails ends it. *)
TitleFold(d) ==
    /\ desk[d].at = "alias"
    /\ \E v \in desk[d].rest :
         LET survivor == desk[d].survivor
             rest == desk[d].rest \ {v}
             next == IF rest = {} THEN Rest ELSE [desk[d] EXCEPT !.rest = rest]
         IN  \/ /\ {v, survivor} \in splits
                /\ desk' = [desk EXCEPT ![d] = next]
                /\ UNCHANGED tables
             \/ /\ {v, survivor} \notin splits /\ Mergeable(v, survivor, <<>>)
                /\ Fold(v, survivor)
                /\ desk' = [desk EXCEPT ![d] = next]
             \/ /\ {v, survivor} \notin splits /\ ~Mergeable(v, survivor, <<>>)
                /\ desk' = [desk EXCEPT ![d] = Rest]
                /\ UNCHANGED tables
    /\ UNCHANGED <<used, splits, wanted, adder, sweep>>

-----------------------------------------------------------------------------
(* A reader puts a series in their library, by an id that may be an old one, or takes
   it out.  Bound: one at a time. *)
Mark(w) ==
    /\ w \in used /\ library = {}
    /\ library' = {w}
    /\ wanted' = IF w \in works THEN {w} ELSE {}
    /\ UNCHANGED <<used, works, owner, anchor, alias, trait, redirect, cands, splits, calls>>

Unmark(w) ==
    /\ w \in library
    /\ library' = library \ {w}
    /\ wanted' = {v \in wanted : Home(v) # w}
    /\ UNCHANGED <<used, works, owner, anchor, alias, trait, redirect, cands, splits, calls>>

(* The server restarts: no call goes on. *)
Crash ==
    /\ adder' = [p \in Adder |-> Away]
    /\ sweep' = Rest
    /\ desk' = [d \in Desk |-> Rest]
    /\ UNCHANGED <<used, tables, splits, wanted>>

Next ==
    \/ \E m \in Mirror : Upsert(m)
    \/ Purge
    \/ \E p \in Adder :
         \/ \E s \in Source : Add(p, s)
         \/ MintWork(p) \/ Link(p) \/ CheckClaim(p) \/ Reclaim(p) \/ ProposeMatch(p)
    \/ \E w \in Work : Reconcile(w)
    \/ Match
    \/ \E t \in Title : Consolidate(t)
    \/ SweepFold
    \/ \E loser, survivor \in Work : MergeWorks(loser, survivor)
    \/ \E d \in Desk :
         \/ \E w \in Work : SplitRead(d, w)
         \/ SplitWrite(d)
         \/ \E r \in Row : Accept(d, r)
         \/ AcceptFold(d)
         \/ \E w \in Work, t \in Title : AddTitle(d, w, t)
         \/ TitleFold(d)
    \/ \E r \in Row : Reject(r)
    \/ \E w \in Work : Mark(w) \/ Unmark(w)
    \/ Crash

Spec == Init /\ [][Next]_vars
-----------------------------------------------------------------------------
(* Properties. *)

(* A redirect leads to its end in one hop: load_work_following_redirect makes no
   second, and a chain or a cycle would be a bookmark that is dead for good. *)
RedirectsFlat ==
    \A w \in used : redirect[w] # None =>
      w \notin works /\ redirect[redirect[w]] = None

(* Where each id leads. *)
home ==
    [w \in Work |-> IF w \notin used THEN "unborn" ELSE IF Home(w) = None THEN "gone" ELSE Home(w)]

Forwarding == INSTANCE IdForwarding WITH Unborn <- "unborn", Gone <- "gone"

(* However merges, splits and deletions interleave with calls that hold ids, an id
   leads where IdForwarding says. *)
Forwards == Forwarding!Spec

(* The MangaDex id of a series and its mapping name one work.  If a merge or a split
   moved only one of them, the next sync would write to a work without the series, or
   mint it again. *)
AnchorAgrees == \A m \in Mirror : anchor[m] = owner[m]

(* What a reader put in the library is found there through its redirects, until they
   take it out or the work is deleted. *)
LibraryKept == \A w \in wanted : Home(w) \in library \cup {None}

(* A merge nobody asked for by naming both works. *)
Automatic(loser, survivor) ==
    /\ loser \in works \ works' /\ redirect'[loser] = survivor
    /\ \/ sweep.at = "fold" /\ sweep' # sweep
       \/ \E d \in Desk : desk[d].at = "alias" /\ desk'[d] # desk[d]

(* The two halves of a split are not merged again by a sweep or by a new title. *)
SplitHonoured ==
    [][\A loser, survivor \in Work :
         Automatic(loser, survivor) => {loser, survivor} \notin splits]_vars

(* What consolidate_gate found alike is alike when it is merged. *)
MergesAlike ==
    [][sweep.at = "fold" /\ sweep' # sweep /\ works' # works /\ sweep.judged # <<>>
         => trait[sweep.loser] = trait[sweep.survivor]]_vars
===============================================================================
