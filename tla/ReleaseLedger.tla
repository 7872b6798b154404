----------------------------- MODULE ReleaseLedger -----------------------------
(***************************************************************************)
(* The chapter spine and the release ledger (apps/server/src/catalog:      *)
(* spine.rs, ledger.rs, replace_source_chapters, merge_works_checked,      *)
(* split_source_series; series_cache.rs: put_chapters).                    *)
(*                                                                         *)
(* Two sources write chapters: the MangaDex firehose into the spine, the   *)
(* scan of a Suwayomi series first into a cache of its own and then, as a  *)
(* whole list, into the spine.  A worker in the background keys old rows,  *)
(* materialises cached series the spine has nothing of, and seeds the      *)
(* ledger.  The ledger holds, per work and chapter key, when and by which  *)
(* source the chapter was first released: the first writer of a key wins.  *)
(* Meanwhile series are mapped, dropped, and their works merged and split. *)
(***************************************************************************)
EXTENDS Naturals, FiniteSets

CONSTANTS
    Series,     \* rows of source_series, by source and key
    Suwayomi,   \* those of Suwayomi; the others are MangaDex's
    Work,       \* work ids; the id of a work that is gone is used again
    NoWork,     \* of a source without a mapping
    Gone,       \* a row of source_series that has been deleted
    Key,        \* chapter keys
    Date,       \* when each source released each chapter, 0 when it does not say
    MaxTime,    \* bound: the clock
    Faults      \* writes that may fail, a subset of FaultKinds

FaultKinds == {"spine", "ledger", "crash"}

ASSUME ReleaseLedgerAssumption ==
    /\ IsFiniteSet(Series)
    /\ Suwayomi \subseteq Series
    /\ NoWork \notin Work /\ Gone \notin Series
    /\ Date \in [Series -> [Key -> Nat]]
    /\ MaxTime \in Nat \ {0}
    /\ Faults \subseteq FaultKinds

(* A row of release_event, NoEvent when there is none. *)
Event == [at : Nat, by : Series \cup {Gone}]
NoEvent == [at |-> 0, by |-> Gone]

VARIABLES
    now,        \* the clock
    works,      \* rows of work
    workOf,     \* work_id of each row of source_series
    cache,      \* suwayomi_chapter: the chapters cached of a series
    spine,      \* chapter: the rows of a series that have a chapter_key
    unkeyed,    \* chapter: the rows that have none
    event,      \* release_event
    writer,     \* how far the writer of each series is
    worker      \* the background worker of spine.rs

library == <<works, workOf>>
chapters == <<cache, spine, unkeyed>>
vars == <<now, library, chapters, event, writer, worker>>

Boot == [at |-> "boot"]
Idle == [at |-> "idle"]
Pass == [at |-> "pass"]
Drained == [at |-> "drained"]
WorkerStates ==
    [at : {"boot", "idle", "pass", "drained"}]
    \cup [at : {"write"}, series : Suwayomi \cup {Gone}, list : SUBSET Key]
    \cup [at : {"seed"}, works : SUBSET Work]

TypeOK ==
    /\ now \in 1..MaxTime
    /\ works \subseteq Work
    /\ workOf \in [Series -> works \cup {NoWork}]
    /\ {cache, spine, unkeyed} \subseteq [Series -> SUBSET Key]
    /\ \A s \in Series :
         /\ spine[s] \cap unkeyed[s] = {}
         /\ workOf[s] = NoWork => spine[s] \cup unkeyed[s] = {}
         /\ s \notin Suwayomi => cache[s] = {}
    /\ event \in [Work -> [Key -> Event]]
    /\ \A w \in Work \ works, k \in Key : event[w][k] = NoEvent
    /\ writer \in [Series -> {"none", "cached", "written", "record"}]
    /\ worker \in WorkerStates

(* Migrations 0090 and 0091 have just run: old rows have no key, what Suwayomi
   serves is only in the cache, and the ledger is empty. *)
Init ==
    /\ now = 1
    /\ works \in SUBSET Work
    /\ workOf \in [Series -> works \cup {NoWork}]
    /\ spine = [s \in Series |-> {}]
    /\ cache \in [Series -> SUBSET Key]
    /\ unkeyed \in [Series -> SUBSET Key]
    /\ \A s \in Series : IF s \in Suwayomi THEN unkeyed[s] = {} ELSE cache[s] = {}
    /\ \A s \in Series : workOf[s] = NoWork => unkeyed[s] = {}
    /\ \A s \in Suwayomi : \A k \in cache[s] : Date[s][k] <= now
    /\ event = [w \in Work |-> [k \in Key |-> NoEvent]]
    /\ writer = [s \in Series |-> "none"]
    /\ worker = Boot

-----------------------------------------------------------------------------
(* What counts as recorded and as still to do. *)

SourcesOf(w) == {s \in Series : workOf[s] = w}

(* Mutant: whatever its date. *)
SeedableMutAnyDate(s, k) == k \in spine[s] /\ Date[s][k] # 0

(* seedable_where: keyed, dated, and released by now. *)
Seedable(s, k) == k \in spine[s] /\ Date[s][k] # 0 /\ Date[s][k] <= now

Recorded(w, k) == event[w][k] # NoEvent

(* Mutant: the work list forgets the date. *)
BehindMutAnyDate == {w \in works : \E s \in SourcesOf(w), k \in Key : k \in spine[s] /\ ~Recorded(w, k)}

(* The work list of seed_batch. *)
Behind == {w \in works : \E s \in SourcesOf(w), k \in Key : Seedable(s, k) /\ ~Recorded(w, k)}

(* drain_suwayomi_series: cached chapters, and no row of the spine at all. *)
Unmaterialised == {s \in Suwayomi : workOf[s] # NoWork /\ cache[s] # {} /\ spine[s] \cup unkeyed[s] = {}}

(* spine::remaining answers (0, 0). *)
SpineComplete == Unmaterialised = {} /\ \A s \in Series : unkeyed[s] = {}

(* INSERT OR IGNORE of the earliest seedable row of each key among these series:
   the first writer of a key wins, whatever date it brings. *)
Insert(w, sources) ==
    LET From(k) == {s \in sources : Seedable(s, k)}
        First(k) == CHOOSE s \in From(k) : \A t \in From(k) : Date[s][k] <= Date[t][k]
    IN  event' = [event EXCEPT ![w] = [k \in Key |->
            IF Recorded(w, k) \/ From(k) = {} THEN @[k]
            ELSE [at |-> Date[First(k)][k], by |-> First(k)]]]

(* record_source_series *)
RecordSeries(s) ==
    IF workOf[s] = NoWork THEN UNCHANGED event ELSE Insert(workOf[s], {s})

(* replace_source_chapters: the rows of the list are written, keyed, and the
   ones that vanished from it deleted. *)
Replace(s, list) ==
    /\ spine' = [spine EXCEPT ![s] = list]
    /\ unkeyed' = [unkeyed EXCEPT ![s] = {}]

-----------------------------------------------------------------------------
(* The writers. Each is at most one per series at a time, which is a bound. *)

Goes(s, stage) == writer' = [writer EXCEPT ![s] = stage]

(* sync_chapters: a page offers a chapter of a catalogued series. Those of later
   dates are scheduled. *)
UpsertChapter(s, k) ==
    /\ s \notin Suwayomi /\ workOf[s] # NoWork
    /\ spine' = [spine EXCEPT ![s] = @ \cup {k}]
    /\ unkeyed' = [unkeyed EXCEPT ![s] = @ \ {k}]
    /\ Goes(s, "record")
    /\ UNCHANGED <<now, library, cache, event, worker>>

(* put_chapters: the list differs from the cached one and replaces it. *)
PutChapters(s, list) ==
    /\ s \in Suwayomi /\ writer[s] = "none"
    /\ list # cache[s] /\ \A k \in list : Date[s][k] <= now
    /\ cache' = [cache EXCEPT ![s] = list]
    /\ Goes(s, "cached")
    /\ UNCHANGED <<now, library, spine, unkeyed, event, worker>>

(* write_chapters_to_spine, which has nowhere to write without a mapping. *)
WriteSpine(s) ==
    /\ writer[s] = "cached"
    /\ IF workOf[s] = NoWork
       THEN Goes(s, "none") /\ UNCHANGED <<spine, unkeyed>>
       ELSE Goes(s, "written") /\ Replace(s, cache[s])
    /\ UNCHANGED <<now, library, cache, event, worker>>

(* Its failure is logged. *)
WriteSpineFails(s) ==
    /\ "spine" \in Faults
    /\ writer[s] = "cached"
    /\ Goes(s, "none")
    /\ UNCHANGED <<now, library, chapters, event, worker>>

(* The gate of the Suwayomi half: while the spine fills, the seed records. *)
Gate(s) ==
    /\ writer[s] = "written"
    /\ Goes(s, IF SpineComplete THEN "record" ELSE "none")
    /\ UNCHANGED <<now, library, chapters, event, worker>>

(* record_source_series, for MangaDex at the end of the page and without a gate. *)
Record(s) ==
    /\ writer[s] = "record"
    /\ RecordSeries(s)
    /\ Goes(s, "none")
    /\ UNCHANGED <<now, library, chapters, worker>>

RecordFails(s) ==
    /\ "ledger" \in Faults
    /\ writer[s] = "record"
    /\ Goes(s, "none")
    /\ UNCHANGED <<now, library, chapters, event, worker>>

-----------------------------------------------------------------------------
(* The worker. A pass that moved something is followed by another, so that its
   batches follow one another until nothing is left; a batch is one series. *)

DrainKeys(s) ==
    /\ worker = Pass
    /\ unkeyed[s] # {}
    /\ spine' = [spine EXCEPT ![s] = @ \cup unkeyed[s]]
    /\ unkeyed' = [unkeyed EXCEPT ![s] = {}]
    /\ UNCHANGED <<now, library, cache, event, writer, worker>>

(* drain_suwayomi_series reads the cached list, and then writes it. *)
DrainRead(s) ==
    /\ worker = Pass
    /\ s \in Unmaterialised
    /\ worker' = [at |-> "write", series |-> s, list |-> cache[s]]
    /\ UNCHANGED <<now, library, chapters, event, writer>>

(* An error, here of the foreign key, ends the pass until the next recheck. *)
DrainWrite ==
    /\ worker.at = "write"
    /\ IF worker.series = Gone
       THEN worker' = Idle /\ UNCHANGED <<spine, unkeyed>>
       ELSE worker' = Pass /\ Replace(worker.series, worker.list)
    /\ UNCHANGED <<now, library, cache, event, writer>>

NothingToDrain ==
    /\ worker = Pass
    /\ SpineComplete
    /\ worker' = Drained
    /\ UNCHANGED <<now, library, chapters, event, writer>>

(* seed_ledger_if_spine_complete asks again: the work list of one batch. *)
SeedBatch ==
    /\ worker = Drained
    /\ SpineComplete /\ Behind # {}
    /\ worker' = [at |-> "seed", works |-> Behind]
    /\ UNCHANGED <<now, library, chapters, event, writer>>

(* Mutant: the seed reads MangaDex alone. *)
SeedWorkMutMirror(w) ==
    /\ worker.at = "seed" /\ w \in worker.works
    /\ Insert(w, SourcesOf(w) \ Suwayomi)
    /\ worker' = IF worker.works = {w} THEN Pass ELSE [worker EXCEPT !.works = @ \ {w}]
    /\ UNCHANGED <<now, library, chapters, writer>>

(* seed_work, one statement that reads every source of the work. *)
SeedWork(w) ==
    /\ worker.at = "seed" /\ w \in worker.works
    /\ Insert(w, SourcesOf(w))
    /\ worker' = IF worker.works = {w} THEN Pass ELSE [worker EXCEPT !.works = @ \ {w}]
    /\ UNCHANGED <<now, library, chapters, writer>>

PassFails ==
    /\ "ledger" \in Faults
    /\ worker.at \in {"write", "seed"}
    /\ worker' = Idle
    /\ UNCHANGED <<now, library, chapters, event, writer>>

(* A pass that finds nothing to do naps, and so does one that something new on
   the way to the spine keeps from seeding. *)
Nap ==
    /\ worker = Drained
    /\ ~(SpineComplete /\ Behind # {})
    /\ worker' = Idle
    /\ UNCHANGED <<now, library, chapters, event, writer>>

Wake ==
    /\ worker \in {Boot, Idle}
    /\ worker' = Pass
    /\ UNCHANGED <<now, library, chapters, event, writer>>

Crash ==
    /\ "crash" \in Faults
    /\ worker' = Boot
    /\ writer' = [s \in Series |-> "none"]
    /\ UNCHANGED <<now, library, chapters, event>>

-----------------------------------------------------------------------------
(* The library. *)

(* A source is mapped to a work, which may be new. *)
MapSeries(s, w) ==
    /\ workOf[s] = NoWork
    /\ workOf' = [workOf EXCEPT ![s] = w]
    /\ works' = works \cup {w}
    /\ UNCHANGED <<now, chapters, event, writer, worker>>

(* Writes under way to a row of source_series that is deleted come to nothing;
   a list still to be written finds the mapping there is by then. *)
Dangle(s) ==
    /\ writer' = [writer EXCEPT ![s] = IF @ = "cached" THEN @ ELSE "none"]
    /\ worker' = IF worker.at = "write" /\ worker.series = s
                 THEN [worker EXCEPT !.series = Gone] ELSE worker

(* Mutant: the events go with the source that was first. *)
DropSeriesMutCascade(s) ==
    /\ workOf[s] # NoWork
    /\ workOf' = [workOf EXCEPT ![s] = NoWork]
    /\ spine' = [spine EXCEPT ![s] = {}]
    /\ unkeyed' = [unkeyed EXCEPT ![s] = {}]
    /\ event' = [w \in Work |-> [k \in Key |->
           IF event[w][k].by = s THEN NoEvent ELSE event[w][k]]]
    /\ Dangle(s)
    /\ UNCHANGED <<now, works, cache>>

(* DELETE FROM source_series takes its chapters along. The events stay, of a
   source that is no more: its id is not used again. *)
DropSeries(s) ==
    /\ workOf[s] # NoWork
    /\ workOf' = [workOf EXCEPT ![s] = NoWork]
    /\ spine' = [spine EXCEPT ![s] = {}]
    /\ unkeyed' = [unkeyed EXCEPT ![s] = {}]
    /\ event' = [w \in Work |-> [k \in Key |->
           IF event[w][k].by = s THEN [event[w][k] EXCEPT !.by = Gone] ELSE event[w][k]]]
    /\ Dangle(s)
    /\ UNCHANGED <<now, works, cache>>

(* Mutant: the survivor keeps its own. *)
EarlierMutOwn(e, f) == IF e = NoEvent THEN f ELSE e

(* merge_release_events: the earlier of the two, the survivor's on a tie. *)
Earlier(e, f) == IF f = NoEvent \/ (e # NoEvent /\ e.at <= f.at) THEN e ELSE f

(* merge_works_checked: v into w. *)
Merge(v, w) ==
    /\ {v, w} \subseteq works /\ v # w
    /\ works' = works \ {v}
    /\ workOf' = [s \in Series |-> IF workOf[s] = v THEN w ELSE workOf[s]]
    /\ event' = [event EXCEPT
           ![w] = [k \in Key |-> Earlier(event[w][k], event[v][k])],
           ![v] = [k \in Key |-> NoEvent]]
    /\ UNCHANGED <<now, chapters, writer, worker>>

(* split_source_series: the detached rows leave w for the new work v, and take
   along the events they won of keys no remaining row has. *)
Split(w, detached, v) ==
    LET stay == SourcesOf(w) \ detached
        Leaves(k) == event[w][k].by \in detached /\ \A s \in stay : k \notin spine[s]
    IN  /\ detached # {} /\ detached \subseteq SourcesOf(w) /\ stay # {}
        /\ v \in Work \ works
        /\ works' = works \cup {v}
        /\ workOf' = [s \in Series |-> IF s \in detached THEN v ELSE workOf[s]]
        /\ event' = [event EXCEPT
               ![v] = [k \in Key |-> IF Leaves(k) THEN event[w][k] ELSE NoEvent],
               ![w] = [k \in Key |-> IF Leaves(k) THEN NoEvent ELSE event[w][k]]]
        /\ UNCHANGED <<now, chapters, writer, worker>>

Clock ==
    /\ now < MaxTime
    /\ now' = now + 1
    /\ UNCHANGED <<library, chapters, event, writer, worker>>

-----------------------------------------------------------------------------
Sources == \E s \in Series :
    (\E k \in Key : UpsertChapter(s, k)) \/ (\E list \in SUBSET Key : PutChapters(s, list))

Writer(s) == WriteSpine(s) \/ Gate(s) \/ Record(s)

Worker ==
    \/ \E s \in Series : DrainKeys(s) \/ DrainRead(s)
    \/ DrainWrite \/ NothingToDrain \/ SeedBatch \/ Nap \/ Wake
    \/ \E w \in Work : SeedWork(w)

Fault == PassFails \/ Crash \/ \E s \in Series : WriteSpineFails(s) \/ RecordFails(s)

Admin ==
    \/ \E s \in Series : DropSeries(s) \/ \E w \in Work : MapSeries(s, w)
    \/ \E v, w \in Work : Merge(v, w) \/ \E detached \in SUBSET Series : Split(w, detached, v)

Next == Sources \/ (\E s \in Series : Writer(s)) \/ Worker \/ Clock \/ Fault \/ Admin

Spec == Init /\ [][Next]_vars

(* Writers and worker go on; faults, and changes to the library and by the
   sources, come to an end. *)
Quiet == (\E s \in Series : Writer(s)) \/ Worker \/ Clock

Fairness ==
    /\ \A s \in Series : WF_vars(Writer(s))
    /\ WF_vars(Worker)
    /\ <>[][Quiet]_vars

FairSpec == Spec /\ Fairness

-----------------------------------------------------------------------------
(* No event is dated in the future (assert_no_future_events): whatever the dates
   the sources bring, a scheduled chapter is not recorded before it is out. *)
NoFutureEvents == \A w \in Work, k \in Key : event[w][k].at <= now

(* A chapter that was announced for a work stays announced there, at the same
   time or earlier; and when the work is merged away, in the survivor
   (merge_release_events). So no merge puts a back catalogue on /updates. *)
NeverReannounced ==
    [][\A s \in Series, k \in Key :
         LET w == workOf[s]  v == workOf'[s] IN
         /\ k \in spine[s] /\ w # NoWork /\ Recorded(w, k)
         /\ k \in spine'[s] /\ v # NoWork /\ (v = w \/ w \notin works')
         => event'[v][k] # NoEvent /\ event'[v][k].at <= event[w][k].at]_vars

(* The dates in the ledger. *)
released == [w \in Work |-> [k \in Key |-> event[w][k].at]]

Book == INSTANCE FirstReleases WITH today <- now, live <- works

(* Two sources, the worker, merges, splits, deletions, faults and restarts leave the
   ledger the book that FirstReleases describes: a date is entered once and not before
   it has come, and goes where its work goes. *)
KeepsTheBook == Book!Spec

(* A chapter on the spine that is out is recorded, whichever path brought it
   there and whatever failed on the way. *)
EveryReleaseRecorded ==
    \A s \in Series, k \in Key :
        Seedable(s, k) ~> (~Seedable(s, k) \/ Recorded(workOf[s], k))

(* The worker comes to rest when there is nothing left for it to do: a chapter
   that cannot be recorded yet is not offered to it again and again. *)
WorkerRests == []<>(worker = Idle)
================================================================================
