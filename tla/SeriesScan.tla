------------------------------ MODULE SeriesScan ------------------------------
(***************************************************************************)
(* The bookkeeping of one series' scans (apps/server/src/scanner.rs): its  *)
(* row of series_scan_state, the cached chapter list the readers see, and  *)
(* every caller that may be scanning it at the same time: the source's     *)
(* scan loop, the admin mutations and the enrol paths.                     *)
(*                                                                         *)
(* A scan is a sequence of awaits (fetch, cache write, record, feed touch, *)
(* park), and each database write is its own transaction, so whatever      *)
(* another caller does falls between any two of them.  Rows of different   *)
(* series share nothing here: one row stands for all.  Time is abstracted  *)
(* to what next_scan_at means: due, later, parked, or a legacy date years  *)
(* away.                                                                   *)
(***************************************************************************)
EXTENDS Naturals, FiniteSets

CONSTANTS
    Chapter,     \* chapter ids the source may serve for the series
    Back,        \* the ones it serves when the series is enrolled
    Fleeting,    \* bound: the ones it may take down again
    LoopScan,    \* bound: scans the source's loop may have in flight at once
    AdminScan,   \* bound: scans the admins and the enrol paths may have in flight
    Faults,      \* what may go wrong, a subset of FaultKinds
    Overrides    \* bound: the values of series_admin.paused_override in play

Scan == LoopScan \cup AdminScan

FaultKinds == {"error", "cached", "locked", "broken", "crash"}

ASSUME SeriesScanAssumption ==
    /\ Back \subseteq Chapter /\ Fleeting \subseteq Chapter
    /\ Faults \subseteq FaultKinds
    /\ "auto" \in Overrides /\ Overrides \subseteq {"auto", "paused", "running"}

VARIABLES
    upstream,   \* chapters the source serves now
    override,   \* series_admin.paused_override
    enrolled,   \* the source_series mapping exists
    sched,      \* next_scan_at of the row
    observed,   \* the row has a snapshot: known_chapter_ids IS NOT NULL
    known,      \* the snapshot, {} when there is none
    cached,     \* suwayomi_chapter: the list the readers are served
    feedFresh,  \* feed_series_updates agrees with last_new_chapter_at
    scan,       \* the scans in flight
    entered,    \* history: how each chapter last came into the snapshot
    gone        \* history: chapters the source has taken down

snapshotVars == <<observed, known>>
rowVars == <<sched, snapshotVars>>
sourceVars == <<upstream, gone>>
adminVars == <<override, enrolled>>
vars == <<sourceVars, adminVars, rowVars, cached, feedFresh, scan, entered>>

Schedules == {"none", "due", "later", "parked", "legacy"}

(* newer and age are history: the scans that fetched after this one did, and
   whether one of them has recorded its list already. *)
NoScan == [at |-> "idle", by |-> "due", list |-> {}, override |-> "auto",
           park |-> FALSE, newer |-> {}, age |-> "current"]

ScanRecord ==
    [at : {"idle", "fetch", "cache", "record", "touch", "park", "fail", "fallback"},
     by : {"due", "edit", "ask"},
     list : SUBSET Chapter, override : Overrides, park : BOOLEAN,
     newer : SUBSET Scan, age : {"current", "overtaken"}]

(* A chapter the snapshot never had or lost to an overtaken list, one of the
   first list recorded, one announced, and one announced on top of either while
   it was up. *)
Entries == {"never", "first", "announced", "again"}

TypeOK ==
    /\ upstream \subseteq Chapter
    /\ override \in Overrides
    /\ enrolled \in BOOLEAN
    /\ sched \in Schedules
    /\ observed \in BOOLEAN
    /\ known \subseteq Chapter
    /\ cached \subseteq Chapter
    /\ feedFresh \in BOOLEAN
    /\ scan \in [Scan -> ScanRecord]
    /\ entered \in [Chapter -> Entries]
    /\ gone \subseteq Chapter

HasRow == sched # "none"

(* A series nobody enrolled yet, or one of the legacy rows whose next scan the
   old unclamped intervals scheduled years out. *)
Init ==
    /\ upstream = Back /\ gone = {}
    /\ override = "auto"
    /\ \/ enrolled = FALSE /\ sched = "none"
          /\ observed = FALSE /\ known = {} /\ cached = {}
       \/ enrolled = TRUE /\ sched = "legacy"
          /\ observed = TRUE /\ known = Back /\ cached = Back
    /\ feedFresh = TRUE
    /\ scan = [s \in Scan |-> NoScan]
    /\ entered = [c \in Chapter |-> IF c \in known THEN "first" ELSE "never"]

-----------------------------------------------------------------------------
(* Starting a scan, and moving one on: Drop forgets what was fetched. *)

Goto(s, at) == scan' = [scan EXCEPT ![s].at = at]
Put(s, r) ==
    scan' = [t \in Scan |-> IF t = s THEN r ELSE [scan[t] EXCEPT !.newer = @ \ {s}]]
Drop(s, at) == Put(s, [NoScan EXCEPT !.at = at, !.by = scan[s].by])
Done(s) == Put(s, NoScan)

(* A scan starts. scan_due reads series_admin here, before the first await; on
   the other paths nothing depends on it. *)
Begin(s, by, o) ==
    /\ scan[s] = NoScan
    /\ scan' = [scan EXCEPT ![s] = [NoScan EXCEPT !.at = "fetch", !.by = by, !.override = o]]

(* The source's scan loop picks the row because next_scan_at <= now. Nothing
   keeps an admin's scan of the series from running beside it. *)
ScanDue(s) ==
    /\ sched = "due"
    /\ Begin(s, "due", override)
    /\ UNCHANGED <<sourceVars, adminVars, rowVars, cached, feedFresh, entered>>

(* triggerScan and rescanWork. *)
TriggerScan(s) ==
    /\ enrolled
    /\ Begin(s, "ask", "auto")
    /\ UNCHANGED <<sourceVars, adminVars, rowVars, cached, feedFresh, entered>>

(* setSeriesPaused(true) only writes the override; unpausing also scans. *)
PauseSeries ==
    /\ enrolled
    /\ "paused" \in Overrides /\ override' = "paused"
    /\ UNCHANGED <<sourceVars, enrolled, rowVars, cached, feedFresh, scan,
                   entered>>

UnpauseSeries(s) ==
    /\ enrolled
    /\ "running" \in Overrides /\ override' = "running"
    /\ Begin(s, "ask", "auto")
    /\ UNCHANGED <<sourceVars, enrolled, rowVars, cached, feedFresh, entered>>

(* updateSeriesAdmin writes every override and scans, with its own way out
   when the scan fails. *)
UpdateSeriesAdmin(s) ==
    /\ enrolled
    /\ override' \in Overrides
    /\ Begin(s, "edit", "auto")
    /\ UNCHANGED <<sourceVars, enrolled, rowVars, cached, feedFresh, entered>>

(* addSourceSeries registers a pending row, then scans; the bulk ingest only
   scans; federated ingest only registers. A failed insert is only logged. *)
EnsurePending ==
    sched' \in IF HasRow THEN {sched}
               ELSE IF "locked" \in Faults THEN {"due", sched} ELSE {"due"}

AddSourceSeries(s) ==
    /\ ~enrolled /\ enrolled' = TRUE
    /\ EnsurePending
    /\ Begin(s, "ask", "auto")
    /\ UNCHANGED <<sourceVars, override, snapshotVars, cached, feedFresh, entered>>

IngestSourceSeries(s) ==
    /\ ~enrolled /\ enrolled' = TRUE
    /\ Begin(s, "ask", "auto")
    /\ UNCHANGED <<sourceVars, override, rowVars, cached, feedFresh, entered>>

FederatedIngest ==
    /\ ~enrolled /\ enrolled' = TRUE
    /\ EnsurePending
    /\ UNCHANGED <<sourceVars, override, snapshotVars, cached, feedFresh, scan,
                   entered>>

-----------------------------------------------------------------------------
(* The awaits of a scan. *)

(* After the row is left as it is: the edit path marks the series due-now. *)
GiveUp(s) ==
    IF scan[s].by = "edit" THEN Drop(s, "fallback") ELSE Done(s)

(* is_paused: a forced override wins over the status the source gives. *)
Paused(o, e) == o = "paused" \/ (o = "auto" /\ e)

Fetched == {"cache", "record"}

(* The source answers: status and chapters. Whether scan_due will park the row
   follows from this status and the override it read before. *)
FetchOk(s) ==
    /\ scan[s].at = "fetch"
    /\ \E ended \in BOOLEAN :
         scan' = [t \in Scan |->
           IF t = s
           THEN [scan[s] EXCEPT !.at = "cache", !.list = upstream, !.override = "auto",
                   !.park = scan[s].by = "due" /\ Paused(scan[s].override, ended)]
           ELSE IF scan[t].at \in Fetched /\ scan[t].age = "current"
                THEN [scan[t] EXCEPT !.newer = @ \cup {s}]
                ELSE scan[t]]
    /\ UNCHANGED <<sourceVars, adminVars, rowVars, cached, feedFresh, entered>>

(* Mutant: the cache's answer is taken for the source's. *)
FetchFailsMutServeCache(s) ==
    /\ scan[s].at = "fetch"
    /\ "cached" \in Faults
    /\ scan' = [scan EXCEPT ![s].at = "cache", ![s].list = cached]
    /\ UNCHANGED <<sourceVars, adminVars, rowVars, cached, feedFresh, entered>>

(* The upstream fetch failed and Suwayomi answered from its own database, or
   there was nothing to answer from; scan_series does not back the latter off. *)
FetchFails(s) ==
    /\ scan[s].at = "fetch"
    /\ \/ "cached" \in Faults /\ Drop(s, "fail")
       \/ /\ "error" \in Faults
          /\ IF scan[s].by = "due" THEN Drop(s, "fail") ELSE GiveUp(s)
    /\ UNCHANGED <<sourceVars, adminVars, rowVars, cached, feedFresh, entered>>

(* record_scan_failure: an upsert, so the row may be created here with no
   snapshot. Its own failure is only logged. *)
RecordScanFailure(s) ==
    /\ scan[s].at = "fail"
    /\ sched' \in IF "locked" \in Faults THEN {"later", sched} ELSE {"later"}
    /\ GiveUp(s)
    /\ UNCHANGED <<sourceVars, adminVars, snapshotVars, cached, feedFresh, entered>>

(* updateSeriesAdmin's way out: an UPDATE, so it needs the row. *)
MarkDueNow(s) ==
    /\ scan[s].at = "fallback"
    /\ sched' \in IF ~HasRow THEN {sched}
                  ELSE IF "locked" \in Faults THEN {"due", sched} ELSE {"due"}
    /\ Done(s)
    /\ UNCHANGED <<sourceVars, adminVars, snapshotVars, cached, feedFresh, entered>>

(* Mutant: a list shorter than the cached one is not believed. *)
PutChaptersMutNoShrink(s) ==
    /\ scan[s].at = "cache"
    /\ cached' = IF Cardinality(scan[s].list) < Cardinality(cached) THEN cached ELSE scan[s].list
    /\ Goto(s, "record")
    /\ UNCHANGED <<sourceVars, adminVars, rowVars, feedFresh, entered>>

(* put_series and put_chapters, whose failure never fails the scan. *)
PutChapters(s) ==
    /\ scan[s].at = "cache"
    /\ cached' = scan[s].list
    /\ Goto(s, "record")
    /\ UNCHANGED <<sourceVars, adminVars, rowVars, feedFresh, entered>>

PutChaptersFails(s) ==
    /\ scan[s].at = "cache"
    /\ Faults \cap {"locked", "broken"} # {}
    /\ Goto(s, "record")
    /\ UNCHANGED <<sourceVars, adminVars, rowVars, cached, feedFresh, entered>>

(* Mutant: new chapters are looked for only when the count has grown. *)
NewMutCount(list) ==
    IF observed /\ Cardinality(list) > Cardinality(known) THEN list \ known ELSE {}

(* The chapters a list adds to the row's snapshot; the first one adds none. *)
New(list) == IF observed THEN list \ known ELSE {}

(* What recording scan s's list makes of the history of each chapter. *)
Enter(s) ==
    [c \in Chapter |->
       CASE c \in New(scan[s].list) ->
              IF entered[c] = "never" \/ c \in gone THEN "announced" ELSE "again"
         [] ~observed /\ c \in scan[s].list -> "first"
         [] scan[s].age = "overtaken" /\ c \in known \ scan[s].list -> "never"
         [] OTHER -> entered[c]]

(* The record is followed by the feed when something is new, and by the park. *)
AfterRecord(r) ==
    IF r.park THEN [NoScan EXCEPT !.at = "park", !.park = TRUE] ELSE NoScan

AfterScan(s) ==
    [t \in Scan |->
       IF t = s
       THEN IF New(scan[s].list) = {} THEN AfterRecord(scan[s])
            ELSE [NoScan EXCEPT !.at = "touch", !.park = scan[s].park]
       ELSE IF s \in scan[t].newer
            THEN [scan[t] EXCEPT !.age = "overtaken", !.newer = {}]
            ELSE scan[t]]

(* Mutant: a detection stamps the row and leaves the old snapshot in it. *)
RecordScanMutKeepSnapshot(s) ==
    /\ scan[s].at = "record"
    /\ entered' = Enter(s) /\ scan' = AfterScan(s)
    /\ feedFresh' = (feedFresh /\ New(scan[s].list) = {})
    /\ observed' = TRUE
    /\ known' = IF New(scan[s].list) = {} THEN scan[s].list ELSE known
    /\ sched' = "later"
    /\ UNCHANGED <<sourceVars, adminVars, cached>>

(* record_scan_once: one BEGIN IMMEDIATE transaction reads the prior row,
   compares, and overwrites it, whenever the list was fetched. *)
RecordScan(s) ==
    /\ scan[s].at = "record"
    /\ entered' = Enter(s) /\ scan' = AfterScan(s)
    /\ feedFresh' = (feedFresh /\ New(scan[s].list) = {})
    /\ observed' = TRUE /\ known' = scan[s].list
    /\ sched' = "later"
    /\ UNCHANGED <<sourceVars, adminVars, cached>>

(* The write lock was lost after every retry: the schedule stays as it is. Any
   other error counts as a failure on the scheduler's path only. *)
RecordScanFails(s) ==
    /\ scan[s].at = "record"
    /\ \/ "locked" \in Faults /\ GiveUp(s)
       \/ /\ "broken" \in Faults
          /\ IF scan[s].by = "due" THEN Drop(s, "fail") ELSE GiveUp(s)
    /\ UNCHANGED <<sourceVars, adminVars, rowVars, cached, feedFresh, entered>>

(* touch_feed_series_update: best-effort, the periodic rebuild repairs it. *)
TouchFeed(s) ==
    /\ scan[s].at = "touch"
    /\ feedFresh' \in IF Faults \cap {"locked", "broken"} = {} THEN {TRUE} ELSE {TRUE, feedFresh}
    /\ scan' = [scan EXCEPT ![s] = AfterRecord(scan[s])]
    /\ UNCHANGED <<sourceVars, adminVars, rowVars, cached, entered>>

(* The tail of scan_due: park_paused, after record_scan committed its own
   schedule. *)
ParkPaused(s) ==
    /\ scan[s].at = "park"
    /\ sched' \in IF "locked" \in Faults THEN {"parked", sched} ELSE {"parked"}
    /\ Done(s)
    /\ UNCHANGED <<sourceVars, adminVars, snapshotVars, cached, feedFresh, entered>>

-----------------------------------------------------------------------------
(* What else moves the row. *)

(* next_scan_at passes. *)
Elapse ==
    /\ sched \in {"later", "parked"}
    /\ sched' = "due"
    /\ UNCHANGED <<sourceVars, adminVars, snapshotVars, cached, feedFresh, scan,
                   entered>>

(* Mutant: the horizon is set so that it catches parked rows instead. *)
ReclaimAbsurdSchedulesMutHorizon ==
    /\ sched = "parked"
    /\ sched' = "later"
    /\ UNCHANGED <<sourceVars, adminVars, snapshotVars, cached, feedFresh, scan,
                   entered>>

(* The supervisor pulls rows beyond any schedule this code writes back in. *)
ReclaimAbsurdSchedules ==
    /\ sched = "legacy"
    /\ sched' = "later"
    /\ UNCHANGED <<sourceVars, adminVars, snapshotVars, cached, feedFresh, scan,
                   entered>>

(* The daily reconcile gives every enrolled series a row. *)
BackfillPending ==
    /\ enrolled /\ ~HasRow
    /\ sched' = "due"
    /\ UNCHANGED <<sourceVars, adminVars, snapshotVars, cached, feedFresh, scan,
                   entered>>

(* trigger_due_now: discovery saw the series move up its source's LATEST page,
   or the LATEST walk met it while parked. It is an UPDATE: no row, no wake. *)
TriggerDueNow ==
    /\ HasRow
    /\ sched' = "due"
    /\ UNCHANGED <<sourceVars, adminVars, snapshotVars, cached, feedFresh, scan, entered>>

(* The feed's rebuild, at boot and after every catalogue pass. *)
RefreshFeed ==
    /\ feedFresh' = TRUE
    /\ UNCHANGED <<sourceVars, adminVars, rowVars, cached, scan, entered>>

(* The process stops: the rows stay, the scans in flight do not. *)
Crash ==
    /\ "crash" \in Faults
    /\ scan' = [s \in Scan |-> NoScan]
    /\ UNCHANGED <<sourceVars, adminVars, rowVars, cached, feedFresh, entered>>

-----------------------------------------------------------------------------
(* The source. A chapter id is published once and taken down once. *)

Publish(c) ==
    /\ c \notin upstream \cup gone
    /\ upstream' = upstream \cup {c}
    /\ UNCHANGED <<gone, adminVars, rowVars, cached, feedFresh, scan, entered>>

TakeDown(c) ==
    /\ c \in upstream \cap Fleeting
    /\ upstream' = upstream \ {c}
    /\ gone' = gone \cup {c}
    /\ UNCHANGED <<adminVars, rowVars, cached, feedFresh, scan, entered>>

ScanStep(s) ==
    \/ FetchOk(s) \/ FetchFails(s) \/ RecordScanFailure(s) \/ MarkDueNow(s)
    \/ PutChapters(s) \/ PutChaptersFails(s) \/ RecordScan(s) \/ RecordScanFails(s)
    \/ TouchFeed(s) \/ ParkPaused(s)

Next ==
    \/ \E s \in LoopScan : ScanDue(s)
    \/ \E s \in AdminScan :
         \/ TriggerScan(s) \/ UnpauseSeries(s) \/ UpdateSeriesAdmin(s)
         \/ AddSourceSeries(s) \/ IngestSourceSeries(s)
    \/ \E s \in Scan : ScanStep(s)
    \/ PauseSeries \/ FederatedIngest
    \/ Elapse \/ ReclaimAbsurdSchedules \/ BackfillPending
    \/ TriggerDueNow \/ RefreshFeed \/ Crash
    \/ \E c \in Chapter : Publish(c) \/ TakeDown(c)

Spec == Init /\ [][Next]_vars

(* The server's own loops run; the source and the database answer again and
   again, however often they fail in between; nothing is promised about admins,
   discovery or the source's publishing. *)
Fairness ==
    /\ \A s \in Scan : WF_vars(ScanStep(s))
    /\ WF_vars(\E s \in LoopScan : ScanDue(s))
    /\ SF_vars(\E s \in Scan : FetchOk(s))
    /\ SF_vars(\E s \in Scan : PutChapters(s))
    /\ SF_vars(\E s \in Scan : RecordScan(s))
    /\ WF_vars(Elapse) /\ WF_vars(ReclaimAbsurdSchedules)
    /\ WF_vars(BackfillPending) /\ WF_vars(RefreshFeed)

FairSpec == Spec /\ Fairness

-----------------------------------------------------------------------------
(* Properties. *)

(* What was already out when the series was enrolled never enters the updates
   feed as new, whatever fails, whoever scans and in whatever order the scans
   commit: neither a missing row, nor a row without a snapshot, nor a list
   served from Suwayomi's own database is a baseline to compare against. *)
BackCatalogueIsSilent == \A c \in Back \ gone : entered[c] \in {"never", "first"}

(* A chapter enters the snapshot only by the first list recorded or by being
   announced: no scan takes a new chapter for a known one, also when a take-down
   leaves the count unchanged or another scan's list was recorded in between. *)
NothingSwallowed == \A c \in known : entered[c] # "never"

(* The readers' updates feed announces a chapter that stays up once, and one of
   the first list never, with a single exception: a scan that records its list
   after another scan has recorded one fetched later takes what its own list
   lacks out of the snapshot, and the scan after it announces that chapter anew.
   The comment at scanner.rs:1900-1902 says the transaction makes overlapping
   scans safe; it orders their records and not their fetches. *)
AnnouncedOnce == \A c \in Chapter : entered[c] # "again"

(* Every enrolled series is scanned again and again, whatever fails. (Here and
   below: once enrolled, it stays so.) *)
KeepsBeingScanned == []<>(enrolled => \E s \in Scan : scan[s].at = "fetch")

(* Once the source stops changing, the snapshot and the readers' list end up
   equal to what it serves, whichever scan committed last, and the feed shows
   what was detected, even if the process stopped right after it. *)
Converges ==
    <>[](enrolled => known = upstream /\ cached = upstream /\ feedFresh)
=============================================================================
