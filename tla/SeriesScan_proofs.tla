-------------------------- MODULE SeriesScan_proofs --------------------------
(***************************************************************************)
(* Proofs about SeriesScan for every number of chapters and of scans in    *)
(* flight, and for every combination of faults.                            *)
(***************************************************************************)
EXTENDS SeriesScan, TLAPS

(* What was out at enrolment and has not been taken down. *)
Standing == Back \ gone

(* It is served, and it is in every list still to be recorded and in every
   snapshot. Silence alone is not inductive: an older list may commit over a
   newer one, and only this says that neither lacks a standing chapter. *)
BackIsEverywhere ==
    /\ Standing \subseteq upstream
    /\ observed => Standing \subseteq known
    /\ \A s \in Scan : scan[s].at \in Fetched => Standing \subseteq scan[s].list

Silence == BackCatalogueIsSilent /\ BackIsEverywhere

(* A row without a snapshot lists nothing as known. *)
Accounted == NothingSwallowed /\ (~observed => known = {})

(* Every list still to be recorded has what is up and known, unless a list
   fetched later has been recorded, and what is up of every list fetched before
   it. *)
ListsInOrder ==
    \A s \in Scan : scan[s].at \in Fetched =>
        /\ scan[s].list \ gone \subseteq upstream
        /\ scan[s].age = "current" =>
             /\ known \ gone \subseteq scan[s].list
             /\ \A t \in Scan \ ({s} \cup scan[s].newer) :
                    scan[t].at \in Fetched => scan[t].list \ gone \subseteq scan[s].list

(* What has entered the snapshot and is still up stays in it, unless an
   overtaken list takes it out, so it is never announced on top. *)
Once ==
    /\ AnnouncedOnce
    /\ \A c \in Chapter \ gone : entered[c] # "never" => c \in known
    /\ known \ gone \subseteq upstream
    /\ ListsInOrder

(* Moving scans so that none gets a list, grows young, or forgets a scan with a
   list that was fetched after its own. *)
NoNewList ==
    \A s \in Scan : scan'[s].at \in Fetched =>
        /\ scan[s].at \in Fetched
        /\ scan'[s].list = scan[s].list /\ scan'[s].age = scan[s].age
        /\ \A t \in scan[s].newer : scan'[t].at \in Fetched => t \in scan'[s].newer

(* A step that leaves the source and the row's snapshot alone. *)
KeepsSnapshot == UNCHANGED <<upstream, gone, snapshotVars, entered>>

-----------------------------------------------------------------------------
(* What the ways of moving a scan do to the scans. *)

LEMMA MoveFacts ==
    ASSUME TypeOK, NEW s \in Scan, NEW at \in {"idle", "fetch", "cache", "record",
               "touch", "park", "fail", "fallback"}
    PROVE  /\ Goto(s, at) => scan' \in [Scan -> ScanRecord]
           /\ Drop(s, at) => scan' \in [Scan -> ScanRecord]
           /\ Done(s) => scan' \in [Scan -> ScanRecord]
           /\ GiveUp(s) => scan' \in [Scan -> ScanRecord]
           /\ Drop(s, at) /\ at \notin Fetched => NoNewList
           /\ Goto(s, at) /\ (at \in Fetched => scan[s].at \in Fetched) => NoNewList
           /\ Done(s) => NoNewList
           /\ GiveUp(s) => NoNewList
<1>1. scan \in [Scan -> ScanRecord] /\ scan[s] \in ScanRecord
  BY DEF TypeOK
<1>2. NoScan \in ScanRecord /\ NoScan.at = "idle"
  BY SeriesScanAssumption DEF NoScan, ScanRecord
<1>0. ASSUME NEW r \in ScanRecord, Put(s, r)
      PROVE  scan' \in [Scan -> ScanRecord] /\ (r.at \notin Fetched => NoNewList)
  <2>1. \A t \in Scan : [scan[t] EXCEPT !.newer = @ \ {s}] \in ScanRecord
    BY <1>1 DEF ScanRecord
  <2>2. scan' \in [Scan -> ScanRecord] /\ scan'[s] = r
    BY <2>1, <1>0 DEF Put
  <2>3. \A t \in Scan \ {s} : /\ scan'[t].at = scan[t].at /\ scan'[t].list = scan[t].list
                              /\ scan'[t].age = scan[t].age
                              /\ scan'[t].newer = scan[t].newer \ {s}
    BY <1>0, <1>1 DEF Put, ScanRecord
  <2>4. \A t \in Scan : scan[t].newer \subseteq Scan
    BY <1>1 DEF ScanRecord
  <2>5. ASSUME r.at \notin Fetched PROVE NoNewList
    BY <2>2, <2>3, <2>4, <2>5 DEF NoNewList
  <2>. QED BY <2>2, <2>5
<1>3. [NoScan EXCEPT !.at = at, !.by = scan[s].by] \in ScanRecord
  BY <1>1, <1>2 DEF NoScan, ScanRecord
<1>4. [NoScan EXCEPT !.at = "fallback", !.by = scan[s].by] \in ScanRecord
  BY <1>1, <1>2 DEF NoScan, ScanRecord
<1>5. /\ Goto(s, at) => scan' \in [Scan -> ScanRecord]
      /\ Goto(s, at) /\ (at \in Fetched => scan[s].at \in Fetched) => NoNewList
  BY <1>1 DEF Goto, ScanRecord, NoNewList, Fetched
<1>6. /\ Drop(s, at) => scan' \in [Scan -> ScanRecord]
      /\ Drop(s, at) /\ at \notin Fetched => NoNewList
  <2>1. [NoScan EXCEPT !.at = at, !.by = scan[s].by].at = at
    BY DEF NoScan
  <2>. QED BY <1>0, <1>3, <2>1 DEF Drop
<1>7. /\ Done(s) => scan' \in [Scan -> ScanRecord]
      /\ Done(s) => NoNewList
  BY <1>0, <1>2 DEF Done, Fetched
<1>8. /\ GiveUp(s) => scan' \in [Scan -> ScanRecord]
      /\ GiveUp(s) => NoNewList
  <2>1. [NoScan EXCEPT !.at = "fallback", !.by = scan[s].by].at = "fallback"
    BY DEF NoScan
  <2>. QED BY <1>0, <1>4, <1>7, <2>1 DEF GiveUp, Drop, Fetched
<1>. QED BY <1>5, <1>6, <1>7, <1>8

LEMMA BeginFacts ==
    ASSUME TypeOK, NEW s \in Scan, NEW by \in {"due", "edit", "ask"}, NEW o \in Overrides,
           Begin(s, by, o)
    PROVE  scan' \in [Scan -> ScanRecord] /\ NoNewList
<1>1. scan \in [Scan -> ScanRecord]
  BY DEF TypeOK
<1>2. [NoScan EXCEPT !.at = "fetch", !.by = by, !.override = o] \in ScanRecord
  BY SeriesScanAssumption DEF NoScan, ScanRecord
<1>3. scan' \in [Scan -> ScanRecord]
  BY <1>1, <1>2 DEF Begin
<1>4. NoNewList
  BY <1>1, <1>2 DEF Begin, NoNewList, Fetched, NoScan, ScanRecord
<1>. QED BY <1>3, <1>4

(* What the end of a record does to the scans: it leaves a scan that holds no
   list, and the others as they were, but for being overtaken. *)
LEMMA RecordFacts ==
    ASSUME TypeOK, NEW s \in Scan
    PROVE  /\ AfterRecord(scan[s]) \in ScanRecord
           /\ AfterRecord(scan[s]).at \in {"idle", "park"}
           /\ AfterScan(s) \in [Scan -> ScanRecord]
           /\ AfterScan(s)[s].at \notin Fetched
           /\ \A t \in Scan \ {s} :
                /\ AfterScan(s)[t].at = scan[t].at /\ AfterScan(s)[t].list = scan[t].list
                /\ s \in scan[t].newer => AfterScan(s)[t].age = "overtaken"
                /\ s \notin scan[t].newer => AfterScan(s)[t] = scan[t]
<1>1. \A t \in Scan : scan[t] \in ScanRecord
  BY DEF TypeOK
<1>2. NoScan \in ScanRecord /\ NoScan.at = "idle"
  BY SeriesScanAssumption DEF NoScan, ScanRecord
<1>3. /\ AfterRecord(scan[s]) \in ScanRecord
      /\ AfterRecord(scan[s]).at \in {"idle", "park"}
  BY <1>2 DEF AfterRecord, NoScan, ScanRecord
<1>4. [NoScan EXCEPT !.at = "touch", !.park = scan[s].park] \in ScanRecord
  BY <1>1, <1>2 DEF NoScan, ScanRecord
<1>5. [NoScan EXCEPT !.at = "touch", !.park = scan[s].park].at = "touch"
  BY DEF NoScan
<1>6. \A t \in Scan : /\ [scan[t] EXCEPT !.age = "overtaken", !.newer = {}] \in ScanRecord
                      /\ [scan[t] EXCEPT !.age = "overtaken", !.newer = {}].at = scan[t].at
                      /\ [scan[t] EXCEPT !.age = "overtaken", !.newer = {}].list = scan[t].list
                      /\ [scan[t] EXCEPT !.age = "overtaken", !.newer = {}].age = "overtaken"
  BY <1>1 DEF ScanRecord
<1>7. AfterScan(s)[s] \in ScanRecord /\ AfterScan(s)[s].at \notin Fetched
  BY <1>3, <1>4, <1>5 DEF AfterScan, Fetched
<1>8. \A t \in Scan \ {s} :
        AfterScan(s)[t] = IF s \in scan[t].newer
                          THEN [scan[t] EXCEPT !.age = "overtaken", !.newer = {}] ELSE scan[t]
  BY DEF AfterScan
<1>9. \A t \in Scan : AfterScan(s)[t] \in ScanRecord
  BY <1>1, <1>6, <1>7, <1>8
<1>10. AfterScan(s) \in [Scan -> ScanRecord]
  BY <1>9 DEF AfterScan
<1>. QED BY <1>3, <1>6, <1>7, <1>8, <1>10

(* What it does to the history, chapter by chapter. *)
LEMMA EnterFacts ==
    ASSUME TypeOK, NEW s \in Scan, NEW c \in Chapter
    PROVE  /\ Enter(s)[c] \in Entries
           /\ c \in New(scan[s].list) => Enter(s)[c] \in {"announced", "again"}
           /\ Enter(s)[c] = "again" =>
                \/ c \in New(scan[s].list) /\ entered[c] # "never" /\ c \notin gone
                \/ entered[c] = "again"
           /\ c \notin New(scan[s].list) => Enter(s)[c] \in {"first", "never", entered[c]}
           /\ ~observed /\ c \in scan[s].list => Enter(s)[c] = "first"
           /\ c \notin New(scan[s].list) /\ observed /\ c \in scan[s].list =>
                Enter(s)[c] = entered[c]
           /\ c \notin scan[s].list => Enter(s)[c] \in {"never", entered[c]}
           /\ c \in known \ scan[s].list /\ scan[s].age = "overtaken" => Enter(s)[c] = "never"
<1>1. entered[c] \in Entries
  BY DEF TypeOK
<1>2. New(scan[s].list) \subseteq scan[s].list \ known /\ (~observed => New(scan[s].list) = {})
  BY DEF New
<1>3. Enter(s)[c] =
       CASE c \in New(scan[s].list) ->
              IF entered[c] = "never" \/ c \in gone THEN "announced" ELSE "again"
         [] ~observed /\ c \in scan[s].list -> "first"
         [] scan[s].age = "overtaken" /\ c \in known \ scan[s].list -> "never"
         [] OTHER -> entered[c]
  BY DEF Enter
<1>4. CASE c \in New(scan[s].list)
  BY <1>1, <1>2, <1>3, <1>4 DEF Entries
<1>5. CASE c \notin New(scan[s].list)
  <2>1. CASE ~observed /\ c \in scan[s].list
    BY <1>3, <1>5, <2>1 DEF Entries
  <2>2. CASE scan[s].age = "overtaken" /\ c \in known \ scan[s].list
    BY <1>3, <1>5, <2>2 DEF Entries
  <2>3. CASE /\ ~(~observed /\ c \in scan[s].list)
             /\ ~(scan[s].age = "overtaken" /\ c \in known \ scan[s].list)
    <3>1. Enter(s)[c] = entered[c]
      BY <1>3, <1>5, <2>3
    <3>. QED BY <1>1, <1>5, <2>3, <3>1
  <2>. QED BY <2>1, <2>2, <2>3
<1>. QED BY <1>4, <1>5

-----------------------------------------------------------------------------
(* Typing. *)

LEMMA TypeInit == Init => TypeOK
<1>1. NoScan \in ScanRecord
  BY SeriesScanAssumption DEF NoScan, ScanRecord
<1>2. ASSUME Init PROVE /\ enrolled \in BOOLEAN /\ sched \in Schedules /\ observed \in BOOLEAN
                        /\ known \subseteq Chapter /\ cached \subseteq Chapter
  BY <1>2, SeriesScanAssumption DEF Init, Schedules
<1>3. ASSUME Init PROVE scan \in [Scan -> ScanRecord] /\ entered \in [Chapter -> Entries]
  BY <1>1, <1>3 DEF Init, Entries
<1>. QED BY <1>2, <1>3, SeriesScanAssumption DEF Init, TypeOK

(* The steps that start a scan, and those of the admins and the enrol paths. *)
LEMMA TypeStart ==
    ASSUME TypeOK, NEW s \in Scan,
           \/ ScanDue(s) \/ TriggerScan(s) \/ UnpauseSeries(s) \/ UpdateSeriesAdmin(s)
           \/ AddSourceSeries(s) \/ IngestSourceSeries(s)
    PROVE  TypeOK'
<1>. USE SeriesScanAssumption DEF vars, sourceVars, adminVars, rowVars, snapshotVars
<1>0. override \in Overrides /\ "auto" \in Overrides
  BY DEF TypeOK
<1>1. CASE ScanDue(s)
  <2>1. scan' \in [Scan -> ScanRecord]
    BY <1>0, <1>1, BeginFacts DEF ScanDue
  <2>. QED BY <1>1, <2>1 DEF ScanDue, TypeOK
<1>2. CASE TriggerScan(s)
  <2>1. scan' \in [Scan -> ScanRecord]
    BY <1>0, <1>2, BeginFacts DEF TriggerScan
  <2>. QED BY <1>2, <2>1 DEF TriggerScan, TypeOK
<1>3. CASE UnpauseSeries(s)
  <2>1. scan' \in [Scan -> ScanRecord]
    BY <1>0, <1>3, BeginFacts DEF UnpauseSeries
  <2>. QED BY <1>3, <2>1 DEF UnpauseSeries, TypeOK
<1>4. CASE UpdateSeriesAdmin(s)
  <2>1. scan' \in [Scan -> ScanRecord]
    BY <1>0, <1>4, BeginFacts DEF UpdateSeriesAdmin
  <2>. QED BY <1>4, <2>1 DEF UpdateSeriesAdmin, TypeOK
<1>5. CASE AddSourceSeries(s)
  <2>1. scan' \in [Scan -> ScanRecord]
    BY <1>0, <1>5, BeginFacts DEF AddSourceSeries
  <2>2. sched' \in Schedules
    BY <1>5 DEF AddSourceSeries, EnsurePending, TypeOK, Schedules
  <2>. QED BY <1>5, <2>1, <2>2 DEF AddSourceSeries, TypeOK
<1>6. CASE IngestSourceSeries(s)
  <2>1. scan' \in [Scan -> ScanRecord]
    BY <1>0, <1>6, BeginFacts DEF IngestSourceSeries
  <2>. QED BY <1>6, <2>1 DEF IngestSourceSeries, TypeOK
<1>. QED BY <1>1, <1>2, <1>3, <1>4, <1>5, <1>6

(* The awaits of a scan. *)
LEMMA TypeScanStep ==
    ASSUME TypeOK, NEW s \in Scan, ScanStep(s)
    PROVE  TypeOK'
<1>. USE SeriesScanAssumption DEF sourceVars, adminVars, rowVars, snapshotVars
<1>0. scan \in [Scan -> ScanRecord] /\ scan[s] \in ScanRecord
  BY DEF TypeOK
<1>1. CASE FetchOk(s)
  <2>1. PICK ended \in BOOLEAN :
          scan' = [t \in Scan |->
            IF t = s
            THEN [scan[s] EXCEPT !.at = "cache", !.list = upstream, !.override = "auto",
                    !.park = scan[s].by = "due" /\ Paused(scan[s].override, ended)]
            ELSE IF scan[t].at \in Fetched /\ scan[t].age = "current"
                 THEN [scan[t] EXCEPT !.newer = @ \cup {s}]
                 ELSE scan[t]]
    BY <1>1 DEF FetchOk
  <2>2. (scan[s].by = "due" /\ Paused(scan[s].override, ended)) \in BOOLEAN
    BY DEF Paused
  <2>3. upstream \subseteq Chapter
    BY DEF TypeOK
  <2>4. scan'[s] \in ScanRecord
    BY <1>0, <2>1, <2>2, <2>3 DEF ScanRecord
  <2>5. \A t \in Scan : [scan[t] EXCEPT !.newer = @ \cup {s}] \in ScanRecord
    BY <1>0 DEF ScanRecord
  <2>6. \A t \in Scan : scan'[t] \in ScanRecord
    BY <1>0, <2>1, <2>4, <2>5
  <2>7. scan' \in [Scan -> ScanRecord]
    BY <2>1, <2>6
  <2>. QED BY <1>1, <2>7 DEF FetchOk, TypeOK
<1>2. CASE FetchFails(s)
  <2>1. scan' \in [Scan -> ScanRecord]
    BY <1>2, MoveFacts DEF FetchFails
  <2>. QED BY <1>2, <2>1 DEF FetchFails, TypeOK
<1>3. CASE RecordScanFailure(s)
  <2>1. scan' \in [Scan -> ScanRecord]
    BY <1>3, MoveFacts DEF RecordScanFailure
  <2>. QED BY <1>3, <2>1 DEF RecordScanFailure, TypeOK, Schedules
<1>4. CASE MarkDueNow(s)
  <2>1. scan' \in [Scan -> ScanRecord]
    BY <1>4, MoveFacts DEF MarkDueNow
  <2>. QED BY <1>4, <2>1 DEF MarkDueNow, TypeOK, Schedules
<1>5. CASE PutChapters(s)
  <2>1. scan' \in [Scan -> ScanRecord]
    BY <1>5, MoveFacts DEF PutChapters
  <2>2. cached' \subseteq Chapter
    BY <1>0, <1>5 DEF PutChapters, ScanRecord
  <2>. QED BY <1>5, <2>1, <2>2 DEF PutChapters, TypeOK
<1>6. CASE PutChaptersFails(s)
  <2>1. scan' \in [Scan -> ScanRecord]
    BY <1>6, MoveFacts DEF PutChaptersFails
  <2>. QED BY <1>6, <2>1 DEF PutChaptersFails, TypeOK
<1>7. CASE RecordScan(s)
  <2>1. scan' \in [Scan -> ScanRecord]
    BY <1>7, RecordFacts DEF RecordScan
  <2>2. entered' \in [Chapter -> Entries]
    <3>1. \A c \in Chapter : Enter(s)[c] \in Entries
      BY EnterFacts
    <3>. QED BY <1>7, <3>1 DEF RecordScan, Enter
  <2>3. scan[s].list \subseteq Chapter
    BY <1>0 DEF ScanRecord
  <2>4. feedFresh' \in BOOLEAN /\ known' \subseteq Chapter
    BY <1>7, <2>3 DEF RecordScan, TypeOK
  <2>. QED BY <1>7, <2>1, <2>2, <2>4 DEF RecordScan, TypeOK, Schedules
<1>8. CASE RecordScanFails(s)
  <2>1. scan' \in [Scan -> ScanRecord]
    BY <1>8, MoveFacts DEF RecordScanFails
  <2>. QED BY <1>8, <2>1 DEF RecordScanFails, TypeOK
<1>9. CASE TouchFeed(s)
  <2>1. scan' \in [Scan -> ScanRecord]
    BY <1>0, <1>9, RecordFacts DEF TouchFeed
  <2>. QED BY <1>9, <2>1 DEF TouchFeed, TypeOK
<1>10. CASE ParkPaused(s)
  <2>1. scan' \in [Scan -> ScanRecord]
    BY <1>10, MoveFacts DEF ParkPaused
  <2>. QED BY <1>10, <2>1 DEF ParkPaused, TypeOK, Schedules
<1>. QED BY <1>1, <1>2, <1>3, <1>4, <1>5, <1>6, <1>7, <1>8, <1>9, <1>10 DEF ScanStep

Background ==
    \/ PauseSeries \/ FederatedIngest
    \/ Elapse \/ ReclaimAbsurdSchedules \/ BackfillPending
    \/ TriggerDueNow \/ RefreshFeed \/ Crash
    \/ \E c \in Chapter : Publish(c) \/ TakeDown(c)

LEMMA TypeBackground == TypeOK /\ Background => TypeOK'
<1>. SUFFICES ASSUME TypeOK, Background PROVE TypeOK'
  OBVIOUS
<1>. USE SeriesScanAssumption DEF sourceVars, adminVars, rowVars, snapshotVars, TypeOK
<1>1. CASE PauseSeries
  BY <1>1 DEF PauseSeries
<1>2. CASE FederatedIngest
  BY <1>2 DEF FederatedIngest, EnsurePending, Schedules
<1>3. CASE Elapse \/ ReclaimAbsurdSchedules \/ BackfillPending
  BY <1>3 DEF Elapse, ReclaimAbsurdSchedules, BackfillPending, Schedules
<1>4. CASE TriggerDueNow \/ RefreshFeed
  BY <1>4 DEF TriggerDueNow, RefreshFeed, Schedules
<1>5. CASE Crash
  BY <1>5 DEF Crash, NoScan, ScanRecord
<1>6. ASSUME NEW c \in Chapter, Publish(c) \/ TakeDown(c) PROVE TypeOK'
  BY <1>6 DEF Publish, TakeDown
<1>. QED BY <1>1, <1>2, <1>3, <1>4, <1>5, <1>6 DEF Background

LEMMA TypeStutter == TypeOK /\ UNCHANGED vars => TypeOK'
  BY DEF TypeOK, vars, sourceVars, adminVars, rowVars, snapshotVars

(* TypeOK: every variable keeps its type through every step of every scan. *)
THEOREM SeriesTypes == Spec => []TypeOK
<1>1. TypeOK /\ [Next]_vars => TypeOK'
  BY TypeStart, TypeScanStep, TypeBackground, TypeStutter DEF Next, Background, Scan
<1>. QED BY <1>1, TypeInit, PTL DEF Spec

-----------------------------------------------------------------------------
(* Which steps can touch the snapshot, the history or a fetched list. *)

LEMMA StartKeeps ==
    ASSUME TypeOK, NEW s \in Scan,
           \/ ScanDue(s) \/ TriggerScan(s) \/ UnpauseSeries(s) \/ UpdateSeriesAdmin(s)
           \/ AddSourceSeries(s) \/ IngestSourceSeries(s)
    PROVE  KeepsSnapshot /\ NoNewList
<1>. USE DEF KeepsSnapshot, sourceVars, adminVars, rowVars, snapshotVars
<1>0. override \in Overrides /\ "auto" \in Overrides
  BY SeriesScanAssumption DEF TypeOK
<1>1. KeepsSnapshot
  BY DEF ScanDue, TriggerScan, UnpauseSeries, UpdateSeriesAdmin, AddSourceSeries,
         IngestSourceSeries
<1>2. NoNewList
  <2>1. \/ Begin(s, "due", override) \/ Begin(s, "ask", "auto") \/ Begin(s, "edit", "auto")
    BY DEF ScanDue, TriggerScan, UnpauseSeries, UpdateSeriesAdmin, AddSourceSeries,
           IngestSourceSeries
  <2>. QED BY <2>1, <1>0, BeginFacts
<1>. QED BY <1>1, <1>2

LEMMA ScanStepKeeps ==
    ASSUME TypeOK, NEW s \in Scan, ScanStep(s), ~FetchOk(s), ~RecordScan(s)
    PROVE  KeepsSnapshot /\ NoNewList
<1>. USE DEF KeepsSnapshot, sourceVars, adminVars, rowVars, snapshotVars
<1>1. KeepsSnapshot
  BY DEF ScanStep, FetchFails, RecordScanFailure, MarkDueNow, PutChapters,
         PutChaptersFails, RecordScanFails, TouchFeed, ParkPaused
<1>2. \/ (Goto(s, "record") /\ scan[s].at = "cache") \/ TouchFeed(s)
      \/ Drop(s, "fail") \/ GiveUp(s) \/ Done(s)
  BY DEF ScanStep, FetchFails, RecordScanFailure, MarkDueNow, PutChapters,
         PutChaptersFails, RecordScanFails, ParkPaused
<1>3. TouchFeed(s) => NoNewList
  <2>1. TouchFeed(s) => scan' = [scan EXCEPT ![s] = AfterRecord(scan[s])]
    BY DEF TouchFeed
  <2>. QED BY <2>1, RecordFacts DEF NoNewList, Fetched, TypeOK
<1>4. NoNewList
  BY <1>2, <1>3, MoveFacts DEF Fetched
<1>. QED BY <1>1, <1>4

LEMMA BackgroundKeeps ==
    ASSUME TypeOK, Background,
           \A c \in Chapter : ~Publish(c) /\ ~TakeDown(c)
    PROVE  KeepsSnapshot /\ NoNewList
<1>. USE DEF KeepsSnapshot, sourceVars, adminVars, rowVars, snapshotVars
<1>1. CASE Crash
  BY <1>1 DEF Crash, NoNewList, Fetched, NoScan
<1>2. CASE ~Crash
  <2>1. KeepsSnapshot /\ scan' = scan
    BY <1>2 DEF Background, PauseSeries, FederatedIngest, Elapse, ReclaimAbsurdSchedules,
           BackfillPending, TriggerDueNow, RefreshFeed
  <2>. QED BY <2>1 DEF NoNewList
<1>. QED BY <1>1, <1>2

(* The steps that matter to the snapshot, one by one. *)
LEMMA StepKinds ==
    ASSUME TypeOK, [Next]_vars
    PROVE  \/ KeepsSnapshot /\ NoNewList
           \/ \E s \in Scan : FetchOk(s) \/ RecordScan(s)
           \/ \E c \in Chapter : Publish(c) \/ TakeDown(c)
<1>1. CASE UNCHANGED vars
  BY <1>1 DEF vars, sourceVars, adminVars, rowVars, snapshotVars,
              KeepsSnapshot, NoNewList
<1>2. CASE Next
  BY <1>2, StartKeeps, ScanStepKeeps, BackgroundKeeps DEF Next, Background, Scan
<1>. QED BY <1>1, <1>2

-----------------------------------------------------------------------------
(* What a fetch does to the scans. *)
LEMMA FetchFacts ==
    ASSUME TypeOK, NEW s \in Scan, FetchOk(s)
    PROVE  /\ UNCHANGED <<upstream, gone, observed, known, entered>>
           /\ scan'[s].list = upstream
           /\ \A t \in Scan \ {s} :
                /\ scan'[t].at = scan[t].at /\ scan'[t].list = scan[t].list
                /\ scan'[t].age = scan[t].age
                /\ scan[t].newer \subseteq scan'[t].newer
                /\ scan[t].at \in Fetched /\ scan[t].age = "current" => s \in scan'[t].newer
<1>1. UNCHANGED <<upstream, gone, observed, known, entered>>
  BY DEF FetchOk, sourceVars, rowVars, snapshotVars
<1>2. PICK ended \in BOOLEAN :
        scan' = [t \in Scan |->
          IF t = s
          THEN [scan[s] EXCEPT !.at = "cache", !.list = upstream, !.override = "auto",
                  !.park = scan[s].by = "due" /\ Paused(scan[s].override, ended)]
          ELSE IF scan[t].at \in Fetched /\ scan[t].age = "current"
               THEN [scan[t] EXCEPT !.newer = @ \cup {s}]
               ELSE scan[t]]
  BY DEF FetchOk
<1>3. \A t \in Scan : scan[t] \in ScanRecord
  BY DEF TypeOK
<1>4. scan'[s].list = upstream
  <2>1. scan'[s] = [scan[s] EXCEPT !.at = "cache", !.list = upstream, !.override = "auto",
                      !.park = scan[s].by = "due" /\ Paused(scan[s].override, ended)]
    BY <1>2
  <2>2. scan[s] \in ScanRecord
    BY <1>3
  <2>. QED BY <2>1, <2>2 DEF ScanRecord
<1>5. \A t \in Scan \ {s} :
        scan'[t] = IF scan[t].at \in Fetched /\ scan[t].age = "current"
                   THEN [scan[t] EXCEPT !.newer = @ \cup {s}] ELSE scan[t]
  BY <1>2
<1>6. \A t \in Scan : LET u == [scan[t] EXCEPT !.newer = @ \cup {s}] IN
        /\ u.at = scan[t].at /\ u.list = scan[t].list /\ u.age = scan[t].age
        /\ u.newer = scan[t].newer \cup {s}
  BY <1>3 DEF ScanRecord
<1>. QED BY <1>1, <1>4, <1>5, <1>6

(* What a record does, put together. *)
LEMMA RecordStep ==
    ASSUME TypeOK, NEW s \in Scan, RecordScan(s)
    PROVE  /\ scan[s].at \in Fetched /\ scan[s].list \subseteq Chapter
           /\ UNCHANGED <<upstream, gone>> /\ known' = scan[s].list /\ observed'
           /\ scan' = AfterScan(s)
           /\ \A c \in Chapter : entered'[c] = Enter(s)[c]
  BY DEF RecordScan, Fetched, sourceVars, TypeOK, ScanRecord

-----------------------------------------------------------------------------
(* The silence of the back catalogue. *)

LEMMA SilenceInit == Init => Silence
<1>. SUFFICES ASSUME Init PROVE Silence
  OBVIOUS
<1>1. \A s \in Scan : scan[s].at \notin Fetched
  BY DEF Init, NoScan, Fetched
<1>2. \A c \in Chapter : entered[c] \in {"never", "first"}
  BY DEF Init
<1>3. upstream = Back /\ (observed => known = Back)
  BY DEF Init
<1>. QED BY <1>1, <1>2, <1>3, SeriesScanAssumption
       DEF Silence, BackCatalogueIsSilent, BackIsEverywhere, Standing

LEMMA SilenceStep == TypeOK /\ Silence /\ [Next]_vars => Silence'
<1>. SUFFICES ASSUME TypeOK, Silence, [Next]_vars PROVE Silence'
  OBVIOUS
<1>. USE DEF Silence, BackCatalogueIsSilent, BackIsEverywhere, Standing
<1>1. CASE KeepsSnapshot /\ NoNewList
  BY <1>1 DEF KeepsSnapshot, snapshotVars, NoNewList
<1>2. ASSUME NEW s \in Scan, FetchOk(s) PROVE Silence'
  BY <1>2, FetchFacts
<1>3. ASSUME NEW s \in Scan, RecordScan(s) PROVE Silence'
  <2>1. Standing \subseteq scan[s].list
    BY <1>3, RecordStep
  <2>2. \A c \in Standing : c \notin New(scan[s].list) /\ c \in Chapter
    BY SeriesScanAssumption DEF New
  <2>3. \A c \in Standing : entered'[c] \in {"never", "first"}
    BY <1>3, <2>2, RecordStep, EnterFacts
  <2>4. \A t \in Scan : scan'[t].at \in Fetched =>
            scan[t].at \in Fetched /\ scan'[t].list = scan[t].list
    BY <1>3, RecordStep, RecordFacts
  <2>. QED BY <1>3, <2>1, <2>3, <2>4, RecordStep
<1>4. ASSUME NEW c \in Chapter, Publish(c) \/ TakeDown(c) PROVE Silence'
  BY <1>4 DEF Publish, TakeDown, rowVars, snapshotVars
<1>. QED BY <1>1, <1>2, <1>3, <1>4, StepKinds

(* BackCatalogueIsSilent: whatever fails and however many scans overlap, what
   was out at enrolment is never announced as new. *)
THEOREM BackCatalogueSilent == Spec => []BackCatalogueIsSilent
<1>1. Silence => BackCatalogueIsSilent
  BY DEF Silence
<1>. QED BY <1>1, SilenceInit, SilenceStep, SeriesTypes, PTL DEF Spec

-----------------------------------------------------------------------------
(* Nothing enters the snapshot unannounced. *)

LEMMA AccountedInit == Init => Accounted
  BY SeriesScanAssumption DEF Init, Accounted, NothingSwallowed

LEMMA AccountedStep == TypeOK /\ Accounted /\ [Next]_vars => Accounted'
<1>. SUFFICES ASSUME TypeOK, Accounted, [Next]_vars PROVE Accounted'
  OBVIOUS
<1>. USE DEF Accounted, NothingSwallowed
<1>1. CASE KeepsSnapshot /\ NoNewList
  BY <1>1 DEF KeepsSnapshot, snapshotVars
<1>2. ASSUME NEW s \in Scan, FetchOk(s) PROVE Accounted'
  BY <1>2, FetchFacts
<1>3. ASSUME NEW s \in Scan, RecordScan(s) PROVE Accounted'
  <2>1. ASSUME NEW c \in scan[s].list PROVE entered'[c] # "never"
    <3>1. c \in Chapter /\ entered'[c] = Enter(s)[c]
      BY <1>3, <2>1, RecordStep
    <3>2. CASE c \in New(scan[s].list)
      BY <3>1, <3>2, EnterFacts
    <3>3. CASE c \notin New(scan[s].list) /\ ~observed
      BY <2>1, <3>1, <3>3, EnterFacts
    <3>4. CASE c \notin New(scan[s].list) /\ observed
      <4>1. c \in known
        BY <2>1, <3>4 DEF New
      <4>. QED BY <2>1, <3>1, <3>4, <4>1, EnterFacts
    <3>. QED BY <3>2, <3>3, <3>4
  <2>. QED BY <1>3, <2>1, RecordStep
<1>4. ASSUME NEW c \in Chapter, Publish(c) \/ TakeDown(c) PROVE Accounted'
  BY <1>4 DEF Publish, TakeDown, rowVars, snapshotVars
<1>. QED BY <1>1, <1>2, <1>3, <1>4, StepKinds

(* NothingSwallowed: what the snapshot lists was in the first list recorded or
   has been announced, although scans may commit in any order. *)
THEOREM NothingIsSwallowed == Spec => []NothingSwallowed
<1>1. Accounted => NothingSwallowed
  BY DEF Accounted
<1>. QED BY <1>1, AccountedInit, AccountedStep, SeriesTypes, PTL DEF Spec

-----------------------------------------------------------------------------
(* A chapter that stays up is announced once, but for overtaken lists. *)

LEMMA OnceInit == Init => Once
<1>. SUFFICES ASSUME Init PROVE Once
  OBVIOUS
<1>1. \A s \in Scan : scan[s].at \notin Fetched
  BY DEF Init, NoScan, Fetched
<1>2. \A c \in Chapter : entered[c] = IF c \in known THEN "first" ELSE "never"
  BY DEF Init
<1>3. known \subseteq upstream
  BY DEF Init
<1>. QED BY <1>1, <1>2, <1>3 DEF Once, AnnouncedOnce, ListsInOrder

(* A record: either its list has what is up and known, or it was overtaken and
   the history says so; the lists fetched after it have what is up of it. *)
LEMMA OnceRecorded ==
    ASSUME TypeOK, Once, NEW s \in Scan, RecordScan(s)
    PROVE  Once'
<1>. DEFINE list == scan[s].list
<1>0. /\ scan[s].at \in Fetched /\ list \subseteq Chapter
      /\ known' = list /\ upstream' = upstream /\ gone' = gone
      /\ scan' = AfterScan(s) /\ (\A c \in Chapter : entered'[c] = Enter(s)[c])
  BY RecordStep
<1>1. /\ list \ gone \subseteq upstream
      /\ scan[s].age = "current" => known \ gone \subseteq list
  BY <1>0 DEF Once, ListsInOrder
<1>2. scan[s].age \in {"current", "overtaken"}
  BY DEF TypeOK, ScanRecord
<1>3. ASSUME NEW c \in Chapter PROVE entered'[c] # "again"
  <2>1. /\ entered[c] # "again"
        /\ c \notin gone /\ entered[c] # "never" => c \in known
    BY <1>3 DEF Once, AnnouncedOnce
  <2>2. c \in New(list) => c \notin known
    BY DEF New
  <2>. QED BY <1>0, <2>1, <2>2, EnterFacts
<1>4. ASSUME NEW c \in Chapter, c \notin gone, entered'[c] # "never" PROVE c \in list
  <2>. SUFFICES ASSUME c \notin list PROVE FALSE
    OBVIOUS
  <2>1. entered[c] # "never"
    BY <1>0, <1>4, EnterFacts
  <2>2. c \in known
    BY <1>4, <2>1 DEF Once
  <2>3. scan[s].age = "overtaken"
    BY <1>1, <1>2, <1>4, <2>2
  <2>. QED BY <1>0, <1>4, <2>2, <2>3, EnterFacts
<1>5. ListsInOrder'
  <2>. SUFFICES ASSUME NEW t \in Scan, scan'[t].at \in Fetched
                PROVE  /\ scan'[t].list \ gone \subseteq upstream
                       /\ scan'[t].age = "current" =>
                            /\ list \ gone \subseteq scan'[t].list
                            /\ \A u \in Scan \ ({t} \cup scan'[t].newer) :
                                 scan'[u].at \in Fetched =>
                                   scan'[u].list \ gone \subseteq scan'[t].list
    BY <1>0 DEF ListsInOrder
  <2>1. t # s /\ scan[t].at \in Fetched /\ scan'[t].list = scan[t].list
    BY <1>0, RecordFacts
  <2>2. CASE s \in scan[t].newer
    <3>1. scan'[t].age = "overtaken"
      BY <1>0, <2>1, <2>2, RecordFacts
    <3>. QED BY <2>1, <3>1 DEF Once, ListsInOrder
  <2>3. CASE s \notin scan[t].newer
    <3>1. scan'[t] = scan[t]
      BY <1>0, <2>1, <2>3, RecordFacts
    <3>2. \A u \in Scan : scan'[u].at \in Fetched =>
            scan[u].at \in Fetched /\ scan'[u].list = scan[u].list
      BY <1>0, RecordFacts
    <3>. QED BY <1>0, <2>1, <2>3, <3>1, <3>2 DEF Once, ListsInOrder
  <2>. QED BY <2>2, <2>3
<1>. QED BY <1>0, <1>1, <1>3, <1>4, <1>5 DEF Once, AnnouncedOnce

LEMMA OnceStep == TypeOK /\ Once /\ [Next]_vars => Once'
<1>. SUFFICES ASSUME TypeOK, Once, [Next]_vars PROVE Once'
  OBVIOUS
<1>1. CASE KeepsSnapshot /\ NoNewList
  <2>1. UNCHANGED <<upstream, gone, known, entered>>
    BY <1>1 DEF KeepsSnapshot, snapshotVars
  <2>2. ListsInOrder'
    BY <1>1, <2>1 DEF Once, ListsInOrder, NoNewList
  <2>. QED BY <2>1, <2>2 DEF Once, AnnouncedOnce
<1>2. ASSUME NEW s \in Scan, FetchOk(s) PROVE Once'
  <2>1. ListsInOrder'
    <3>1. UNCHANGED <<upstream, gone, known>>
      BY <1>2, FetchFacts
    <3>2. ASSUME NEW t \in Scan, scan'[t].at \in Fetched
          PROVE  scan'[t].list \ gone \subseteq upstream
      BY <1>2, <3>2, FetchFacts DEF Once, ListsInOrder
    <3>3. known \ gone \subseteq scan'[s].list
      BY <1>2, FetchFacts DEF Once
    <3>4. ASSUME NEW u \in Scan, scan'[u].at \in Fetched
          PROVE  scan'[u].list \ gone \subseteq scan'[s].list
      BY <1>2, <3>2, <3>4, FetchFacts
    <3>5. ASSUME NEW t \in Scan, t # s, scan'[t].at \in Fetched, scan'[t].age = "current"
          PROVE  /\ known \ gone \subseteq scan'[t].list
                 /\ \A u \in Scan \ ({t} \cup scan'[t].newer) :
                      scan'[u].at \in Fetched => scan'[u].list \ gone \subseteq scan'[t].list
      <4>1. /\ scan[t].at \in Fetched /\ scan[t].age = "current"
            /\ scan'[t].list = scan[t].list /\ scan[t].newer \subseteq scan'[t].newer
            /\ s \in scan'[t].newer
        BY <1>2, <3>5, FetchFacts
      <4>2. \A u \in Scan \ {s} : scan'[u].at = scan[u].at /\ scan'[u].list = scan[u].list
        BY <1>2, FetchFacts
      <4>. QED BY <4>1, <4>2 DEF Once, ListsInOrder
    <3>. QED BY <3>1, <3>2, <3>3, <3>4, <3>5 DEF ListsInOrder
  <2>. QED BY <1>2, <2>1, FetchFacts DEF Once, AnnouncedOnce
<1>3. ASSUME NEW s \in Scan, RecordScan(s) PROVE Once'
  BY <1>3, OnceRecorded
<1>4. ASSUME NEW c \in Chapter, Publish(c) \/ TakeDown(c) PROVE Once'
  <2>1. UNCHANGED <<known, scan, entered>>
    BY <1>4 DEF Publish, TakeDown, rowVars, snapshotVars
  <2>2. gone \subseteq gone' /\ upstream \ gone' \subseteq upstream'
    BY <1>4 DEF Publish, TakeDown
  <2>3. ListsInOrder'
    BY <2>1, <2>2 DEF Once, ListsInOrder
  <2>. QED BY <2>1, <2>2, <2>3 DEF Once, AnnouncedOnce
<1>. QED BY <1>1, <1>2, <1>3, <1>4, StepKinds

(* AnnouncedOnce: however many scans of the series overlap and whatever fails, a
   chapter that stays up is announced once and one of the first list never,
   unless a scan that was overtaken between its fetch and its record took it out
   of the snapshot. *)
THEOREM EachAnnouncedOnce == Spec => []AnnouncedOnce
<1>1. Once => AnnouncedOnce
  BY DEF Once
<1>. QED BY <1>1, OnceInit, OnceStep, SeriesTypes, PTL DEF Spec
=============================================================================
