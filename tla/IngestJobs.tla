------------------------------ MODULE IngestJobs ------------------------------
(***************************************************************************)
(* "Add all from source": jobs that walk both listings of a source page by *)
(* page and enrol every series (apps/server/src/ingest.rs, and the four    *)
(* mutations of graphql/mod.rs that start and cancel them).                *)
(*                                                                         *)
(* The row of a job is its control plane: cancelling writes the row, and   *)
(* the runner reads it between two pages.  Nothing else ties a row to its  *)
(* runner: a row that says running blocks its source until it is written   *)
(* again.  A step is what happens between two awaits.  What enrolling a    *)
(* series does is the matter of CanonicalWorks and SeriesScan: here it     *)
(* ends, and is counted, whether it succeeded, failed or panicked.         *)
(***************************************************************************)
EXTENDS Naturals, FiniteSets, Sequences

CONSTANTS
    Source,      \* Suwayomi sources
    Manga,       \* the ids of their series
    Answers,     \* per listing, what a source may answer for a page: the series on it, and
                 \* whether it claims that another page follows
    MaxPages,    \* MAX_PAGES
    MaxEmpty,    \* MAX_EMPTY_PAGES
    Attempts,    \* PAGE_FETCH_ATTEMPTS
    FlushEvery,  \* PROGRESS_FLUSH_EVERY
    MaxJobs,     \* bound: jobs started in a behaviour
    Request,     \* bound: starting mutations under way at once
    JobFaults    \* what may go wrong, a subset of JobFaultKinds

JobFaultKinds == {"site", "db", "dropped", "restart"}

Listings == 2    \* LISTINGS: popular, then latest
Job == 1 .. MaxJobs

ASSUME IngestAssumption ==
    /\ {MaxPages, Attempts, FlushEvery} \subseteq Nat \ {0}
    /\ {MaxEmpty, MaxJobs} \subseteq Nat
    /\ IsFiniteSet(Manga)
    /\ Answers \in [1 .. Listings -> SUBSET [items : SUBSET Manga, more : BOOLEAN]]
    /\ JobFaults \subseteq JobFaultKinds

VARIABLES
    source,    \* the source of each job, in the order the rows were inserted
    jobRow,    \* source_ingest_job: state, a warning in `error`, and items_seen
    run,       \* the runner of each job
    req,       \* startSourceIngest and startExtensionIngest calls under way
    orphaned,  \* history: running rows whose last writer is known to be gone
    served,    \* history: the series on the pages each job has begun
    open,      \* history: the listings of each job whose end no page has shown yet
    blanks,    \* history: the blank pages each job was served in a row
    late       \* history: pages each job began when its row no longer said running

heardVars == <<served, open, blanks>>
jobsVars == <<source, jobRow, run, req, orphaned, heardVars, late>>

Made == DOMAIN source
Running(s) == {j \in Made : source[j] = s /\ jobRow[j].state = "running"}

NewJob == [state |-> "running", warned |-> FALSE, items |-> 0]
NoJob == [NewJob EXCEPT !.state = "none"]

(* The locals of run_job, walk_listing and browse_page. *)
NewRun ==
    [at |-> "fetch", listing |-> 1, page |-> 1, tries |-> 0, streak |-> 0, more |-> FALSE,
     seen |-> {}, batch |-> {}, items |-> 0, walked |-> 0, warned |-> FALSE]
NoRun == [NewRun EXCEPT !.at = "off"]

NoReq == [at |-> "idle", todo |-> {}, job |-> 0]

Alive(j) == run[j].at # "off"

JobRows == [state : {"none", "running", "completed", "cancelled", "failed"}, warned : BOOLEAN,
            items : Nat]
Runs ==
    [at : {"off", "fetch", "check", "begin", "items", "next", "finish"},
     listing : 1 .. Listings, page : 1 .. MaxPages, tries : 0 .. Attempts - 1,
     streak : 0 .. MaxEmpty + 1, more : BOOLEAN, seen : SUBSET Manga, batch : SUBSET Manga,
     items : Nat, walked : 0 .. Listings, warned : BOOLEAN]
Reqs == [at : {"idle", "insert", "load"}, todo : SUBSET Source, job : 0 .. MaxJobs]

JobsTypeOK ==
    /\ source \in Seq(Source) /\ Len(source) <= MaxJobs
    /\ jobRow \in [Job -> JobRows]
    /\ \A j \in Job : jobRow[j].state = "none" <=> j \notin Made
    /\ run \in [Job -> Runs]
    /\ req \in [Request -> Reqs]
    /\ orphaned \subseteq Made
    /\ served \in [Job -> SUBSET Manga]
    /\ open \in [Job -> SUBSET (1 .. Listings)]
    /\ blanks \in [Job -> 0 .. MaxEmpty]
    /\ late \in [Job -> Nat]

JobsInit ==
    /\ source = <<>>
    /\ jobRow = [j \in Job |-> NoJob]
    /\ run = [j \in Job |-> NoRun]
    /\ req = [r \in Request |-> NoReq]
    /\ orphaned = {}
    /\ served = [j \in Job |-> {}]
    /\ open = [j \in Job |-> 1 .. Listings]
    /\ blanks = [j \in Job |-> 0]
    /\ late = [j \in Job |-> 0]

-----------------------------------------------------------------------------
(* The mutations. *)

(* An admin starts the jobs of one source, or of all those of an extension that
   pass the language and posture gates. *)
Start(r, todo) ==
    /\ req[r] = NoReq
    /\ req' = [req EXCEPT ![r] = [NoReq EXCEPT !.at = "insert", !.todo = todo]]
    /\ UNCHANGED <<source, jobRow, run, orphaned, heardVars, late>>

Continue(todo) == IF todo = {} THEN NoReq ELSE [NoReq EXCEPT !.at = "insert", !.todo = todo]

(* try_start_job: the unique index decides. *)
Insert(r, s) ==
    /\ req[r].at = "insert" /\ s \in req[r].todo
    /\ IF Running(s) # {}
       THEN /\ req' = [req EXCEPT ![r] = Continue(@.todo \ {s})]
            /\ UNCHANGED <<source, jobRow>>
       ELSE /\ Len(source) < MaxJobs
            /\ source' = Append(source, s)
            /\ jobRow' = [jobRow EXCEPT ![Len(source')] = NewJob]
            /\ req' = [req EXCEPT ![r] =
                  [at |-> "load", todo |-> @.todo \ {s}, job |-> Len(source')]]
    /\ UNCHANGED <<run, orphaned, heardVars, late>>

(* load_job answers, whatever the row says by now, and the runner is spawned. *)
Spawn(r) ==
    /\ req[r].at = "load"
    /\ run' = [run EXCEPT ![req[r].job] = NewRun]
    /\ req' = [req EXCEPT ![r] = Continue(@.todo)]
    /\ UNCHANGED <<source, jobRow, orphaned, heardVars, late>>

(* A statement of the mutation fails, or its client goes away and the call is
   dropped at an await: a row that has been inserted stays without a runner. *)
Abandon(r) ==
    /\ "dropped" \in JobFaults
    /\ req[r].at # "idle"
    /\ req' = [req EXCEPT ![r] = NoReq]
    /\ orphaned' = orphaned
         \cup {j \in {req[r].job} : req[r].at = "load" /\ jobRow[j].state = "running"}
    /\ UNCHANGED <<source, jobRow, run, heardVars, late>>

(* cancel_job, for one job or for those cancel_running_for_sources has found; it
   only touches a row that is still running. *)
Cancel(j) ==
    /\ j \in Made /\ jobRow[j].state = "running"
    /\ jobRow' = [jobRow EXCEPT ![j].state = "cancelled"]
    /\ orphaned' = orphaned \ {j}
    /\ UNCHANGED <<source, run, req, heardVars, late>>

-----------------------------------------------------------------------------
(* The runner. *)

runUnchanged == <<source, req, orphaned>>

(* Mutant: one listing is the catalogue. *)
AfterListingMutPopularOnly(t) == [t EXCEPT !.at = "finish", !.batch = {}, !.page = 1]

(* What follows a listing: the next one from its first page, or the verdict. Whatever
   was in flight is aborted with its JoinSet, and stays in `seen`. *)
AfterListing(t) ==
    LET next == [t EXCEPT !.batch = {}, !.more = FALSE, !.streak = 0, !.tries = 0,
                          !.page = 1]
    IN  IF t.listing < Listings
        THEN [next EXCEPT !.listing = t.listing + 1, !.at = "fetch"]
        ELSE [next EXCEPT !.at = "finish", !.seen = {}]

ListingDone(t) == AfterListing([t EXCEPT !.walked = @ + 1])
ListingFails(t) == AfterListing([t EXCEPT !.warned = TRUE])

(* browse_page for the first page, or for the one that was prefetched. *)
Fetching(t) == t.at \in {"fetch", "next"}

Fetch(j) ==
    /\ Fetching(run[j])
    /\ run' = [run EXCEPT ![j].at = "check", ![j].tries = 0]
    /\ UNCHANGED <<runUnchanged, jobRow, heardVars, late>>

(* An attempt fails; the last one ends the listing. *)
FetchFails(j) ==
    /\ "site" \in JobFaults
    /\ Fetching(run[j])
    /\ run' = [run EXCEPT ![j] =
          IF @.tries + 1 < Attempts THEN [@ EXCEPT !.tries = run[j].tries + 1] ELSE ListingFails(@)]
    /\ UNCHANGED <<runUnchanged, jobRow, heardVars, late>>

(* write_progress: the counters, whatever the state of the row. *)
WriteProgress(j, t) == jobRow' = [jobRow EXCEPT ![j].items = t.items]

(* Between two pages: job_state. *)
Check(j) ==
    /\ run[j].at = "check"
    /\ IF jobRow[j].state = "running"
       THEN run' = [run EXCEPT ![j].at = "begin"] /\ UNCHANGED jobRow
       ELSE run' = [run EXCEPT ![j] = NoRun] /\ WriteProgress(j, run[j])
    /\ UNCHANGED <<runUnchanged, heardVars, late>>

(* The histories. A listing has shown its end with a page that claims no other follows,
   with its MaxPages-th page, or with more than MaxEmpty blank pages in a row. *)
Hear(j, a) ==
    LET l == run[j].listing
        row == IF a.items # {} THEN 0 ELSE IF run[j].page = 1 THEN 1 ELSE blanks[j] + 1
        end == ~a.more \/ run[j].page = MaxPages \/ row > MaxEmpty
    IN  /\ served' = [served EXCEPT ![j] = @ \cup a.items]
        /\ open' = [open EXCEPT ![j] = IF end THEN @ \ {l} ELSE @]
        /\ blanks' = [blanks EXCEPT ![j] = IF end THEN 0 ELSE row]

(* The state has been read: the new series of the page are set off, and the next page
   is prefetched unless this one ends the listing. browse_source answered from the
   listing of its moment, so the pages of a walk need not fit together. The answer is
   chosen here: nothing has looked at it since it came. *)
Begin(j) ==
    /\ run[j].at = "begin"
    /\ \E a \in Answers[run[j].listing] :
         LET t == run[j]
             streak == IF a.items = {} THEN t.streak + 1 ELSE 0
         IN  /\ run' = [run EXCEPT ![j] =
                   [t EXCEPT !.at = "items", !.streak = streak,
                             !.more = a.more /\ t.page < MaxPages /\ streak <= MaxEmpty,
                             !.batch = a.items \ t.seen, !.seen = t.seen \cup a.items]]
             /\ Hear(j, a)
    /\ late' = [late EXCEPT ![j] = IF jobRow[j].state = "running" THEN @ ELSE @ + 1]
    /\ UNCHANGED <<runUnchanged, jobRow>>

(* One series of the page is joined; every FlushEvery of them the row is told. *)
Joined(t, m) == [t EXCEPT !.batch = @ \ {m}, !.items = @ + 1]
FlushDue(t) == t.items % FlushEvery = 0

Join(j, m) ==
    LET t == Joined(run[j], m)
    IN  /\ run[j].at = "items" /\ m \in run[j].batch
        /\ run' = [run EXCEPT ![j] = t]
        /\ IF FlushDue(t) THEN WriteProgress(j, t) ELSE UNCHANGED jobRow
        /\ UNCHANGED <<runUnchanged, heardVars, late>>

(* It cannot be told: the listing fails, with what was in flight. *)
FlushFails(j, m) ==
    LET t == Joined(run[j], m)
    IN  /\ "db" \in JobFaults
        /\ run[j].at = "items" /\ m \in run[j].batch
        /\ FlushDue(t)
        /\ run' = [run EXCEPT ![j] = ListingFails(t)]
        /\ UNCHANGED <<runUnchanged, jobRow, heardVars, late>>

(* All are joined: progress is written, and the listing goes on or is done. *)
PageDone(j) ==
    /\ run[j].at = "items" /\ run[j].batch = {}
    /\ WriteProgress(j, run[j])
    /\ run' = [run EXCEPT ![j] =
          IF @.more THEN [@ EXCEPT !.at = "next", !.page = run[j].page + 1] ELSE ListingDone(@)]
    /\ UNCHANGED <<runUnchanged, heardVars, late>>

(* The read of the state fails, or the write of the progress when all are joined: so
   does the listing. *)
StatementFails(j) ==
    /\ "db" \in JobFaults
    /\ run[j].at = "check" \/ (run[j].at = "items" /\ run[j].batch = {})
    /\ run' = [run EXCEPT ![j] = ListingFails(@)]
    /\ UNCHANGED <<runUnchanged, jobRow, heardVars, late>>

(* Mutant: the verdict is written whatever the row says. *)
FinishMutBlind(j) ==
    /\ run[j].at = "finish"
    /\ jobRow' = [jobRow EXCEPT ![j].state = IF run[j].walked = 0 THEN "failed" ELSE "completed"]
    /\ run' = [run EXCEPT ![j] = NoRun]
    /\ UNCHANGED <<runUnchanged, heardVars, late>>

(* spawn_runner's last write: failed when no listing was walked, completed with a
   warning when one was not. A cancel that came first stays. *)
Finish(j) ==
    /\ run[j].at = "finish"
    /\ jobRow' = IF jobRow[j].state # "running" THEN jobRow
              ELSE [jobRow EXCEPT ![j].state = IF run[j].walked = 0 THEN "failed" ELSE "completed",
                               ![j].warned = run[j].warned]
    /\ run' = [run EXCEPT ![j] = NoRun]
    /\ UNCHANGED <<runUnchanged, heardVars, late>>

(* It fails, which is only logged. *)
FinishFails(j) ==
    /\ "db" \in JobFaults
    /\ run[j].at = "finish"
    /\ run' = [run EXCEPT ![j] = NoRun]
    /\ orphaned' = orphaned \cup {i \in {j} : jobRow[j].state = "running"}
    /\ UNCHANGED <<source, jobRow, req, heardVars, late>>

-----------------------------------------------------------------------------
(* Mutant: nobody looks for the jobs the restart interrupted. *)
RestartMutKeep ==
    /\ "restart" \in JobFaults
    /\ run' = [j \in Job |-> NoRun]
    /\ req' = [r \in Request |-> NoReq]
    /\ UNCHANGED <<source, jobRow, orphaned, heardVars, late>>

(* The server restarts: calls and runners are gone, and mark_interrupted_jobs
   fails the rows that still say running, unless it fails itself. *)
Restart ==
    /\ "restart" \in JobFaults
    /\ run' = [j \in Job |-> NoRun]
    /\ req' = [r \in Request |-> NoReq]
    /\ \/ /\ jobRow' = [j \in Job |-> IF jobRow[j].state = "running"
                                   THEN [jobRow[j] EXCEPT !.state = "failed", !.warned = TRUE]
                                   ELSE jobRow[j]]
          /\ orphaned' = {}
       \/ /\ "db" \in JobFaults
          /\ orphaned' = {j \in Job : jobRow[j].state = "running"}
          /\ UNCHANGED jobRow
    /\ UNCHANGED <<source, heardVars, late>>

-----------------------------------------------------------------------------
Runner(j) ==
    \/ Fetch(j) \/ FetchFails(j) \/ Check(j) \/ Begin(j)
    \/ \E m \in run[j].batch : Join(j, m) \/ FlushFails(j, m)
    \/ PageDone(j) \/ StatementFails(j) \/ Finish(j) \/ FinishFails(j)

JobsNext ==
    \/ \E r \in Request :
         \/ \E todo \in SUBSET Source : todo # {} /\ Start(r, todo)
         \/ \E s \in Source : Insert(r, s)
         \/ Spawn(r) \/ Abandon(r)
    \/ \E j \in Made : Cancel(j) \/ Runner(j)
    \/ Restart

JobsSpec == JobsInit /\ [][JobsNext]_jobsVars

(* Calls and runners go on: fetches time out, and statements return. *)
JobsFairSpec ==
    /\ JobsSpec
    /\ \A r \in Request : WF_jobsVars(Spawn(r))
    /\ \A j \in Job : WF_jobsVars(j \in Made /\ Runner(j))

-----------------------------------------------------------------------------
(* Properties *)

(* "Walking both and de-duplicating by manga id is what makes `add all` mean all"
   (LISTINGS): a job that completed without a warning has gone through both listings
   to their ends, and its row counts each series it was served on the way exactly
   once.  Aborted batches, lost counters, listings that fail half way, prefetched
   pages and cancels never pass for it.  "All" is what the pages held when they were
   read: a series that moves to a page already read, or that a blank page hides, was
   not served, and neither is what comes after the end the code takes for one (the
   MaxPages-th page, or more than MaxEmpty blank ones). *)
CompletedMeansAll ==
    \A j \in Made : jobRow[j].state = "completed" /\ ~jobRow[j].warned =>
        open[j] = {} /\ jobRow[j].items = Cardinality(served[j])

(* A job that has ended stays as it ended, "so a cancel that landed first wins"
   (finish_job), and its runner begins no more than one page after the cancel: the
   one it had read the state for. *)
CancelWins ==
    [][\A j \in Made : jobRow[j].state # "running" =>
          jobRow'[j].state = jobRow[j].state /\ late'[j] <= 1]_jobsVars

(* A job comes to its end, row and runner, for good: so that its source can be walked
   again. Only a row that lost its writer to a fault waits for the next restart. *)
Ended(j) == jobRow[j].state # "running" /\ ~Alive(j) /\ \A r \in Request : req[r].job # j
JobEnds == \A j \in Job : <>[](j \in Made => Ended(j) \/ j \in orphaned)
=============================================================================
