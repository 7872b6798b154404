# A verification development of komika

komika is a manga reader: a Svelte web app, also packaged with Tauri for desktop and mobile (`apps/reader`), the Rust
server behind it (`apps/server`, GraphQL over SQLite), an admin front end (`apps/admin`) and an image-proxy worker
(`apps/worker`). This directory models the parts of it whose correctness depends on the order in which things happen,
checks the models with TLC, and proves theorems about them with TLAPS.

    tlc -config SeriesScan_series.cfg MC_SeriesScan.tla     # one of the runs of PROJECT.json
    tlapm SeriesScan_proofs.tla                             # the proofs of one module

Paths in the modules and below are relative to the repository.

## The system and its hard behaviours

Catalogues are read from *sources* through Suwayomi (an external JVM engine with extensions) and from MangaDex directly.
The server keeps, in one SQLite database, series, chapters, covers, libraries and progress; background loops keep them
current; readers see a feed of updates projected from them. A *work* is what several sources call the same manga. In the
native app the reader has an engine of its own, falls back to the server's content, and queues its writes offline.

| component | state | operations, and who shares the state | hard | what makes it correct |
|---|---|---|---|---|
| offline write queue (`packages/api`) | pending ops in localStorage, the session | enqueue, drain, purge; called from writes, connectivity events, sign-in | awaits inside loops; two drains; a session that changes under a request | an accepted write arrives, once, at its own account |
| series scans (`scanner.rs`) | a `series_scan_state` row per series | scan, wake, park, enrol, reclaim; scan loop, admins, discovery and ingest write the row | read before a fetch, write after it; failures at each await; crashes | nothing announced twice, early or never; a series keeps being scanned |
| scan loops (`scanner.rs`) | tasks per source, permits, a sweeper's cutoff | heal, reconcile, tick, shutdown | tasks outlive their removal; panics; a cap on loops | one loop for each row, always |
| spine and ledger (`catalog/spine.rs`, `ledger.rs`) | chapters per source, first release per work | two writers, a background drain and seed, merge, split, delete | `INSERT OR IGNORE`: the first write is final; work moves while it is written | a release is recorded once, never early, never lost |
| engine supervisor (`suwayomi.rs`, Tauri) | lockfile, child process, state shown to JS | lock, boot, watch, back off, stop | two apps, killed apps, a suspended machine | one supervised engine over a data directory; it comes back; a stop ends |
| source health (`scanner.rs`, `catalog`) | outages, failure counters, subscription breakers | health check, park, unpark, weekly probe | a verdict from an aggregate, applied later in several writes | no source hammered while it is down, none left parked when it is up |
| canonical works (`catalog`, `dedup.rs`) | works, redirects, duplicate candidates | resolve, merge, split, admin decisions | decisions on snapshots; chains of redirects | every id leads to a live work; an admin's split stays |
| updates feed (`catalog/mod.rs`) | feed rows, a readiness latch | full rebuild, refresh of one work or series | a rebuild racing refreshes; a latch that is read once | the feed is the projection of the ledger |
| MangaDex mirror (`mangadex.rs`) | a cursor per job, works and chapters | catalogue sweep, firehose, backfill, resync | what a sweep loses against a cursor that moves on; counts in memory, cursors on disk | nothing is passed over unseen |
| ingest jobs (`ingest.rs`) | a job row as control plane | start, cancel, run, mark interrupted | the runner polls the row; restart | one job per source, a cancelled one stops, and one that completes has seen all |
| sync and discovery (`sync.rs`, `discovery.rs`) | guards per extension, LATEST snapshots | daily pass, LATEST walk, poll, breaker re-arm | two loops over one source; triggers before snapshots | movers are not lost; one flight per extension |
| garbage collection (`gc.rs`) | blobs and rows in two databases | sweeps | a probe in one database, a delete in another | nothing in use is deleted |
| Cloudflare shim (`cloudflare.rs`, Tauri) | webviews of solves | solve, shutdown | timeouts against late answers | every solve ends |
| local engine backend (`packages/api`) | ids and provisioning in flight | provision, resolve | several readers of one promise | one provisioning per extension |

The remaining parts are resolvers of one statement each, pure functions, wiring and views. `PROJECT.json` lists every
component with its status, and the hazards at their lines, also those that no model covers yet.

How they meet: `ScanLoops` decides who scans a row and when, and a scan is one step in it; `SeriesScan` is the inside of
that step. A scan ends in `put_chapters`, which is where `ReleaseLedger` starts: spine, gate, ledger. The updates feed is
projected from the ledger. `OfflineQueue` and `EngineSupervisor` run in the app and share only the server with the rest,
and nothing with each other.

## The modules

| module | models | checked by | proved in |
|---|---|---|---|
| `OfflineQueue` | the queue of writes, its drains and the session | `queue` | `OfflineQueue_proofs` |
| `SeriesScan` | the scans of one series and everything that moves its row | `series` | `SeriesScan_proofs` |
| `ScanLoops` | the supervisor and its loops | `scan_loops` | `ScanLoops_proofs` |
| `ReleaseLedger` | spine and ledger, their writers and drains | `ledger` | `ReleaseLedger_proofs` |
| `FirstReleases` | what the ledger promises about dates; abstract | `ledger` | `ReleaseLedger_proofs` |
| `EngineSupervisor` | lockfile and supervision of the engine | `engine`, `engine_takeover` | `EngineSupervisor_proofs` |
| `CanonicalWorks` | what several sources call one work: adding, matching, merging, splitting | `works` | `CanonicalWorks_proofs` |
| `IdForwarding` | what the catalogue promises about ids; abstract | `works` | `CanonicalWorks_proofs` |
| `SourceHealth` | outages of a source, parks, the breaker of its subscription, the walks | `sources`, `sources_probe` | `Sources_proofs` |
| `MangaDexMirror` | the sweeps of MangaDex's listings, their cursors, seeds and the backfill | `mirror`, `mirror_skipped` | `MangaDexMirror_proofs` |
| `IngestJobs` | the jobs that enrol all of a source, row and runner | `ingest` | `Sources_proofs` |
| `MC_...` | the instances TLC checks | | |

In each module an action is one handler up to its next await (or one transaction, or one system call), with the state it
leaves when it fails; `Faults` (`JobFaults`) names the failures of an instance. Operators whose name has `Mut` in it are bugs a change
could introduce, each kept beside the definition it would replace; with it, one property of a run fails, which shows
that the property says something about the code. They are used nowhere else.

Liveness is only model-checked, and so is what the three runs that expect a violation show: these state what a comment of the code
promises, and TLC's counterexample is the interleaving that breaks it. Every safety property of the passing
runs is proved, for all values of the constants.

## The plan

Done, in the order of what readers notice most: `OfflineQueue`, `SeriesScan`, `ScanLoops`, `ReleaseLedger` with
`FirstReleases`, `EngineSupervisor`, `CanonicalWorks` with `IdForwarding`, `SourceHealth`, `MangaDexMirror`, `IngestJobs`. Next:

1. `FeedProjection`: rebuild, refreshes and the readiness latch, refining "the feed is a function of the ledger".
2. `CoverGC`: the two-database sweep, with the floors and the rate breaker that stop it when the main database is gone
   (`gc.rs:316`).
3. What is left of sync and discovery: triggers before snapshots (`discovery.rs:232`), and the library set that is read
   once and healed against for minutes (`sync.rs:385`).
4. Chapter keys and labels as operators, against a reference definition over bounded inputs.

Compositions and abstractions: the loops of `ScanLoops` with scans of several steps, to justify where `SeriesScan` lets
scans overlap; the ledger with the feed; `OfflineQueue` as a register per account and target; the
lockfile as an abstract lock until a takeover misjudges it.

Theorems worth proving next: that the feed's rows are those of the ledger, and the abstractions just named.

## The offline write queue (`OfflineQueue`)

Source: `packages/api/src/offline-queue.ts`, `packages/api/src/composite-backend.ts`,
`apps/reader/src/lib/auth.svelte.ts`; native app only.

State and its counterpart in the code:

| variable | code |
|---|---|
| `token` | the bearer token, in localStorage and on the hosted backend, as the account it opens |
| `identity` | `CompositeBackend.currentUserId` |
| `ops`, `clock`, `tries` | `OfflineWriteQueue.ops` (a set ordered by `ts`), the last `ts`, the `tries` field of each op object |
| `call` | the direct `hosted.mark` / `hosted.setProgress` request of each write |
| `drain` | the `drain()` invocations suspended in `await flush(op)` |
| `server` | `canonical_progress` / `library` rows, per account and target |
| `owed`, `displaced`, `crossed` | history, read by the properties only: what the queue accepted and has neither delivered, nor superseded, nor dropped; what the wrong shift removed of it; calls during which the token changed |

Steps are the synchronous blocks between two awaits. `StartWrite`/`ServeWrite`/`WriteSucceeds`/`WriteFails` are
one call of `mark` or `setProgress`; `Online` is the browser event; `ServeDrain`/`DrainSucceeds`/`DrainFails` resume a
drain; `Login`, `Logout`, `ValidateSession` are `auth.svelte.ts`; `Reload` kills the page. A request may be applied by
the server and still fail for the client. The queue is saved by every block that changes it, so the saved list *is*
`ops` at every step boundary and `Reload` keeps it.

| run | question | answer |
|---|---|---|
| `queue` | with two accounts, two overlapping drains, overlapping writes, sign-ins and reloads: is the queue owned by the signed-in account, is nothing sent under another token than its stamp, does an op leave the queue while its account stays signed in, and is an accepted write kept and applied to its own account only? | yes, with two exceptions of the code that the property names |

`WritesArrive` holds whatever overlaps, and names the two places where the code does not keep its promise. `shift()`
after the await is positional: a drain whose own op has left the list meanwhile (a newer write of that target, a sign-out,
or the shift of a second drain; `Stray`) removes an op that was never sent, though `offline-queue.ts:133` says that an
accepted write is never lost; those are `displaced`. And the stamp of a failed write is read after the await, when the next
account may be signed in, though `composite-backend.ts:199-200` says that this "makes cross-user replay impossible"; the
calls during which the token changed are `crossed`. TLC finds a write in `displaced`, and a `crossed` one on the wrong
account, within eight steps each. Everything else is covered: enqueues behind a drain, drains side by side, sign-ins during a
drain, lost answers, poison, reloads.

Two further races are listed as hazards without a run: a direct write that succeeds leaves an older queued op of its
target in place and the drain it starts replays the older one, and a write captured between the token's restore and the
session's validation is stamped null and purged when the identity arrives.

Bounds: two writes are enough for a collapse, a supersession and a wrong head; two drains for one that outlives a
sign-out; `MaxTries` is 2 so that both the retry and the poison drop happen. Every safety property of the run is proved
for all bounds.

Fairness (`FairSpec`): a request settles, because `fetch` does, and connectivity signals (`online` events, or writes that
succeed) keep arriving. The second is a promise of the environment; the queue has no timer of its own.

Proved (`OfflineQueue_proofs`, for any accounts, targets, writes and drains): `QueueTypes`, `QueueIsCollapsed`,
`QueueIsOwned`, `ReplayIsScoped`, `AcceptedWritesArrive`. `ReplayUnderStamp` is not inductive: a resumed drain sends the next op under the token of
that moment and does not look at its stamp. The strengthening `Scope` adds `DrainScoped`: while any drain is suspended, all pending ops carry
the stamp of the current token, even when nobody is signed in (then there is no token and the stamps are null).
`QueueIsCollapsed` needs `Made`: an op's write exists, so its target can no longer change. `AcceptedWritesArrive` adds
`Arrival`: a drain whose op is still queued is sending the only oldest one, however many drains there are (`Heading`, over
the total order of `Ordered`), so that its shift removes the op it sent; what is queued has had its direct call (`Spent`),
so no write enters twice; and `Kept` and `Authored` follow the write to the server.

## The scans of one series: `SeriesScan`

The server keeps one row of `series_scan_state` per Suwayomi series: when it is scanned next (`next_scan_at`), and the
chapter ids of the last list it recorded (`known_chapter_ids`), against which the next list is compared. A scan awaits
five times: the fetch, the write of the cached chapter list, the record (one `BEGIN IMMEDIATE` transaction), the touch
of the updates feed, and for a paused series the park. Each of these is one action here (`FetchOk`, `PutChapters`,
`RecordScan`, `TouchFeed`, `ParkPaused`), with its failures (`FetchFails`, `PutChaptersFails`, `RecordScanFails`, and
`RecordScanFailure` for the backoff), so that anything else falls between any two of them: another scan of the same
series (the scan loop against `triggerScan`, unpause, `updateSeriesAdmin`, enrolment), an admin's override, a wake
from discovery, the passing of `next_scan_at`, the reclaim of legacy rows, a take-down upstream, or the end of the
process.

`next_scan_at` is one of *none* (no row), *due*, *later* (any cadence or backoff), *parked* and *legacy* (years out).
The lengths of the intervals are abstracted: no property here depends on them. The status the source gives decides
only whether the scan loop parks the row, and is whatever the fetch finds it to be. The list a scan carries, the
snapshot and the cached list are sets of chapters. `Faults` names what may go wrong in a run.

Scans of a series overlap. The scan loop and the admins' calls know nothing of each other, so `Scan` is the union of the
scans the loop may have in flight (`LoopScan`) and those of everybody else (`AdminScan`). Two history fields of a scan say
what their order makes of its list: `newer`, the scans that fetched after it, and `age`, which becomes *overtaken* when
one of those records before it does. The history variable `entered` says of each chapter how it last came into the
snapshot: with the first list, announced, or announced on top of either.

| run | what it shows |
|---|---|
| `series` | a scan of the loop beside one of an admin, with failing fetches, cached fallbacks, lost locks, crashes, pauses and parks: what was out at enrolment is never announced (`BackCatalogueIsSilent`), no chapter gets into the snapshot unannounced (`NothingSwallowed`), a chapter that stays up is announced once, but for the exception below (`AnnouncedOnce`), the series is scanned again and again (`KeepsBeingScanned`), and once the source is quiet snapshot and cached list become what it serves and the feed shows it, in whatever order the scans commit (`Converges`) |

The exception of `AnnouncedOnce` is real. Two scans may commit in the opposite order of their fetches: the overtaken one
puts the older list back, and the next scan announces what it lacked a second time, though `scanner.rs:1900-1902` says that
overlapping scans can no longer clobber the snapshot. The property says that there is no other way to it: a chapter may be
announced anew only after a record of an overtaken scan has taken it out of the snapshot (`Enter`), and each such record
buys one announcement. Without that line of `Enter` the run fails.

Three more races are listed as hazards without a run of their own: a scan that read the override before an admin lifted
the pause parks the series after the admin's own scan, although a comment at `graphql/mod.rs:7561` says that it cannot
be stranded so; a wake that lands between a scan's fetch and its record is overwritten by the ordinary schedule; and a
bulk enrolment whose fetch errors leaves no row until the daily backfill.

Bounds: one scan of the loop (a source has one loop, and its tick scans a row once) and one of an admin or an enrol path; two
chapters, for a back catalogue, a new chapter and a take-down of the old one that hides it from a count (`Fleeting`). The
source publishes each id once and takes it down once; an id that returns after a take-down is legitimately announced again
and is left out. More scans, chapters and take-downs are the theorems' part.

Fairness (`FairSpec`): the steps of a scan, the scan loop, the passing of time, reclaim, backfill and the feed's rebuild
are weakly fair, since each is a timer loop of the server; the fetch, the cache write and the record are strongly fair,
which says that the source and the database answer again and again however often they fail. Admins, discovery and the
source itself get no fairness.

Proved for any number of chapters, scans and any faults (`SeriesScan_proofs`): `TypeOK`, `BackCatalogueIsSilent`,
`NothingSwallowed` and `AnnouncedOnce`, none of them under a condition. Silence is not inductive as it stands, since an older
list may replace the snapshot; the invariant adds that every fetched list and every snapshot contains whatever was out at
enrolment and still stands (`BackIsEverywhere`). `AnnouncedOnce` needs the order of the lists (`ListsInOrder`): a scan that
is not overtaken carries whatever the snapshot has and is still up, and what is up of every list fetched before its own.
The proofs split the steps with `StepKinds`: only a fetch, a record and the source's own changes can touch what these
properties read.

## Who scans a row: `ScanLoops`

The scheduler runs one loop per source and one *sweeper* for whatever no loop owns: rows with no `source_id` yet, and,
when there are more sources than loop slots, every source whose id sorts above a *cutoff*. A supervisor derives the
wanted loops from the database at each reconcile. `ScanLoops` models the supervisor (`Heal`, `Reconcile`, `Shutdown`),
the loops (`Tick`, `Admit`, `StartScan`, `EndScan`, `Stop`, `Panic`), the semaphore they share, and what happens to the
rows meanwhile (`Enroll`, `Purge`, `FallDue`, `PutOff`). Sources are numbers in the order of their ids; `due` is the
sequence the due query returns, earliest first. A scan is one step here; its inside is `SeriesScan`.

A loop that leaves the supervisor's map with a batch in hand goes on as the loop `Old`, next to the one that may take
its key: the rows it has not begun are skipped, those already waiting for a permit are not. One such loop at a time is a
bound of the model. A loop without a batch ends at once, which leaves out that it could tick once more before the
detached task sends its stop.

The run `scan_loops` has two sources and one slot, so that either source can be the one past the cap, one permit, batches
of one row, and all faults (failing queries, lost locks, panics). It shows
that no row has two owners (`OneOwner`), that a row that is due is scanned (`DueIsScanned`), and that a shutdown ends every loop (`StopsWhenTold`). Longer batches
and more permits change how many scans overlap, not who owns a row.

Fairness: the supervisor's interval, the loops' batches, the permits and the scans are weakly fair; the semaphore's queue
is part of the model, because `tokio`'s semaphore is a FIFO. That a row that could be in a batch again and again gets
into one is strong fairness, and so is that its scan is then begun: each loop starts at a random offset within its
period, so that a schedule in which every incarnation is retired just before its tick, or between its tick and its first
scan, does not go on for ever. Without the second of these TLC finds that schedule: a source comes and goes at every
reconcile, and each time the sweeper is replaced with its batch not begun. Faults are assumed to end: from some time on
every step is an ordinary one, which may be the same step as a fault without effect.

Proved for any number of sources, slots and rows (`ScanLoops_proofs`): `TypeOK`, `OneOwner` and, beyond the run, that a reconcile that read
the ids leaves no row without an owner (`ReconcileCovers`), which together
are the "orphan proof" in the comment of `sweeper_cutoff`. The argument is the comment's: the assigned ids are a prefix of
the sorted ids (`AssignedIsPrefix`), all of them when a slot is free (`FreeSlotMeansAll`), so that their complement is
the range above the last (`CutoffFacts`, `Partition`). The invariant `Sharded` says that the loops of the map lie at or
below the sweeper's cutoff; failed queries keep it, which is why `OneOwner` holds through them. That a finite set of ids
has a least and a greatest element is derived from the well-foundedness of strict inclusion.

`TypeOK` says of the semaphore that a row stands in its queue just when its loop waits there (`waiting`). This is inductive
with `Distinct(queue)` (`WorkOK`): an entry that stood there twice would be granted a permit that no scan gives back. Taking
a loop's entries out of the queue is `Kept`, which picks the remaining positions by rank; `KeptFacts` says what it has, and
that it brings no entry in twice.

## When a chapter was released: `ReleaseLedger`

A work's chapters come from several sources. `source_series` maps a source's series to a work, `chapter` (the *spine*)
holds its chapters with a normalised key, and `release_event` (the *ledger*) holds for each work and key when it was first
released and by which source: `INSERT OR IGNORE`, so that the first writer of a key wins for good. `/updates` is projected
from it, which makes a lost event, a late one, or one in the future visible to every reader.

`ReleaseLedger` models the writers and the state between them:

| code | model |
|---|---|
| `source_series.work_id`, `work` | `workOf`, `works` |
| `suwayomi_chapter`; `chapter` with and without `chapter_key` | `cache`; `spine`, `unkeyed` |
| `release_event` (`first_seen_at`, `first_source_series_id`) | `event` (`at`, `by`) |
| `COALESCE(readable_at, published_at)` of a source's chapter | `Date`, 0 when it cannot be parsed |
| the MangaDex firehose: `upsert_chapter` row by row, `record_source_series` at the end of the page | `UpsertChapter`, `Record` |
| `put_chapters`: cache, then `write_chapters_to_spine`, then `spine::remaining`, then the ledger | `PutChapters`, `WriteSpine`, `Gate`, `Record` |
| `spine::spawn`: `drain_chapter_keys`, `drain_suwayomi_series`, `seed_ledger_if_spine_complete`, `seed_work` | `DrainKeys`, `DrainRead`, `DrainWrite`, `NothingToDrain`, `SeedBatch`, `SeedWork`, `Nap`, `Wake` |
| `ensure_source_series`, deletion of a row, `merge_works_checked`, `split_source_series` | `MapSeries`, `DropSeries`, `Merge`, `Split` |

Each statement or transaction of the code is one step, and everything may come between two of them.

`FirstReleases` is what the ledger promises, without sources, writers, worker or failures: a book with at most one date for each
chapter of each work. A date is entered once, on its day or later (`Enter`); of two works that become one the earlier date
stays (`Absorb`); a part that becomes a work takes the dates of some chapters along (`Detach`); a work may be founded, and
days pass. `ReleaseLedger` implements it under the mapping `released`, the dates of the events. That a source is deleted
cannot be seen in it, though the event names it.

The run `ledger` has a Suwayomi and a MangaDex series of one chapter, which MangaDex lists before its date, two works and
two points of time, so that a chapter is scheduled first and out later, and every merge, split, deletion and mapping is
possible. It shows that no event is in the future (`NoFutureEvents`), that the ledger is the book of first releases that
`FirstReleases` describes (`KeepsTheBook`), that no merge or split announces a chapter again that its work had announced (`NeverReannounced`), that
every chapter that is out gets recorded (`EveryReleaseRecorded`), and that the worker comes to rest (`WorkerRests`): the
work list of the seed and its insert agree, so that a scheduled chapter is not offered again and again.

Two comments in the code promise more than the model has. The MangaDex writer has no gate, so that during the drain it
records a chapter for itself that a Suwayomi source had earlier (`UpsertChapter`, `Record`, and only then `DrainWrite`);
and a spine write that fails after the series has rows (`WriteSpineFails`) is healed by nothing until the source's list
changes, because the drain looks only for series with no rows at all. Both are steps of the run, and no property is about
them.

Bounds: each series has at most one writer at a time; a batch of the drain is one series; the id of a work that is gone
may be used again (the code's are never reused, which only removes behaviours); dates do not change; the seed's `now` is
read at each work, the code's once per batch, so that the model may record a chapter a moment earlier.

Fairness: the writers' and the worker's steps are weakly fair. For the two liveness properties, changes by the sources and
to the library and faults come to an end; without that a list could be replaced for ever before it is written.

Proved for any number of series, works, keys and dates (`ReleaseLedger_proofs`): `TypeOK`, `NoFutureEvents`,
`NeverReannounced` and the refinement `KeepsTheBook`. The inductive invariant adds to the first two that
every event has a date (`Dated`: so that changing an event's source never makes an event of none) and that the drain never writes to a series without a mapping
(`Draining`, which is the foreign key of `chapter`). `InsertFacts` says what an insertion does, and needs that finitely
many sources have an earliest (`HasEarliest`, from the well-foundedness of < on the naturals); the action
properties are then proved with one step per action that writes the ledger (`LedgerStep`).

## One engine over one data directory: `EngineSupervisor`

The desktop app runs Suwayomi, a JVM, over a data directory of its own. Two engines on one directory corrupt its store, so
an app boots its engine only when it has created `komika-suwayomi.lock` there (`create_new`). The lock is best effort: the
holder refreshes the file's mtime every 15 s, and a launch that finds it older than a minute removes it and takes over.

| code | model |
|---|---|
| the lockfile and its age against `LOCK_STALE_AFTER` | `path` (whose file: an app's, that of a process that has gone, none), `stale` |
| `SuwayomiSupervisor.lock`, `.stopping`, `Inner.state` and `.port` | `guard`, `stopping`, `state` |
| where `run_engine` and then `run_supervisor` stand | `task` |
| the child of `boot_engine` | `jvm` |
| a child that outlives its app (`kill_on_drop` needs the `Child` to be dropped) | `orphans`, by the way the app ended: killed, forced, or neither; `Orphaned`, `OrphanExits` |
| `acquire_lock`: `create_new`, `metadata`, `remove_file`, `create_new` | `Acquire`, `Judge`, `Remove`, `Create`, with `LockError` and `Retry` |
| boot, monitor, backoff; a stop in each of them | `Start`, `BootOk`, `BootFails`, `NoticeExit`, `Backoff`; `BootStopped`, `RunStopped`, `StopChild` |
| the exit hook: `stop_and_wait`, with its deadline | `RequestStop`, `Backstop`, `Exit` |
| the heartbeat; the ageing of a dead app's file; a suspend | `Beat`, `Lapse`, `Sleep` |

Each system call on the lockfile is one step, so that another app's falls between any two. `misjudged` is a history
variable: it records that a takeover judged a file abandoned while another takeover had judged it too (`contested`), or
while its holder was alive (`asleep`).

The run `engine` has two apps that launch, crash, stop and launch again without limit, with all six faults: it shows that
until a takeover misjudges the lock there is one supervised engine, and beside it only engines orphaned by a kill or by an
exit that ran into its deadline (`OneEngine`), that nobody else removes a running app's lockfile
until then (`LockNotStolen`), that an
app gets its engine back whenever it exits or fails to boot, and takes a lock that is free or stale (`EngineComesBack`), and
that a stop ends wherever it meets the task (`StopsWhenTold`).

The run `engine_takeover` shows the race: two launches judge the same corpse, one removes it and creates its file, the
other removes that file and creates its own, and both hold a guard, although the comment in `acquire_lock` says that
exactly one `create_new` wins. The other way to misjudge, a suspend longer than a minute, needs no race: the file's age
counts the suspend while the heartbeat's timer does not, although the comment at `LOCK_STALE_AFTER` says that a suspended
machine cannot look dead. It is in the run `engine` as the fault `sleep`, and excepted in its properties by name.

Bounds: two apps, which is what a lock is between (the theorems hold for any number); no bound on launches or restarts. How
long a backoff takes, and with it the restart budget that chooses it, is abstracted: nothing else depends on it. So is the
reason of a failed boot. Of the orphans the model keeps the kinds and not the number.

What the lockfile does not promise is one engine: it knows of apps only. An app that is killed leaves its JVM running over
the directory, the takeover of its lockfile is correct, and the engine booted next is a second one. The repository lists
that as open (`NATIVE_ENGINE_STATUS_2026-07-27.md:194`); a forced exit with a child still up does the same. So `OneEngine`
speaks of the supervised engines and says whose orphans the others may be. While an orphan holds the store a boot may fail
(`BootFails`); that it does not fail for ever is part of the fairness below.

Fairness: an app's task, its exit hook and the ageing of a dead app's file are weakly fair; acquiring the lock and booting
are strongly fair, which says that the file system and the engine do not fail for ever, an orphan that holds the store included. Launches, stops, crashes and
the heartbeat get none, so that a holder may look dead at any time after a suspend.

Proved for any number of apps and any faults (`EngineSupervisor_proofs`): `OneEngine`, `LockNotStolen`,
`TypeOK`, and that a task reports `Stopped` only without a child (`StoppedMeansGone`). The last is what the exit hook
relies on when it lets the process go; the backstop (`suwayomi.rs:313`) writes `Stopped` whatever the task is doing, and the
model keeps that value apart. The inductive invariant says that an app has a child only while it holds a guard (`Children`, `Guarded`)
and that, until a takeover has misjudged, the path is every guard's, and whoever is about to remove the file is alone and
removes a corpse (`Exclusive`); that is what the two calls of a takeover would need from each other. That an exit which was not forced leaves no orphan
(`Excused`) follows from the last theorem. Its proof groups the
steps into those of the supervised task, those that only decide, and those that touch the path.

## Canonical works (`CanonicalWorks`, `IdForwarding`)

Source: `catalog/mod.rs` (merge, split, purge, upsert, candidates), `dedup.rs`, and their callers in `graphql/mod.rs`.

| variable | code |
|---|---|
| `used`, `works` | the ids `new_id` gave out, the rows of `work` |
| `owner`, `anchor` | `source_series.work_id`, `work_external_id` of the MangaDex ids |
| `alias`, `trait` | `work_alias`; the columns `MergePrecondition` compares (title, year, author, cover), as one value |
| `redirect`, `splits`, `cands` | `work_redirect`, `work_split`, `merge_candidate` |
| `library`, `wanted` | the rows of `user_library` of one reader; what they have put there (history) |
| `adder`, `sweep`, `desk` | what `add_source_series_core_ex`, the sweeps and an admin's request hold between their transactions |

An action is one transaction, and what was decided before it sits in the call's state: `Add` decides, `MintWork`, `Link`,
`CheckClaim`, `Reclaim` and `ProposeMatch` act on it; `Reconcile`/`Match` and `Consolidate` decide, `SweepFold` merges;
`SplitRead` checks, `SplitWrite` writes; `Accept` claims a candidate, `AcceptFold` merges; `AddTitle` collects the works of a
title, `TitleFold` merges them one by one. `Upsert` is the MangaDex sync, `Purge` the deletion of foreign-language series,
`Crash` ends all calls. `Fold` is `merge_works_checked`, with one operator for each group of tables. How similar two titles
are is not computed: `Decisions` has every answer `resolve_ex` could give for a set of titles and a trait, and any work
counts as similar when none has the very title.

`IdForwarding` is what the catalogue promises about its ids, in three actions: sources are placed in works, which may be
new; one work is absorbed by another, with its sources and all ids that led to it; works are deleted. `CanonicalWorks`
implements it under the mapping `home`, which is what `load_work_following_redirect` finds: the property `Forwards`.

The run `works` has two additions of a source at once, the sync, the sweeps, purges and an admin who merges, splits, decides
and renames, with restarts. It shows that every id leads where it should (`Forwards`, `RedirectsFlat`), the two records of
a MangaDex id agree (`AnchorAgrees`), a library keeps its works (`LibraryKept`), a split is honoured (`SplitHonoured`), and
what a sweep merges is still what it judged alike (`MergesAlike`).

Bounds: three works are a merge into a merged work (a chain of redirects), or a split and a third; two sources are a MangaDex
series and a translation, which `Purge` deletes; one title of merging length; two values of the trait, which the sync can
set; one row of `merge_candidate`; at most two calls under way, of which the sync, the merges by id and the reader's are
single steps and interleave freely. Ids and additions are symmetric.

Proved (`CanonicalWorks_proofs`, for all values of the constants): `WorksTypes`, `RedirectsAreFlat`, `AnchorsAgree`,
`LibrariesAreKept` and the refinement `ForwardsIds`. `Kinds` reduces the 24 actions to five kinds of step (nothing that
concerns ids, placing, folding, deleting, and the reader's own), and `HomeFold`, `HomeDelete` and `HomePlace` say where
an id leads after each. They need `RedirectsFlat`: a survivor is a live work and so has no redirect, which is why one hop
is enough. `AnchorAgrees` needs that an addition never carries a MangaDex source (`AdderStates`) and that only Suwayomi
series are purged. `TypeOK` is inductive with the foreign keys in it (`CandsOK`).

`SplitHonoured` and `MergesAlike` speak of a step of the sweep, and follow from what it holds before that step (`Decided`,
theorem `WhatWasDecided`): the pair is one no split names and, if `consolidate_gate` looked at it, one it found alike. A
split made in between names a work that was not there when the sweep decided, so the pair cannot become forbidden; that the
works may have changed since is why the merge compares them again. The
merges of an added title need no such fact, since `TitleFold` reads the splits as it merges.

What the model also shows, outside the runs: `work_split` names works and a merge leaves it as it is, so a split is
forgotten once one half is merged into a third work (`migrations/0098_work_split.sql:1` promises to remember it). `delete_work_cascade` deletes whatever the losing work has, though
`catalog/mod.rs:2297` takes it to have nothing: between the lost claim and the deletion a sweep may merge another work
into it. `mark` inserts the library row before it finds that the id leads elsewhere (`graphql/mod.rs:6404`), so a row of a
work that is gone can stay. A candidate accepted just before a crash stays `confirmed` with its works apart
(`graphql/mod.rs:8540`). A merge repoints candidates without comparing them (`catalog/mod.rs:3062`), so a pair an admin rejected can
be pending again under the survivor. `split_source_series` reads the sources of a work before its transaction
(`catalog/mod.rs:3441`), and two splits at once can leave the work without any.

## When a source is down: `SourceHealth`

Two evidences say that a source is broken. Scans of its series fail, and every five minutes at most the supervisor sums
the failures up: if enough series, and four in five, have failed several times in a row, the source is in an *outage*:
its series are parked for a week, a row in `source_scan_outage` says so, and the breaker of the extension's subscription
is tripped. And walks of its LATEST listing fail, whose strikes trip the breaker on their own. A walk that sees a parked
series wakes it; the daily pass re-arms a breaker that has been off for a week, one strike short of the limit; an admin
who subscribes again resets it.

| code | model |
|---|---|
| `series_scan_state` of a series: streak, kind of failure, `next_scan_at` | `row`; `next` is `due`, `later`, or a `week` or `half` of one away |
| `source_scan_outage` | `outage` |
| `failures_since_health`, in memory | `failed` |
| the supervisor's gate and `check_source_health`, a statement at a time | `Judge`; `Clear`, `Unpark`; `Park`, `Record`, `Trip` |
| `tick_source`, `scan_due` | `StartScan`, `EndScan`, `ScanGoesWrong` |
| `extension_subscription`: strikes, `disabled_at` | `sub` |
| `sync_all`, `rearm_stale_breakers`, `subscribed_extensions` | `StartPass`, `Rearm`, `ListSubscriptions` |
| `sync_extension_inner` of the pass and of the kick, `mark_subscription_synced` | `StartWalk`, `WalkPage`, `WalkClean`, `WalkFails`, `WalkGoesWrong` |
| `setExtensionSubscription` | `Subscribe`, `Unsubscribe` |

The run `sources` has one series, with a limit of two for every counter, and everything may go wrong: our own engine, the
database, the listing alone, a restart between any two statements. It shows that

- a series is parked only for an outage on record, or for one that the check is just writing down or closing, unless a
  statement failed there (`ParkedMeansOut`; `hurt` remembers that one did);
- the weekly re-arm costs one failing walk, though the check, the kick and the admin write the same row
  (`ProbeIsSingle`);
- a source that stays broken is found out, though the counter is lost at a restart (`OutageFound`);
- one that stays up is taken out of its outage and unparked, and its subscription walked again, once its series are
  scanned (`SourceRecovers`).

The last condition, `Probed`, is not for free, which is what the run `sources_probe` shows. `park_source_series` parks
again every row with less than half a week left, and while an outage is open the check runs every five minutes: so a
parked series never comes due, and the trickle of probes that the comment at `scanner.rs:2232` counts on does not exist. A
source that has recovered stays parked until a LATEST walk or an admin wakes a series of it. In `ComesDue` this is the
conjunct `~outage`: a parked row needs days for its second half, with a check every five minutes of them. The same
comment says that any one success ends the outage; for a source of many series it takes one in five, because the verdict
is a share.

Bounds: with one series every share is all or nothing; the theorems hold for any number. Abstractions: the failure counter
is a boolean, and reading it, lowering it and the aggregate are one step (nothing reads it in between); the alert
window, an extension that is gone, and paused series are left out; the two statements of a subscription are one; a walk
lasts less than the week after which a breaker is re-armed (`GrowsStale`).

Fairness: the check, the pass, the walks, a scan that has started and time go on (weak fairness). A row that is due again and again is scanned (strong
fairness of `StartScan`): the loop ticks every minute and the check that could park the row runs every five. For liveness,
faults come to an end (`Settled`) and the source stays up or down; without that nothing can be promised.

Proved for any number of series and any thresholds (`Sources_proofs`): `TypeOK`, `ParkedMeansOut`, `ProbeIsSingle`.
`TypeOK` is inductive with the single flight of walks in it; `ParkedMeansOut` is, once it is known where in the check each
write happens; for `ProbeIsSingle` the invariant says what the breaker must be for each value of `probe`: after the
re-arm it is one strike from tripping, and once that strike is spent it is off, so that no walk starts until the next.

## The MangaDex mirror: `MangaDexMirror`

Source: `mangadex.rs` (the sweeps, their cycles and the lock), `catalog/mod.rs` (`catalogue_sync_state`, `maintenance_flag`).

Three jobs page through MangaDex's listings. A *seed* walks them by creation time and saves its cursor as it goes; once it
has latched, each sweep asks for what was updated since the last one began, and moves the cursor to its own start. The
*backfill* walks the works once more, for those the seed has lost, and sets a flag that stops it for good. What a sweep
could not land it counts in memory; the cursor is on disk. Every loss this code has had (its comments tell of 4,493 works)
was a cursor that moved past a record while the count that should have held it back was zero or gone.

| code | model |
|---|---|
| `catalogue_sync_state`, the backfill's `maintenance_flag` | `state`, `flag` |
| `work`/`source_series` and `chapter` rows of MangaDex | `landed` |
| the locals of `sync_catalogue`, `sync_chapters`, `backfill_missing_catalogue` and their outcome | `sweep`, a record for each task; `lost` is what the counters count |
| `CATALOGUE_SYNC_RUNNING` | `LockFree`: nobody sweeps |
| `sync_cycle`, `chapter_cycle`, `spawn_resync`, `run_backfill_pass` | `SyncCycle`, `ChapterCycle`, `Resync` with its two resets, `BackfillPass` |
| a page: request, empty, its records one by one, what follows | `ListPage`, `EmptyPage`, `PageKeepsFailing`; `Land`, `Fail`, `Skip`, `Unrelated`; `PageDone`, `Slide` |
| the end of a cycle or pass | `FinishSync`, `FinishBackfill`; `Stop` for an error, a panic or the end of the process |

MangaDex itself is `created` and `updated`, with `Publish` and `Update` at any moment: a listing is what these say when a
page is asked for, so it moves under a sweep that reads it by offset. `from`, `excused` and `forgotten` are history: where a
sweep began, and what was passed over by a way the code admits to (below).

The run `mirror` has two works, a chapter, three points in time and pages of one record, a window cap of two, and every
fault. It shows that

- no chapter sweep goes on while the catalogue is not seeded, whatever an admin resyncs (`ChaptersAfterCatalogue`), and
  no sweep undoes a cursor a later one saved, but for the step that latches a seed, which sets it to the start of the run
  (`CursorMovesOn`): both are the lock's doing, as its mutant shows;
- a sweep that ends has landed or counted whatever it walked over (`SweepAccounts`);
- a seed that latches has landed whatever its last cycle walked over (`LatchedSeedLanded`);
- when the backfill's flag is set, over all its passes every work published before the last one is in the catalogue
  (`MarkerAfterCleanWalk`).

What these exempt is what the code does lose, each by an action of the model:

- an update of a record already read shifts the listing of an update sweep by one, and the next record is never read
  (`Update`; `excused`);
- a tied second longer than the cap and a window that stays empty are given up with a log line, and let a seed latch
  (`Slide`, `EmptyPage`; `excused`);
- a backfill pass that has lost records and then fails, or whose rewind fails, leaves a cursor that is past them
  (`FinishBackfill`, `Stop`; `forgotten`), although `mangadex.rs:2265` calls the flag independent of pass and process
  boundaries;
- a record that is created in the very second a sweep is reading, with a smaller id than what it has read there, is behind
  the offset, and one that comes into a second that the sweep or the backfill's cursor has left is behind the window
  (`Publish`; `excused`, `forgotten`);
- what an earlier cycle of a seed lost is behind its cursor, as `mangadex.rs:3229` says.

The run `mirror_skipped`, in which nothing fails, shows the one the code denies: `sync_chapters` holds `last_created` back
behind a chapter whose work is not catalogued yet, so that it "stays inside the next window" (`mangadex.rs:2944`), but an
update sweep does not keep `last_created`: `run_chapter_cycle` sets the cursor to the start of the sweep. The firehose ticks
every 15 minutes and the catalogue every 6 hours, so the first chapters of a new title can be passed over for good.

Bounds: two works are enough for a record to be shifted, tied or lost beside one that lands; one chapter and its work for
the skip; three points in time for a seed, an update and a cursor between them; pages of one and a cap of two let a
window be read in several pages, between which records move, and end below its cap. A backfill whose time is up slides its
window in the run; the slide at the cap needs three records in one window, which this bound does not have, and is covered
by the theorems alone (`SweepsAccount`, `LatchedSeedsLanded`, `MarkersAfterCleanWalks`, for any cap). One retry of
an empty page. There are about four million states, which is why liveness is not checked here.

Proved (`MangaDexMirror_proofs`, for any records, page length, cap, retries, time and faults): `MirrorTypes` and all the
properties of the run: `NoChaptersBeforeTheCatalogue`, `CursorsMoveOn`, `SweepsAccount`, `LatchedSeedsLanded`,
`MarkersAfterCleanWalks`. The first part is about listings read by offset: ranks are the numbers below the total without a
hole (`EveryOffsetIsARank`), a page is a stretch of them and a short page the end (`PageIsAStretch`), and no record gets a
higher rank from what is younger (`RankShrinks`). The invariant `Inv` says of a sweep (`Keeps`) that what it has neither
landed nor counted nor been excused for is still ahead of its offset or in its page (`Walked`), that whatever is older than
`last_created` has been read (`Ahead`), and that a page which announces the end of the window is right about all that is
older than the sweep (`PageEnds`); of a sweep's row that nobody has touched it since it began (`Placed`, from `OneSweep`); and
of the backfill's cursor that all behind it is in the catalogue or forgotten (`Behind`), which carries `MarkerAfterCleanWalk`
from pass to pass. `KeepsUpstream` is the step that makes it delicate: MangaDex moves the listing between any two pages. The
assumption on `Page` is that it is not zero; those on the ids are that they are numbers, so that ties are broken.

Abstractions: a record is there or not (an update that does not land is not told from one that does); MangaDex's clock is
the server's; lock retries of a write are one write that may fail; the ceilings on passes and the idle rule only end the
backfill earlier; the guard against chapters in other languages has no case left after the request's filter; the genre
top-up, the readable_at backfill and the feed flush are left out (the last is `Record` of `ReleaseLedger`; it records without asking whether another source's earlier row is on the spine
yet, `mangadex.rs:1466`, so that during the drain a release can be credited to the later source for good).

## Add all from source: `IngestJobs`

Source: `ingest.rs` (the jobs, their runner), `graphql/mod.rs` (the four mutations), migration 0018 (the row and its index).

An admin's "add all" is a job: a row of `source_ingest_job` and a detached task that walks the source's listings, popular and
then latest, and enrols whatever it meets. The row is the whole control plane. A partial unique index allows one running row
per source; a cancel writes the row; the runner reads it between two pages; when the server starts it fails the rows that
still say running.

| code | model |
|---|---|
| `source_ingest_job`, with the source of each row | `jobRow`, `source` |
| the locals of `run_job`, `walk_listing`, `browse_page` | `run`, a record per job |
| `startSourceIngest`, `startExtensionIngest`: the gates, `try_start_job`, `spawn_runner` | `req`; `Start`, `Insert`, `Spawn`, and `Abandon` when the call is dropped or fails |
| `cancelSourceIngest`, `cancelExtensionIngest` | `Cancel` |
| a page: fetch or prefetch with its retries, the check, the batch, a join, the end of the page | `Fetch`, `FetchFails`, `Check`, `Begin`, `Join`, `FlushFails`, `PageDone`, `StatementFails` |
| the verdict; `mark_interrupted_jobs` | `Finish`, `FinishFails`; `Restart` |

Enrolling a series ends and is counted, whether it went well, failed or panicked: what it does is in `SeriesScan` and
`CanonicalWorks`, so the counters of the row are one. `browse_source` answers from the listing of its moment: the pages a
walk reads need not fit together, and a page may be blank that is not. So `Begin` takes any of the answers the instance
allows for the listing (`Answers`), and the histories `served`, `open` and `blanks` keep what was heard: the series on the
pages begun, the listings whose end no page has shown, and the blank pages in a row. `orphaned` and `late` are history too.

The run `ingest` has two starting calls at once and up to two jobs of a source like the ones the comment on `LISTINGS`
tells of: popular has one page and no next one; a page of latest may repeat the series of popular and claim a next page,
be blank and claim one, or add a series and be the last. It shows that

- a job that completed without a warning has gone through both listings to their ends, and its row counts each series it
  was served on the way exactly once (`CompletedMeansAll`). The end is what the code takes for one: a page without a next one,
  the `MAX_PAGES`-th, or more than `MAX_EMPTY_PAGES` blank ones in a row;
- a job that has ended stays as it ended, whatever its runner writes later, and begins at most one page after the cancel
  (`CancelWins`);
- a job ends, row and runner (`JobEnds`). The exceptions are named in `orphaned`: a call that is dropped between the insert
  and the spawn, a last write or a recovery that fails. Such a row refuses its source every new job until it is cancelled or
  the server starts again.

Two comments say more than the code does. The runner is said to look for a cancel "between items" (`ingest.rs:14`,
`graphql/mod.rs:8928`, migration 0018); it looks between pages. And `graphql/mod.rs:9132` calls it safe that
`ingest_source_series` waits for a permit of the shared cover pool because its three callers "are strictly sequential":
this job is a fourth, and runs six at a time.

What "all" does not cover: a series that moves, while LATEST is walked, to a page that has been read is served on no
page, and neither is one whose page came back blank. The job cannot know and completes without a warning; the next job
meets the series.

Bounds: `MAX_PAGES` is three, so that a listing that keeps claiming a next page meets the ceiling; one blank page is
tolerated, so that two in a row end a listing and one does not; two attempts, progress after every second series; two jobs,
so that a second one starts next to the runner of a cancelled first. `Insert` does not go on when the jobs are used up.

Fairness: calls that have inserted a row and runners go on, because fetches time out and statements return; nothing is
assumed of admins, of the source, or of restarts, and any fetch may fail.

Proved for any source, limits, and number of jobs and calls (`Sources_proofs`, which also has the theorems of `SourceHealth`):
`JobsTypeOK`, `CompletedMeansAll` and `CancelWins`. Only `JobEnds`, which is liveness, is left to TLC. The invariant is
`JobsOK`. It says

- of a runner (`Local`, `Counts`): its page and attempt are within their limits; while nothing failed, what it has set off is
  what it was served, the items it counted and the batch in flight add up to that, the listings before its own have shown
  their end, and its streak is the number of blank pages in a row, so that it wants no further page exactly when its listing
  has shown its end;
- of a row (`Sound`, `Honest`): while its runner is alive it is behind the runner; once it says completed, without a warning, it
  has all. After a cancel its runner has begun one page at most, and before the page it is about to begin none;
- of a call (`CallsOK`): the row it is about to spawn a runner for never had one, and no other call holds it. Without this a
  second runner of a job could count again what the first one counted.

## Not modelled

By component, as in `PROJECT.json`:

- **updates feed** (`catalog/mod.rs`, `catalog/ledger.rs`): next in the plan. Open until then: the readiness latch, which is
  not asked again once it is true (`ledger.rs:340`). The records the feed is built from are `ReleaseLedger`.
- **garbage collection** (`gc.rs`): in the plan.
- **the rest of sync and discovery** (`sync.rs`, `discovery.rs`): in the plan; the daily pass, its walks and the breaker are in
  `SourceHealth`.
- **cover pipeline, icons, avatars** (`cover.rs`, `phash.rs`, `ext_icon.rs`, `avatar.rs`, `media.rs`): independent idempotent
  steps; what can go wrong is in the data.
- **labels and titles** (`chapter_label.rs`, `normalize.rs`, `similarity.rs`): functions over strings. The modules take their
  results as they come: a chapter has a key, two titles match or do not.
- **resolvers** (`graphql`, `browse.rs`, `views.rs`, `notify.rs`, `auth.rs`): one statement or transaction each, except those that are
  actions of the modules above.
- **wiring and shells** (`main.rs`, `db.rs`, `task.rs`, Tauri's `lib.rs`, the mobile engines): they appear as spawns, stops and
  crashes.
- **clients** (the Suwayomi and GraphQL clients, the image provider, the image proxy): requests, modelled by their outcomes.
- **Cloudflare shim, local engine backend** (`cloudflare.rs`, `local-suwayomi-backend.ts`): little state each; a solve or a
  provisioning is one request.
- **user interface and reader data layer**: views over the backends.
