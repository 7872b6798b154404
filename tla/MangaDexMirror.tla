---------------------------- MODULE MangaDexMirror ----------------------------
(***************************************************************************)
(* The MangaDex mirror (apps/server/src/mangadex.rs).  Three jobs page     *)
(* through MangaDex's listings, oldest record first, and write what they   *)
(* are offered: "catalogue" the works, "chapters" the firehose of their    *)
(* chapters, "backfill" once more the works, for those the seed has lost.  *)
(* The first two seed by creation time and, once a seed has latched, ask   *)
(* only for what was updated since the last sweep; nothing behind their    *)
(* cursor is ever offered again.  The backfill latches a flag that stops   *)
(* it for good.                                                            *)
(*                                                                         *)
(* The recurring loop, an admin's resync and the backfill task share one   *)
(* lock.  MangaDex goes on publishing and updating while a sweep is under  *)
(* way; a record may not parse, a write or a page may fail, a page may     *)
(* come back empty, and the process may stop anywhere.                     *)
(***************************************************************************)
EXTENDS Naturals, FiniteSets

CONSTANTS
    Works, Chapters,  \* the ids of MangaDex's records, numbers that break ties
    WorkOf,           \* the work of each chapter
    Page,             \* PAGE_LIMIT
    Cap,              \* WINDOW_OFFSET_CAP
    Retries,          \* EMPTY_PAGE_RETRIES
    MaxTime,          \* bound: seconds that pass
    Faults            \* what may go wrong, a subset of FaultKinds

FaultKinds == {"parse", "write", "empty", "page", "save", "stop"}

ASSUME MirrorAssumption ==
    /\ Works \subseteq Nat /\ Chapters \subseteq Nat /\ Works \cap Chapters = {}
    /\ IsFiniteSet(Works) /\ IsFiniteSet(Chapters)
    /\ WorkOf \in [Chapters -> Works]
    /\ Page \in Nat \ {0} /\ Cap \in Nat \ {0}
    /\ Retries \in Nat /\ MaxTime \in Nat \ {0}
    /\ Faults \subseteq FaultKinds

VARIABLES
    clock,            \* now, in the seconds of a cursor
    created, updated, \* upstream: when each record was, 0 if it is not there yet
    landed,           \* the records the database has
    state,            \* catalogue_sync_state: the row of each job
    flag,             \* the backfill's maintenance_flag
    sweep,            \* what each task is doing
    forgotten         \* history: works the backfill's cursor is past, and no pass will rewind for

upstream == <<clock, created, updated>>
vars == <<upstream, landed, state, flag, sweep, forgotten>>

Items == Works \cup Chapters
Jobs == {"catalogue", "chapters", "backfill"}
Tasks == {"loop", "admin", "backfill"}
Time == 0 .. MaxTime

(* A row of catalogue_sync_state; one that is not there reads as NoRow. *)
Rows == [cursor : 0 .. MaxTime + 1, seed_done : BOOLEAN]
NoRow == [cursor |-> 0, seed_done |-> FALSE]

(* A sweep under way. page: what is left of the page that was read, as pairs of
   a record's timestamp and its id; raw, total: the page's length and the
   window's as MangaDex gave them; last: last_created; lost: what was counted
   as dropped, failed or skipped; start: run_start.
   from and excused are history: where the sweep began, and what the listing
   has moved past without a count. *)
Sweeps == [pc : {"idle", "reset_catalogue", "reset_chapters",
                 "list", "page", "slide", "done", "stopped"},
           job : Jobs, seeded : BOOLEAN,
           from : 0 .. MaxTime + 1, since : 0 .. MaxTime + 1,
           offset : Nat, last : Time, page : SUBSET (Time \X Items),
           raw : Nat, total : Nat, empties : 0 .. Retries, truncated : BOOLEAN,
           spent : BOOLEAN, lost : SUBSET Items, start : Time,
           excused : SUBSET Items]
Idle == [pc |-> "idle", job |-> "catalogue", seeded |-> FALSE,
         from |-> 0, since |-> 0, offset |-> 0, last |-> 0, page |-> {},
         raw |-> 0, total |-> 0, empties |-> 0, truncated |-> FALSE,
         spent |-> FALSE, lost |-> {}, start |-> 0, excused |-> {}]

TypeOK ==
    /\ clock \in Time
    /\ created \in [Items -> Time] /\ updated \in [Items -> Time]
    /\ landed \subseteq Items
    /\ state \in [Jobs -> Rows]
    /\ flag \in BOOLEAN
    /\ sweep \in [Tasks -> Sweeps]
    /\ forgotten \subseteq Items

Init ==
    /\ clock = 1
    /\ created = [i \in Items |-> 0] /\ updated = created
    /\ landed = {}
    /\ state = [j \in Jobs |-> NoRow]
    /\ flag = FALSE
    /\ sweep = [t \in Tasks |-> Idle]
    /\ forgotten = {}

-----------------------------------------------------------------------------
(* MangaDex's listing. *)

ItemsOf(job) == IF job = "chapters" THEN Chapters ELSE Works
Stamps(seeded) == IF seeded THEN updated ELSE created

(* The records of a window, as pairs of timestamp and id, and their order. *)
Window(job, stamp, since) ==
    {<<stamp[i], i>> : i \in {x \in ItemsOf(job) : stamp[x] > 0 /\ stamp[x] >= since}}
Before(p, q) == p[1] < q[1] \/ (p[1] = q[1] /\ p[2] < q[2])
Rank(p, W) == Cardinality({q \in W : Before(q, p)})
PageAt(W, offset) == {p \in W : Rank(p, W) >= offset /\ Rank(p, W) < offset + Page}
Ids(P) == {p[2] : p \in P}

(* A sweep that reads, its listing as it is now, and how far into it it has read. *)
Reading(s) == s.pc \in {"list", "page", "slide"}
Listing(s) == Window(s.job, Stamps(s.seeded), s.since)
Fetched(s) == IF s.pc = "page" THEN s.offset + s.raw ELSE s.offset

Tick ==
    /\ clock < MaxTime
    /\ clock' = clock + 1
    /\ UNCHANGED <<created, updated, landed, state, flag, sweep, forgotten>>

(* A new record is the last of its listing, but for those of its own second: a
   sweep that has read past its place among them, or given the second up, and a
   backfill whose cursor is past the second, never reads it. *)
Publish(i) ==
    /\ created[i] = 0
    /\ i \in Chapters => created[WorkOf[i]] > 0
    /\ created' = [created EXCEPT ![i] = clock]
    /\ updated' = [updated EXCEPT ![i] = clock]
    /\ sweep' = [t \in Tasks |->
           LET s == sweep[t]
               missed == clock < s.since \/ Rank(<<clock, i>>, Listing(s)) < Fetched(s)
           IN  IF Reading(s) /\ i \in ItemsOf(s.job) /\ missed
               THEN [s EXCEPT !.excused = @ \cup {i}]
               ELSE s]
    /\ forgotten' = IF i \in Works /\ clock < state["backfill"].cursor
                    THEN forgotten \cup {i} ELSE forgotten
    /\ UNCHANGED <<clock, landed, state, flag>>

(* An updated record moves to the end of an update window. What a sweep has not
   read yet moves up, and what moves across the sweep's offset it never reads. *)
Update(i) ==
    /\ created[i] > 0 /\ updated[i] < clock
    /\ updated' = [updated EXCEPT ![i] = clock]
    /\ sweep' = [t \in Tasks |->
           LET s == sweep[t]
               W == Listing(s)
               V == Window(s.job, updated', s.since)
               slipped == {p \in W \cap V : /\ Rank(p, W) >= Fetched(s)
                                            /\ Rank(p, V) < Fetched(s)}
           IN  IF Reading(s) /\ s.seeded
               THEN [s EXCEPT !.excused = @ \cup Ids(slipped)]
               ELSE s]
    /\ UNCHANGED <<clock, created, landed, state, flag, forgotten>>

-----------------------------------------------------------------------------
(* Sweeps begin under the lock, CATALOGUE_SYNC_RUNNING. *)

Sweeping(t) == sweep[t].pc # "idle"
LockFreeMutNone == TRUE
LockFree == \A t \in Tasks : ~Sweeping(t)

Moves(t, s) == sweep' = [sweep EXCEPT ![t] = s]

(* A sweep goes on from its job's cursor. *)
NewSweep(job) ==
    [Idle EXCEPT !.pc = "list", !.job = job,
                 !.seeded = job # "backfill" /\ state[job].seed_done,
                 !.from = state[job].cursor, !.since = state[job].cursor,
                 !.start = clock]

(* The recurring loop: its two ticks. *)
SyncCycle ==
    /\ sweep["loop"] = Idle /\ LockFree
    /\ Moves("loop", NewSweep("catalogue"))
    /\ UNCHANGED <<upstream, landed, state, flag, forgotten>>

ChapterCycle ==
    /\ sweep["loop"] = Idle /\ LockFree
    /\ state["catalogue"].seed_done
    /\ Moves("loop", NewSweep("chapters"))
    /\ UNCHANGED <<upstream, landed, state, flag, forgotten>>

(* An admin's resync: both rows go, then the catalogue is seeded anew. *)
Resync ==
    /\ sweep["admin"] = Idle /\ LockFree
    /\ Moves("admin", [Idle EXCEPT !.pc = "reset_catalogue"])
    /\ UNCHANGED <<upstream, landed, state, flag, forgotten>>

ResetCatalogue ==
    /\ sweep["admin"].pc = "reset_catalogue"
    /\ state' = [state EXCEPT !["catalogue"] = NoRow]
    /\ Moves("admin", [sweep["admin"] EXCEPT !.pc = "reset_chapters"])
    /\ UNCHANGED <<upstream, landed, flag, forgotten>>

ResetChapters ==
    /\ sweep["admin"].pc = "reset_chapters"
    /\ state' = [state EXCEPT !["chapters"] = NoRow]
    /\ Moves("admin", NewSweep("catalogue"))
    /\ UNCHANGED <<upstream, landed, flag, forgotten>>

(* A backfill pass. Its flag and the catalogue's row are read just before the
   lock is taken; only holders of the lock write either. *)
BackfillPass ==
    /\ sweep["backfill"] = Idle /\ LockFree
    /\ ~flag /\ state["catalogue"].seed_done
    /\ Moves("backfill", NewSweep("backfill"))
    /\ UNCHANGED <<upstream, landed, state, flag, forgotten>>

-----------------------------------------------------------------------------
(* A sweep reads its windows page by page. *)

Unread(s) == {p \in Listing(s) : Rank(p, Listing(s)) >= s.offset}

(* A page: some of its records may not parse. Past the end there is none. *)
ListPage(t) ==
    /\ sweep[t].pc = "list"
    /\ LET s == sweep[t]
           P == PageAt(Listing(s), s.offset)
       IN  IF P = {}
           THEN Moves(t, [s EXCEPT !.pc = "done"])
           ELSE \E bad \in SUBSET P :
                    /\ bad # {} => "parse" \in Faults
                    /\ Moves(t, [s EXCEPT !.pc = "page", !.page = P \ bad,
                                          !.raw = Cardinality(P),
                                          !.total = Cardinality(Listing(s)),
                                          !.empties = 0,
                                          !.lost = @ \cup Ids(bad)])
    /\ UNCHANGED <<upstream, landed, state, flag, forgotten>>

(* A page comes back empty short of the total, and again, until the window is
   given up: the syncs take that for its end, the backfill slides on. *)
EmptyPage(t) ==
    /\ "empty" \in Faults
    /\ sweep[t].pc = "list" /\ Unread(sweep[t]) # {}
    /\ LET s == sweep[t]
       IN  IF s.empties < Retries
           THEN Moves(t, [s EXCEPT !.empties = @ + 1])
           ELSE Moves(t, [s EXCEPT !.pc = IF s.job = "backfill" THEN "slide" ELSE "done",
                                   !.truncated = s.job = "backfill",
                                   !.excused = @ \cup Ids(Unread(s))])
    /\ UNCHANGED <<upstream, landed, state, flag, forgotten>>

(* A page keeps failing in a way the backfill tolerates: it slides on. *)
PageKeepsFailing ==
    /\ "page" \in Faults
    /\ sweep["backfill"].pc = "list"
    /\ Moves("backfill", [sweep["backfill"] EXCEPT !.pc = "slide"])
    /\ UNCHANGED <<upstream, landed, state, flag, forgotten>>

First(P) == CHOOSE p \in P : \A q \in P \ {p} : Before(p, q)

(* One record of the page is done with: moves, the cursor may pass it. *)
Done(s, p, moves) == [s EXCEPT !.page = @ \ {p}, !.last = IF moves THEN p[1] ELSE @]

(* It is written, or is there already. *)
Land(t) ==
    /\ sweep[t].pc = "page" /\ sweep[t].page # {}
    /\ LET p == First(sweep[t].page)
       IN  /\ p[2] \in Chapters => WorkOf[p[2]] \in landed
           /\ landed' = landed \cup {p[2]}
           /\ Moves(t, Done(sweep[t], p, TRUE))
    /\ UNCHANGED <<upstream, state, flag, forgotten>>

(* A lookup or a write fails: only a chapter's sweep leaves last_created. *)
FailMutUncounted(t) ==
    /\ "write" \in Faults
    /\ sweep[t].pc = "page" /\ sweep[t].page # {}
    /\ Moves(t, Done(sweep[t], First(sweep[t].page), sweep[t].job # "chapters"))
    /\ UNCHANGED <<upstream, landed, state, flag, forgotten>>
Fail(t) ==
    /\ "write" \in Faults
    /\ sweep[t].pc = "page" /\ sweep[t].page # {}
    /\ LET s == sweep[t]
           p == First(s.page)
       IN  Moves(t, [Done(s, p, s.job # "chapters") EXCEPT !.lost = @ \cup {p[2]}])
    /\ UNCHANGED <<upstream, landed, state, flag, forgotten>>

(* A chapter's work is not in the catalogue: skipped. *)
Skip(t) ==
    /\ sweep[t].pc = "page" /\ sweep[t].page # {} /\ sweep[t].job = "chapters"
    /\ LET p == First(sweep[t].page)
       IN  /\ WorkOf[p[2]] \notin landed
           /\ Moves(t, [Done(sweep[t], p, FALSE) EXCEPT !.lost = @ \cup {p[2]}])
    /\ UNCHANGED <<upstream, landed, state, flag, forgotten>>

(* A chapter names no work: dropped, and passed. *)
Unrelated(t) ==
    /\ "parse" \in Faults
    /\ sweep[t].pc = "page" /\ sweep[t].page # {} /\ sweep[t].job = "chapters"
    /\ LET p == First(sweep[t].page)
       IN  Moves(t, [Done(sweep[t], p, TRUE) EXCEPT !.lost = @ \cup {p[2]}])
    /\ UNCHANGED <<upstream, landed, state, flag, forgotten>>

(* A seed's cursor is saved, unless the write fails. *)
Checkpoint(s, cursor) ==
    IF s.seeded \/ cursor = 0 THEN UNCHANGED state
    ELSE \/ state' = [state EXCEPT ![s.job].cursor = cursor]
         \/ "save" \in Faults /\ UNCHANGED state

(* What follows a page: a short one ends the firehose's window, its total the
   other two's; a window at the cap slides, and so does a backfill whose time
   is up. *)
PageDone(t) ==
    /\ sweep[t].pc = "page" /\ sweep[t].page = {}
    /\ LET s == sweep[t]
           offset == s.offset + s.raw
           over == IF s.job = "chapters" THEN s.raw < Page ELSE offset >= s.total
       IN  /\ IF s.job = "chapters" THEN UNCHANGED state ELSE Checkpoint(s, s.last)
           /\ \E spent \in BOOLEAN :
                  /\ spent => s.job = "backfill" /\ ~over
                  /\ Moves(t, [s EXCEPT !.offset = offset, !.spent = spent, !.raw = 0,
                                        !.total = 0,
                                        !.pc = CASE over -> "done"
                                                 [] ~over /\ (offset >= Cap \/ spent) -> "slide"
                                                 [] OTHER -> "list"])
    /\ UNCHANGED <<upstream, landed, flag, forgotten>>

(* The window slides to last_created, or a second on if it is there already:
   what is left of that second is given up. Without last_created it is stuck. *)
Slide(t) ==
    /\ sweep[t].pc = "slide"
    /\ LET s == sweep[t]
           next == IF s.last = s.since THEN s.last + 1 ELSE s.last
           tied == {p \in Listing(s) : s.last = s.since /\ p[1] = s.last}
           after == [s EXCEPT !.since = next, !.offset = 0, !.last = 0, !.empties = 0,
                              !.excused = @ \cup (Ids(tied) \ landed)]
       IN  IF s.last = 0
           THEN /\ Moves(t, [s EXCEPT !.pc = "stopped", !.excused = @ \cup Ids(Unread(s))])
                /\ UNCHANGED state
           ELSE /\ Checkpoint(s, next)
                /\ \E spent \in BOOLEAN :
                       /\ s.spent => spent
                       /\ spent => s.job = "backfill"
                       /\ Moves(t, [after EXCEPT !.pc = IF spent THEN "stopped" ELSE "list"])
    /\ UNCHANGED <<upstream, landed, flag, forgotten>>

-----------------------------------------------------------------------------
(* A sweep ends. *)

Over(s) == s.pc \in {"done", "stopped"}

(* chapter_seed_may_latch and catalogue_seed_may_latch. *)
SeedMayLatchMutCatalogue(s) == s.job = "catalogue" \/ s.lost = {}
SeedMayLatch(s) == s.lost = {}

(* The loop's and the resync's sweeps: an update sweep moves its cursor to its
   start, whatever it has lost; a seed latches only if it has lost nothing. *)
FinishSync(t) ==
    /\ Over(sweep[t]) /\ sweep[t].job # "backfill"
    /\ LET s == sweep[t]
       IN  \/ /\ s.seeded
              /\ state' = [state EXCEPT ![s.job].cursor = s.start]
           \/ /\ ~s.seeded /\ SeedMayLatch(s)
              /\ state' = [state EXCEPT ![s.job] = [cursor |-> s.start, seed_done |-> TRUE]]
           \/ /\ "save" \in Faults \/ (~s.seeded /\ ~SeedMayLatch(s))
              /\ UNCHANGED state
    /\ Moves(t, Idle)
    /\ UNCHANGED <<upstream, landed, flag, forgotten>>

(* A backfill pass latches its flag if it reached the end and lost nothing; one
   that lost something rewinds the cursor; else the cursor stays. *)
Clean(s) == s.pc = "done" /\ s.lost = {} /\ ~s.truncated
DirtyMutTruncated(s) == s.truncated
Dirty(s) == s.lost # {} \/ s.truncated

FinishBackfill ==
    /\ Over(sweep["backfill"])
    /\ LET s == sweep["backfill"]
       IN  \/ /\ Clean(s)
              /\ flag' = TRUE
              /\ UNCHANGED <<state, forgotten>>
           \/ /\ Dirty(s)
              /\ state' = [state EXCEPT !["backfill"] = NoRow]
              /\ forgotten' = {}
              /\ UNCHANGED flag
           \/ /\ "save" \in Faults \/ ~(Clean(s) \/ Dirty(s))
              /\ forgotten' = forgotten \cup s.excused \cup (IF Dirty(s) THEN s.lost ELSE {})
              /\ UNCHANGED <<state, flag>>
    /\ Moves("backfill", Idle)
    /\ UNCHANGED <<upstream, landed>>

(* A page that fails for good, a panic, a failing reset, or the process stops:
   the lock is free again, the cursor as it was last saved, the counts gone. *)
Stop(t) ==
    /\ "stop" \in Faults
    /\ sweep[t] # Idle
    /\ Moves(t, Idle)
    /\ forgotten' = IF sweep[t].job = "backfill"
                    THEN forgotten \cup sweep[t].lost \cup sweep[t].excused
                    ELSE forgotten
    /\ UNCHANGED <<upstream, landed, state, flag>>

Offer(t) == Land(t) \/ Fail(t) \/ Skip(t) \/ Unrelated(t)
Sweep(t) == ListPage(t) \/ EmptyPage(t) \/ Offer(t) \/ PageDone(t) \/ Slide(t) \/ FinishSync(t)

Begin == SyncCycle \/ ChapterCycle \/ Resync \/ BackfillPass
Next ==
    \/ Tick
    \/ \E i \in Items : Publish(i) \/ Update(i)
    \/ Begin \/ ResetCatalogue \/ ResetChapters
    \/ PageKeepsFailing \/ FinishBackfill
    \/ \E t \in Tasks : Sweep(t) \/ Stop(t)

Spec == Init /\ [][Next]_vars

-----------------------------------------------------------------------------
(* Properties. *)

(* No chapter is asked for while the catalogue is not seeded (run_chapter_cycle,
   M3): its work would be missing and the chapter lost. The gate is read once,
   when the sweep begins; that no resync takes the seed back while the sweep is
   under way is the lock's doing. *)
ChaptersAfterCatalogue ==
    \A t \in Tasks : Sweeping(t) /\ sweep[t].job = "chapters" => state["catalogue"].seed_done

(* A cursor moves on: no sweep that began earlier undoes what a later one saved.
   Excepted are a reset or a rewind, which takes the row away, and the step that
   latches a seed: it sets the cursor to the start of its run, and a record created
   during the run may have moved it past that. *)
CursorMovesOn ==
    [][\A j \in Jobs :
          /\ state'[j] # NoRow
          /\ state'[j].seed_done = state[j].seed_done
          => state'[j].cursor >= state[j].cursor]_vars

Ends(t) == Over(sweep[t]) /\ sweep'[t] = Idle

(* What a sweep walked over, from its cursor to its start, has landed, or is in
   one of its counts; what neither holds for was given up with a logged second
   or window, or moved across the offset by an update of another record. *)
SweepAccounts ==
    [][\A t \in Tasks : Ends(t) /\ (sweep[t].pc = "done" \/ t # "backfill") =>
          \A i \in ItemsOf(sweep[t].job) :
             LET at == Stamps(sweep[t].seeded)[i]
             IN  at > 0 /\ at >= sweep[t].from /\ at < sweep[t].start
                 => i \in landed \cup sweep[t].lost \cup sweep[t].excused]_vars

(* A seed that latches has landed what it walked over (F9): from then on only
   updates are asked for. *)
LatchedSeedLanded ==
    [][\A t \in Tasks : Ends(t) /\ state'[sweep[t].job].seed_done
                        /\ ~state[sweep[t].job].seed_done =>
          \A i \in ItemsOf(sweep[t].job) :
             created[i] > 0 /\ created[i] >= sweep[t].from /\ created[i] < sweep[t].start
             => i \in landed \cup sweep[t].excused]_vars

(* Over all its passes: when the flag is set, every work published before the
   last pass began is in the catalogue, but for those that a pass lost and then
   died with its counts, or gave up with a logged second or window, or that came
   late into a second it had read. *)
MarkerAfterCleanWalk ==
    [][flag' /\ ~flag =>
          \A w \in Works :
             created[w] > 0 /\ created[w] < sweep["backfill"].start
             => w \in landed \cup forgotten \cup sweep["backfill"].excused]_vars

(* What sync_chapters says of a chapter it skips because its work is not catalogued
   (mangadex.rs 2942-2945): the cursor must never move past a record this pass did
   not land; it stays inside the next window. Where nothing fails, only what is
   skipped is lost. *)
SkippedIsOfferedAgain ==
    [][\A t \in Tasks : Ends(t) /\ sweep[t].job = "chapters" =>
          \A c \in sweep[t].lost :
             LET row == state'["chapters"]
             IN  c \in landed \/ Stamps(row.seed_done)[c] >= row.cursor]_vars
==============================================================================
