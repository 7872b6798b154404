------------------------------- MODULE ScanLoops -------------------------------
(***************************************************************************)
(* The scan scheduler (apps/server/src/scanner.rs, "Phase E3"): a          *)
(* supervisor that shards the rows of series_scan_state over one loop per  *)
(* source and a sweeper for everything else, and the loops themselves.     *)
(*                                                                         *)
(* The supervisor derives the loops it wants from the database once per    *)
(* reconcile, and stops the ones it no longer wants from a detached task,  *)
(* so that a retired loop is still at work next to its successor.  Between *)
(* two reconciles series are enrolled and purged.  Sources are numbered in *)
(* the order of their ids; time is abstracted to rows falling due.         *)
(***************************************************************************)
EXTENDS Naturals, FiniteSets, Sequences

CONSTANTS
    Row,          \* series that may have a row of series_scan_state
    Home,         \* the source each series is mapped to in source_series
    Slots,        \* SOURCE_LOOP_SLOTS
    BatchLimit,   \* DUE_BATCH_LIMIT
    Width,        \* SCAN_CONCURRENCY, within one loop
    Permits,      \* permits of the semaphore all loops share
    Old,          \* a loop that left the map and has yet to end: one at a time
    Faults        \* what may go wrong, a subset of FaultKinds

FaultKinds == {"query", "panic", "locked"}

ASSUME ScanLoopsAssumption ==
    /\ IsFiniteSet(Row)
    /\ Home \in [Row -> Nat \ {0}]
    /\ {Slots, BatchLimit, Width, Permits} \subseteq Nat \ {0}
    /\ Old \notin Nat
    /\ Faults \subseteq FaultKinds

Null == 0        \* source_id IS NULL
Sweeper == 0     \* UNASSIGNED_KEY
Key == {Sweeper} \cup {Home[r] : r \in Row}

(* The loops of the supervisor's map, and one that left it and is still busy with
   its last batch: no more than one, which is a bound. *)
Loop == Key \cup {Old}

VARIABLES
    rows,       \* series that have a row
    sourceId,   \* source_id of the row, Null when there is none
    mapped,     \* series with a mapping in source_series
    due,        \* rows whose next_scan_at has passed, earliest first
    children,   \* keys of the supervisor's map
    above,      \* sweeper_above: the cutoff the sweeper was spawned with, or 0
    work,       \* how far each loop is with each row of its batch
    queue,      \* the rows that wait for a permit, in order, with their loop
    sup         \* where the supervisor is

dbVars == <<rows, sourceId, mapped, due>>
supVars == <<children, above, sup>>
vars == <<dbVars, work, queue, supVars>>

NoWork == [r \in Row |-> "none"]

(* A queued row is one the loop has not begun. *)
TypeOK ==
    /\ rows \subseteq Row
    /\ sourceId \in [Row -> Key]
    /\ mapped \subseteq Row
    /\ due \in Seq(rows)
    /\ children \subseteq Key
    /\ above \in Key
    /\ work \in [Loop -> [Row -> {"none", "queued", "waiting", "scanning"}]]
    /\ queue \in Seq(Loop \X Row)
    /\ \A l \in Loop, r \in Row :
         work[l][r] = "waiting" <=> \E i \in DOMAIN queue : queue[i] = <<l, r>>
    /\ sup \in {"wait", "assign", "down"}

(* The process starts on whatever rows an earlier one left. *)
Init ==
    /\ rows \in SUBSET Row
    /\ mapped \in SUBSET rows
    /\ sourceId \in [Row -> Key]
    /\ \A r \in Row : sourceId[r] \in IF r \in rows THEN {Null, Home[r]} ELSE {Null}
    /\ due = <<>>
    /\ children = {Sweeper} /\ above = 0
    /\ work = [l \in Loop |-> NoWork]
    /\ queue = <<>>
    /\ sup = "wait"

-----------------------------------------------------------------------------
(* The sharding. *)

(* What a sequence has at some positions, in the same order. *)
Rank(positions, i) == Cardinality({j \in positions : j <= i})

Kept(q, positions) ==
    [n \in 1 .. Cardinality(positions) |-> q[CHOOSE i \in positions : Rank(positions, i) = n]]

Without(q, r) == Kept(q, {i \in DOMAIN q : q[i] # r})

(* Mutant: the sweeper takes the rows without a source and no others. *)
SelectsMutNullOnly(key, cutoff, id) == id = key

(* SourceSel: does the loop of this key own a row with this source_id? *)
Selects(key, cutoff, id) ==
    IF key = Sweeper THEN id = Null \/ (cutoff # 0 /\ id > cutoff) ELSE id = key

Owns(key, r) == Selects(key, above, sourceId[r])

(* distinct_scan_source_ids: the first Slots ids in ascending order. *)
Ids == {sourceId[r] : r \in rows} \ {Null}

Assigned(ids) == {i \in ids : Cardinality({j \in ids : j < i}) < Slots}

(* sweeper_cutoff: the last assigned id once the assigned ones fill the slots. *)
Cutoff(assigned) ==
    IF Cardinality(assigned) < Slots THEN 0
    ELSE CHOOSE i \in assigned : \A j \in assigned : j <= i

-----------------------------------------------------------------------------
(* The supervisor: it waits for its interval or a kick, heals, and reconciles. *)

(* heal_null_source_ids: one UPDATE; an error leaves the rows to the sweeper. *)
Heal ==
    /\ sup = "wait" /\ sup' = "assign"
    /\ sourceId' = [r \in Row |-> IF r \in rows \cap mapped /\ sourceId[r] = Null
                                  THEN Home[r] ELSE sourceId[r]]
    /\ UNCHANGED <<rows, mapped, due, work, queue, children, above>>

HealFails ==
    /\ sup = "wait" /\ sup' = "assign"
    /\ "query" \in Faults
    /\ UNCHANGED <<dbVars, work, queue, children, above>>

(* The loops of these keys leave the map. One that has a batch stays to finish
   it. *)
Retire(keys) ==
    LET busy == {k \in keys : work[k] # NoWork}
    IN  /\ Cardinality(busy) <= 1 /\ (busy # {} => work[Old] = NoWork)
        /\ work' = [l \in Loop |->
               IF l \in busy THEN NoWork
               ELSE IF l = Old /\ busy # {} THEN work[CHOOSE k \in busy : TRUE] ELSE work[l]]
        /\ queue' = [i \in DOMAIN queue |->
               IF queue[i][1] \in busy THEN <<Old, queue[i][2]>> ELSE queue[i]]

(* Mutant: a sweeper that has a cutoff is left alone. *)
AdjustMutKeepSweeper(assigned) ==
    LET desired == assigned \cup {Sweeper}
    IN  /\ children' = desired
        /\ above' = IF above # 0 THEN above ELSE Cutoff(assigned)
        /\ Retire({k \in children : k \notin desired \/ (k = Sweeper /\ above # above')})

(* Bring the map in line with the assigned ids: reconcile_delta, with a sweeper
   whose cutoff is out of date replaced. There is no await in it. *)
Adjust(assigned) ==
    LET desired == assigned \cup {Sweeper}
    IN  /\ children' = desired
        /\ above' = Cutoff(assigned)
        /\ Retire({k \in children : k \notin desired \/ (k = Sweeper /\ above # above')})

Reconcile ==
    /\ sup = "assign" /\ sup' = "wait"
    /\ Adjust(Assigned(Ids))
    /\ UNCHANGED dbVars

(* distinct_scan_source_ids answers an error with no ids at all. *)
ReconcileBlind ==
    /\ sup = "assign" /\ sup' = "wait"
    /\ "query" \in Faults
    /\ Adjust({})
    /\ UNCHANGED dbVars

(* Mutant: the sweeper is forgotten. *)
ShutdownMutSweeper ==
    /\ sup = "wait" /\ sup' = "down"
    /\ Retire(children \ {Sweeper})
    /\ children' = {Sweeper}
    /\ UNCHANGED <<dbVars, above>>

(* The supervisor sees the shutdown and lets go of every child. *)
Shutdown ==
    /\ sup = "wait" /\ sup' = "down"
    /\ Retire(children)
    /\ children' = {}
    /\ UNCHANGED <<dbVars, above>>

-----------------------------------------------------------------------------
(* A loop. *)

At(l, stage) == {r \in Row : work[l][r] = stage}
InFlight == UNION {{l} \X At(l, "scanning") : l \in Loop}
Move(l, r, stage) == work' = [work EXCEPT ![l][r] = stage]

(* due_series_ids_for_source: the earliest due rows of the key's slice. *)
Batch(k) ==
    LET mine == SelectSeq(due, LAMBDA r : Owns(k, r))
    IN  {mine[i] : i \in {j \in DOMAIN mine : j <= BatchLimit}}

(* A tick that finds rows due. One that finds none, or whose query fails,
   changes nothing. *)
Tick(k) ==
    /\ k \in children
    /\ work[k] = NoWork
    /\ Batch(k) # {}
    /\ work' = [work EXCEPT ![k] =
           [r \in Row |-> IF r \in Batch(k) THEN "queued" ELSE "none"]]
    /\ UNCHANGED <<dbVars, queue, supVars>>

(* for_each_concurrent begins the next row, which asks for a permit of the
   shared semaphore: it grants them in turn. *)
Admit(l, r) ==
    /\ r \in At(l, "queued")
    /\ Cardinality(At(l, "waiting") \cup At(l, "scanning")) < Width
    /\ Move(l, r, "waiting")
    /\ queue' = Append(queue, <<l, r>>)
    /\ UNCHANGED <<dbVars, supVars>>

StartScan(l, r) ==
    /\ queue # <<>> /\ Head(queue) = <<l, r>>
    /\ Cardinality(InFlight) < Permits
    /\ Move(l, r, "scanning")
    /\ queue' = Tail(queue)
    /\ UNCHANGED <<dbVars, supVars>>

(* A loop that left the map sees its stop: it skips the rows it has not begun.
   Those that wait for a permit are past the check. *)
Stop ==
    /\ At(Old, "queued") # {}
    /\ work' = [work EXCEPT ![Old] =
           [r \in Row |-> IF @[r] = "queued" THEN "none" ELSE @[r]]]
    /\ UNCHANGED <<dbVars, queue, supVars>>

(* scan_due reschedules the row, be it recorded or backed off, and either is an
   upsert: a row purged since the query comes back, with no source_id. *)
Rescheduled(r) ==
    /\ rows' = rows \cup {r}
    /\ due' = Without(due, r)
    /\ UNCHANGED <<sourceId, mapped>>

EndScan(l, r) ==
    /\ r \in At(l, "scanning")
    /\ Rescheduled(r)
    /\ Move(l, r, "none")
    /\ UNCHANGED <<queue, supVars>>

(* A lost write lock leaves the schedule intact. *)
ScanLocked(l, r) ==
    /\ r \in At(l, "scanning")
    /\ "locked" \in Faults
    /\ Move(l, r, "none")
    /\ UNCHANGED <<dbVars, queue, supVars>>

(* Mutant: a scan that is dropped keeps its place in the queue. *)
PanicMutKeepPlace(l) ==
    /\ "panic" \in Faults
    /\ work[l] # NoWork
    /\ work' = [work EXCEPT ![l] = NoWork]
    /\ UNCHANGED <<dbVars, queue, supVars>>

(* A panic takes the batch with it, and the permits; the loop starts again
   unless it has been told to stop. *)
Panic(l) ==
    /\ "panic" \in Faults
    /\ work[l] # NoWork
    /\ work' = [work EXCEPT ![l] = NoWork]
    /\ queue' = Kept(queue, {i \in DOMAIN queue : queue[i][1] # l})
    /\ UNCHANGED <<dbVars, supVars>>

-----------------------------------------------------------------------------
(* The rest of the server. *)

Enroll(r) ==
    /\ r \notin mapped
    /\ mapped' = mapped \cup {r}
    /\ rows' = rows \cup {r}
    /\ due' = IF r \in rows THEN due ELSE Append(due, r)
    /\ UNCHANGED <<sourceId, work, queue, supVars>>

(* purge_foreign_language_suwayomi, delete_redundant: mapping and row go in one
   transaction. *)
Purge(r) ==
    /\ r \in mapped
    /\ mapped' = mapped \ {r}
    /\ rows' = rows \ {r}
    /\ sourceId' = [sourceId EXCEPT ![r] = Null]
    /\ due' = Without(due, r)
    /\ UNCHANGED <<work, queue, supVars>>

(* next_scan_at passes, or is brought forward. *)
FallDue(r) ==
    /\ r \in rows
    /\ \A i \in DOMAIN due : due[i] # r
    /\ due' = Append(due, r)
    /\ UNCHANGED <<rows, sourceId, mapped, work, queue, supVars>>

(* triggerScan and the other mutations scan a row themselves; an outage of its
   source parks it. *)
PutOff(r) ==
    /\ \E i \in DOMAIN due : due[i] = r
    /\ due' = Without(due, r)
    /\ UNCHANGED <<rows, sourceId, mapped, work, queue, supVars>>

-----------------------------------------------------------------------------
Supervisor == Heal \/ Reconcile \/ Shutdown

LoopStep(l) == \E r \in Row : Admit(l, r) \/ StartScan(l, r) \/ EndScan(l, r)

Loops == (\E k \in Key : Tick(k)) \/ Stop \/ (\E l \in Loop : LoopStep(l))

Library == \E r \in Row : Enroll(r) \/ Purge(r) \/ FallDue(r) \/ PutOff(r)

Ordinary == Supervisor \/ Loops \/ Library

Fault ==
    \/ HealFails \/ ReconcileBlind
    \/ \E l \in Loop : Panic(l) \/ \E r \in Row : ScanLocked(l, r)

Next == Ordinary \/ Fault

Spec == Init /\ [][Next]_vars

(* Timers go on, and scans end. A row that is due again and again when a loop
   could tick for it is in some batch, since the ticks are staggered at random, and
   one that is in batches again and again is begun: a stop comes when it comes.
   Faults come to an end: from some time on every step is an ordinary one, which
   a fault without effect may be, too. *)
Fairness ==
    /\ WF_vars(Heal \/ Shutdown) /\ WF_vars(Reconcile)
    /\ \A r \in Row :
         /\ SF_vars(\E k \in Key : Tick(k) /\ r \in Batch(k))
         /\ SF_vars(\E l \in Loop : Admit(l, r))
    /\ \A l \in Loop : WF_vars(\E r \in Row : Admit(l, r)) /\ WF_vars(\E r \in Row : EndScan(l, r))
    /\ WF_vars(\E l \in Loop, r \in Row : StartScan(l, r))
    /\ <>[][Fault => Ordinary]_vars

FairSpec == Spec /\ Fairness

-----------------------------------------------------------------------------
(* No two loops of the supervisor's map ever own the same row: sharding the
   scans never makes a row two loops' business, through enrolments, purges,
   changes of the cutoff and failed queries (SourceSel, sweeper_cutoff). *)
OneOwner ==
    \A r \in rows : \A j, k \in children : Owns(j, r) /\ Owns(k, r) => j = k

(* Once a reconcile has read the ids, every row there is has a loop: the
   "orphan proof" of sweeper_cutoff, whatever number of sources there are. *)
ReconcileCovers == [][Reconcile => \A r \in rows : \E k \in children' : Owns(k, r)']_vars

(* A row that is due is scanned, or purged, or the process stops: whatever
   becomes of its source's loop, of the cutoff and of the queries. *)
DueIsScanned ==
    \A r \in Row :
        (\E i \in DOMAIN due : due[i] = r) ~> (sup = "down" \/ \A i \in DOMAIN due : due[i] # r)

(* After a shutdown every loop comes to its end and begins nothing any more, the
   retired ones too. *)
StopsWhenTold == sup = "down" ~> [](\A l \in Loop : work[l] = NoWork)
================================================================================
