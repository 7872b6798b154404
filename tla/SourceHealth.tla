----------------------------- MODULE SourceHealth -----------------------------
(***************************************************************************)
(* One source and the extension it belongs to (apps/server/src/scanner.rs, *)
(* sync.rs, catalog/mod.rs).  Two evidences say that it is broken: the     *)
(* scans of its series, which a health check sums up into an outage that   *)
(* parks them all for a week, and the walks of its listing, whose failures *)
(* trip the breaker of the extension's subscription.  An outage trips the  *)
(* breaker as well; a weekly probe and an admin's re-subscribe re-arm it.  *)
(*                                                                         *)
(* Scans, the supervisor's check, the daily sync pass, the walk that a     *)
(* subscription kicks off and the admin run concurrently.  A statement is  *)
(* a step, and the server may stop between any two; the counter of failed  *)
(* scans is in memory only.  Time is abstracted to what next_scan_at and   *)
(* disabled_at mean to the readers of those columns.                       *)
(***************************************************************************)
EXTENDS Naturals, FiniteSets

CONSTANTS
    Series,     \* the series the source may have
    MinSeries,  \* SOURCE_OUTAGE_MIN_SERIES
    MinStreak,  \* SOURCE_OUTAGE_MIN_STREAK
    Limit,      \* SUBSCRIPTION_FAILURE_LIMIT
    Slots,      \* bound: scans in flight at once
    Faults      \* what may go wrong, a subset of FaultKinds

FaultKinds == {"infra", "persist", "listing", "db", "crash"}

ASSUME SourceHealthAssumption ==
    /\ MinSeries \in Nat \ {0} /\ MinStreak \in Nat \ {0} /\ Limit \in Nat \ {0}
    /\ Slots \in Nat
    /\ IsFiniteSet(Series)
    /\ Faults \subseteq FaultKinds

VARIABLES
    up,        \* the source serves chapters
    row,       \* series_scan_state of each series
    scanning,  \* series whose fetch is in flight
    outage,    \* the source has a row in source_scan_outage
    failed,    \* failures_since_health > 0
    check,     \* where check_source_health stands
    sub,       \* the extension's row in extension_subscription
    walk,      \* the daily pass and the kick: where each stands
    hurt,      \* history: a fault left a parked series without an outage row
    probe      \* history: what came of the last weekly re-arm

scanVars == <<row, scanning, failed>>
outageVars == <<outage, check, hurt>>
breakerVars == <<sub, probe>>
vars == <<up, scanVars, outageVars, breakerVars, walk>>

(* next: when the next scan is. An outage parks a series a "week" out, of which
   it has "half" left later; "later" is any ordinary cadence or backoff. *)
Rows == [streak : 0 .. MinStreak, blame : {"none", "source", "ours"},
         next : {"absent", "due", "later", "half", "week"}]
NoRow == [streak |-> 0, blame |-> "none", next |-> "absent"]
Pending == [NoRow EXCEPT !.next = "due"]

(* off: whether disabled_at is set, and since BREAKER_REARM_HOURS. *)
Subscriptions == [on : BOOLEAN, strikes : 0 .. Limit, off : {"no", "fresh", "stale"}]
Unsubscribed == [on |-> FALSE, strikes |-> 0, off |-> "no"]

Walkers == {"pass", "kick"}

TypeOK ==
    /\ up \in BOOLEAN
    /\ row \in [Series -> Rows]
    /\ scanning \subseteq Series
    /\ outage \in BOOLEAN
    /\ failed \in BOOLEAN
    /\ check \in {"idle", "clear", "unpark", "park", "record", "trip"}
    /\ sub \in Subscriptions
    /\ sub.off # "no" => sub.on
    /\ walk \in [Walkers -> {"idle", "rearm", "list", "ready", "walk"}]
    /\ \E w \in Walkers : walk[w] # "walk"
    /\ hurt \in BOOLEAN
    /\ probe \in {"none", "armed", "spent", "twice"}

Known == {s \in Series : row[s].next # "absent"}
Parked == {s \in Series : row[s].next \in {"half", "week"}}

Init ==
    /\ up = TRUE
    /\ row = [s \in Series |-> NoRow] /\ scanning = {}
    /\ outage = FALSE /\ failed = FALSE /\ check = "idle"
    /\ sub = Unsubscribed
    /\ walk = [w \in Walkers |-> "idle"]
    /\ hurt = FALSE /\ probe = "none"

-----------------------------------------------------------------------------
(* The source itself, and time. *)

(* Its site moves or comes back. *)
Toggle == up' = ~up /\ UNCHANGED <<scanVars, outageVars, breakerVars, walk>>

(* Half of a park goes by. *)
Ages(s) ==
    /\ row[s].next = "week"
    /\ row' = [row EXCEPT ![s].next = "half"]
    /\ UNCHANGED <<up, scanning, failed, outageVars, breakerVars, walk>>

(* next_scan_at passes. For the other half of a park that takes days: if the
   outage is open there is a check every five minutes of them. *)
ComesDue(s) ==
    /\ row[s].next = "later" \/ (row[s].next = "half" /\ ~outage)
    /\ row' = [row EXCEPT ![s].next = "due"]
    /\ UNCHANGED <<up, scanning, failed, outageVars, breakerVars, walk>>

(* A breaker has been off for a week; no walk lasts that long. *)
GrowsStale ==
    /\ sub.off = "fresh"
    /\ \A w \in Walkers : walk[w] \notin {"ready", "walk"}
    /\ sub' = [sub EXCEPT !.off = "stale"]
    /\ UNCHANGED <<up, scanVars, outageVars, probe, walk>>

-----------------------------------------------------------------------------
(* Scans. *)

(* A series is enrolled, by a reader, an admin or a walk. *)
Enrol(s) ==
    /\ row[s] = NoRow
    /\ row' = [row EXCEPT ![s] = Pending]
    /\ UNCHANGED <<up, scanning, failed, outageVars, breakerVars, walk>>

(* The source's loop takes a due row. *)
StartScan(s) ==
    /\ row[s].next = "due" /\ s \notin scanning
    /\ Cardinality(scanning) < Slots
    /\ scanning' = scanning \cup {s}
    /\ UNCHANGED <<up, row, failed, outageVars, breakerVars, walk>>

(* record_scan resets the streak and the row goes back to its cadence. *)
Recorded(s) ==
    /\ row' = [row EXCEPT ![s] = [NoRow EXCEPT !.next = "later"]]
    /\ UNCHANGED failed

(* Mutant: nobody counts what failed. *)
RecordScanFailureMutQuiet(s, kind) ==
    /\ row' = [row EXCEPT ![s] = [next |-> "later", blame |-> kind,
           streak |-> IF row[s].streak < MinStreak THEN row[s].streak + 1 ELSE MinStreak]]
    /\ UNCHANGED failed

(* record_scan_failure: one more strike, and a backoff of a day at most. The
   loop adds what failed to failures_since_health. *)
RecordScanFailure(s, kind) ==
    /\ row' = [row EXCEPT ![s] = [next |-> "later", blame |-> kind,
           streak |-> IF row[s].streak < MinStreak THEN row[s].streak + 1 ELSE MinStreak]]
    /\ failed' = TRUE

(* The scan ends: the streak and the schedule are written whatever happened to
   the row meanwhile. *)
EndScan(s) ==
    /\ s \in scanning /\ scanning' = scanning \ {s}
    /\ IF up THEN Recorded(s) ELSE RecordScanFailure(s, "source")
    /\ UNCHANGED <<up, outageVars, breakerVars, walk>>

(* Our own engine, network or solver fails, which scan_due records like any
   other fetch error; or the result cannot be stored; or the database is locked,
   which is counted but not recorded. *)
ScanGoesWrong(s) ==
    /\ s \in scanning /\ scanning' = scanning \ {s}
    /\ \/ "infra" \in Faults /\ RecordScanFailure(s, "source")
       \/ "persist" \in Faults /\ up /\ RecordScanFailure(s, "ours")
       \/ "persist" \in Faults /\ up /\ failed' = TRUE /\ UNCHANGED row
    /\ UNCHANGED <<up, outageVars, breakerVars, walk>>

-----------------------------------------------------------------------------
(* check_source_health, and the supervisor's gate before it. *)

(* The series whose streak the verdict counts. *)
Confirmed == {s \in Known : row[s].streak = MinStreak /\ row[s].blame = "source"}

(* is_source_out_of_service: a floor and a share of four in five. *)
OutOfService ==
    /\ Cardinality(Confirmed) >= MinSeries
    /\ 5 * Cardinality(Confirmed) >= 4 * Cardinality(Known)

(* Mutant: a check runs only after failures. *)
JudgeMutFailures ==
    /\ check = "idle" /\ failed
    /\ failed' = FALSE
    /\ check' = IF OutOfService THEN "park" ELSE IF Known = {} THEN "idle" ELSE "clear"
    /\ UNCHANGED <<up, row, scanning, outage, hurt, breakerVars, walk>>

(* A health check is due: a scan has failed since the last one, or an outage is
   open. The counter is lowered by what was read, and the aggregate taken; only
   a source with a scanned series is in it. *)
Judge ==
    /\ check = "idle" /\ (failed \/ outage)
    /\ failed' = FALSE
    /\ check' = IF OutOfService THEN "park" ELSE IF Known = {} THEN "idle" ELSE "clear"
    /\ UNCHANGED <<up, row, scanning, outage, hurt, breakerVars, walk>>

(* Mutant: the outage is closed and its series stay where they are. *)
ClearMutForget ==
    /\ check = "clear" /\ check' = "idle"
    /\ outage' = FALSE
    /\ UNCHANGED <<up, scanVars, hurt, breakerVars, walk>>

(* clear_source_outage; if there was a row, its series are to be unparked. *)
Clear ==
    /\ check = "clear"
    /\ outage' = FALSE
    /\ check' = IF outage THEN "unpark" ELSE "idle"
    /\ UNCHANGED <<up, scanVars, hurt, breakerVars, walk>>

Moved(from, to) ==
    row' = [s \in Series |-> IF row[s].next \in from THEN [row[s] EXCEPT !.next = to] ELSE row[s]]

(* unpark_source_series brings them back within the hour. *)
Unpark ==
    /\ check = "unpark" /\ check' = "idle"
    /\ Moved({"half", "week"}, "due")
    /\ hurt' = FALSE
    /\ UNCHANGED <<up, scanning, failed, outage, breakerVars, walk>>

(* park_source_series moves every row that is inside half the horizon. *)
Park ==
    /\ check = "park" /\ check' = "record"
    /\ Moved({"due", "later", "half"}, "week")
    /\ UNCHANGED <<up, scanning, failed, outage, hurt, breakerVars, walk>>

Record ==
    /\ check = "record" /\ check' = "trip"
    /\ outage' = TRUE /\ hurt' = FALSE
    /\ UNCHANGED <<up, scanVars, breakerVars, walk>>

(* trip_subscription_breaker, where there is a subscription that is not off. *)
Trip ==
    /\ check = "trip" /\ check' = "idle"
    /\ sub' = IF sub.on /\ sub.off = "no" THEN [sub EXCEPT !.off = "fresh"] ELSE sub
    /\ UNCHANGED <<up, scanVars, outage, hurt, probe, walk>>

(* A statement of the check fails, is logged, and the check goes on. *)
CheckGoesWrong ==
    /\ "db" \in Faults
    /\ \/ check = "idle" /\ (failed \/ outage) /\ failed' = FALSE /\ UNCHANGED <<check, hurt>>
       \/ check \in {"clear", "trip"} /\ check' = "idle" /\ UNCHANGED <<failed, hurt>>
       \/ check = "park" /\ check' = "record" /\ UNCHANGED <<failed, hurt>>
       \/ check = "unpark" /\ check' = "idle" /\ hurt' = TRUE /\ UNCHANGED failed
       \/ check = "record" /\ check' = "trip" /\ hurt' = (hurt \/ ~outage) /\ UNCHANGED failed
    /\ UNCHANGED <<up, row, scanning, outage, breakerVars, walk>>

-----------------------------------------------------------------------------
(* The subscription, its breaker and the walks. *)

(* setExtensionSubscription: an upsert, the full reset of the breaker, and a
   walk in the background. *)
Subscribe ==
    /\ sub' = [Unsubscribed EXCEPT !.on = TRUE]
    /\ probe' = "none"
    /\ walk' \in {walk, [walk EXCEPT !["kick"] = IF @ = "idle" THEN "ready" ELSE @]}
    /\ walk' = walk => walk["kick"] # "idle"
    /\ UNCHANGED <<up, scanVars, outageVars>>

Unsubscribe ==
    /\ sub.on /\ sub' = Unsubscribed
    /\ probe' = "none"
    /\ UNCHANGED <<up, scanVars, outageVars, walk>>

Goes(w, at) == walk' = [walk EXCEPT ![w] = at]

(* sync_all begins: rearm_stale_breakers reads which breakers are stale. *)
StartPass ==
    /\ walk["pass"] = "idle"
    /\ Goes("pass", IF sub.off = "stale" THEN "rearm" ELSE "list")
    /\ UNCHANGED <<up, scanVars, outageVars, breakerVars>>

(* Mutant: the weekly re-arm resets the breaker in full. *)
RearmMutFull ==
    /\ walk["pass"] = "rearm" /\ Goes("pass", "list")
    /\ sub' = IF sub.on THEN [Unsubscribed EXCEPT !.on = TRUE] ELSE sub
    /\ probe' = IF sub.off = "stale" THEN "armed" ELSE probe
    /\ UNCHANGED <<up, scanVars, outageVars>>

(* rearm_subscription_breaker_probe, whatever the row has become since. *)
Rearm ==
    /\ walk["pass"] = "rearm" /\ Goes("pass", "list")
    /\ sub' = IF sub.on THEN [on |-> TRUE, strikes |-> Limit - 1, off |-> "no"] ELSE sub
    /\ probe' = IF sub.off = "stale" THEN "armed" ELSE probe
    /\ UNCHANGED <<up, scanVars, outageVars>>

(* subscribed_extensions. *)
ListSubscriptions ==
    /\ walk["pass"] = "list"
    /\ Goes("pass", IF sub.on /\ sub.off = "no" THEN "ready" ELSE "idle")
    /\ UNCHANGED <<up, scanVars, outageVars, breakerVars>>

(* sync_extension_inner: single flight per extension. *)
StartWalk(w) ==
    /\ walk[w] = "ready"
    /\ Goes(w, IF \E v \in Walkers : walk[v] = "walk" THEN "idle" ELSE "walk")
    /\ UNCHANGED <<up, scanVars, outageVars, breakerVars>>

(* A page of the listing wakes a parked series that it names
   (paused_series_due_for_trigger, trigger_due_now). *)
WalkPage(w, s) ==
    /\ walk[w] = "walk"
    /\ s \in Parked
    /\ row' = [row EXCEPT ![s].next = "due"]
    /\ UNCHANGED <<up, scanning, failed, outageVars, breakerVars, walk>>

(* mark_subscription_synced without an error. *)
WalkClean(w) ==
    /\ walk[w] = "walk" /\ Goes(w, "idle")
    /\ sub' = [sub EXCEPT !.strikes = 0]
    /\ probe' = "none"
    /\ UNCHANGED <<up, scanVars, outageVars>>

(* mark_subscription_synced with an error: one more strike, and the breaker is
   off when they are enough. *)
Strike ==
    /\ sub' = IF ~sub.on THEN sub
              ELSE [on |-> TRUE,
                    strikes |-> IF sub.strikes < Limit THEN sub.strikes + 1 ELSE Limit,
                    off |-> IF sub.off = "no" /\ sub.strikes + 1 >= Limit THEN "fresh" ELSE sub.off]
    /\ probe' = CASE probe = "armed" -> "spent" [] probe = "spent" -> "twice" [] OTHER -> probe

WalkFails(w) ==
    /\ walk[w] = "walk" /\ Goes(w, "idle")
    /\ ~up
    /\ Strike
    /\ UNCHANGED <<up, scanVars, outageVars>>

(* The listing alone is broken; or the failure is ours (is_infrastructure_error)
   and nothing is recorded. *)
WalkGoesWrong(w) ==
    /\ walk[w] = "walk" /\ Goes(w, "idle")
    /\ \/ "listing" \in Faults /\ up /\ Strike
       \/ "infra" \in Faults /\ UNCHANGED breakerVars
    /\ UNCHANGED <<up, scanVars, outageVars>>

(* A statement of the pass fails: the re-arm is left to a later pass, or there
   is nothing to walk. *)
PassGoesWrong ==
    /\ "db" \in Faults
    /\ \/ walk["pass"] = "rearm" /\ Goes("pass", "list")
       \/ walk["pass"] = "list" /\ Goes("pass", "idle")
    /\ UNCHANGED <<up, scanVars, outageVars, breakerVars>>

-----------------------------------------------------------------------------

(* The server stops: what is in memory is gone, and by the time it is back any
   row may be due. *)
Crash ==
    /\ "crash" \in Faults
    /\ \E late \in SUBSET (Parked \cup {s \in Series : row[s].next = "later"}) :
         row' = [s \in Series |-> IF s \in late THEN [row[s] EXCEPT !.next = "due"] ELSE row[s]]
    /\ scanning' = {} /\ failed' = FALSE /\ check' = "idle"
    /\ walk' = [w \in Walkers |-> "idle"]
    /\ hurt' = (hurt \/ check = "unpark" \/ (check = "record" /\ ~outage))
    /\ UNCHANGED <<up, outage, breakerVars>>

CheckStep == Judge \/ Clear \/ Unpark \/ Park \/ Record \/ Trip
PassStep == StartPass \/ Rearm \/ ListSubscriptions
WalkStep(w) == StartWalk(w) \/ WalkClean(w) \/ WalkFails(w)

Ordinary ==
    \/ Toggle \/ GrowsStale \/ CheckStep \/ PassStep \/ Subscribe \/ Unsubscribe
    \/ \E s \in Series :
          \/ Ages(s) \/ ComesDue(s) \/ Enrol(s) \/ StartScan(s) \/ EndScan(s)
          \/ \E w \in Walkers : WalkPage(w, s)
    \/ \E w \in Walkers : WalkStep(w)

Fault ==
    \/ CheckGoesWrong \/ PassGoesWrong \/ Crash
    \/ \E s \in Series : ScanGoesWrong(s)
    \/ \E w \in Walkers : WalkGoesWrong(w)

Next == Ordinary \/ Fault

Spec == Init /\ [][Next]_vars

(* The supervisor, the scan loop, the sync pass and the walks go on, and time
   passes. The loop ticks every minute, the check every five, so a row that is
   due again and again is scanned. *)
FairSpec ==
    /\ Spec
    /\ WF_vars(CheckStep) /\ WF_vars(PassStep) /\ WF_vars(GrowsStale)
    /\ \A w \in Walkers : WF_vars(WalkStep(w))
    /\ \A s \in Series :
         WF_vars(Ages(s) \/ ComesDue(s)) /\ SF_vars(StartScan(s)) /\ WF_vars(EndScan(s))

-----------------------------------------------------------------------------
(* Properties *)

(* check_source_health parks before it records and unparks after it clears, so
   that no series sits out a week for an outage nobody has on record: unless a
   statement failed or the server stopped in the middle of a check. *)
ParkedMeansOut ==
    Parked # {} /\ ~outage => check \in {"record", "unpark"} \/ hurt

(* "1 wasted walk, then disabled again for the week": after the weekly re-arm
   of a stale breaker (rearm_stale_breakers) no two failing walks are recorded
   before the next, whatever the check, the kick and the admin do. *)
ProbeIsSingle == probe # "twice"

(* From some point on nothing of ours goes wrong. *)
Settled == <>[][Ordinary]_vars

(* Every series is scanned again and again. *)
Probed == \A s \in Series : []<>(s \in scanning)

(* A source that stays broken is found out, though the counter that asks for
   the check is lost at every restart. *)
OutageFound ==
    Settled /\ <>[](~up /\ Cardinality(Known) >= MinSeries) => <>[]outage

(* A source that stays healthy, and whose series are scanned, is taken out of
   its outage, and they out of their park, whatever verdict was under way; and
   its subscription is walked again, with no admin needed. *)
SourceRecovers ==
    Settled /\ <>[]up /\ Probed =>
        /\ <>[](~outage /\ Parked = {})
        /\ <>[]sub.on => <>[](sub.off = "no")

(* "still re-probing continuously (the parks are jittered, so a trickle of
   series comes due every day and any one of them succeeding ends the outage)"
   (SOURCE_OUTAGE_PARK_HOURS). *)
OutageEndsAlone == Settled /\ <>[](up /\ Known # {}) => <>[]~outage
==============================================================================
