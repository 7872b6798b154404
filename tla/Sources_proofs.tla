----------------------------- MODULE Sources_proofs -----------------------------
(***************************************************************************)
(* Proofs about what the server does with a Suwayomi source, for any       *)
(* values of the constants.  SourceHealth: parks and outages stay          *)
(* together, and a weekly re-arm of the breaker costs one walk.            *)
(* IngestJobs: a job that completed has seen the whole catalogue, and one  *)
(* that has ended stays as it ended.                                       *)
(***************************************************************************)
EXTENDS SourceHealth, IngestJobs, FiniteSetTheorems, TLAPS

-----------------------------------------------------------------------------
(* SourceHealth *)

Records == row \in [Series -> Rows]

LEMMA Resets ==
    /\ NoRow \in Rows /\ Pending \in Rows /\ [NoRow EXCEPT !.next = "later"] \in Rows
    /\ Unsubscribed \in Subscriptions /\ [Unsubscribed EXCEPT !.on = TRUE] \in Subscriptions
<1>1. 0 \in 0 .. MinStreak /\ 0 \in 0 .. Limit
  BY SourceHealthAssumption
<1>2. NoRow \in Rows
  BY <1>1 DEF NoRow, Rows
<1>3. Pending \in Rows /\ [NoRow EXCEPT !.next = "later"] \in Rows
  BY <1>1 DEF NoRow, Pending, Rows
<1>4. Unsubscribed \in Subscriptions /\ [Unsubscribed EXCEPT !.on = TRUE] \in Subscriptions
  BY <1>1 DEF Unsubscribed, Subscriptions
<1>. QED BY <1>2, <1>3, <1>4

(* A row that only comes nearer or goes further. *)
LEMMA Rescheduled ==
    ASSUME NEW r \in Rows, NEW n \in {"absent", "due", "later", "half", "week"}
    PROVE  [r EXCEPT !.next = n] \in Rows
BY DEF Rows

LEMMA StrikeTypes ==
    ASSUME TypeOK, Strike
    PROVE  /\ sub' \in Subscriptions /\ (sub'.off # "no" => sub'.on)
           /\ probe' \in {"none", "armed", "spent", "twice"}
<1>. USE SourceHealthAssumption DEF TypeOK, Strike, Subscriptions
<1>1. sub.strikes < Limit => sub.strikes + 1 \in 0 .. Limit
  OBVIOUS
<1>. QED BY <1>1

LEMMA MovedTypes ==
    ASSUME Records, NEW from, NEW to \in {"absent", "due", "later", "half", "week"}, Moved(from, to)
    PROVE  Records'
BY Rescheduled DEF Records, Moved

LEMMA CheckTypes ==
    ASSUME TypeOK, CheckStep \/ CheckGoesWrong
    PROVE  TypeOK'
<1>. USE DEF TypeOK, outageVars, breakerVars, scanVars
<1>1. CASE Judge BY <1>1 DEF Judge
<1>2. CASE Clear BY <1>2 DEF Clear
<1>3. CASE Unpark BY <1>3, MovedTypes DEF Unpark, Records
<1>4. CASE Park BY <1>4, MovedTypes DEF Park, Records
<1>5. CASE Record BY <1>5 DEF Record
<1>6. CASE Trip
  <2>1. sub' \in Subscriptions /\ (sub'.off # "no" => sub'.on)
    BY <1>6 DEF Trip, Subscriptions
  <2>. QED BY <1>6, <2>1 DEF Trip
<1>7. CASE CheckGoesWrong BY <1>7 DEF CheckGoesWrong
<1>. QED BY <1>1, <1>2, <1>3, <1>4, <1>5, <1>6, <1>7 DEF CheckStep

LEMMA ScanTypes ==
    ASSUME TypeOK, NEW s \in Series,
           \/ Ages(s) \/ ComesDue(s) \/ Enrol(s) \/ StartScan(s) \/ EndScan(s) \/ ScanGoesWrong(s)
           \/ \E w \in Walkers : WalkPage(w, s)
    PROVE  TypeOK'
<1>. USE DEF TypeOK, outageVars, breakerVars, scanVars
<1>1. CASE Ages(s) BY <1>1, Rescheduled DEF Ages
<1>2. CASE ComesDue(s) BY <1>2, Rescheduled DEF ComesDue
<1>3. CASE Enrol(s) BY <1>3, Resets DEF Enrol
<1>4. CASE StartScan(s) BY <1>4 DEF StartScan
<1>5. ASSUME NEW kind \in {"source", "ours"}, RecordScanFailure(s, kind)
      PROVE  row' \in [Series -> Rows] /\ failed' \in BOOLEAN
  <2>1. (IF row[s].streak < MinStreak THEN row[s].streak + 1 ELSE MinStreak) \in 0 .. MinStreak
    BY SourceHealthAssumption DEF Rows
  <2>2. [next |-> "later", blame |-> kind,
         streak |-> IF row[s].streak < MinStreak THEN row[s].streak + 1 ELSE MinStreak] \in Rows
    BY <2>1 DEF Rows
  <2>. QED BY <1>5, <2>2 DEF RecordScanFailure
<1>6. CASE EndScan(s)
  <2>1. row' \in [Series -> Rows] /\ failed' \in BOOLEAN
    BY <1>5, <1>6, Resets DEF EndScan, Recorded
  <2>. QED BY <1>6, <2>1 DEF EndScan
<1>7. CASE ScanGoesWrong(s)
  <2>1. row' \in [Series -> Rows] /\ failed' \in BOOLEAN
    BY <1>5, <1>7 DEF ScanGoesWrong
  <2>. QED BY <1>7, <2>1 DEF ScanGoesWrong
<1>8. CASE \E w \in Walkers : WalkPage(w, s)
  <2>1. [row[s] EXCEPT !.next = "due"] \in Rows
    BY Rescheduled
  <2>. QED BY <1>8, <2>1 DEF WalkPage
<1>. QED BY <1>1, <1>2, <1>3, <1>4, <1>6, <1>7, <1>8

(* Only StartWalk lets a walker walk, and only while none does. *)
LEMMA WalkTypes ==
    ASSUME TypeOK, NEW w \in Walkers, WalkStep(w) \/ WalkGoesWrong(w)
    PROVE  TypeOK'
<1>. USE DEF TypeOK, outageVars, breakerVars, scanVars, Goes, Walkers
<1>1. CASE StartWalk(w)
  <2>1. walk' \in [Walkers -> {"idle", "rearm", "list", "ready", "walk"}]
    BY <1>1 DEF StartWalk
  <2>2. \E v \in Walkers : walk'[v] # "walk"
    BY <1>1 DEF StartWalk
  <2>. QED BY <1>1, <2>1, <2>2 DEF StartWalk
<1>2. CASE WalkClean(w)
  <2>1. sub' \in Subscriptions /\ (sub'.off # "no" => sub'.on)
    BY <1>2, Resets DEF WalkClean, Subscriptions, Unsubscribed
  <2>. QED BY <1>2, <2>1 DEF WalkClean
<1>3. CASE WalkFails(w) BY <1>3, StrikeTypes DEF WalkFails
<1>4. CASE WalkGoesWrong(w) BY <1>4, StrikeTypes DEF WalkGoesWrong
<1>. QED BY <1>1, <1>2, <1>3, <1>4 DEF WalkStep

LEMMA OtherTypes ==
    ASSUME TypeOK,
           \/ Toggle \/ GrowsStale \/ Subscribe \/ Unsubscribe \/ PassStep \/ PassGoesWrong
           \/ Crash \/ UNCHANGED vars
    PROVE  TypeOK'
<1>. USE DEF TypeOK, outageVars, breakerVars, scanVars, Goes, Walkers
<1>1. CASE Toggle BY <1>1 DEF Toggle
<1>2. CASE GrowsStale
  <2>1. sub' \in Subscriptions /\ (sub'.off # "no" => sub'.on)
    BY <1>2 DEF GrowsStale, Subscriptions
  <2>. QED BY <1>2, <2>1 DEF GrowsStale
<1>3. CASE Subscribe
  <2>1. sub' \in Subscriptions /\ (sub'.off # "no" => sub'.on)
    BY <1>3, Resets DEF Subscribe, Unsubscribed
  <2>. QED BY <1>3, <2>1 DEF Subscribe
<1>4. CASE Unsubscribe
  <2>1. sub' \in Subscriptions /\ (sub'.off # "no" => sub'.on)
    BY <1>4, Resets DEF Unsubscribe, Unsubscribed
  <2>. QED BY <1>4, <2>1 DEF Unsubscribe
<1>5. CASE StartPass BY <1>5 DEF StartPass
<1>6. CASE Rearm
  <2>1. Limit - 1 \in 0 .. Limit
    BY SourceHealthAssumption
  <2>2. sub' \in Subscriptions /\ (sub'.off # "no" => sub'.on)
    BY <1>6, <2>1 DEF Rearm, Subscriptions
  <2>. QED BY <1>6, <2>2 DEF Rearm
<1>7. CASE ListSubscriptions BY <1>7 DEF ListSubscriptions
<1>8. CASE PassGoesWrong BY <1>8 DEF PassGoesWrong
<1>9. CASE Crash
  <2>1. row' \in [Series -> Rows]
    <3>1. \A r \in Rows : [r EXCEPT !.next = "due"] \in Rows
      BY Rescheduled
    <3>. QED BY <1>9, <3>1 DEF Crash
  <2>. QED BY <1>9, <2>1 DEF Crash
<1>10. CASE UNCHANGED vars BY <1>10 DEF vars
<1>. QED BY <1>1, <1>2, <1>3, <1>4, <1>5, <1>6, <1>7, <1>8, <1>9, <1>10 DEF PassStep

LEMMA InitTypes == Init => TypeOK
<1>. SUFFICES ASSUME Init PROVE TypeOK
  OBVIOUS
<1>1. row \in [Series -> Rows] /\ sub \in Subscriptions
  BY Resets DEF Init
<1>2. walk \in [Walkers -> {"idle"}] /\ walk["pass"] = "idle" /\ "pass" \in Walkers
  BY DEF Init, Walkers
<1>. QED BY <1>1, <1>2 DEF Init, TypeOK, Unsubscribed

(* No streak or strike leaves its range, a subscription is off only while it is
   there, and the extension is walked by one at a time. *)
THEOREM HealthTypes == Spec => []TypeOK
<1>1. TypeOK /\ [Next]_vars => TypeOK'
  BY CheckTypes, ScanTypes, WalkTypes, OtherTypes, Zenon DEF Next, Ordinary, Fault
<1>. QED BY InitTypes, <1>1, PTL DEF Spec

-----------------------------------------------------------------------------
(* Parks and outages: the steps that leave the outage alone only bring rows
   nearer; each of the check's own keeps the two together. *)

Nearer == UNCHANGED outageVars /\ Parked' \subseteq Parked

LEMMA RestIsNearer ==
    ASSUME TypeOK, [Next]_vars, ~CheckStep, ~CheckGoesWrong, ~Crash
    PROVE  Nearer
<1>. USE DEF Nearer, Parked, TypeOK, outageVars, scanVars
<1>1. ASSUME NEW s \in Series, Ages(s) \/ ComesDue(s) \/ Enrol(s) PROVE Nearer
  BY <1>1 DEF Ages, ComesDue, Enrol, Pending, NoRow, Rows
<1>2. ASSUME NEW s \in Series, StartScan(s) PROVE Nearer
  BY <1>2 DEF StartScan
<1>3. ASSUME NEW s \in Series, EndScan(s) PROVE Nearer
  BY <1>3 DEF EndScan, Recorded, RecordScanFailure, NoRow
<1>4. ASSUME NEW s \in Series, ScanGoesWrong(s) PROVE Nearer
  BY <1>4 DEF ScanGoesWrong, RecordScanFailure
<1>5. ASSUME NEW s \in Series, NEW w \in Walkers, WalkPage(w, s) PROVE Nearer
  BY <1>5 DEF WalkPage, Rows
<1>6. ASSUME NEW w \in Walkers, WalkStep(w) \/ WalkGoesWrong(w) PROVE Nearer
  BY <1>6 DEF WalkStep, StartWalk, WalkClean, WalkFails, WalkGoesWrong
<1>7. CASE Toggle \/ GrowsStale \/ Subscribe \/ Unsubscribe
  BY <1>7 DEF Toggle, GrowsStale, Subscribe, Unsubscribe
<1>8. CASE PassStep \/ PassGoesWrong
  BY <1>8 DEF PassStep, StartPass, Rearm, ListSubscriptions, PassGoesWrong
<1>9. CASE UNCHANGED vars BY <1>9 DEF vars
<1>. QED BY <1>1, <1>2, <1>3, <1>4, <1>5, <1>6, <1>7, <1>8, <1>9, Zenon
      DEF Next, Ordinary, Fault

LEMMA CheckKeeps ==
    ASSUME TypeOK, ParkedMeansOut, CheckStep \/ CheckGoesWrong
    PROVE  ParkedMeansOut'
<1>. USE DEF ParkedMeansOut, scanVars
<1>1. CASE Judge BY <1>1 DEF Judge, Parked
<1>2. CASE Clear BY <1>2 DEF Clear, Parked
<1>3. CASE Unpark
  <2>1. Parked' = {}
    BY <1>3 DEF Unpark, Moved, Parked, TypeOK, Rows
  <2>. QED BY <2>1
<1>4. CASE Park BY <1>4 DEF Park
<1>5. CASE Record BY <1>5 DEF Record
<1>6. CASE Trip BY <1>6 DEF Trip, Parked
<1>7. CASE CheckGoesWrong
  <2>1. UNCHANGED <<Parked, outage>>
    BY <1>7 DEF CheckGoesWrong, Parked
  <2>2. CASE check = "record"
    <3>1. hurt' = (hurt \/ ~outage)
      BY <1>7, <2>2 DEF CheckGoesWrong
    <3>. QED BY <2>1, <3>1
  <2>3. CASE check = "unpark" BY <1>7, <2>3 DEF CheckGoesWrong
  <2>4. CASE check \notin {"record", "unpark"} BY <1>7, <2>1, <2>4 DEF CheckGoesWrong
  <2>. QED BY <2>2, <2>3, <2>4
<1>. QED BY <1>1, <1>2, <1>3, <1>4, <1>5, <1>6, <1>7 DEF CheckStep

(* A series sits in an outage park only while the outage is on record, unless a
   fault hit the check between its two writes. *)
THEOREM ParksAreRecorded == Spec => []ParkedMeansOut
<1>1. Init => ParkedMeansOut
  BY DEF Init, ParkedMeansOut, Parked, NoRow
<1>2. TypeOK /\ ParkedMeansOut /\ [Next]_vars => ParkedMeansOut'
  <2>. SUFFICES ASSUME TypeOK, ParkedMeansOut, [Next]_vars PROVE ParkedMeansOut'
    OBVIOUS
  <2>1. CASE CheckStep \/ CheckGoesWrong BY <2>1, CheckKeeps
  <2>2. CASE Crash
    <3>1. Parked' \subseteq Parked
      BY <2>2 DEF Crash, Parked, TypeOK, Rows
    <3>. QED BY <2>2, <3>1 DEF Crash, ParkedMeansOut
  <2>3. CASE Nearer BY <2>3 DEF Nearer, ParkedMeansOut, outageVars
  <2>. QED BY <2>1, <2>2, <2>3, RestIsNearer
<1>. QED BY <1>1, <1>2, HealthTypes, PTL DEF Spec

-----------------------------------------------------------------------------
(* The weekly probe. A stale breaker has no walk left; a re-arm therefore finds
   the kick idle, and the one walk that follows it either clears the probe or
   puts the breaker off, after which the extension is not listed. *)

StaleIsIdle == sub.off = "stale" => \A w \in Walkers : walk[w] \notin {"ready", "walk"}
PickedIsStale == walk["pass"] = "rearm" => sub.off = "stale" \/ probe = "none"
OneWalker == walk["kick"] \notin {"rearm", "list"} /\ (probe # "none" => walk["kick"] = "idle")
ArmedTrips == probe = "armed" => sub.on /\ (sub.off = "no" => sub.strikes + 1 >= Limit)
SpentIsOff == probe = "spent" => sub.off # "no" /\ walk["pass"] \notin {"ready", "walk"}

ProbeInv ==
    StaleIsIdle /\ PickedIsStale /\ OneWalker /\ ArmedTrips /\ SpentIsOff /\ ProbeIsSingle

LEMMA InitProbe == Init => ProbeInv
BY DEF Init, ProbeInv, StaleIsIdle, PickedIsStale, OneWalker, ArmedTrips, SpentIsOff,
       ProbeIsSingle, Unsubscribed, Walkers

LEMMA WalkKeepsProbe ==
    ASSUME TypeOK, ProbeInv, NEW w \in Walkers, WalkStep(w) \/ WalkGoesWrong(w)
    PROVE  ProbeInv'
<1>. USE SourceHealthAssumption DEF TypeOK, Subscriptions, ProbeInv, StaleIsIdle, PickedIsStale,
         OneWalker, ArmedTrips, SpentIsOff, ProbeIsSingle, Walkers, Goes
<1>1. ASSUME walk[w] = "walk", Goes(w, "idle"), Strike PROVE ProbeInv'
  <2>1. CASE sub.off = "no" /\ sub.strikes + 1 >= Limit BY <1>1, <2>1 DEF Strike
  <2>2. CASE ~(sub.off = "no" /\ sub.strikes + 1 >= Limit) BY <1>1, <2>2 DEF Strike
  <2>. QED BY <2>1, <2>2
<1>2. CASE StartWalk(w) BY <1>2 DEF StartWalk, breakerVars
<1>3. CASE WalkClean(w) BY <1>3 DEF WalkClean
<1>4. CASE WalkFails(w) BY <1>1, <1>4 DEF WalkFails
<1>5. CASE WalkGoesWrong(w)
  <2>1. CASE UNCHANGED breakerVars BY <1>5, <2>1 DEF WalkGoesWrong, breakerVars
  <2>2. CASE Strike BY <1>1, <1>5, <2>2 DEF WalkGoesWrong
  <2>. QED BY <1>5, <2>1, <2>2 DEF WalkGoesWrong
<1>. QED BY <1>2, <1>3, <1>4, <1>5 DEF WalkStep

LEMMA PassKeepsProbe ==
    ASSUME TypeOK, ProbeInv, PassStep \/ PassGoesWrong
    PROVE  ProbeInv'
<1>. USE SourceHealthAssumption DEF TypeOK, Subscriptions, ProbeInv, StaleIsIdle, PickedIsStale,
         OneWalker, ArmedTrips, SpentIsOff, ProbeIsSingle, Walkers, Goes, breakerVars
<1>1. CASE StartPass BY <1>1 DEF StartPass
<1>2. CASE Rearm BY <1>2 DEF Rearm
<1>3. CASE ListSubscriptions BY <1>3 DEF ListSubscriptions
<1>4. CASE PassGoesWrong BY <1>4 DEF PassGoesWrong
<1>. QED BY <1>1, <1>2, <1>3, <1>4 DEF PassStep

LEMMA RestKeepsProbe ==
    ASSUME TypeOK, ProbeInv, GrowsStale \/ Trip \/ Subscribe \/ Unsubscribe \/ Crash
    PROVE  ProbeInv'
<1>. USE SourceHealthAssumption DEF TypeOK, Subscriptions, ProbeInv, StaleIsIdle, PickedIsStale,
         OneWalker, ArmedTrips, SpentIsOff, ProbeIsSingle, Walkers, breakerVars, Unsubscribed
<1>1. CASE GrowsStale BY <1>1 DEF GrowsStale
<1>2. CASE Trip BY <1>2 DEF Trip
<1>3. CASE Subscribe BY <1>3 DEF Subscribe
<1>4. CASE Unsubscribe BY <1>4 DEF Unsubscribe
<1>5. CASE Crash BY <1>5 DEF Crash
<1>. QED BY <1>1, <1>2, <1>3, <1>4, <1>5

(* Every other step leaves the subscription and the walks alone. *)
LEMMA SameProbe ==
    ASSUME TypeOK, ProbeInv, UNCHANGED <<breakerVars, walk>>
    PROVE  ProbeInv'
BY DEF ProbeInv, StaleIsIdle, PickedIsStale, OneWalker, ArmedTrips, SpentIsOff, ProbeIsSingle,
       breakerVars

(* One wasted walk for a weekly re-arm, in every interleaving of the pass, the
   kick, the check and the admin. *)
THEOREM ProbesAreSingle == Spec => []ProbeIsSingle
<1>1. TypeOK /\ ProbeInv /\ [Next]_vars => ProbeInv'
  <2>. SUFFICES ASSUME TypeOK, ProbeInv, [Next]_vars PROVE ProbeInv'
    OBVIOUS
  <2>1. ASSUME NEW s \in Series,
               \/ Ages(s) \/ ComesDue(s) \/ Enrol(s) \/ StartScan(s) \/ EndScan(s)
               \/ ScanGoesWrong(s) \/ \E w \in Walkers : WalkPage(w, s)
        PROVE  UNCHANGED <<breakerVars, walk>>
    BY <2>1 DEF Ages, ComesDue, Enrol, StartScan, EndScan, ScanGoesWrong, WalkPage
  <2>2. ASSUME Toggle \/ Judge \/ Clear \/ Unpark \/ Park \/ Record \/ CheckGoesWrong
        PROVE  UNCHANGED <<breakerVars, walk>>
    BY <2>2 DEF Toggle, Judge, Clear, Unpark, Park, Record, CheckGoesWrong
  <2>3. CASE UNCHANGED vars BY <2>3, SameProbe DEF vars
  <2>. QED BY <2>1, <2>2, <2>3, SameProbe, WalkKeepsProbe, PassKeepsProbe, RestKeepsProbe, Zenon
        DEF Next, Ordinary, Fault, CheckStep
<1>2. ProbeInv => ProbeIsSingle
  BY DEF ProbeInv
<1>. QED BY <1>1, <1>2, InitProbe, HealthTypes, PTL DEF Spec

-----------------------------------------------------------------------------
(* IngestJobs *)

-----------------------------------------------------------------------------
(* The locals of a runner. *)

Between == {"fetch", "check", "begin", "next"}
Walking(t) == t.at \in Between \cup {"items"}

Local(t) ==
    /\ t.batch \subseteq t.seen
    /\ t.at # "finish" => t.walked < t.listing
    /\ t.at \in Between => t.batch = {} /\ t.streak <= MaxEmpty
    /\ t.at = "items" /\ t.more => t.page < MaxPages /\ t.streak <= MaxEmpty

(* A runner that no fault has struck has set off each series it was served, has counted
   those it has joined, has shown the listings before its own to their ends, and its
   own when it wants no further page. h, o and b are what served, open and blanks say
   of its job. *)
Counts(t, h, o, b) ==
    /\ Walking(t) =>
         /\ t.seen = h
         /\ t.items + Cardinality(t.batch) = Cardinality(h)
         /\ \A l \in o : t.listing <= l
    /\ t.at \in Between => t.streak = IF t.page = 1 THEN 0 ELSE b
    /\ t.at = "items" => IF t.more THEN t.streak = b ELSE t.listing \notin o
    /\ t.at = "finish" => o = {} /\ t.items = Cardinality(h)

(* A step of a runner that keeps all of this, whatever it was served before. *)
Walks(t, u) ==
    /\ u \in Runs /\ Local(u) /\ u.warned = t.warned
    /\ \A h \in SUBSET Manga, o \in SUBSET (1 .. Listings), b \in 0 .. MaxEmpty :
         Counts(t, h, o, b) => Counts(u, h, o, b)

(* The limits of ingest.rs, as numbers. *)
LEMMA Numbers ==
    /\ MaxPages \in Nat \ {0} /\ Attempts \in Nat \ {0} /\ MaxEmpty \in Nat /\ MaxJobs \in Nat
    /\ Listings = 2
BY IngestAssumption DEF Listings

(* Where the locals of a listing start is in their range. *)
LEMMA Starts ==
    /\ 1 \in 1 .. MaxPages /\ 0 \in 0 .. Attempts - 1 /\ 0 \in 0 .. MaxEmpty + 1
    /\ 1 \in 1 .. Listings /\ 2 \in 1 .. Listings /\ 0 \in 0 .. Listings /\ Listings = 2
BY Numbers

(* What follows a listing keeps what the runner has counted; the locals of the listing
   start anew. *)
LEMMA AfterListingOK ==
    ASSUME NEW t \in Runs, t.walked <= t.listing
    PROVE  LET u == AfterListing(t) IN
           /\ u \in Runs /\ Local(u) /\ u.warned = t.warned /\ u.items = t.items
           /\ u.at = IF t.listing < Listings THEN "fetch" ELSE "finish"
           /\ t.listing < Listings =>
                u.listing = t.listing + 1 /\ u.page = 1 /\ u.streak = 0 /\ u.seen = t.seen /\ u.batch = {}
<1>1. t.listing \in {1, 2}
  BY Numbers DEF Runs
<1>2. CASE t.listing = 1
  <2>1. AfterListing(t) = [t EXCEPT !.batch = {}, !.more = FALSE, !.streak = 0, !.tries = 0,
                                    !.page = 1, !.listing = t.listing + 1, !.at = "fetch"]
    BY <1>2, Starts DEF AfterListing
  <2>2. t.listing + 1 = 2
    BY <1>2
  <2>3. AfterListing(t) \in Runs
    BY <2>1, <2>2, Starts DEF Runs
  <2>. QED BY <1>2, <2>1, <2>2, <2>3, Numbers DEF Local, Runs, Between
<1>3. CASE t.listing = 2
  <2>1. AfterListing(t) = [t EXCEPT !.batch = {}, !.more = FALSE, !.streak = 0, !.tries = 0,
                                    !.page = 1, !.at = "finish", !.seen = {}]
    BY <1>3, Starts DEF AfterListing
  <2>2. AfterListing(t) \in Runs
    BY <2>1, Starts DEF Runs
  <2>. QED BY <1>3, <2>1, <2>2, Numbers DEF Local, Runs, Between
<1>. QED BY <1>1, <1>2, <1>3

(* A listing that fails leaves a warning and goes on. *)
LEMMA ListingFailsOK ==
    ASSUME NEW t \in Runs, Local(t), Walking(t)
    PROVE  /\ ListingFails(t) \in Runs /\ Local(ListingFails(t)) /\ ListingFails(t).warned
           /\ ListingFails(t).at \in {"fetch", "finish"} /\ ListingFails(t).items = t.items
<1>. DEFINE v == [t EXCEPT !.warned = TRUE]
<1>1. v \in Runs /\ v.walked <= v.listing /\ v.warned /\ v.items = t.items
  <2>1. t.walked <= t.listing
    BY Numbers DEF Runs, Local, Walking, Between
  <2>. QED BY <2>1 DEF Runs
<1>2. ListingFails(t) = AfterListing(v)
  BY DEF ListingFails
<1>. HIDE DEF v
<1>. QED BY <1>1, <1>2, AfterListingOK

(* A fetch, a retry, the read of the row and the step to the next page change no count. *)
LEMMA FetchWalks ==
    ASSUME NEW t \in Runs, Local(t), Fetching(t)
    PROVE  Walks(t, [t EXCEPT !.at = "check", !.tries = 0])
BY Starts DEF Walks, Fetching, Runs, Local, Walking, Between, Counts

(* A retry: only the attempts are counted. *)
LEMMA RetryWalks ==
    ASSUME NEW t \in Runs, Local(t), Fetching(t), t.tries + 1 < Attempts
    PROVE  Walks(t, [t EXCEPT !.tries = t.tries + 1])
BY Numbers DEF Walks, Fetching, Runs, Local, Walking, Between, Counts

(* The row still says running. *)
LEMMA CheckWalks ==
    ASSUME NEW t \in Runs, Local(t), t.at = "check"
    PROVE  Walks(t, [t EXCEPT !.at = "begin"])
BY Numbers DEF Walks, Runs, Local, Walking, Between, Counts

(* The next page: as many pages are begun as before. *)
LEMMA NextWalks ==
    ASSUME NEW t \in Runs, Local(t), t.at = "items", t.batch = {}, t.more
    PROVE  Walks(t, [t EXCEPT !.at = "next", !.page = t.page + 1])
<1>. DEFINE u == [t EXCEPT !.at = "next", !.page = t.page + 1]
<1>1. u \in Runs /\ Local(u) /\ u.warned = t.warned
  <2>1. t.page + 1 \in 1 .. MaxPages
    BY Numbers DEF Runs, Local
  <2>2. u \in Runs
    BY <2>1 DEF Runs
  <2>. QED BY <2>2 DEF Runs, Local, Between
<1>2. u.listing = t.listing /\ u.seen = t.seen /\ u.batch = t.batch
        /\ u.items = t.items /\ u.streak = t.streak /\ u.at = "next" /\ u.page # 1
  BY Numbers DEF Runs
<1>. HIDE DEF u
<1>3. \A h, o, b : Counts(t, h, o, b) => Counts(u, h, o, b)
  BY <1>2 DEF Walking, Between, Counts
<1>. QED BY <1>1, <1>3 DEF Walks, u

(* A series goes from the batch to the count. *)
LEMMA JoinWalks ==
    ASSUME NEW t \in Runs, Local(t), t.at = "items", NEW m \in t.batch
    PROVE  Walks(t, Joined(t, m)) /\ Joined(t, m).at = "items" /\ Joined(t, m).items = t.items + 1
<1>. DEFINE u == Joined(t, m)
<1>1. u \in Runs /\ Local(u) /\ u.warned = t.warned
  <2>1. t.items + 1 \in Nat /\ t.batch \ {m} \in SUBSET Manga
    BY DEF Runs
  <2>2. u \in Runs
    BY <2>1 DEF Runs, Joined
  <2>. QED BY <2>2 DEF Runs, Local, Between, Joined
<1>2. u.listing = t.listing /\ u.seen = t.seen /\ u.streak = t.streak
        /\ u.at = "items" /\ u.more = t.more /\ u.page = t.page
        /\ u.batch = t.batch \ {m} /\ u.items = t.items + 1
  BY Numbers DEF Runs, Joined
<1>3. t.batch \subseteq Manga /\ t.items \in Nat
  BY DEF Runs
<1>4. IsFiniteSet(t.batch)
  BY <1>3, FS_Subset, IngestAssumption
<1>5. Cardinality(t.batch) \in Nat /\ Cardinality(t.batch \ {m}) = Cardinality(t.batch) - 1
  BY <1>4, FS_RemoveElement, FS_CardinalityType
<1>6. u.items + Cardinality(u.batch) = t.items + Cardinality(t.batch)
  BY <1>2, <1>3, <1>5
<1>. HIDE DEF u
<1>7. \A h, o, b : Counts(t, h, o, b) => Counts(u, h, o, b)
  BY <1>2, <1>6 DEF Walking, Between, Counts
<1>. QED BY <1>1, <1>2, <1>7 DEF Walks, u

(* A listing without a further page has been walked: on to the other, or to the end. *)
LEMMA DoneWalks ==
    ASSUME NEW t \in Runs, Local(t), t.at = "items", t.batch = {}, ~t.more
    PROVE  /\ Walks(t, ListingDone(t))
           /\ ListingDone(t).at \in {"fetch", "finish"} /\ ListingDone(t).items = t.items
<1>. DEFINE v == [t EXCEPT !.walked = t.walked + 1]
            u == AfterListing(v)
<1>0. ListingDone(t) = u
  BY DEF ListingDone
<1>4. v \in Runs /\ v.walked <= v.listing
  <2>1. t.walked + 1 \in 0 .. Listings /\ t.walked + 1 <= t.listing
    BY Numbers DEF Runs, Local
  <2>. QED BY <2>1 DEF Runs
<1>5. v.warned = t.warned /\ v.items = t.items /\ v.listing = t.listing /\ v.seen = t.seen
  BY DEF Runs
<1>. HIDE DEF v
<1>1. /\ u \in Runs /\ Local(u) /\ u.warned = t.warned /\ u.items = t.items
      /\ u.at = IF t.listing < Listings THEN "fetch" ELSE "finish"
      /\ t.listing < Listings =>
           u.listing = t.listing + 1 /\ u.page = 1 /\ u.streak = 0 /\ u.seen = t.seen /\ u.batch = {}
  BY <1>4, <1>5, AfterListingOK
<1>. HIDE DEF u
<1>2. t.listing \in 1 .. Listings /\ t.page \in Nat /\ t.items \in Nat
  BY Numbers DEF Runs
<1>3. ASSUME NEW h \in SUBSET Manga, NEW o \in SUBSET (1 .. Listings), NEW b \in 0 .. MaxEmpty,
             Counts(t, h, o, b)
      PROVE  Counts(u, h, o, b)
  <2>1. t.seen = h /\ t.items + Cardinality({}) = Cardinality(h)
          /\ t.listing \notin o /\ \A l \in o : t.listing <= l
    BY <1>3 DEF Counts, Walking
  <2>2. t.items = Cardinality(h)
    BY <2>1, <1>2, FS_EmptySet
  <2>3. ASSUME NEW l \in o PROVE l \in 1 .. Listings /\ t.listing + 1 <= l
    <3>1. l \in 1 .. Listings /\ l # t.listing /\ t.listing <= l
      BY <2>1
    <3>. QED BY <3>1, <1>2, Numbers
  <2>4. CASE t.listing < Listings
    <3>1. u.listing = t.listing + 1 /\ u.page = 1 /\ u.streak = 0 /\ u.seen = t.seen /\ u.batch = {}
            /\ u.at = "fetch" /\ u.items = t.items
      BY <2>4, <1>1
    <3>. QED BY <3>1, <2>1, <2>3 DEF Counts, Walking, Between
  <2>5. CASE t.listing = Listings
    <3>1. o = {}
      BY <2>3, <2>5, Numbers
    <3>2. u.at = "finish" /\ u.items = t.items
      BY <2>5, <1>1, Numbers
    <3>. QED BY <3>1, <3>2, <2>2 DEF Counts, Walking, Between
  <2>. QED BY <2>4, <2>5, <1>2, Numbers
<1>. QED BY <1>0, <1>1, <1>3 DEF Walks

(* A page is begun: what Begin and Hear make of the answer. *)
BeginRun(t, items, more) ==
    LET streak == IF items = {} THEN t.streak + 1 ELSE 0
    IN  [t EXCEPT !.at = "items", !.streak = streak,
                  !.more = more /\ t.page < MaxPages /\ streak <= MaxEmpty,
                  !.batch = items \ t.seen, !.seen = t.seen \cup items]

Row(t, b, items) == IF items # {} THEN 0 ELSE IF t.page = 1 THEN 1 ELSE b + 1
End(t, b, items, more) == ~more \/ t.page = MaxPages \/ Row(t, b, items) > MaxEmpty
Open(t, o, b, items, more) == IF End(t, b, items, more) THEN o \ {t.listing} ELSE o
Blanks(t, b, items, more) == IF End(t, b, items, more) THEN 0 ELSE Row(t, b, items)

(* A page is begun: the locals keep their types. *)
LEMMA BeginTypes ==
    ASSUME NEW t \in Runs, Local(t), t.at = "begin", NEW items \in SUBSET Manga, NEW more \in BOOLEAN
    PROVE  LET u == BeginRun(t, items, more) IN
           /\ u \in Runs /\ Local(u) /\ u.warned = t.warned /\ u.items = t.items /\ u.at = "items"
<1>. DEFINE k == IF items = {} THEN t.streak + 1 ELSE 0
            b == more /\ t.page < MaxPages /\ k <= MaxEmpty
            u == BeginRun(t, items, more)
<1>1. k \in 0 .. MaxEmpty + 1
  BY Numbers DEF Runs, Local, Between
<1>2. b \in BOOLEAN
  OBVIOUS
<1>3. u = [t EXCEPT !.at = "items", !.streak = k, !.more = b,
                    !.batch = items \ t.seen, !.seen = t.seen \cup items]
  BY DEF BeginRun
<1>. HIDE DEF u
<1>4. b => t.page < MaxPages /\ k <= MaxEmpty
  OBVIOUS
<1>. HIDE DEF k, b
<1>5. items \ t.seen \in SUBSET Manga /\ t.seen \cup items \in SUBSET Manga
  BY DEF Runs
<1>6. u \in Runs
  BY <1>1, <1>2, <1>3, <1>5 DEF Runs
<1>7. u.at = "items" /\ u.batch = items \ t.seen /\ u.seen = t.seen \cup items
        /\ u.more = b /\ u.streak = k /\ u.page = t.page /\ u.walked = t.walked
        /\ u.listing = t.listing /\ u.warned = t.warned /\ u.items = t.items
  BY <1>3 DEF Runs
<1>. QED BY <1>4, <1>6, <1>7 DEF Local, Between, u

(* And their count: what is new goes into the batch, an empty page lengthens the streak,
   and the walk takes the page for the last one exactly when it shows the end. *)
LEMMA BeginCounts ==
    ASSUME NEW t \in Runs, Local(t), t.at = "begin", NEW items \in SUBSET Manga, NEW more \in BOOLEAN,
           NEW h \in SUBSET Manga, NEW o \in SUBSET (1 .. Listings), NEW b \in 0 .. MaxEmpty,
           Counts(t, h, o, b)
    PROVE  Counts(BeginRun(t, items, more), h \cup items, Open(t, o, b, items, more),
                  Blanks(t, b, items, more))
<1>. DEFINE k == IF items = {} THEN t.streak + 1 ELSE 0
            u == BeginRun(t, items, more)
            q == Open(t, o, b, items, more)
            c == Blanks(t, b, items, more)
<1>1. /\ t.page \in Nat /\ t.page > 0 /\ t.page <= MaxPages /\ t.listing \in 1 .. Listings
      /\ t.streak \in Nat /\ t.items \in Nat /\ t.batch = {}
  BY Numbers DEF Runs, Local, Between
<1>2. /\ t.seen = h /\ t.items + Cardinality({}) = Cardinality(h) /\ \A l \in o : t.listing <= l
      /\ t.streak = IF t.page = 1 THEN 0 ELSE b
  BY <1>1 DEF Counts, Walking, Between
<1>3. /\ u.at = "items" /\ u.listing = t.listing /\ u.streak = k /\ u.items = t.items
      /\ u.batch = items \ h /\ u.seen = h \cup items
      /\ u.more = (more /\ t.page < MaxPages /\ k <= MaxEmpty)
  BY <1>2 DEF BeginRun, Runs
<1>. HIDE DEF u
<1>4. Row(t, b, items) = k /\ k \in Nat
  BY <1>1, <1>2, Numbers DEF Row
<1>. HIDE DEF k
<1>5. End(t, b, items, more) <=> ~u.more
  <2>1. (t.page < MaxPages <=> t.page # MaxPages) /\ (k <= MaxEmpty <=> ~(k > MaxEmpty))
    BY <1>1, <1>4, Numbers
  <2>. QED BY <1>3, <1>4, <2>1, Zenon DEF End
<1>6. u.items + Cardinality(u.batch) = Cardinality(h \cup items)
  <2>1. IsFiniteSet(h) /\ IsFiniteSet(items)
    BY FS_Subset, IngestAssumption
  <2>2. t.items = Cardinality(h)
    BY <1>1, <1>2, FS_EmptySet
  <2>3. IsFiniteSet(items \ h) /\ h \cap (items \ h) = {}
    BY <2>1, FS_Subset
  <2>4. Cardinality(h \cup (items \ h)) =
          Cardinality(h) + Cardinality(items \ h) - Cardinality(h \cap (items \ h))
    BY <2>1, <2>3, FS_Union
  <2>5. h \cup (items \ h) = h \cup items
    OBVIOUS
  <2>6. Cardinality(h) \in Nat /\ Cardinality(items \ h) \in Nat /\ Cardinality({}) = 0
    BY <2>1, <2>3, FS_CardinalityType, FS_EmptySet
  <2>7. Cardinality(h \cup items) = Cardinality(h) + Cardinality(items \ h) - 0
    BY <2>3, <2>4, <2>5, <2>6
  <2>. QED BY <1>3, <2>2, <2>6, <2>7
<1>7. (\A l \in q : u.listing <= l) /\ (~u.more => u.listing \notin q)
  BY <1>2, <1>3, <1>5 DEF Open
<1>8. u.more => u.streak = c
  BY <1>3, <1>4, <1>5 DEF Blanks
<1>. HIDE DEF q, c
<1>9. Counts(u, h \cup items, q, c)
  BY <1>3, <1>6, <1>7, <1>8 DEF Counts, Walking, Between
<1>. QED BY <1>9 DEF u, q, c

(* The histories keep their types. *)
LEMMA HeardTypes ==
    ASSUME NEW t \in Runs, NEW items \in SUBSET Manga, NEW more \in BOOLEAN,
           NEW h \in SUBSET Manga, NEW o \in SUBSET (1 .. Listings), NEW b \in 0 .. MaxEmpty
    PROVE  /\ h \cup items \in SUBSET Manga
           /\ Open(t, o, b, items, more) \in SUBSET (1 .. Listings)
           /\ Blanks(t, b, items, more) \in 0 .. MaxEmpty
<1>1. Row(t, b, items) \in Nat
  BY Numbers DEF Row
<1>2. Blanks(t, b, items, more) \in 0 .. MaxEmpty
  BY <1>1, Numbers DEF Blanks, End
<1>. QED BY <1>2 DEF Open

-----------------------------------------------------------------------------
(* The invariant. *)

(* Of a runner, its row, and the pages it has begun too late: a runner that walks belongs to
   a row that runs or was cancelled, and is ahead of what the row says. *)
Sound(t, d, n) ==
    /\ Local(t)
    /\ t.at # "off" => d.state \in {"running", "cancelled"} /\ d.items <= t.items
    /\ n <= 1
    /\ d.state \in {"none", "running"} \/ t.at = "begin" => n = 0

(* Its counts are those of the pages it was served, and the row of a job that completed
   without a warning has them. *)
Honest(t, d, h, o, b) ==
    /\ ~t.warned => Counts(t, h, o, b)
    /\ ~t.warned /\ t.at = "finish" => d.items = t.items
    /\ d.state = "completed" /\ ~d.warned => o = {} /\ d.items = Cardinality(h)
    /\ d.state = "none" => h = {}

JobOK(j) ==
    /\ Sound(run[j], jobRow[j], late[j])
    /\ Honest(run[j], jobRow[j], served[j], open[j], blanks[j])

Loading(r) == req[r].at = "load"

(* A call that is about to spawn a runner has a row of its own that never had one. *)
CallsOK ==
    /\ \A r \in Request : Loading(r) =>
         /\ req[r].job \in Made /\ ~Alive(req[r].job)
         /\ jobRow[req[r].job].state \in {"running", "cancelled"}
         /\ jobRow[req[r].job].items = 0 /\ served[req[r].job] = {}
    /\ \A r, p \in Request : Loading(r) /\ Loading(p) /\ req[r].job = req[p].job => r = p

JobsOK == JobsTypeOK /\ (\A j \in Job : JobOK(j)) /\ CallsOK

(* Rows are those of jobs, and only they have runners. *)
LEMMA MadeJobs ==
    ASSUME JobsTypeOK
    PROVE  /\ Made \subseteq Job /\ Made = 1 .. Len(source) /\ Len(source) \in Nat
           /\ \A j \in Made : source[j] \in Source
           /\ \A j \in Job : Alive(j) /\ JobOK(j) => j \in Made
<1>1. source \in Seq(Source) /\ Len(source) <= MaxJobs /\ MaxJobs \in Nat
  BY Numbers DEF JobsTypeOK
<1>2. Made = 1 .. Len(source) /\ Len(source) \in Nat
  BY <1>1 DEF Made
<1>3. Made \subseteq Job
  BY <1>1, <1>2 DEF Job
<1>4. \A j \in Made : source[j] \in Source
  BY <1>1, <1>2
<1>5. \A j \in Job : Alive(j) /\ JobOK(j) => j \in Made
  BY DEF JobsTypeOK, Alive, JobOK, Sound
<1>. QED BY <1>2, <1>3, <1>4, <1>5

(* No runner, and a new one, are honest. *)
LEMMA IdleRun ==
    /\ NoRun \in Runs /\ NewRun \in Runs /\ NoJob \in JobRows /\ NewJob \in JobRows
    /\ Local(NoRun) /\ Local(NewRun) /\ NoRun.at = "off" /\ NewRun.at = "fetch" /\ NewRun.items = 0
    /\ NewJob.state = "running" /\ NewJob.items = 0 /\ NoJob.state = "none"
    /\ ~NewRun.warned
    /\ \A h, o, b : Counts(NoRun, h, o, b)
    /\ \A o \in SUBSET (1 .. Listings) : \A b : Counts(NewRun, {}, o, b)
<1>0. NewRun \in Runs
  BY Starts DEF NewRun, Runs
<1>1. /\ NoRun.at = "off" /\ NoRun.batch = {} /\ NoRun.seen = {} /\ NoRun.walked = 0
      /\ NoRun.listing = 1
  BY DEF NoRun, NewRun
<1>2. NoRun \in Runs /\ NewRun \in Runs /\ NoJob \in JobRows /\ NewJob \in JobRows
  BY <1>0 DEF NoRun, Runs, NoJob, NewJob, JobRows
<1>3. Local(NoRun) /\ Local(NewRun)
  BY <1>1, Numbers DEF Local, NewRun, Between
<1>4. \A h, o, b : Counts(NoRun, h, o, b)
  BY <1>1 DEF Counts, Walking, Between
<1>5. \A o \in SUBSET (1 .. Listings) : \A b : Counts(NewRun, {}, o, b)
  BY FS_EmptySet, Numbers DEF Counts, Walking, Between, NewRun
<1>. QED BY <1>1, <1>2, <1>3, <1>4, <1>5 DEF NewRun, NewJob, NoJob

(* A step of one runner leaves the other jobs, and all calls, as they are. *)
LEMMA RunnerStep ==
    ASSUME JobsOK, NEW j \in Made, Alive(j), UNCHANGED <<source, req>>,
           NEW t \in Runs, run' = [run EXCEPT ![j] = t],
           NEW d \in JobRows, d.state # "none", jobRow' = [jobRow EXCEPT ![j] = d],
           NEW n \in Nat, late' = [late EXCEPT ![j] = n],
           orphaned' \subseteq Made,
           NEW h \in SUBSET Manga, served' = [served EXCEPT ![j] = h],
           NEW o \in SUBSET (1 .. Listings), open' = [open EXCEPT ![j] = o],
           NEW b \in 0 .. MaxEmpty, blanks' = [blanks EXCEPT ![j] = b],
           Sound(t, d, n), Honest(t, d, h, o, b)
    PROVE  JobsOK'
<1>1. Made \subseteq Job /\ Made' = Made /\ source' = source /\ req' = req
  BY MadeJobs DEF JobsOK, Made
<1>2. run \in [Job -> Runs] /\ jobRow \in [Job -> JobRows] /\ late \in [Job -> Nat]
      /\ served \in [Job -> SUBSET Manga] /\ open \in [Job -> SUBSET (1 .. Listings)]
      /\ blanks \in [Job -> 0 .. MaxEmpty]
  BY DEF JobsOK, JobsTypeOK
<1>3. run' \in [Job -> Runs] /\ jobRow' \in [Job -> JobRows] /\ late' \in [Job -> Nat]
      /\ served' \in [Job -> SUBSET Manga] /\ open' \in [Job -> SUBSET (1 .. Listings)]
      /\ blanks' \in [Job -> 0 .. MaxEmpty]
  BY <1>1, <1>2
<1>4. run'[j] = t /\ jobRow'[j] = d /\ late'[j] = n /\ served'[j] = h /\ open'[j] = o /\ blanks'[j] = b
  BY <1>1, <1>2
<1>5. \A i \in Job \ {j} : run'[i] = run[i] /\ jobRow'[i] = jobRow[i] /\ late'[i] = late[i]
                           /\ served'[i] = served[i] /\ open'[i] = open[i] /\ blanks'[i] = blanks[i]
  BY <1>2
<1>6. \A i \in Job : jobRow'[i].state = "none" <=> i \notin Made
  BY <1>1, <1>4, <1>5 DEF JobsOK, JobsTypeOK
<1>7. JobsTypeOK'
  BY <1>1, <1>3, <1>6 DEF JobsOK, JobsTypeOK
<1>8. ASSUME NEW i \in Job PROVE JobOK(i)'
  <2>1. CASE i = j
    BY <2>1, <1>1, <1>4 DEF JobOK
  <2>2. CASE i # j
    <3>1. JobOK(i) /\ i \in Job \ {j}
      BY <2>2 DEF JobsOK
    <3>2. run'[i] = run[i] /\ jobRow'[i] = jobRow[i] /\ late'[i] = late[i]
            /\ served'[i] = served[i] /\ open'[i] = open[i] /\ blanks'[i] = blanks[i]
      BY <3>1, <1>5
    <3>. QED BY <3>1, <3>2, <1>1 DEF JobOK
  <2>. QED BY <2>1, <2>2
<1>9. CallsOK'
  <2>1. \A r \in Request : Loading(r) => req[r].job \in Job \ {j}
    BY <1>1 DEF JobsOK, CallsOK
  <2>. QED BY <2>1, <1>1, <1>5 DEF JobsOK, CallsOK, Loading, Alive
<1>. QED BY <1>7, <1>8, <1>9 DEF JobsOK

(* What one job's histories become. *)
HeardAt(j, h, o, b) ==
    /\ served' = [served EXCEPT ![j] = h]
    /\ open' = [open EXCEPT ![j] = o]
    /\ blanks' = [blanks EXCEPT ![j] = b]

(* Nothing, when nothing is begun. *)
LEMMA HeardStill ==
    ASSUME JobsTypeOK, UNCHANGED heardVars, NEW j
    PROVE  HeardAt(j, served[j], open[j], blanks[j])
BY DEF JobsTypeOK, heardVars, HeardAt

(* As long as a runner walks, what it writes is its progress. *)
LEMMA RunnerWalks ==
    ASSUME JobsOK, NEW j \in Made, Alive(j), UNCHANGED <<source, req, orphaned, heardVars, late>>,
           NEW t \in Runs, run' = [run EXCEPT ![j] = t], Local(t), t.at # "off",
           t.warned \/ Walks(run[j], t),
           NEW d \in JobRows, jobRow' = [jobRow EXCEPT ![j] = d], d.state = jobRow[j].state,
           d.items <= t.items, t.at = "finish" /\ ~t.warned => d.items = t.items,
           t.at = "begin" => late[j] = 0
    PROVE  JobsOK'
<1>1. Made \subseteq Job /\ source[j] \in Source
  BY MadeJobs DEF JobsOK
<1>2. JobOK(j) /\ late \in [Job -> Nat] /\ orphaned \subseteq Made
        /\ served[j] \in SUBSET Manga /\ open[j] \in SUBSET (1 .. Listings)
        /\ blanks[j] \in 0 .. MaxEmpty
  BY <1>1 DEF JobsOK, JobsTypeOK
<1>3. jobRow[j].state \in {"running", "cancelled"}
  BY <1>2 DEF JobOK, Sound, Alive
<1>4. Sound(t, d, late[j])
  BY <1>2, <1>3 DEF JobOK, Sound
<1>5. Honest(t, d, served[j], open[j], blanks[j])
  BY <1>2, <1>3 DEF JobOK, Honest, Walks
<1>6. late' = [late EXCEPT ![j] = late[j]] /\ late[j] \in Nat
  BY <1>1, <1>2
<1>7. HeardAt(j, served[j], open[j], blanks[j])
  BY HeardStill DEF JobsOK
<1>. QED BY <1>1, <1>2, <1>3, <1>4, <1>5, <1>6, <1>7, RunnerStep DEF HeardAt

(* The same when it does not write. *)
LEMMA RunnerWalksQuietly ==
    ASSUME JobsOK, NEW j \in Made, Alive(j),
           UNCHANGED <<source, req, orphaned, heardVars, late>>, jobRow' = jobRow,
           NEW t \in Runs, run' = [run EXCEPT ![j] = t], Local(t), t.at # "off",
           t.warned \/ Walks(run[j], t), run[j].items <= t.items,
           t.at = "finish" => t.warned, t.at = "begin" => late[j] = 0
    PROVE  JobsOK'
<1>1. j \in Job
  BY MadeJobs DEF JobsOK
<1>2. jobRow[j] \in JobRows /\ jobRow' = [jobRow EXCEPT ![j] = jobRow[j]]
  BY <1>1 DEF JobsOK, JobsTypeOK
<1>3. jobRow[j].items <= t.items
  <2>1. jobRow[j].items <= run[j].items
    BY <1>1 DEF JobsOK, JobOK, Sound, Alive
  <2>2. jobRow[j].items \in Nat /\ run[j].items \in Nat /\ t.items \in Nat
    BY <1>1 DEF JobsOK, JobsTypeOK, JobRows, Runs
  <2>. QED BY <2>1, <2>2
<1>. QED BY <1>2, <1>3, RunnerWalks

(* A runner that is gone, or a row that nobody writes any more, says nothing. *)
LEMMA GoneIsSound ==
    ASSUME NEW j \in Made, JobsOK, Alive(j)
    PROVE  /\ run[j] \in Runs /\ Local(run[j]) /\ jobRow[j] \in JobRows /\ late[j] \in Nat /\ j \in Job
           /\ jobRow[j].state \in {"running", "cancelled"} /\ jobRow[j].items <= run[j].items
           /\ source[j] \in Source /\ JobOK(j) /\ late[j] <= 1
           /\ (jobRow[j].state = "running" => late[j] = 0) /\ (run[j].at = "begin" => late[j] = 0)
           /\ jobRow = [jobRow EXCEPT ![j] = jobRow[j]] /\ late = [late EXCEPT ![j] = late[j]]
           /\ run[j].items \in Nat /\ served[j] \in SUBSET Manga
           /\ open[j] \in SUBSET (1 .. Listings) /\ blanks[j] \in 0 .. MaxEmpty
BY MadeJobs DEF JobsOK, JobsTypeOK, JobOK, Sound, Alive, Runs

(* The same when the listing fails. *)
LEMMA ListingEndsBadly ==
    ASSUME JobsOK, NEW j \in Made, Alive(j),
           UNCHANGED <<source, req, orphaned, heardVars, late>>, jobRow' = jobRow,
           NEW t \in Runs, Local(t), Walking(t), run[j].items <= t.items,
           run' = [run EXCEPT ![j] = ListingFails(t)]
    PROVE  JobsOK'
<1>. DEFINE u == ListingFails(t)
<1>1. u \in Runs /\ Local(u) /\ u.warned /\ u.at \in {"fetch", "finish"} /\ u.items = t.items
  BY ListingFailsOK
<1>2. run' = [run EXCEPT ![j] = u]
  OBVIOUS
<1>. HIDE DEF u
<1>. QED BY <1>1, <1>2, RunnerWalksQuietly

(* A page is fetched. *)
LEMMA FetchKeeps ==
    ASSUME JobsOK, NEW j \in Made, Fetch(j)
    PROVE  JobsOK'
<1>. DEFINE t == [run[j] EXCEPT !.at = "check", !.tries = 0]
<1>1. Alive(j) /\ Fetching(run[j])
  BY DEF Fetch, Fetching, Alive
<1>2. run[j] \in Runs /\ Local(run[j]) /\ j \in Job
  BY <1>1, GoneIsSound
<1>3. Walks(run[j], t)
  BY <1>1, <1>2, FetchWalks
<1>4. t.at = "check" /\ t.items = run[j].items
  BY <1>2 DEF Runs
<1>5. run' = [run EXCEPT ![j] = t]
  BY <1>2 DEF Fetch, JobsOK, JobsTypeOK
<1>. HIDE DEF t
<1>6. UNCHANGED <<source, req, orphaned, heardVars, late>> /\ jobRow' = jobRow
  BY DEF Fetch, runUnchanged
<1>7. t \in Runs /\ Local(t) /\ run[j].items <= t.items
  BY <1>1, <1>3, <1>4, GoneIsSound DEF Walks
<1>. QED BY <1>1, <1>3, <1>4, <1>5, <1>6, <1>7, RunnerWalksQuietly

(* An attempt fails, or the last one does. *)
LEMMA FetchFailsKeeps ==
    ASSUME JobsOK, NEW j \in Made, FetchFails(j)
    PROVE  JobsOK'
<1>1. Alive(j) /\ Fetching(run[j]) /\ Walking(run[j])
  BY DEF FetchFails, Fetching, Alive, Walking, Between
<1>2. run[j] \in Runs /\ Local(run[j]) /\ j \in Job
  BY <1>1, GoneIsSound
<1>3. UNCHANGED <<source, req, orphaned, heardVars, late>> /\ jobRow' = jobRow
  BY DEF FetchFails, runUnchanged
<1>6. run' = [run EXCEPT ![j] =
          IF run[j].tries + 1 < Attempts THEN [run[j] EXCEPT !.tries = run[j].tries + 1]
          ELSE ListingFails(run[j])]
  BY DEF FetchFails
<1>4. CASE run[j].tries + 1 < Attempts
  <2>. DEFINE t == [run[j] EXCEPT !.tries = run[j].tries + 1]
  <2>1. Walks(run[j], t)
    BY <1>1, <1>2, <1>4, RetryWalks
  <2>2. t.at = run[j].at /\ t.items = run[j].items
    BY <1>2 DEF Runs
  <2>3. run' = [run EXCEPT ![j] = t]
    BY <1>4, <1>6
  <2>. HIDE DEF t
  <2>4. t \in Runs /\ Local(t) /\ run[j].items <= t.items /\ t.at \in {"fetch", "next"}
    BY <1>1, <2>1, <2>2, GoneIsSound DEF Walks, Fetching
  <2>. QED BY <1>1, <1>3, <2>1, <2>2, <2>3, <2>4, RunnerWalksQuietly
<1>5. CASE ~(run[j].tries + 1 < Attempts)
  <2>1. run' = [run EXCEPT ![j] = ListingFails(run[j])]
    BY <1>5, <1>6
  <2>2. run[j].items <= run[j].items
    BY <1>1, GoneIsSound
  <2>. QED BY <1>1, <1>2, <1>3, <2>1, <2>2, ListingEndsBadly
<1>. QED BY <1>4, <1>5

(* The read or write between two pages fails. *)
LEMMA StatementFailsKeeps ==
    ASSUME JobsOK, NEW j \in Made, StatementFails(j)
    PROVE  JobsOK'
<1>1. Alive(j) /\ Walking(run[j])
  BY DEF StatementFails, Alive, Walking, Between
<1>2. run[j] \in Runs /\ Local(run[j])
  BY <1>1, GoneIsSound
<1>3. UNCHANGED <<source, req, orphaned, heardVars, late>> /\ jobRow' = jobRow
  BY DEF StatementFails, runUnchanged
<1>4. run' = [run EXCEPT ![j] = ListingFails(run[j])]
  BY DEF StatementFails
<1>5. run[j].items <= run[j].items
  BY <1>1, GoneIsSound
<1>. QED BY <1>1, <1>2, <1>3, <1>4, <1>5, ListingEndsBadly

(* The row is read: the walk goes on, or ends with the job cancelled. *)
LEMMA RowCheckKeeps ==
    ASSUME JobsOK, NEW j \in Made, Check(j)
    PROVE  JobsOK'
<1>1. Alive(j) /\ run[j].at = "check"
  BY DEF Check, Alive
<1>2. run[j] \in Runs /\ Local(run[j]) /\ j \in Job
  BY <1>1, GoneIsSound
<1>3. UNCHANGED <<source, req, orphaned, heardVars, late>>
  BY DEF Check, runUnchanged
<1>4. CASE jobRow[j].state = "running"
  <2>. DEFINE t == [run[j] EXCEPT !.at = "begin"]
  <2>1. Walks(run[j], t)
    BY <1>1, <1>2, CheckWalks
  <2>2. t.at = "begin" /\ t.items = run[j].items
    BY <1>2 DEF Runs
  <2>3. run' = [run EXCEPT ![j] = t] /\ jobRow' = jobRow
    BY <1>2, <1>4 DEF Check, JobsOK, JobsTypeOK
  <2>. HIDE DEF t
  <2>4. t \in Runs /\ Local(t) /\ run[j].items <= t.items /\ late[j] = 0
    BY <1>1, <1>4, <2>1, <2>2, GoneIsSound DEF Walks
  <2>. QED BY <1>1, <1>3, <2>1, <2>2, <2>3, <2>4, RunnerWalksQuietly
<1>5. CASE jobRow[j].state # "running"
  <2>. DEFINE d == [jobRow[j] EXCEPT !.items = run[j].items]
  <2>1. run' = [run EXCEPT ![j] = NoRun] /\ jobRow' = [jobRow EXCEPT ![j] = d]
    BY <1>5, GoneIsSound, <1>1 DEF Check, WriteProgress, JobsOK, JobsTypeOK
  <2>2. d \in JobRows /\ d.state = jobRow[j].state
    BY <1>1, GoneIsSound DEF JobRows
  <2>. HIDE DEF d
  <2>3. d.state = "cancelled"
    BY <1>1, <1>5, <2>2, GoneIsSound
  <2>4. Sound(NoRun, d, late[j])
    BY <1>1, <2>3, IdleRun, GoneIsSound DEF Sound
  <2>5. Honest(NoRun, d, served[j], open[j], blanks[j])
    BY <2>3, IdleRun DEF Honest
  <2>6. HeardAt(j, served[j], open[j], blanks[j])
    BY <1>3, HeardStill DEF JobsOK
  <2>. QED BY <1>1, <1>3, <2>1, <2>2, <2>3, <2>4, <2>5, <2>6, IdleRun, GoneIsSound, RunnerStep
              DEF JobsOK, JobsTypeOK, HeardAt
<1>. QED BY <1>4, <1>5

(* A series is joined; the row may be told, or not be reached. *)
LEMMA JoinKeeps ==
    ASSUME JobsOK, NEW j \in Made, NEW m \in run[j].batch, Join(j, m) \/ FlushFails(j, m)
    PROVE  JobsOK'
<1>. DEFINE t == Joined(run[j], m)
<1>1. Alive(j) /\ run[j].at = "items"
  BY DEF Join, FlushFails, Alive
<1>2. run[j] \in Runs /\ Local(run[j]) /\ j \in Job
  BY <1>1, GoneIsSound
<1>3. UNCHANGED <<source, req, orphaned, heardVars, late>>
  BY DEF Join, FlushFails, runUnchanged
<1>4. Walks(run[j], t) /\ t.at = "items" /\ t.items = run[j].items + 1
  BY <1>1, <1>2, JoinWalks
<1>5. t \in Runs /\ Local(t) /\ Walking(t) /\ run[j].items + 1 \in Nat
        /\ t.items \in Nat /\ run[j].items <= t.items
  BY <1>1, <1>4, GoneIsSound DEF Walks, Walking, JobRows
<1>6. CASE Join(j, m)
  <2>1. run' = [run EXCEPT ![j] = t]
    BY <1>6 DEF Join
  <2>2. CASE FlushDue(t)
    <3>. DEFINE d == [jobRow[j] EXCEPT !.items = t.items]
    <3>1. jobRow' = [jobRow EXCEPT ![j] = d]
      BY <1>2, <1>6, <2>2 DEF Join, WriteProgress, JobsOK, JobsTypeOK
    <3>2. d \in JobRows /\ d.state = jobRow[j].state /\ d.items = t.items
      BY <1>1, <1>4, <1>5, GoneIsSound DEF JobRows
    <3>. HIDE DEF d, t
    <3>3. d.items <= t.items /\ t.at # "off" /\ t.at # "begin"
      BY <1>4, <1>5, <3>2
    <3>. QED BY <1>1, <1>3, <1>4, <1>5, <2>1, <3>1, <3>2, <3>3, RunnerWalks
  <2>3. CASE ~FlushDue(t)
    <3>1. jobRow' = jobRow
      BY <1>6, <2>3 DEF Join
    <3>. HIDE DEF t
    <3>. QED BY <1>1, <1>3, <1>4, <1>5, <2>1, <3>1, RunnerWalksQuietly
  <2>. QED BY <2>2, <2>3
<1>7. CASE FlushFails(j, m)
  <2>1. run' = [run EXCEPT ![j] = ListingFails(t)] /\ jobRow' = jobRow
    BY <1>7 DEF FlushFails
  <2>. HIDE DEF t
  <2>. QED BY <1>1, <1>3, <1>5, <2>1, ListingEndsBadly
<1>. QED BY <1>6, <1>7

(* A page is done: another, another listing, or the end. *)
LEMMA PageDoneKeeps ==
    ASSUME JobsOK, NEW j \in Made, PageDone(j)
    PROVE  JobsOK'
<1>. DEFINE d == [jobRow[j] EXCEPT !.items = run[j].items]
<1>1. Alive(j) /\ run[j].at = "items" /\ run[j].batch = {}
  BY DEF PageDone, Alive
<1>2. run[j] \in Runs /\ Local(run[j]) /\ j \in Job
  BY <1>1, GoneIsSound
<1>3. UNCHANGED <<source, req, orphaned, heardVars, late>>
  BY DEF PageDone, runUnchanged
<1>4. jobRow' = [jobRow EXCEPT ![j] = d]
  BY <1>2 DEF PageDone, WriteProgress, JobsOK, JobsTypeOK
<1>5. d \in JobRows /\ d.state = jobRow[j].state /\ d.items = run[j].items /\ run[j].items \in Nat
  BY <1>1, GoneIsSound DEF JobRows
<1>. HIDE DEF d
<1>8. run' = [run EXCEPT ![j] =
          IF run[j].more THEN [run[j] EXCEPT !.at = "next", !.page = run[j].page + 1]
          ELSE ListingDone(run[j])]
  BY DEF PageDone
<1>6. CASE run[j].more
  <2>. DEFINE t == [run[j] EXCEPT !.at = "next", !.page = run[j].page + 1]
  <2>1. Walks(run[j], t)
    BY <1>1, <1>2, <1>6, NextWalks
  <2>2. t.at = "next" /\ t.items = run[j].items
    BY <1>2 DEF Runs
  <2>3. run' = [run EXCEPT ![j] = t]
    BY <1>6, <1>8
  <2>. HIDE DEF t
  <2>4. t \in Runs /\ Local(t) /\ d.items <= t.items
    BY <1>5, <2>1, <2>2 DEF Walks
  <2>. QED BY <1>1, <1>3, <1>4, <1>5, <2>1, <2>2, <2>3, <2>4, RunnerWalks
<1>7. CASE ~run[j].more
  <2>. DEFINE t == ListingDone(run[j])
  <2>1. Walks(run[j], t) /\ t.at \in {"fetch", "finish"} /\ t.items = run[j].items
    BY <1>1, <1>2, <1>7, DoneWalks
  <2>2. run' = [run EXCEPT ![j] = t]
    BY <1>7, <1>8
  <2>. HIDE DEF t
  <2>3. t \in Runs /\ Local(t) /\ d.items <= t.items
    BY <1>5, <2>1 DEF Walks
  <2>. QED BY <1>1, <1>3, <1>4, <1>5, <2>1, <2>2, <2>3, RunnerWalks
<1>. QED BY <1>6, <1>7

(* A page is begun, whatever it holds. *)
LEMMA BeginKeeps ==
    ASSUME JobsOK, NEW j \in Made, Begin(j)
    PROVE  JobsOK'
<1>1. Alive(j) /\ run[j].at = "begin"
  BY DEF Begin, Alive
<1>2. run[j] \in Runs /\ Local(run[j]) /\ j \in Job /\ late[j] = 0
        /\ jobRow[j].state \in {"running", "cancelled"} /\ jobRow[j] \in JobRows
        /\ jobRow = [jobRow EXCEPT ![j] = jobRow[j]] /\ jobRow[j].items <= run[j].items
        /\ JobOK(j) /\ served[j] \in SUBSET Manga /\ open[j] \in SUBSET (1 .. Listings)
        /\ blanks[j] \in 0 .. MaxEmpty
  BY <1>1, GoneIsSound
<1>3. PICK a \in Answers[run[j].listing] :
        run' = [run EXCEPT ![j] = BeginRun(run[j], a.items, a.more)] /\ Hear(j, a)
  BY DEF Begin, BeginRun
<1>. DEFINE u == BeginRun(run[j], a.items, a.more)
            n == IF jobRow[j].state = "running" THEN 0 ELSE 1
            h == served[j] \cup a.items
            o == Open(run[j], open[j], blanks[j], a.items, a.more)
            b == Blanks(run[j], blanks[j], a.items, a.more)
<1>4. a.items \in SUBSET Manga /\ a.more \in BOOLEAN
  <2>1. run[j].listing \in 1 .. Listings
    BY <1>2 DEF Runs
  <2>2. a \in [items : SUBSET Manga, more : BOOLEAN]
    BY <1>3, <2>1, IngestAssumption
  <2>. QED BY <2>2
<1>5. /\ u \in Runs /\ Local(u) /\ u.warned = run[j].warned
      /\ u.items = run[j].items /\ u.at = "items"
  BY <1>1, <1>2, <1>4, BeginTypes
<1>6. late' = [late EXCEPT ![j] = n] /\ n \in Nat
  BY <1>2 DEF Begin
<1>7. UNCHANGED <<source, req, orphaned>> /\ jobRow' = [jobRow EXCEPT ![j] = jobRow[j]]
  BY <1>2 DEF Begin, runUnchanged
<1>8. orphaned' \subseteq Made
  BY <1>7 DEF JobsOK, JobsTypeOK
<1>9. ASSUME ~u.warned PROVE Counts(u, h, o, b)
  <2>1. Counts(run[j], served[j], open[j], blanks[j])
    BY <1>2, <1>5, <1>9 DEF JobOK, Honest
  <2>. QED BY <1>1, <1>2, <1>4, <2>1, BeginCounts
<1>10. h \in SUBSET Manga /\ o \in SUBSET (1 .. Listings) /\ b \in 0 .. MaxEmpty
  <2>. DEFINE t == run[j]
              x == a.items
              m == a.more
              o1 == open[j]
              b1 == blanks[j]
  <2>1. t \in Runs /\ x \in SUBSET Manga /\ m \in BOOLEAN /\ o1 \in SUBSET (1 .. Listings)
          /\ b1 \in 0 .. MaxEmpty /\ served[j] \in SUBSET Manga
    BY <1>2, <1>4
  <2>. HIDE DEF t, x, m, o1, b1
  <2>2. /\ served[j] \cup x \in SUBSET Manga
        /\ Open(t, o1, b1, x, m) \in SUBSET (1 .. Listings) /\ Blanks(t, b1, x, m) \in 0 .. MaxEmpty
    BY <2>1, HeardTypes, Zenon
  <2>. QED BY <2>2 DEF t, x, m, o1, b1
<1>11. HeardAt(j, h, o, b)
  <2>1. /\ served' = [served EXCEPT ![j] = served[j] \cup a.items]
        /\ open' = [open EXCEPT ![j] = Open(run[j], open[j], blanks[j], a.items, a.more)]
        /\ blanks' = [blanks EXCEPT ![j] = Blanks(run[j], blanks[j], a.items, a.more)]
    BY <1>3, Zenon DEF Hear, Open, Blanks, End, Row
  <2>. QED BY <2>1 DEF HeardAt
<1>. HIDE DEF u, h, o, b
<1>12. Sound(u, jobRow[j], n)
  BY <1>2, <1>5 DEF Sound
<1>13. Honest(u, jobRow[j], h, o, b)
  BY <1>2, <1>5, <1>9 DEF Honest
<1>14. run' = [run EXCEPT ![j] = u] /\ jobRow[j].state # "none"
  BY <1>2, <1>3 DEF u
<1>. HIDE DEF n
<1>. QED BY <1>1, <1>2, <1>5, <1>6, <1>7, <1>8, <1>10, <1>11, <1>12, <1>13, <1>14, RunnerStep
         DEF HeardAt

(* The verdict, written or lost. *)
LEMMA FinishKeeps ==
    ASSUME JobsOK, NEW j \in Made, Finish(j) \/ FinishFails(j)
    PROVE  JobsOK'
<1>1. Alive(j) /\ run[j].at = "finish"
  BY DEF Finish, FinishFails, Alive
<1>2. run[j] \in Runs /\ Local(run[j]) /\ source[j] \in Source /\ j \in Job /\ late[j] \in Nat
        /\ jobRow[j].state \in {"running", "cancelled"} /\ jobRow[j] \in JobRows /\ late[j] <= 1
        /\ (jobRow[j].state = "running" => late[j] = 0)
        /\ jobRow = [jobRow EXCEPT ![j] = jobRow[j]] /\ JobOK(j) /\ late = [late EXCEPT ![j] = late[j]]
        /\ served[j] \in SUBSET Manga /\ open[j] \in SUBSET (1 .. Listings)
        /\ blanks[j] \in 0 .. MaxEmpty
  BY <1>1, GoneIsSound
<1>3. UNCHANGED <<source, req, heardVars, late>> /\ run' = [run EXCEPT ![j] = NoRun]
  BY DEF Finish, FinishFails, runUnchanged
<1>4. orphaned' \subseteq Made
  BY DEF Finish, FinishFails, runUnchanged, JobsOK, JobsTypeOK
<1>9. HeardAt(j, served[j], open[j], blanks[j])
  BY <1>3, HeardStill DEF JobsOK
<1>5. CASE jobRow' = jobRow
  <2>1. Sound(NoRun, jobRow[j], late[j])
    BY <1>2, IdleRun DEF Sound
  <2>2. Honest(NoRun, jobRow[j], served[j], open[j], blanks[j])
    BY <1>2, IdleRun DEF Honest
  <2>3. jobRow' = [jobRow EXCEPT ![j] = jobRow[j]] /\ late' = [late EXCEPT ![j] = late[j]]
    BY <1>2, <1>3, <1>5
  <2>. QED BY <1>1, <1>2, <1>3, <1>4, <1>9, <2>1, <2>2, <2>3, IdleRun, RunnerStep DEF HeardAt
<1>6. CASE Finish(j) /\ jobRow[j].state = "running"
  <2>. DEFINE st == IF run[j].walked = 0 THEN "failed" ELSE "completed"
              d == [jobRow[j] EXCEPT !.state = st, !.warned = run[j].warned]
  <2>1. jobRow' = [jobRow EXCEPT ![j] = d]
    BY <1>2, <1>6 DEF Finish, JobsOK, JobsTypeOK
  <2>2. st \in {"failed", "completed"} /\ run[j].warned \in BOOLEAN
    BY <1>2 DEF Runs
  <2>. HIDE DEF st
  <2>3. d \in JobRows /\ d.state = st /\ d.warned = run[j].warned /\ d.items = jobRow[j].items
    BY <1>2, <2>2 DEF JobRows
  <2>. HIDE DEF d
  <2>4. Sound(NoRun, d, late[j])
    BY <1>2, <1>6, <2>2, <2>3, IdleRun DEF Sound
  <2>5. Honest(NoRun, d, served[j], open[j], blanks[j])
    <3>1. Honest(run[j], jobRow[j], served[j], open[j], blanks[j])
      BY <1>2 DEF JobOK
    <3>2. ~d.warned => open[j] = {} /\ d.items = Cardinality(served[j])
      BY <1>1, <2>3, <3>1 DEF Honest, Counts
    <3>. QED BY <2>2, <2>3, <3>2, IdleRun DEF Honest
  <2>6. late' = [late EXCEPT ![j] = late[j]] /\ d.state # "none"
    BY <1>2, <1>3, <2>2, <2>3
  <2>. QED BY <1>1, <1>2, <1>3, <1>4, <1>9, <2>1, <2>3, <2>4, <2>5, <2>6,
              IdleRun, RunnerStep DEF HeardAt
<1>7. CASE Finish(j) /\ jobRow[j].state # "running"
  BY <1>5, <1>7 DEF Finish
<1>8. CASE FinishFails(j)
  BY <1>5, <1>8 DEF FinishFails
<1>. QED BY <1>6, <1>7, <1>8

-----------------------------------------------------------------------------
(* The calls and the rows. *)

(* A step that starts or stops no runner leaves the runners as honest as their rows. *)
LEMMA RowsStep ==
    ASSUME JobsOK, JobsTypeOK', UNCHANGED <<run, heardVars, late>>,
           \A j \in Made : j \in Made' /\ source'[j] = source[j],
           \A j \in Job : \/ jobRow'[j] = jobRow[j]
                          \/ j \notin Made /\ jobRow'[j] = NewJob
                          \/ /\ jobRow[j].state = "running"
                             /\ jobRow'[j] = [jobRow[j] EXCEPT !.state = "cancelled"]
    PROVE  \A j \in Job : JobOK(j)'
<1>. SUFFICES ASSUME NEW j \in Job PROVE JobOK(j)'
  OBVIOUS
<1>1. JobOK(j) /\ jobRow[j] \in JobRows /\ run[j] \in Runs /\ (j \in Made <=> jobRow[j].state # "none")
  BY DEF JobsOK, JobsTypeOK
<1>2. run'[j] = run[j] /\ late'[j] = late[j]
        /\ served'[j] = served[j] /\ open'[j] = open[j] /\ blanks'[j] = blanks[j]
  BY DEF heardVars
<1>3. CASE j \in Made
  <2>2. /\ jobRow'[j].items = jobRow[j].items /\ jobRow'[j].warned = jobRow[j].warned
        /\ jobRow'[j].state = jobRow[j].state
              \/ (jobRow[j].state = "running" /\ jobRow'[j].state = "cancelled")
    BY <1>1, <1>3 DEF JobRows
  <2>3. Sound(run[j], jobRow[j], late[j])' 
    BY <1>1, <1>2, <2>2 DEF JobOK, Sound
  <2>4. Honest(run[j], jobRow[j], served[j], open[j], blanks[j])'
    BY <1>1, <1>2, <1>3, <2>2 DEF JobOK, Honest
  <2>. QED BY <2>3, <2>4 DEF JobOK
<1>4. CASE j \notin Made
  <2>1. run[j].at = "off" /\ late[j] = 0 /\ Local(run[j])
    BY <1>1, <1>4 DEF JobOK, Sound, JobsOK, JobsTypeOK
  <2>2. jobRow'[j].state \in {"none", "running"}
    BY <1>1, <1>4, IdleRun DEF JobsOK, JobsTypeOK
  <2>3. Sound(run[j], jobRow[j], late[j])'
    BY <1>2, <2>1, <2>2 DEF Sound
  <2>4. Counts(run[j], served[j], open[j], blanks[j])
    BY <2>1 DEF Counts, Walking, Between
  <2>6. served[j] = {}
    BY <1>1, <1>4 DEF JobOK, Honest
  <2>5. Honest(run[j], jobRow[j], served[j], open[j], blanks[j])'
    BY <1>2, <2>1, <2>2, <2>4, <2>6 DEF Honest
  <2>. QED BY <2>3, <2>5 DEF JobOK
<1>. QED BY <1>3, <1>4

(* The states of a call are well formed. *)
LEMMA ReqTypes ==
    ASSUME NEW r \in Request, NEW todo \in SUBSET Source, req \in [Request -> Reqs]
    PROVE  /\ NoReq \in Reqs /\ NoReq.at = "idle" /\ Continue(todo) \in Reqs /\ Continue(todo).at # "load"
           /\ [NoReq EXCEPT !.at = "insert", !.todo = todo] \in Reqs
           /\ [NoReq EXCEPT !.at = "insert", !.todo = todo].at = "insert"
           /\ \A s : req[r].todo \ {s} \in SUBSET Source
           /\ req[r].todo \in SUBSET Source
           /\ \A k \in 0 .. MaxJobs : [at |-> "load", todo |-> todo, job |-> k] \in Reqs
<1>1. 0 \in 0 .. MaxJobs
  BY Numbers
<1>2. NoReq \in Reqs /\ NoReq.at = "idle"
  BY <1>1 DEF NoReq, Reqs
<1>3. /\ [NoReq EXCEPT !.at = "insert", !.todo = todo] \in Reqs
      /\ [NoReq EXCEPT !.at = "insert", !.todo = todo].at = "insert"
  BY <1>2 DEF Reqs
<1>4. Continue(todo) \in Reqs /\ Continue(todo).at # "load"
  BY <1>2, <1>3 DEF Continue
<1>5. (\A s : req[r].todo \ {s} \in SUBSET Source) /\ req[r].todo \in SUBSET Source
  BY DEF Reqs
<1>6. \A k \in 0 .. MaxJobs : [at |-> "load", todo |-> todo, job |-> k] \in Reqs
  BY DEF Reqs
<1>. QED BY <1>2, <1>3, <1>4, <1>5, <1>6

(* A call that is not about to spawn a runner has no hold on any job. *)
LEMMA CallsStep ==
    ASSUME JobsOK, NEW r \in Request, NEW c \in Reqs, c.at # "load",
           req' = [req EXCEPT ![r] = c], UNCHANGED <<source, jobRow, run, heardVars, late>>,
           orphaned' \subseteq Made
    PROVE  JobsOK'
<1>1. req' \in [Request -> Reqs] /\ req'[r] = c /\ \A p \in Request \ {r} : req'[p] = req[p]
  BY DEF JobsOK, JobsTypeOK
<1>2. JobsTypeOK'
  BY <1>1 DEF JobsOK, JobsTypeOK, Made, heardVars
<1>3. \A j \in Job : JobOK(j)'
  BY <1>2, RowsStep DEF JobsOK, Made
<1>4. \A p \in Request : Loading(p)' => p # r /\ Loading(p) /\ req'[p] = req[p]
  BY <1>1 DEF Loading
<1>5. CallsOK'
  BY <1>4 DEF JobsOK, CallsOK, Alive, Made, heardVars
<1>. QED BY <1>2, <1>3, <1>5 DEF JobsOK

(* A call starts or is dropped. *)
LEMMA StartKeeps ==
    ASSUME JobsOK, NEW r \in Request,
           (\E todo \in SUBSET Source : Start(r, todo)) \/ Abandon(r)
    PROVE  JobsOK'
<1>0. req \in [Request -> Reqs] /\ orphaned \subseteq Made
  BY DEF JobsOK, JobsTypeOK
<1>1. ASSUME NEW todo \in SUBSET Source, Start(r, todo) PROVE JobsOK'
  <2>. DEFINE c == [NoReq EXCEPT !.at = "insert", !.todo = todo]
  <2>1. c \in Reqs /\ c.at # "load"
    BY <1>0, ReqTypes
  <2>2. req' = [req EXCEPT ![r] = c]
    BY <1>1 DEF Start
  <2>. HIDE DEF c
  <2>3. UNCHANGED <<source, jobRow, run, heardVars, late>> /\ orphaned' \subseteq Made
    BY <1>0, <1>1 DEF Start
  <2>. QED BY <2>1, <2>2, <2>3, CallsStep
<1>2. ASSUME Abandon(r) PROVE JobsOK'
  <2>1. NoReq \in Reqs /\ NoReq.at # "load"
    BY <1>0, ReqTypes
  <2>2. req' = [req EXCEPT ![r] = NoReq] /\ UNCHANGED <<source, jobRow, run, heardVars, late>>
    BY <1>2 DEF Abandon
  <2>3. req[r].at = "load" => req[r].job \in Made
    BY DEF JobsOK, CallsOK, Loading
  <2>4. orphaned' \subseteq Made
    BY <1>0, <1>2, <2>3 DEF Abandon
  <2>. QED BY <2>1, <2>2, <2>4, CallsStep
<1>. QED BY <1>1, <1>2

(* A call inserts a row, or finds one running. *)
LEMMA InsertKeeps ==
    ASSUME JobsOK, NEW r \in Request, NEW s \in Source, Insert(r, s)
    PROVE  JobsOK'
<1>0. /\ req \in [Request -> Reqs] /\ orphaned \subseteq Made
      /\ source \in Seq(Source) /\ jobRow \in [Job -> JobRows] /\ run \in [Job -> Runs]
  BY DEF JobsOK, JobsTypeOK
<1>1. CASE Running(s) # {}
  <2>. DEFINE c == Continue(req[r].todo \ {s})
  <2>1. c \in Reqs /\ c.at # "load"
    BY <1>0, ReqTypes
  <2>2. req' = [req EXCEPT ![r] = c]
    BY <1>1 DEF Insert
  <2>. HIDE DEF c
  <2>3. UNCHANGED <<source, jobRow, run, heardVars, late>> /\ orphaned' \subseteq Made
    BY <1>0, <1>1 DEF Insert
  <2>. QED BY <2>1, <2>2, <2>3, CallsStep
<1>2. CASE Running(s) = {}
  <2>. DEFINE k == Len(source) + 1
              c == [at |-> "load", todo |-> req[r].todo \ {s}, job |-> k]
  <2>1. Len(source) \in Nat /\ Len(source) < MaxJobs /\ source' = Append(source, s)
    BY <1>0, <1>2 DEF Insert
  <2>2. /\ source' \in Seq(Source) /\ Len(source') = k /\ Len(source') <= MaxJobs
        /\ Made = 1 .. Len(source) /\ Made' = 1 .. k /\ \A j \in Made : source'[j] = source[j]
    BY <1>0, <2>1, Numbers DEF Made
  <2>3. k \in Job /\ k \notin Made /\ k \in 0 .. MaxJobs /\ k \in Made' /\ Made' = Made \cup {k}
    BY <2>1, <2>2, Numbers DEF Job
  <2>4. jobRow' = [jobRow EXCEPT ![k] = NewJob] /\ req' = [req EXCEPT ![r] = c]
    BY <1>2, <2>2 DEF Insert
  <2>5. c \in Reqs /\ c.at = "load" /\ c.job = k
    BY <1>0, <2>3, ReqTypes
  <2>. HIDE DEF c, k
  <2>6. UNCHANGED <<run, orphaned, heardVars, late>>
    BY DEF Insert
  <2>7. jobRow'[k] = NewJob /\ \A j \in Job \ {k} : jobRow'[j] = jobRow[j]
    BY <1>0, <2>3, <2>4
  <2>8. JobsTypeOK'
    <3>1. jobRow' \in [Job -> JobRows] /\ req' \in [Request -> Reqs]
      BY <1>0, <2>3, <2>4, <2>5, IdleRun
    <3>2. \A j \in Job : jobRow'[j].state = "none" <=> j \notin Made'
      BY <2>3, <2>7, IdleRun DEF JobsOK, JobsTypeOK
    <3>. QED BY <2>2, <2>3, <2>6, <3>1, <3>2 DEF JobsOK, JobsTypeOK, heardVars
  <2>9. \A j \in Job : JobOK(j)'
    <3>1. \A j \in Made : j \in Made' /\ source'[j] = source[j]
      BY <2>2, <2>3
    <3>. QED BY <2>3, <2>6, <2>7, <2>8, <3>1, RowsStep
  <2>10. run[k].at = "off" /\ served[k] = {}
    BY <2>3 DEF JobsOK, JobsTypeOK, JobOK, Sound, Honest
  <2>11. /\ req'[r] = c /\ Loading(r)'
         /\ \A p \in Request \ {r} : req'[p] = req[p] /\ (Loading(p)' <=> Loading(p))
    BY <1>0, <2>4, <2>5 DEF Loading
  <2>12. \A p \in Request : Loading(p) => req[p].job \in Made /\ req[p].job # k /\ req[p].job \in Job
    BY <2>3, MadeJobs DEF JobsOK, CallsOK
  <2>13. ASSUME NEW p \in Request, Loading(p)'
         PROVE  /\ req'[p].job \in Made' /\ run'[req'[p].job].at = "off"
                /\ jobRow'[req'[p].job].state \in {"running", "cancelled"}
                /\ jobRow'[req'[p].job].items = 0 /\ served'[req'[p].job] = {}
    <3>1. CASE p = r
      BY <3>1, <2>3, <2>5, <2>6, <2>7, <2>10, <2>11, IdleRun DEF heardVars
    <3>2. CASE p # r
      <4>1. req'[p] = req[p] /\ Loading(p)
        BY <3>2, <2>11, <2>13
      <4>2. /\ req[p].job \in Made /\ req[p].job # k /\ req[p].job \in Job
            /\ jobRow'[req[p].job] = jobRow[req[p].job]
        BY <4>1, <2>7, <2>12
      <4>3. /\ run[req[p].job].at = "off" /\ jobRow[req[p].job].state \in {"running", "cancelled"}
            /\ jobRow[req[p].job].items = 0 /\ served[req[p].job] = {}
        BY <4>1 DEF JobsOK, CallsOK, Alive
      <4>. QED BY <4>1, <4>2, <4>3, <2>3, <2>6 DEF heardVars
    <3>. QED BY <3>1, <3>2
  <2>14. CallsOK'
    <3>1. ASSUME NEW p \in Request, NEW q \in Request,
                 Loading(p)', Loading(q)', req'[p].job = req'[q].job
          PROVE  p = q
      <4>1. CASE p # r /\ q # r
        BY <3>1, <4>1, <2>11 DEF JobsOK, CallsOK
      <4>2. CASE p = r /\ q # r
        BY <3>1, <4>2, <2>5, <2>11, <2>12
      <4>3. CASE p # r /\ q = r
        BY <3>1, <4>3, <2>5, <2>11, <2>12
      <4>. QED BY <4>1, <4>2, <4>3
    <3>. QED BY <2>13, <3>1 DEF CallsOK, Alive
  <2>. QED BY <2>8, <2>9, <2>14 DEF JobsOK
<1>. QED BY <1>1, <1>2

(* A call spawns the runner of its row, cancelled or not by then. *)
LEMMA SpawnKeeps ==
    ASSUME JobsOK, NEW r \in Request, Spawn(r)
    PROVE  JobsOK'
<1>. DEFINE k == req[r].job
            c == Continue(req[r].todo)
<1>1. /\ Loading(r) /\ run' = [run EXCEPT ![k] = NewRun] /\ req' = [req EXCEPT ![r] = c]
      /\ UNCHANGED <<source, jobRow, orphaned, heardVars, late>>
  BY DEF Spawn, Loading
<1>2. /\ k \in Made /\ k \in Job /\ source[k] \in Source /\ ~Alive(k)
      /\ jobRow[k].state \in {"running", "cancelled"} /\ jobRow[k].items = 0 /\ served[k] = {}
      /\ open[k] \in SUBSET (1 .. Listings)
  BY <1>1, MadeJobs DEF JobsOK, CallsOK, JobsTypeOK
<1>3. c \in Reqs /\ c.at # "load"
  BY ReqTypes DEF JobsOK, JobsTypeOK
<1>. HIDE DEF c
<1>4. run' \in [Job -> Runs] /\ run'[k] = NewRun /\ \A j \in Job \ {k} : run'[j] = run[j]
  BY <1>1, <1>2, IdleRun DEF JobsOK, JobsTypeOK
<1>5. /\ req' \in [Request -> Reqs] /\ \A p \in Request \ {r} : req'[p] = req[p] /\ (Loading(p)' <=> Loading(p))
      /\ ~Loading(r)'
  BY <1>1, <1>3 DEF JobsOK, JobsTypeOK, Loading
<1>6. JobsTypeOK'
  BY <1>1, <1>4, <1>5 DEF JobsOK, JobsTypeOK, Made, heardVars
<1>7. ASSUME NEW j \in Job PROVE JobOK(j)'
  <2>1. JobOK(j)
    BY DEF JobsOK
  <2>2. CASE j = k
    <3>1. Sound(NewRun, jobRow[k], late[k])
      BY <1>2, <2>1, <2>2, IdleRun DEF JobOK, Sound
    <3>2. Honest(NewRun, jobRow[k], served[k], open[k], blanks[k])
      BY <1>2, IdleRun DEF Honest
    <3>. QED BY <1>1, <1>4, <2>2, <3>1, <3>2 DEF JobOK, heardVars
  <2>3. CASE j # k
    BY <1>1, <1>4, <2>1, <2>3 DEF JobOK, heardVars
  <2>. QED BY <2>2, <2>3
<1>8. \A p \in Request : Loading(p)' =>
        p # r /\ Loading(p) /\ req'[p] = req[p] /\ req[p].job # k /\ req[p].job \in Job
  BY <1>1, <1>5, MadeJobs DEF JobsOK, CallsOK
<1>9. CallsOK'
  BY <1>1, <1>4, <1>8 DEF JobsOK, CallsOK, Alive, Made, heardVars
<1>. QED BY <1>6, <1>7, <1>9 DEF JobsOK

(* A row is cancelled under its runner. *)
LEMMA CancelKeeps ==
    ASSUME JobsOK, NEW j \in Made, Cancel(j)
    PROVE  JobsOK'
<1>. DEFINE d == [jobRow[j] EXCEPT !.state = "cancelled"]
<1>1. j \in Job /\ jobRow \in [Job -> JobRows] /\ jobRow[j].state = "running" /\ orphaned \subseteq Made
  BY MadeJobs DEF JobsOK, JobsTypeOK, Cancel
<1>2. jobRow' = [jobRow EXCEPT ![j] = d]
  BY <1>1 DEF Cancel
<1>3. d \in JobRows /\ d.state = "cancelled" /\ d.items = jobRow[j].items
  BY <1>1 DEF JobRows
<1>4. UNCHANGED <<source, run, req, heardVars, late>> /\ orphaned' \subseteq Made
  BY <1>1 DEF Cancel
<1>5. jobRow'[j] = d /\ \A i \in Job \ {j} : jobRow'[i] = jobRow[i]
  BY <1>1, <1>2
<1>6. JobsTypeOK'
  <2>1. jobRow' \in [Job -> JobRows]
    BY <1>1, <1>2, <1>3
  <2>2. \A i \in Job : jobRow'[i].state = "none" <=> i \notin Made
    BY <1>3, <1>5 DEF JobsOK, JobsTypeOK
  <2>. QED BY <1>4, <2>1, <2>2 DEF JobsOK, JobsTypeOK, Made, heardVars
<1>7. \A i \in Job : JobOK(i)'
  BY <1>1, <1>4, <1>5, <1>6, RowsStep DEF Made
<1>. HIDE DEF d
<1>8. \A r \in Request : Loading(r)' =>
        /\ Loading(r) /\ req'[r] = req[r] /\ req[r].job \in Job
        /\ jobRow'[req[r].job].items = jobRow[req[r].job].items
        /\ jobRow'[req[r].job].state \in {jobRow[req[r].job].state, "cancelled"}
  BY <1>3, <1>4, <1>5, MadeJobs DEF JobsOK, CallsOK, Loading
<1>9. CallsOK'
  BY <1>4, <1>8 DEF JobsOK, CallsOK, Alive, Made, heardVars
<1>. QED BY <1>6, <1>7, <1>9 DEF JobsOK

(* All runners and calls are gone; rows fail, or keep saying that they run. *)
LEMMA RestartKeeps ==
    ASSUME JobsOK, Restart
    PROVE  JobsOK'
<1>1. /\ run' = [j \in Job |-> NoRun] /\ req' = [r \in Request |-> NoReq]
      /\ UNCHANGED <<source, heardVars, late>>
  BY DEF Restart
<1>2. /\ jobRow \in [Job -> JobRows] /\ Made \subseteq Job
      /\ \A j \in Job : jobRow[j].state = "none" <=> j \notin Made
  BY MadeJobs DEF JobsOK, JobsTypeOK
<1>3. /\ jobRow' \in [Job -> JobRows]
      /\ \A j \in Job : jobRow'[j] = jobRow[j] \/ (jobRow[j].state = "running" /\ jobRow'[j].state = "failed")
  <2>1. CASE jobRow' = [j \in Job |-> IF jobRow[j].state = "running"
                                   THEN [jobRow[j] EXCEPT !.state = "failed", !.warned = TRUE]
                                   ELSE jobRow[j]]
    <3>1. \A j \in Job : LET d == [jobRow[j] EXCEPT !.state = "failed", !.warned = TRUE] IN
            d \in JobRows /\ d.state = "failed"
      BY <1>2 DEF JobRows
    <3>. QED BY <1>2, <2>1, <3>1
  <2>2. CASE jobRow' = jobRow
    BY <1>2, <2>2
  <2>. QED BY <2>1, <2>2 DEF Restart
<1>4. orphaned' \subseteq Made
  BY <1>2 DEF Restart
<1>5. JobsTypeOK'
  <2>1. run' \in [Job -> Runs]
    BY <1>1, IdleRun
  <2>2. req' \in [Request -> Reqs]
    BY <1>1, Numbers DEF NoReq, Reqs
  <2>3. \A j \in Job : jobRow'[j].state = "none" <=> j \notin Made
    BY <1>2, <1>3
  <2>. QED BY <1>1, <1>3, <1>4, <2>1, <2>2, <2>3 DEF JobsOK, JobsTypeOK, Made, heardVars
<1>6. ASSUME NEW j \in Job PROVE JobOK(j)'
  <2>1. JobOK(j) /\ run'[j] = NoRun /\ late'[j] = late[j]
    BY <1>1 DEF JobsOK
  <2>2. jobRow'[j] = jobRow[j] \/ (jobRow[j].state = "running" /\ jobRow'[j].state = "failed")
    BY <1>3
  <2>3. Sound(run[j], jobRow[j], late[j])'
    BY <2>1, <2>2, IdleRun DEF JobOK, Sound
  <2>4. Honest(run[j], jobRow[j], served[j], open[j], blanks[j])'
    BY <1>1, <2>1, <2>2, IdleRun DEF JobOK, Honest, heardVars
  <2>. QED BY <2>3, <2>4 DEF JobOK
<1>7. CallsOK'
  BY <1>1 DEF CallsOK, Loading, NoReq
<1>. QED BY <1>5, <1>6, <1>7 DEF JobsOK

-----------------------------------------------------------------------------
(* The theorems. *)

(* No job at the start. *)
LEMMA JobsStart == JobsInit => JobsOK
<1>. SUFFICES ASSUME JobsInit PROVE JobsOK
  OBVIOUS
<1>1. /\ source = <<>> /\ jobRow = [j \in Job |-> NoJob] /\ run = [j \in Job |-> NoRun]
      /\ req = [r \in Request |-> NoReq] /\ orphaned = {} /\ served = [j \in Job |-> {}]
      /\ open = [j \in Job |-> 1 .. Listings] /\ blanks = [j \in Job |-> 0] /\ late = [j \in Job |-> 0]
  BY DEF JobsInit
<1>2. source \in Seq(Source) /\ Len(source) = 0 /\ Made = {} /\ Len(source) <= MaxJobs
  BY <1>1, Numbers DEF Made
<1>3. req \in [Request -> Reqs]
  BY <1>1, Numbers DEF NoReq, Reqs
<1>7. /\ served \in [Job -> SUBSET Manga] /\ open \in [Job -> SUBSET (1 .. Listings)]
      /\ blanks \in [Job -> 0 .. MaxEmpty] /\ late \in [Job -> Nat]
  BY <1>1, Numbers
<1>4. JobsTypeOK
  BY <1>1, <1>2, <1>3, <1>7, IdleRun DEF JobsTypeOK
<1>5. \A j \in Job : JobOK(j)
  BY <1>1, <1>2, IdleRun DEF JobOK, Sound, Honest
<1>6. CallsOK
  BY <1>1 DEF CallsOK, Loading, NoReq
<1>. QED BY <1>4, <1>5, <1>6 DEF JobsOK

(* Each step keeps the invariant. *)
LEMMA JobsKept == JobsOK /\ [JobsNext]_jobsVars => JobsOK'
<1>. SUFFICES ASSUME JobsOK, [JobsNext]_jobsVars PROVE JobsOK'
  OBVIOUS
<1>1. ASSUME NEW r \in Request, NEW todo \in SUBSET Source, Start(r, todo) PROVE JobsOK'
  BY <1>1, StartKeeps
<1>2. ASSUME NEW r \in Request, NEW s \in Source, Insert(r, s) PROVE JobsOK'
  BY <1>2, InsertKeeps
<1>3. ASSUME NEW r \in Request, Spawn(r) PROVE JobsOK'
  BY <1>3, SpawnKeeps
<1>4. ASSUME NEW r \in Request, Abandon(r) PROVE JobsOK'
  BY <1>4, StartKeeps
<1>5. ASSUME NEW j \in Made, Cancel(j) PROVE JobsOK'
  BY <1>5, CancelKeeps
<1>6. ASSUME NEW j \in Made, Runner(j) PROVE JobsOK'
  <2>1. CASE Fetch(j)
    BY <2>1, FetchKeeps
  <2>2. CASE FetchFails(j)
    BY <2>2, FetchFailsKeeps
  <2>3. CASE Check(j)
    BY <2>3, RowCheckKeeps
  <2>4. CASE Begin(j)
    BY <2>4, BeginKeeps
  <2>5. CASE \E m \in run[j].batch : Join(j, m) \/ FlushFails(j, m)
    BY <2>5, JoinKeeps
  <2>6. CASE PageDone(j)
    BY <2>6, PageDoneKeeps
  <2>7. CASE StatementFails(j)
    BY <2>7, StatementFailsKeeps
  <2>8. CASE Finish(j) \/ FinishFails(j)
    BY <2>8, FinishKeeps
  <2>. QED BY <1>6, <2>1, <2>2, <2>3, <2>4, <2>5, <2>6, <2>7, <2>8 DEF Runner
<1>7. CASE Restart
  BY <1>7, RestartKeeps
<1>8. CASE UNCHANGED jobsVars
  <2>1. UNCHANGED <<source, jobRow, run, req, orphaned, heardVars, late>>
    BY <1>8 DEF jobsVars
  <2>2. JobsTypeOK'
    BY <2>1 DEF JobsOK, JobsTypeOK, Made, heardVars
  <2>3. (\A j \in Job : JobOK(j)')
    BY <2>1 DEF JobsOK, JobOK, heardVars
  <2>4. CallsOK'
    BY <2>1 DEF JobsOK, CallsOK, Loading, Alive, Made, heardVars
  <2>. QED BY <2>2, <2>3, <2>4 DEF JobsOK
<1>. QED BY <1>1, <1>2, <1>3, <1>4, <1>5, <1>6, <1>7, <1>8, Zenon DEF JobsNext

(* The variables of the jobs keep their types: pages within MAX_PAGES, attempts and streaks
   within their limits, rows for the jobs there are. *)
THEOREM JobsTypes == JobsSpec => []JobsTypeOK
<1>1. JobsOK => JobsTypeOK
  BY DEF JobsOK
<1>. QED BY <1>1, JobsStart, JobsKept, PTL DEF JobsSpec

(* "Walking both and de-duplicating by manga id is what makes `add all` mean all" (LISTINGS),
   for any answers of the sources, limits, jobs, calls and faults: listings may move
   under the walk, and pages may be blank. *)
THEOREM CompletedHasSeenAll == JobsSpec => []CompletedMeansAll
<1>1. JobsOK => CompletedMeansAll
  BY MadeJobs DEF JobsOK, CompletedMeansAll, JobOK, Honest
<1>. QED BY <1>1, JobsStart, JobsKept, PTL DEF JobsSpec

(* No step but an insert or a cancel gives a row another state while it runs; none does
   when it does not. *)
LEMMA EndedStays ==
    ASSUME JobsOK, [JobsNext]_jobsVars, NEW j \in Made, jobRow[j].state # "running"
    PROVE  jobRow'[j].state = jobRow[j].state
<1>. DEFINE Goal == jobRow'[j].state = jobRow[j].state
<1>0. j \in Job /\ jobRow \in [Job -> JobRows] /\ jobRow[j] \in JobRows
  BY MadeJobs DEF JobsOK, JobsTypeOK
<1>1. ASSUME NEW i \in Made, NEW n, jobRow' = [jobRow EXCEPT ![i].items = n] PROVE Goal
  BY <1>0, <1>1 DEF JobRows
<1>2. ASSUME jobRow' = jobRow PROVE Goal
  BY <1>2
<1>3. ASSUME NEW r \in Request, NEW s \in Source, Insert(r, s) PROVE Goal
  <2>1. CASE jobRow' = jobRow
    BY <2>1
  <2>2. CASE source' = Append(source, s) /\ jobRow' = [jobRow EXCEPT ![Len(source')] = NewJob]
    <3>1. Len(source') = Len(source) + 1 /\ Len(source) \in Nat /\ Made = 1 .. Len(source)
      BY <2>2, MadeJobs DEF JobsOK, JobsTypeOK
    <3>2. j # Len(source')
      BY <3>1
    <3>. QED BY <1>0, <2>2, <3>2
  <2>. QED BY <1>3, <2>1, <2>2 DEF Insert
<1>4. ASSUME NEW i \in Made, Cancel(i) PROVE Goal
  BY <1>0, <1>4 DEF Cancel
<1>5. ASSUME NEW i \in Made, Runner(i) PROVE Goal
  <2>1. CASE Finish(i)
    BY <1>0, <2>1 DEF Finish
  <2>2. CASE Check(i)
    BY <1>1, <1>2, <2>2 DEF Check, WriteProgress
  <2>3. CASE \E m \in run[i].batch : Join(i, m)
    BY <1>1, <1>2, <2>3 DEF Join, WriteProgress
  <2>4. CASE PageDone(i)
    BY <1>1, <2>4 DEF PageDone, WriteProgress
  <2>5. CASE Fetch(i) \/ FetchFails(i) \/ Begin(i) \/ StatementFails(i) \/ FinishFails(i)
             \/ \E m \in run[i].batch : FlushFails(i, m)
    BY <1>2, <2>5 DEF Fetch, FetchFails, Begin, StatementFails, FinishFails, FlushFails
  <2>. QED BY <1>5, <2>1, <2>2, <2>3, <2>4, <2>5 DEF Runner
<1>6. ASSUME Restart PROVE Goal
  BY <1>0, <1>6 DEF Restart
<1>7. ASSUME NEW r \in Request, Spawn(r) \/ Abandon(r) PROVE Goal
  BY <1>2, <1>7 DEF Spawn, Abandon
<1>10. ASSUME NEW r \in Request, NEW todo \in SUBSET Source, Start(r, todo) PROVE Goal
  BY <1>2, <1>10 DEF Start
<1>8. ASSUME UNCHANGED jobsVars PROVE Goal
  BY <1>2, <1>8 DEF jobsVars
<1>. HIDE DEF Goal
<1>11. Goal
  BY <1>3, <1>4, <1>5, <1>6, <1>7, <1>8, <1>10, Zenon DEF JobsNext
<1>. QED BY <1>11 DEF Goal

(* "A cancel that landed first wins" (finish_job), and costs one page more at most. *)
THEOREM CancelsWin == JobsSpec => CancelWins
<1>1. JobsOK /\ JobsOK' /\ [JobsNext]_jobsVars =>
        [\A j \in Made : jobRow[j].state # "running" =>
            jobRow'[j].state = jobRow[j].state /\ late'[j] <= 1]_jobsVars
  <2>. SUFFICES ASSUME JobsOK, JobsOK', [JobsNext]_jobsVars, NEW j \in Made,
                       jobRow[j].state # "running"
                PROVE  jobRow'[j].state = jobRow[j].state /\ late'[j] <= 1
    OBVIOUS
  <2>1. jobRow'[j].state = jobRow[j].state
    BY EndedStays
  <2>2. late'[j] <= 1
    BY MadeJobs DEF JobsOK, JobOK, Sound
  <2>. QED BY <2>1, <2>2
<1>. QED BY <1>1, JobsStart, JobsKept, PTL DEF JobsSpec, CancelWins
====
