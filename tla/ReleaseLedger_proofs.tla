------------------------- MODULE ReleaseLedger_proofs -------------------------
(***************************************************************************)
(* The release ledger of ReleaseLedger, for any number of series, works,   *)
(* chapters and dates: nothing it records is dated in the future, no       *)
(* merge, split or deletion announces a chapter again, and it implements   *)
(* the book of FirstReleases.                                              *)
(***************************************************************************)
EXTENDS ReleaseLedger, WellFoundedInduction, TLAPS

(* A row of release_event has a date: NoEvent alone has none, so that a change
   of its source never makes a row of nothing. *)
Dated == \A w \in Work, k \in Key : event[w][k].at = 0 => event[w][k] = NoEvent

(* The series whose list is about to be written is a row there is: its deletion
   is noticed by the foreign key. *)
Draining ==
    worker.at = "write" /\ worker.series # Gone => workOf[worker.series] # NoWork

IInv == TypeOK /\ NoFutureEvents /\ Dated /\ Draining

(* What an insertion for work w from these sources does to the ledger. *)
Inserted(w, sources) ==
    /\ event' \in [Work -> [Key -> Event]]
    /\ \A v \in Work, k \in Key : v # w => event'[v][k] = event[v][k]
    /\ \A k \in Key : Recorded(w, k) => event'[w][k] = event[w][k]
    /\ \A k \in Key : ~Recorded(w, k) =>
         event'[w][k] = NoEvent \/ (sources # {} /\ event'[w][k].at \in 1..now)

-----------------------------------------------------------------------------
Earliest(S, f, i) == \A j \in S : f[i] <= f[j]

(* Some element has the least rank. *)
LEMMA HasEarliest ==
    ASSUME NEW S, S # {}, NEW f \in [S -> Nat]
    PROVE  \E i \in S : Earliest(S, f, i)
<1>. DEFINE R == {f[i] : i \in S}
<1>1. R \subseteq Nat /\ R # {}
  OBVIOUS
<1>2. PICK r \in R : \A q \in R : ~(<<q, r>> \in OpToRel(<, Nat))
  <2>. HIDE DEF R
  <2>. QED BY <1>1, NatLessThanWellFounded, WFMin
<1>3. \A q \in R : ~(q < r)
  BY <1>1, <1>2 DEF OpToRel
<1>4. PICK i \in S : f[i] = r
  OBVIOUS
<1>5. \A j \in S : f[j] \in R /\ f[j] \in Nat
  OBVIOUS
<1>6. \A j \in S : ~(f[j] < f[i])
  BY <1>3, <1>4, <1>5
<1>7. \A j \in S : f[i] <= f[j]
  BY <1>5, <1>6
<1>. QED BY <1>7 DEF Earliest

-----------------------------------------------------------------------------
(* seed_work and record_source_series: among finitely many sources one is the
   earliest, and the date it brings is past. *)

LEMMA InsertFacts ==
    ASSUME TypeOK, NEW w \in Work, NEW sources \in SUBSET Series, Insert(w, sources)
    PROVE  Inserted(w, sources)
<1>. USE ReleaseLedgerAssumption
<1>. DEFINE From(k) == {s \in sources : Seedable(s, k)}
            First(k) == CHOOSE s \in From(k) : \A t \in From(k) : Date[s][k] <= Date[t][k]
            Row(k) == IF Recorded(w, k) \/ From(k) = {} THEN event[w][k]
                      ELSE [at |-> Date[First(k)][k], by |-> First(k)]
<1>1. event' = [event EXCEPT ![w] = [k \in Key |-> Row(k)]]
  BY DEF Insert, TypeOK
<1>2. ASSUME NEW k \in Key, From(k) # {} PROVE First(k) \in From(k)
  <2>1. From(k) \subseteq Series
    OBVIOUS
  <2>. DEFINE f == [s \in From(k) |-> Date[s][k]]
  <2>2. f \in [From(k) -> Nat]
    BY <2>1
  <2>3. \E s \in From(k) : Earliest(From(k), f, s)
    <3>. HIDE DEF From, f
    <3>. QED BY <1>2, <2>1, <2>2, HasEarliest
  <2>4. \E s \in From(k) : \A t \in From(k) : Date[s][k] <= Date[t][k]
    <3>1. PICK s \in From(k) : Earliest(From(k), f, s)
      BY <2>3
    <3>2. \A t \in From(k) : f[s] <= f[t]
      BY <3>1 DEF Earliest
    <3>. HIDE DEF From
    <3>. QED BY <3>2
  <2>. HIDE DEF From
  <2>. QED BY <2>4
<1>3. ASSUME NEW k \in Key
      PROVE  \/ Row(k) = event[w][k]
             \/ /\ ~Recorded(w, k) /\ sources # {}
                /\ Row(k) \in Event /\ Row(k).at \in 1..now
  <2>1. CASE Recorded(w, k) \/ From(k) = {}
    BY <2>1
  <2>2. CASE ~Recorded(w, k) /\ From(k) # {}
    <3>1. First(k) \in Series /\ Seedable(First(k), k)
      BY <2>2, <1>2
    <3>2. Date[First(k)][k] \in Nat /\ Date[First(k)][k] \in 1..now
      <4>. HIDE DEF First
      <4>. QED BY <3>1 DEF Seedable, TypeOK
    <3>3. Row(k) = [at |-> Date[First(k)][k], by |-> First(k)]
      BY <2>2
    <3>4. sources # {}
      BY <2>2
    <3>. HIDE DEF First, Row
    <3>. QED BY <3>1, <3>2, <3>3, <3>4, <2>2 DEF Event
  <2>. QED BY <2>1, <2>2
<1>. HIDE DEF Row
<1>4. event \in [Work -> [Key -> Event]]
  BY DEF TypeOK
<1>5. \A k \in Key : event'[w][k] = Row(k)
  BY <1>1, <1>4
<1>6. \A k \in Key : Row(k) \in Event
  BY <1>3, <1>4
<1>7. event' \in [Work -> [Key -> Event]]
  BY <1>1, <1>4, <1>6
<1>8. \A v \in Work, k \in Key : v # w => event'[v][k] = event[v][k]
  BY <1>1, <1>4
<1>. QED BY <1>3, <1>5, <1>7, <1>8 DEF Inserted, Recorded

(* Both callers. *)
LEMMA RecordFacts ==
    ASSUME TypeOK, NEW s \in Series, RecordSeries(s)
    PROVE  IF workOf[s] = NoWork THEN event' = event ELSE Inserted(workOf[s], {s})
<1>1. workOf[s] # NoWork => workOf[s] \in works /\ workOf[s] \in Work
  BY DEF TypeOK
<1>. QED BY <1>1, InsertFacts DEF RecordSeries

-----------------------------------------------------------------------------
(* Type correctness, with the reachable shapes of chapters and worker. *)

LEMMA InitTypeOK == Init => TypeOK
<1>. USE ReleaseLedgerAssumption
<1>. SUFFICES ASSUME Init PROVE TypeOK
  OBVIOUS
<1>1. event \in [Work -> [Key -> Event]]
  BY DEF Init, Event, NoEvent
<1>2. worker \in WorkerStates
  BY DEF Init, WorkerStates, Boot
<1>. QED BY <1>1, <1>2 DEF Init, TypeOK

(* The steps that change the library or the ledger. *)
LEMMA MergeTypeOK ==
    ASSUME TypeOK, NEW v \in Work, NEW w \in Work, Merge(v, w)
    PROVE  TypeOK'
<1>. USE ReleaseLedgerAssumption DEF Merge, library, chapters
<1>1. works' \subseteq Work /\ workOf' \in [Series -> works' \cup {NoWork}]
  BY DEF TypeOK
<1>2. \A k \in Key : Earlier(event[w][k], event[v][k]) \in Event /\ NoEvent \in Event
  BY DEF TypeOK, Earlier, Event, NoEvent
<1>3. event \in [Work -> [Key -> Event]] /\ v # w
  BY DEF TypeOK
<1>4. event' \in [Work -> [Key -> Event]]
  BY <1>2, <1>3
<1>5. \A u \in Work \ works', k \in Key : event'[u][k] = NoEvent
  <2>1. \A k \in Key : event'[v][k] = NoEvent
    BY <1>3
  <2>2. \A u \in Work \ {v, w} : event'[u] = event[u]
    BY <1>3
  <2>. QED BY <2>1, <2>2 DEF TypeOK
<1>6. \A s \in Series : workOf'[s] = NoWork => workOf[s] = NoWork
  BY DEF TypeOK
<1>. QED BY <1>1, <1>4, <1>5, <1>6 DEF TypeOK

LEMMA SplitTypeOK ==
    ASSUME TypeOK, NEW w \in Work, NEW detached \in SUBSET Series, NEW v \in Work,
           Split(w, detached, v)
    PROVE  TypeOK'
<1>. USE ReleaseLedgerAssumption DEF library, chapters
<1>. DEFINE Leaves(k) == /\ event[w][k].by \in detached
                         /\ \A s \in SourcesOf(w) \ detached : k \notin spine[s]
<1>1. /\ detached # {} /\ detached \subseteq SourcesOf(w)
      /\ v \in Work \ works
      /\ works' = works \cup {v}
      /\ workOf' = [s \in Series |-> IF s \in detached THEN v ELSE workOf[s]]
      /\ event' = [event EXCEPT
               ![v] = [k \in Key |-> IF Leaves(k) THEN event[w][k] ELSE NoEvent],
               ![w] = [k \in Key |-> IF Leaves(k) THEN NoEvent ELSE event[w][k]]]
      /\ UNCHANGED <<now, chapters, writer, worker>>
  BY DEF Split
<1>2. works' \subseteq Work /\ workOf' \in [Series -> works' \cup {NoWork}]
  BY <1>1 DEF TypeOK
<1>3. event \in [Work -> [Key -> Event]] /\ NoEvent \in Event
  BY DEF TypeOK, Event, NoEvent
<1>. HIDE DEF Leaves
<1>4. event' \in [Work -> [Key -> Event]]
  <2>1. [k \in Key |-> IF Leaves(k) THEN event[w][k] ELSE NoEvent] \in [Key -> Event]
    BY <1>3
  <2>2. [k \in Key |-> IF Leaves(k) THEN NoEvent ELSE event[w][k]] \in [Key -> Event]
    BY <1>3
  <2>. QED BY <1>1, <1>3, <2>1, <2>2
<1>5. w \in works
  BY <1>1 DEF SourcesOf, TypeOK
<1>6. \A u \in Work \ works', k \in Key : event'[u][k] = NoEvent
  BY <1>1, <1>3, <1>5 DEF TypeOK
<1>7. \A s \in Series : workOf'[s] = NoWork => workOf[s] = NoWork
  BY <1>1, <1>2 DEF TypeOK
<1>. QED BY <1>1, <1>2, <1>4, <1>6, <1>7 DEF TypeOK

LEMMA DropTypeOK ==
    ASSUME TypeOK, NEW s \in Series, DropSeries(s)
    PROVE  TypeOK'
<1>. USE ReleaseLedgerAssumption DEF DropSeries, library, chapters
<1>1. works' = works /\ workOf' \in [Series -> works' \cup {NoWork}]
  BY DEF TypeOK
<1>2. \A w \in Work, k \in Key : event[w][k] \in Event
  BY DEF TypeOK
<1>3. \A e \in Event : [e EXCEPT !.by = Gone] \in Event /\ (e.by # s => e \in Event)
  BY DEF Event
<1>4. event' \in [Work -> [Key -> Event]]
  BY <1>2, <1>3
<1>5. \A w \in Work \ works', k \in Key : event'[w][k] = NoEvent
  BY <1>1 DEF TypeOK, NoEvent
<1>6. /\ {cache', spine', unkeyed'} \subseteq [Series -> SUBSET Key]
      /\ \A t \in Series :
           /\ spine'[t] \cap unkeyed'[t] = {}
           /\ workOf'[t] = NoWork => spine'[t] \cup unkeyed'[t] = {}
           /\ t \notin Suwayomi => cache'[t] = {}
  BY DEF TypeOK
<1>7. writer' \in [Series -> {"none", "cached", "written", "record"}]
  BY DEF TypeOK, Dangle
<1>8. worker' \in WorkerStates
  <2>1. CASE worker.at = "write" /\ worker.series = s
    <3>1. worker \in [at : {"write"}, series : Suwayomi \cup {Gone}, list : SUBSET Key]
      BY <2>1 DEF TypeOK, WorkerStates
    <3>. QED BY <2>1, <3>1 DEF Dangle, WorkerStates
  <2>2. CASE ~(worker.at = "write" /\ worker.series = s)
    BY <2>2 DEF Dangle, TypeOK
  <2>. QED BY <2>1, <2>2
<1>9. now' \in 1..MaxTime
  BY DEF TypeOK
<1>. QED BY <1>1, <1>4, <1>5, <1>6, <1>7, <1>8, <1>9 DEF TypeOK

(* An insertion keeps the rows of the ledger, and the works that have any. *)
LEMMA InsertedTypeOK ==
    ASSUME TypeOK, NEW w \in Work, NEW sources, Inserted(w, sources),
           w \in works \/ sources = {}
    PROVE  /\ event' \in [Work -> [Key -> Event]]
           /\ \A v \in Work \ works, k \in Key : event'[v][k] = NoEvent
<1>. QED BY DEF TypeOK, Inserted, Recorded

(* The steps of the worker. *)
LEMMA WorkerTypeOK ==
    ASSUME TypeOK, Draining, Worker
    PROVE  TypeOK'
<1>. USE ReleaseLedgerAssumption DEF library, chapters
<1>1. ASSUME NEW s \in Series, DrainKeys(s) PROVE TypeOK'
  BY <1>1 DEF DrainKeys, TypeOK
<1>2. ASSUME NEW s \in Series, DrainRead(s) PROVE TypeOK'
  <2>1. s \in Suwayomi /\ cache[s] \in SUBSET Key
    BY <1>2 DEF DrainRead, Unmaterialised, TypeOK
  <2>2. worker' \in WorkerStates
    BY <1>2, <2>1 DEF DrainRead, WorkerStates
  <2>. QED BY <1>2, <2>2 DEF DrainRead, TypeOK
<1>3. ASSUME DrainWrite PROVE TypeOK'
  <2>1. worker \in [at : {"write"}, series : Suwayomi \cup {Gone}, list : SUBSET Key]
    BY <1>3 DEF DrainWrite, TypeOK, WorkerStates
  <2>2. CASE worker.series = Gone
    BY <1>3, <2>2 DEF DrainWrite, TypeOK, WorkerStates, Idle
  <2>3. CASE worker.series # Gone
    <3>1. worker.series \in Suwayomi /\ workOf[worker.series] # NoWork /\ worker.list \in SUBSET Key
      BY <2>1, <2>3 DEF Draining
    <3>2. worker' \in WorkerStates
      BY <1>3, <2>3 DEF DrainWrite, WorkerStates, Pass
    <3>3. /\ spine' = [spine EXCEPT ![worker.series] = worker.list]
          /\ unkeyed' = [unkeyed EXCEPT ![worker.series] = {}]
          /\ UNCHANGED <<now, library, cache, event, writer>>
      BY <1>3, <2>3 DEF DrainWrite, Replace
    <3>. QED BY <3>1, <3>2, <3>3 DEF TypeOK
  <2>. QED BY <2>2, <2>3
<1>4. ASSUME NothingToDrain PROVE TypeOK'
  BY <1>4 DEF NothingToDrain, TypeOK, WorkerStates, Drained
<1>5. ASSUME SeedBatch PROVE TypeOK'
  <2>1. worker' \in WorkerStates
    BY <1>5 DEF SeedBatch, WorkerStates, Behind, TypeOK
  <2>. QED BY <1>5, <2>1 DEF SeedBatch, TypeOK
<1>6. ASSUME Nap \/ Wake PROVE TypeOK'
  BY <1>6 DEF Nap, Wake, TypeOK, WorkerStates, Idle, Pass
<1>7. ASSUME NEW w \in Work, SeedWork(w) PROVE TypeOK'
  <2>1. Inserted(w, SourcesOf(w))
    BY <1>7, InsertFacts DEF SeedWork, SourcesOf
  <2>2. w \in works \/ SourcesOf(w) = {}
    BY DEF TypeOK, SourcesOf
  <2>3. worker' \in WorkerStates
    <3>1. worker \in [at : {"seed"}, works : SUBSET Work]
      BY <1>7 DEF SeedWork, TypeOK, WorkerStates
    <3>. QED BY <1>7, <3>1 DEF SeedWork, WorkerStates, Pass
  <2>4. UNCHANGED <<now, library, chapters, writer>>
    BY <1>7 DEF SeedWork
  <2>. QED BY <2>1, <2>2, <2>3, <2>4, InsertedTypeOK DEF TypeOK
<1>. QED BY <1>1, <1>2, <1>3, <1>4, <1>5, <1>6, <1>7 DEF Worker

(* The steps of the writers, and what they may do wrong. *)
LEMMA WriterTypeOK ==
    ASSUME TypeOK, NEW s \in Series,
           Writer(s) \/ WriteSpineFails(s) \/ RecordFails(s)
    PROVE  TypeOK'
<1>. USE ReleaseLedgerAssumption DEF library, chapters, Goes
<1>. DEFINE Stages == {"none", "cached", "written", "record"}
<1>0. writer \in [Series -> Stages] /\ cache[s] \in SUBSET Key
  BY DEF TypeOK
<1>1. CASE WriteSpine(s)
  <2>1. writer' \in [Series -> Stages]
    BY <1>0, <1>1 DEF WriteSpine
  <2>2. UNCHANGED <<now, library, cache, event, worker>>
    BY <1>1 DEF WriteSpine
  <2>3. CASE workOf[s] = NoWork
    BY <1>1, <2>1, <2>2, <2>3 DEF WriteSpine, TypeOK
  <2>4. CASE workOf[s] # NoWork
    <3>1. spine' = [spine EXCEPT ![s] = cache[s]] /\ unkeyed' = [unkeyed EXCEPT ![s] = {}]
      BY <1>1, <2>4 DEF WriteSpine, Replace
    <3>2. spine' \in [Series -> SUBSET Key] /\ unkeyed' \in [Series -> SUBSET Key]
      BY <3>1, <1>0 DEF TypeOK
    <3>3. \A t \in Series : /\ spine'[t] \cap unkeyed'[t] = {}
                            /\ workOf'[t] = NoWork => spine'[t] \cup unkeyed'[t] = {}
                            /\ t \notin Suwayomi => cache'[t] = {}
      BY <3>1, <2>2, <2>4 DEF TypeOK
    <3>4. /\ now' \in 1..MaxTime /\ works' \subseteq Work
          /\ workOf' \in [Series -> works' \cup {NoWork}] /\ cache' \in [Series -> SUBSET Key]
          /\ event' \in [Work -> [Key -> Event]] /\ worker' \in WorkerStates
          /\ \A w \in Work \ works', k \in Key : event'[w][k] = NoEvent
      BY <2>2 DEF TypeOK
    <3>5. {cache', spine', unkeyed'} \subseteq [Series -> SUBSET Key]
      BY <3>2, <3>4
    <3>. QED BY Zenon, <2>1, <3>3, <3>4, <3>5 DEF TypeOK
  <2>. QED BY <2>3, <2>4
<1>2. CASE Gate(s)
  BY <1>2 DEF Gate, TypeOK
<1>3. CASE Record(s)
  <2>1. IF workOf[s] = NoWork THEN event' = event ELSE Inserted(workOf[s], {s})
    BY <1>3, RecordFacts DEF Record
  <2>2. UNCHANGED <<now, library, chapters, worker>> /\ writer' \in [Series -> {"none", "cached", "written", "record"}]
    BY <1>3 DEF Record, TypeOK
  <2>3. CASE workOf[s] = NoWork
    BY <2>1, <2>2, <2>3 DEF TypeOK
  <2>4. CASE workOf[s] # NoWork
    <3>1. workOf[s] \in works /\ workOf[s] \in Work
      BY <2>4 DEF TypeOK
    <3>. QED BY <2>1, <2>2, <2>4, <3>1, InsertedTypeOK DEF TypeOK
  <2>. QED BY <2>3, <2>4
<1>4. CASE WriteSpineFails(s) \/ RecordFails(s)
  <2>1. writer' \in [Series -> Stages] /\ UNCHANGED <<now, library, chapters, event, worker>>
    BY <1>0, <1>4 DEF WriteSpineFails, RecordFails
  <2>. QED BY <2>1 DEF TypeOK
<1>. QED BY <1>1, <1>2, <1>3, <1>4 DEF Writer

(* Every step. *)
LEMMA StepTypeOK ==
    ASSUME TypeOK, Draining, [Next]_vars
    PROVE  TypeOK'
<1>. USE ReleaseLedgerAssumption DEF library, chapters
<1>1. ASSUME NEW s \in Series, NEW k \in Key, UpsertChapter(s, k) PROVE TypeOK'
  BY <1>1 DEF UpsertChapter, Goes, TypeOK
<1>2. ASSUME NEW s \in Series, NEW list \in SUBSET Key, PutChapters(s, list) PROVE TypeOK'
  BY <1>2 DEF PutChapters, Goes, TypeOK
<1>3. CASE Clock
  BY <1>3 DEF Clock, TypeOK
<1>4. CASE PassFails \/ Crash
  BY <1>4 DEF PassFails, Crash, TypeOK, WorkerStates, Idle, Boot
<1>5. ASSUME NEW s \in Series, NEW w \in Work, MapSeries(s, w) PROVE TypeOK'
  BY <1>5 DEF MapSeries, TypeOK
<1>6. CASE UNCHANGED vars
  BY <1>6 DEF vars, TypeOK
<1>. QED
  BY <1>1, <1>2, <1>3, <1>4, <1>5, <1>6, WorkerTypeOK, WriterTypeOK, DropTypeOK, MergeTypeOK, SplitTypeOK
     DEF Next, Sources, Fault, Admin

-----------------------------------------------------------------------------
(* The ledger from one step to the next: what the properties rest on. *)

(* Only these steps write the ledger. *)
LedgerStep ==
    \/ \E s \in Series : Record(s) \/ DropSeries(s)
    \/ \E w \in Work : SeedWork(w)
    \/ \E v, w \in Work : Merge(v, w) \/ \E detached \in SUBSET Series : Split(w, detached, v)

LEMMA OtherSteps ==
    ASSUME [Next]_vars, ~LedgerStep
    PROVE  event' = event
<1>. USE DEF library, chapters
<1>1. CASE Sources
  BY <1>1 DEF Sources, UpsertChapter, PutChapters
<1>2. ASSUME NEW s \in Series, Writer(s) PROVE event' = event
  BY <1>2 DEF Writer, WriteSpine, Gate, LedgerStep
<1>3. CASE Worker
  BY <1>3 DEF Worker, DrainKeys, DrainRead, DrainWrite, NothingToDrain, SeedBatch, Nap, Wake, LedgerStep
<1>4. CASE Clock
  BY <1>4 DEF Clock
<1>5. CASE Fault
  BY <1>5 DEF Fault, PassFails, Crash, WriteSpineFails, RecordFails
<1>6. CASE Admin
  BY <1>6 DEF Admin, MapSeries, LedgerStep
<1>7. CASE UNCHANGED vars
  BY <1>7 DEF vars
<1>. QED BY <1>1, <1>2, <1>3, <1>4, <1>5, <1>6, <1>7 DEF Next

LEMMA TimePasses ==
    ASSUME TypeOK, [Next]_vars
    PROVE  now' \in Nat /\ now <= now'
<1>1. now \in Nat
  BY ReleaseLedgerAssumption DEF TypeOK
<1>2. now' = now \/ now' = now + 1
  BY DEF Next, Sources, Writer, Worker, Fault, Admin, UpsertChapter, PutChapters, WriteSpine, Gate,
         Record, DrainKeys, DrainRead, DrainWrite, NothingToDrain, SeedBatch, SeedWork, Nap, Wake,
         PassFails, Crash, WriteSpineFails, RecordFails, DropSeries, MapSeries, Merge, Split, Clock,
         vars, library, chapters
<1>. QED BY <1>1, <1>2

(* Each row of the ledger after a step has a date of before, or is new. *)
FreshOrOld(w, k) ==
    \/ event'[w][k] = NoEvent
    \/ event'[w][k].at \in 1..now
    \/ \E v \in Work : event'[w][k].at = event[v][k].at /\ Recorded(v, k)

LEMMA LedgerDates ==
    ASSUME TypeOK, Dated, [Next]_vars, NEW w \in Work, NEW k \in Key
    PROVE  FreshOrOld(w, k)
<1>. USE ReleaseLedgerAssumption
<1>0. event \in [Work -> [Key -> Event]] /\ \A v \in Work : event[v][k] \in Event
  BY DEF TypeOK
<1>1. ASSUME NEW v \in Work, NEW sources, Inserted(v, sources) PROVE FreshOrOld(w, k)
  BY <1>1 DEF Inserted, FreshOrOld, Recorded
<1>2. ASSUME event' = event PROVE FreshOrOld(w, k)
  BY <1>2 DEF FreshOrOld, Recorded
<1>3. ASSUME NEW s \in Series, Record(s) PROVE FreshOrOld(w, k)
  <2>1. IF workOf[s] = NoWork THEN event' = event ELSE Inserted(workOf[s], {s})
    BY <1>3, RecordFacts DEF Record
  <2>2. workOf[s] # NoWork => workOf[s] \in Work
    BY DEF TypeOK
  <2>. QED BY <1>1, <1>2, <2>1, <2>2
<1>4. ASSUME NEW s \in Series, DropSeries(s) PROVE FreshOrOld(w, k)
  <2>1. event'[w][k] = IF event[w][k].by = s THEN [event[w][k] EXCEPT !.by = Gone] ELSE event[w][k]
    BY <1>4 DEF DropSeries
  <2>2. event'[w][k].at = event[w][k].at
    BY <1>0, <2>1 DEF Event
  <2>3. ~Recorded(w, k) => event'[w][k] = NoEvent
    BY <2>1 DEF Recorded, NoEvent
  <2>. QED BY <2>2, <2>3 DEF FreshOrOld
<1>5. ASSUME NEW v \in Work, SeedWork(v) PROVE FreshOrOld(w, k)
  <2>1. Inserted(v, SourcesOf(v))
    BY <1>5, InsertFacts DEF SeedWork, SourcesOf
  <2>. QED BY <1>1, <2>1
<1>6. ASSUME NEW v \in Work, NEW u \in Work, Merge(v, u) PROVE FreshOrOld(w, k)
  BY <1>0, <1>6 DEF Merge, Earlier, FreshOrOld, Recorded
<1>7. ASSUME NEW v \in Work, NEW u \in Work, NEW detached \in SUBSET Series, Split(u, detached, v)
      PROVE  FreshOrOld(w, k)
  BY <1>0, <1>7 DEF Split, FreshOrOld, Recorded
<1>. QED BY <1>2, <1>3, <1>4, <1>5, <1>6, <1>7, OtherSteps DEF LedgerStep

(* The list that is about to be written keeps its row. *)
LEMMA StepDraining ==
    ASSUME TypeOK, Draining, [Next]_vars
    PROVE  Draining'
<1>. USE ReleaseLedgerAssumption DEF library, chapters
<1>1. ASSUME UNCHANGED worker, \A s \in Series : workOf[s] # NoWork => workOf'[s] # NoWork
      PROVE  Draining'
  BY <1>1 DEF Draining, TypeOK, WorkerStates
<1>2. ASSUME worker'.at # "write" PROVE Draining'
  BY <1>2 DEF Draining
<1>3. ASSUME NEW s \in Series, DrainRead(s) PROVE Draining'
  BY <1>3 DEF DrainRead, Unmaterialised, Draining
<1>4. ASSUME NEW s \in Series, DropSeries(s) PROVE Draining'
  <2>1. worker \in WorkerStates /\ workOf \in [Series -> works \cup {NoWork}]
    BY DEF TypeOK
  <2>2. CASE worker.at = "write" /\ worker.series = s
    <3>1. worker \in [at : {"write"}, series : Suwayomi \cup {Gone}, list : SUBSET Key]
      BY <2>1, <2>2 DEF WorkerStates
    <3>2. worker'.series = Gone
      BY <1>4, <2>2, <3>1 DEF DropSeries, Dangle
    <3>. QED BY <3>2 DEF Draining
  <2>3. CASE ~(worker.at = "write" /\ worker.series = s)
    <3>1. worker' = worker /\ \A t \in Series : t # s => workOf'[t] = workOf[t]
      BY <1>4, <2>1, <2>3 DEF DropSeries, Dangle
    <3>2. worker.at = "write" => worker.series \in Series \cup {Gone}
      BY <2>1 DEF WorkerStates
    <3>. QED BY <2>3, <3>1, <3>2 DEF Draining
  <2>. QED BY <2>2, <2>3
<1>5. ASSUME NEW s \in Series, NEW w \in Work, MapSeries(s, w) PROVE Draining'
  BY <1>5, <1>1 DEF MapSeries, TypeOK
<1>6. ASSUME NEW v \in Work, NEW w \in Work, Merge(v, w) PROVE Draining'
  BY <1>6, <1>1 DEF Merge, TypeOK
<1>7. ASSUME NEW v \in Work, NEW w \in Work, NEW detached \in SUBSET Series, Split(w, detached, v)
      PROVE  Draining'
  <2>1. \A s \in Series : workOf[s] # NoWork => workOf'[s] # NoWork
    BY <1>7 DEF Split, TypeOK
  <2>2. UNCHANGED worker
    BY <1>7 DEF Split
  <2>. QED BY <1>1, <2>1, <2>2
<1>8. CASE Worker /\ ~\E s \in Series : DrainRead(s)
  <2>1. ASSUME NEW w \in Work, SeedWork(w) PROVE worker'.at # "write"
    BY <2>1 DEF SeedWork, TypeOK, WorkerStates, Pass
  <2>2. ASSUME NEW s \in Series, DrainKeys(s) PROVE Draining'
    BY <2>2, <1>1 DEF DrainKeys
  <2>3. ASSUME DrainWrite \/ NothingToDrain \/ SeedBatch \/ Nap \/ Wake PROVE worker'.at # "write"
    BY <2>3 DEF DrainWrite, NothingToDrain, SeedBatch, Nap, Wake, Idle, Pass, Drained
  <2>. QED BY <1>2, <1>8, <2>1, <2>2, <2>3 DEF Worker
<1>9. CASE Sources \/ (\E s \in Series : Writer(s)) \/ Clock \/ (\E s \in Series : WriteSpineFails(s) \/ RecordFails(s))
  <2>1. UNCHANGED <<worker, library>>
    BY <1>9 DEF Sources, Writer, Clock, UpsertChapter, PutChapters, WriteSpine, Gate, Record,
                WriteSpineFails, RecordFails
  <2>. QED BY <1>1, <2>1
<1>10. CASE PassFails \/ Crash
  BY <1>2, <1>10 DEF PassFails, Crash, Idle, Boot
<1>11. CASE UNCHANGED vars
  BY <1>1, <1>11 DEF vars
<1>. QED
  BY <1>3, <1>4, <1>5, <1>6, <1>7, <1>8, <1>9, <1>10, <1>11 DEF Next, Fault, Admin

LEMMA Inductive == IInv /\ [Next]_vars => IInv'
<1>. SUFFICES ASSUME IInv, [Next]_vars PROVE IInv'
  OBVIOUS
<1>1. TypeOK' /\ Draining'
  BY StepTypeOK, StepDraining DEF IInv
<1>2. now \in Nat /\ now' \in Nat /\ now <= now'
  BY TimePasses, ReleaseLedgerAssumption DEF IInv, TypeOK
<1>3. ASSUME NEW w \in Work, NEW k \in Key
      PROVE  event'[w][k].at <= now' /\ (event'[w][k].at = 0 => event'[w][k] = NoEvent)
  <2>1. FreshOrOld(w, k)
    BY LedgerDates DEF IInv
  <2>2. CASE event'[w][k] = NoEvent
    BY <1>2, <2>2 DEF NoEvent
  <2>3. CASE event'[w][k].at \in 1..now
    BY <1>2, <2>3
  <2>4. CASE \E v \in Work : event'[w][k].at = event[v][k].at /\ Recorded(v, k)
    <3>1. PICK v \in Work : event'[w][k].at = event[v][k].at /\ Recorded(v, k)
      BY <2>4
    <3>2. event[v][k].at <= now /\ event[v][k].at # 0 /\ event[v][k].at \in Nat
      BY <3>1 DEF IInv, NoFutureEvents, Dated, Recorded, TypeOK, Event
    <3>. QED BY <1>2, <3>1, <3>2
  <2>. QED BY <2>1, <2>2, <2>3, <2>4 DEF FreshOrOld
<1>. QED BY <1>1, <1>3 DEF IInv, NoFutureEvents, Dated

LEMMA Initially == Init => IInv
<1>. SUFFICES ASSUME Init PROVE IInv
  OBVIOUS
<1>1. NoFutureEvents /\ Dated
  BY DEF Init, NoFutureEvents, Dated, NoEvent
<1>2. Draining
  BY DEF Init, Draining, Boot
<1>. QED BY <1>1, <1>2, InitTypeOK DEF IInv

-----------------------------------------------------------------------------
(* The theorems. *)

THEOREM Invariant == Spec => []IInv
BY Initially, Inductive, PTL DEF Spec

(* No row of the ledger is later than the clock (assert_no_future_events), with
   the types that the writers and the worker rely on: chapters of mapped series
   only, and no events of works that are gone. *)
THEOREM LedgerIsPast == Spec => [](TypeOK /\ NoFutureEvents)
<1>1. IInv => TypeOK /\ NoFutureEvents
  BY DEF IInv
<1>. QED BY <1>1, Invariant, PTL

(* What one step may not do to a chapter that stays on its source: be unrecorded
   for the work its source is of after the step. *)
LEMMA StaysAnnounced ==
    ASSUME IInv, [Next]_vars, NEW s \in Series, NEW k \in Key,
           k \in spine[s], workOf[s] # NoWork, Recorded(workOf[s], k),
           k \in spine'[s], workOf'[s] # NoWork,
           workOf'[s] = workOf[s] \/ workOf[s] \notin works'
    PROVE  event'[workOf'[s]][k] # NoEvent /\ event'[workOf'[s]][k].at <= event[workOf[s]][k].at
<1>. USE ReleaseLedgerAssumption
<1>. DEFINE w == workOf[s]
<1>1. /\ w \in works /\ w \in Work
      /\ \A v \in Work : event[v][k] \in Event /\ event[v][k].at \in Nat
      /\ event[w][k].at # 0 /\ NoEvent.at = 0
      /\ event \in [Work -> [Key -> Event]]
      /\ workOf \in [Series -> works \cup {NoWork}]
      /\ works \subseteq Work
  BY DEF IInv, TypeOK, Recorded, Dated, Event, NoEvent
<1>2. ASSUME event'[w][k] = event[w][k], works \subseteq works'
      PROVE  event'[workOf'[s]][k] # NoEvent /\ event'[workOf'[s]][k].at <= event[w][k].at
  BY <1>1, <1>2
<1>3. ASSUME NEW v \in Work, NEW sources, Inserted(v, sources) PROVE event'[w][k] = event[w][k]
  BY <1>1, <1>3 DEF Inserted
<1>4. ASSUME NEW t \in Series, Record(t) PROVE event'[w][k] = event[w][k] /\ works' = works
  <2>1. IF workOf[t] = NoWork THEN event' = event ELSE Inserted(workOf[t], {t})
    BY <1>4, RecordFacts DEF Record, IInv
  <2>2. workOf[t] # NoWork => workOf[t] \in Work
    BY <1>1
  <2>. QED BY <1>3, <1>4, <2>1, <2>2 DEF Record, library
<1>5. ASSUME NEW v \in Work, SeedWork(v) PROVE event'[w][k] = event[w][k] /\ works' = works
  <2>1. Inserted(v, SourcesOf(v))
    BY <1>5, InsertFacts DEF SeedWork, SourcesOf, IInv
  <2>. QED BY <1>3, <1>5, <2>1 DEF SeedWork, library
<1>6. ASSUME NEW t \in Series, DropSeries(t)
      PROVE  event'[workOf'[s]][k] # NoEvent /\ event'[workOf'[s]][k].at <= event[w][k].at
  <2>1. works' = works /\ event'[w][k].at = event[w][k].at /\ event'[w][k] # NoEvent
    <3>1. event'[w][k].at = event[w][k].at
      BY <1>1, <1>6 DEF DropSeries, Event
    <3>. QED BY <1>1, <1>6, <3>1 DEF DropSeries
  <2>. QED BY <1>1, <2>1
<1>7. ASSUME NEW v \in Work, NEW u \in Work, Merge(v, u)
      PROVE  event'[workOf'[s]][k] # NoEvent /\ event'[workOf'[s]][k].at <= event[w][k].at
  <2>1. workOf'[s] = IF w = v THEN u ELSE w
    BY <1>1, <1>7 DEF Merge
  <2>2. event'[u][k] = Earlier(event[u][k], event[v][k]) /\ v # u
    BY <1>1, <1>7 DEF Merge
  <2>3. CASE w \in {u, v}
    <3>1. event'[u][k] # NoEvent /\ event'[u][k].at <= event[w][k].at
      BY <1>1, <2>2, <2>3 DEF Earlier, Recorded
    <3>. QED BY <2>1, <2>3, <3>1
  <2>4. CASE w \notin {u, v}
    <3>1. event'[w][k] = event[w][k]
      BY <1>1, <1>7, <2>4 DEF Merge
    <3>. QED BY <1>1, <2>1, <2>4, <3>1
  <2>. QED BY <2>3, <2>4
<1>8. ASSUME NEW v \in Work, NEW u \in Work, NEW detached \in SUBSET Series, Split(u, detached, v)
      PROVE  event'[w][k] = event[w][k] /\ works \subseteq works'
  <2>1. works' = works \cup {v} /\ v \notin works /\ v # w
    BY <1>1, <1>8 DEF Split
  <2>2. workOf'[s] = w /\ s \notin detached
    BY <1>1, <1>8, <2>1 DEF Split
  <2>3. CASE w = u
    <3>1. s \in SourcesOf(u) \ detached /\ k \in spine[s]
      BY <2>2, <2>3 DEF SourcesOf
    <3>2. event'[u][k] = event[u][k]
      BY <1>1, <1>8, <2>1, <3>1 DEF Split
    <3>. QED BY <2>1, <2>3, <3>2
  <2>4. CASE w # u
    BY <1>1, <1>8, <2>1, <2>4 DEF Split
  <2>. QED BY <2>3, <2>4
<1>9. ASSUME ~LedgerStep PROVE event' = event /\ works \subseteq works'
  <2>1. works \subseteq works'
    BY <1>9 DEF LedgerStep, Next, Sources, Writer, Worker, Fault, Admin, UpsertChapter, PutChapters,
         WriteSpine, Gate, DrainKeys, DrainRead, DrainWrite, NothingToDrain, SeedBatch, Nap, Wake,
         PassFails, Crash, WriteSpineFails, RecordFails, MapSeries, Clock, vars, library, chapters
  <2>. QED BY <1>9, <2>1, OtherSteps
<1>. QED BY <1>1, <1>2, <1>4, <1>5, <1>6, <1>7, <1>8, <1>9 DEF LedgerStep

(* No merge, split or deletion, and no insertion of the worker or of a scan, makes
   a chapter new that a source of the work still has: merge_release_events keeps
   the earlier of two events and split_source_series leaves what stays. *)
THEOREM NoneIsReannounced == Spec => NeverReannounced
<1>. DEFINE Step == \A s \in Series, k \in Key :
         LET w == workOf[s]  v == workOf'[s] IN
         /\ k \in spine[s] /\ w # NoWork /\ Recorded(w, k)
         /\ k \in spine'[s] /\ v # NoWork /\ (v = w \/ w \notin works')
         => event'[v][k] # NoEvent /\ event'[v][k].at <= event[w][k].at
<1>1. IInv /\ [Next]_vars => [Step]_vars
  <2>. SUFFICES ASSUME IInv, [Next]_vars PROVE Step
    OBVIOUS
  <2>. QED BY StaysAnnounced
<1>2. Spec => [][Step]_vars
  <2>. HIDE DEF Step
  <2>. QED BY <1>1, Invariant, PTL DEF Spec
<1>. QED BY <1>2 DEF NeverReannounced

-----------------------------------------------------------------------------
(* The book. *)

(* What the book's entries owe to the invariant: a row has a date, a date has come, and
   a work that is gone has none. *)
BookFacts ==
    /\ event \in [Work -> [Key -> Event]] /\ works \subseteq Work /\ now \in Nat
    /\ \A w \in Work, k \in Key :
         /\ event[w][k] \in Event /\ event[w][k].at \in 0 .. now
         /\ Recorded(w, k) <=> event[w][k].at # 0
         /\ w \notin works => event[w][k].at = 0

LEMMA DatesAreReal == IInv => BookFacts
BY ReleaseLedgerAssumption
   DEF BookFacts, IInv, TypeOK, NoFutureEvents, Dated, Recorded, Event, NoEvent

(* An insertion enters dates. *)
LEMMA InsertionEnters ==
    ASSUME BookFacts, NEW w \in works, NEW sources, Inserted(w, sources), now' = now, works' = works
    PROVE  Book!Enter(w)
<1>. DEFINE dates == [k \in Key |-> event'[w][k].at]
<1>1. w \in Work /\ event' \in [Work -> [Key -> Event]]
  BY DEF BookFacts, Inserted
<1>2. dates \in [Key -> 0 .. now]
  <2>. SUFFICES ASSUME NEW k \in Key PROVE event'[w][k].at \in 0 .. now
    OBVIOUS
  <2>1. CASE Recorded(w, k)
    BY <1>1, <2>1 DEF Inserted, BookFacts
  <2>2. CASE ~Recorded(w, k)
    BY <1>1, <2>2 DEF Inserted, BookFacts, NoEvent
  <2>. QED BY <2>1, <2>2
<1>3. ASSUME NEW k \in Key, released[w][k] # 0 PROVE dates[k] = released[w][k]
  <2>1. released[w][k] = event[w][k].at
    BY <1>1 DEF released
  <2>2. Recorded(w, k)
    BY <1>1, <1>3, <2>1 DEF BookFacts
  <2>. QED BY <2>1, <2>2 DEF Inserted
<1>4. released' = [released EXCEPT ![w] = dates]
  <2>1. ASSUME NEW v \in Work PROVE released'[v] = [released EXCEPT ![w] = dates][v]
    <3>1. released'[v] = [k \in Key |-> event'[v][k].at]
      BY DEF released
    <3>2. CASE v = w
      BY <3>1, <3>2 DEF released
    <3>3. CASE v # w
      <4>1. released[v] = [k \in Key |-> event[v][k].at]
        BY DEF released
      <4>2. \A k \in Key : event'[v][k] = event[v][k]
        BY <3>3 DEF Inserted
      <4>3. released'[v] = released[v]
        BY <3>1, <4>1, <4>2
      <4>. QED BY <3>3, <4>3 DEF released
    <3>. QED BY <3>2, <3>3
  <2>. HIDE DEF dates
  <2>2. released' = [v \in Work |-> [released EXCEPT ![w] = dates][v]]
    BY <2>1 DEF released
  <2>. QED BY <2>2 DEF released
<1>. HIDE DEF dates
<1>. QED BY <1>2, <1>3, <1>4 DEF Book!Enter


(* A merge is an absorption: merge_release_events keeps the earlier date. *)
LEMMA MergeAbsorbs ==
    ASSUME BookFacts, NEW v \in Work, NEW w \in Work, Merge(v, w)
    PROVE  Book!Next
<1>1. v \in works /\ w \in works /\ v # w /\ works' = works \ {v} /\ now' = now
  BY DEF Merge
<1>. DEFINE joined == [k \in Key |-> Book!Sooner(released[w][k], released[v][k])]
            book == [released EXCEPT ![w] = joined, ![v] = Book!Blank]
<1>2. ASSUME NEW u \in Work PROVE released'[u] = book[u]
  <2>1. released'[u] = [k \in Key |-> event'[u][k].at] /\ released[u] = [k \in Key |-> event[u][k].at]
    BY DEF released
  <2>2. CASE u = v
    <3>1. \A k \in Key : event'[v][k] = NoEvent
      BY <1>1 DEF Merge, BookFacts
    <3>2. released'[u] = Book!Blank
      BY <2>1, <2>2, <3>1 DEF NoEvent, Book!Blank
    <3>. QED BY <1>1, <2>2, <3>2 DEF released
  <2>3. CASE u = w
    <3>1. \A k \in Key : event'[w][k] = Earlier(event[w][k], event[v][k])
      BY <1>1 DEF Merge, BookFacts
    <3>2. ASSUME NEW k \in Key PROVE event'[w][k].at = Book!Sooner(released[w][k], released[v][k])
      <4>1. released[w][k] = event[w][k].at /\ released[v][k] = event[v][k].at
        BY DEF released
      <4>2. /\ event[w][k] = NoEvent <=> event[w][k].at = 0
            /\ event[v][k] = NoEvent <=> event[v][k].at = 0
        BY DEF BookFacts, Recorded
      <4>. QED BY <3>1, <4>1, <4>2 DEF Earlier, Book!Sooner
    <3>3. released'[u] = joined
      BY <2>1, <2>3, <3>2
    <3>. QED BY <1>1, <2>3, <3>3 DEF released
  <2>4. CASE u # v /\ u # w
    <3>1. \A k \in Key : event'[u][k] = event[u][k]
      BY <2>4 DEF Merge, BookFacts
    <3>2. released'[u] = released[u]
      BY <2>1, <3>1
    <3>. QED BY <2>4, <3>2 DEF released
  <2>. QED BY <2>2, <2>3, <2>4
<1>3. released' = book
  <2>. HIDE DEF joined
  <2>1. released' = [u \in Work |-> released'[u]] /\ book = [u \in Work |-> book[u]]
    BY DEF released
  <2>. QED BY <1>2, <2>1
<1>4. Book!Absorb(v, w)
  BY <1>1, <1>3 DEF Book!Absorb
<1>. QED BY <1>1, <1>4 DEF Book!Next

(* A split takes along the dates of chapters only the detached sources have, if these
   sources won them. *)
LEMMA SplitDetaches ==
    ASSUME BookFacts, NEW w \in Work, NEW v \in Work, NEW detached \in SUBSET Series,
           Split(w, detached, v), w \in works
    PROVE  Book!Next
<1>. DEFINE taken == {k \in Key : /\ event[w][k].by \in detached
                                 /\ \A s \in SourcesOf(w) \ detached : k \notin spine[s]}
            part == [k \in Key |-> IF k \in taken THEN released[w][k] ELSE 0]
            whole == [k \in Key |-> IF k \in taken THEN 0 ELSE released[w][k]]
            book == [released EXCEPT ![v] = part, ![w] = whole]
<1>1. v \notin works /\ w # v /\ works' = works \cup {v} /\ now' = now
  BY DEF Split
<1>2. /\ event' = [event EXCEPT
             ![v] = [k \in Key |-> IF k \in taken THEN event[w][k] ELSE NoEvent],
             ![w] = [k \in Key |-> IF k \in taken THEN NoEvent ELSE event[w][k]]]
  BY DEF Split
<1>. HIDE DEF taken
<1>3. ASSUME NEW u \in Work PROVE released'[u] = book[u]
  <2>1. released'[u] = [k \in Key |-> event'[u][k].at] /\ released[u] = [k \in Key |-> event[u][k].at]
    BY DEF released
  <2>2. CASE u = v
    <3>1. ASSUME NEW k \in Key PROVE event'[v][k].at = part[k]
      BY <1>1, <1>2 DEF BookFacts, NoEvent, released
    <3>2. released'[u] = part
      BY <2>1, <2>2, <3>1
    <3>. QED BY <1>1, <2>2, <3>2 DEF released
  <2>3. CASE u = w
    <3>1. ASSUME NEW k \in Key PROVE event'[w][k].at = whole[k]
      BY <1>1, <1>2 DEF BookFacts, NoEvent, released
    <3>2. released'[u] = whole
      BY <2>1, <2>3, <3>1
    <3>. QED BY <1>1, <2>3, <3>2 DEF released
  <2>4. CASE u # v /\ u # w
    <3>1. \A k \in Key : event'[u][k] = event[u][k]
      BY <1>2, <2>4 DEF BookFacts
    <3>2. released'[u] = released[u]
      BY <2>1, <3>1
    <3>. QED BY <2>4, <3>2 DEF released
  <2>. QED BY <2>2, <2>3, <2>4
<1>4. released' = book
  <2>. HIDE DEF part, whole
  <2>1. released' = [u \in Work |-> released'[u]] /\ book = [u \in Work |-> book[u]]
    BY DEF released
  <2>. QED BY <1>3, <2>1
<1>5. Book!Detach(w, v, taken) /\ taken \in SUBSET Key
  BY <1>1, <1>4 DEF Book!Detach, taken
<1>. QED BY <1>5 DEF Book!Next

(* What leaves the events alone, or changes only which source brought them, leaves the
   dates alone. *)
LEMMA SameDates ==
    ASSUME \A w \in Work, k \in Key : event'[w][k].at = event[w][k].at
    PROVE  released' = released
BY DEF released

(* The steps that write no events: a mapping may found a work, the clock ends a day. *)
LEMMA BookRests ==
    ASSUME [Next]_vars, ~LedgerStep
    PROVE  \/ \E w \in Work : Book!Found(w) /\ w \notin works
           \/ Book!Day
           \/ UNCHANGED <<now, works, released>>
<1>1. released' = released
  <2>1. event' = event
    BY OtherSteps
  <2>. QED BY <2>1 DEF released
<1>. USE DEF library, chapters
<1>2. CASE Sources
  BY <1>1, <1>2 DEF Sources, UpsertChapter, PutChapters
<1>3. ASSUME NEW s \in Series, Writer(s) PROVE UNCHANGED <<now, works>>
  BY <1>3 DEF Writer, WriteSpine, Gate, LedgerStep
<1>4. CASE Worker
  BY <1>1, <1>4 DEF Worker, DrainKeys, DrainRead, DrainWrite, NothingToDrain, SeedBatch, Nap, Wake, LedgerStep
<1>5. CASE Clock
  BY <1>1, <1>5 DEF Clock, Book!Day
<1>6. CASE Fault
  BY <1>1, <1>6 DEF Fault, PassFails, Crash, WriteSpineFails, RecordFails
<1>7. CASE Admin
  <2>1. PICK s \in Series, w \in Work : MapSeries(s, w)
    BY <1>7 DEF Admin, LedgerStep
  <2>2. works' = works \cup {w} /\ now' = now
    BY <2>1 DEF MapSeries
  <2>3. CASE w \in works
    BY <1>1, <2>2, <2>3
  <2>4. CASE w \notin works
    BY <1>1, <2>2, <2>4 DEF Book!Found
  <2>. QED BY <2>3, <2>4
<1>8. CASE UNCHANGED vars
  BY <1>1, <1>8 DEF vars
<1>. QED BY <1>1, <1>2, <1>3, <1>4, <1>5, <1>6, <1>7, <1>8 DEF Next

LEMMA BookStep == IInv /\ [Next]_vars => [Book!Next]_<<now, works, released>>
<1>. SUFFICES ASSUME IInv, [Next]_vars PROVE Book!Next \/ UNCHANGED <<now, works, released>>
  OBVIOUS
<1>1. BookFacts
  BY DatesAreReal
<1>2. ASSUME NEW w \in works, NEW sources, Inserted(w, sources), now' = now, works' = works
      PROVE  Book!Next
  BY <1>1, <1>2, InsertionEnters DEF Book!Next
<1>3. ASSUME NEW s \in Series, Record(s) PROVE Book!Next \/ UNCHANGED <<now, works, released>>
  <2>1. now' = now /\ works' = works
    BY <1>3 DEF Record, library
  <2>2. IF workOf[s] = NoWork THEN event' = event ELSE Inserted(workOf[s], {s})
    BY <1>3, RecordFacts DEF Record, IInv
  <2>3. workOf[s] # NoWork => workOf[s] \in works
    BY DEF IInv, TypeOK
  <2>4. CASE workOf[s] = NoWork
    BY <2>1, <2>2, <2>4 DEF released
  <2>5. CASE workOf[s] # NoWork
    BY <1>2, <2>1, <2>2, <2>3, <2>5
  <2>. QED BY <2>4, <2>5
<1>4. ASSUME NEW w \in Work, SeedWork(w) PROVE Book!Next \/ UNCHANGED <<now, works, released>>
  <2>1. now' = now /\ works' = works
    BY <1>4 DEF SeedWork, library
  <2>2. Inserted(w, SourcesOf(w))
    BY <1>4, InsertFacts DEF SeedWork, SourcesOf, IInv
  <2>3. CASE w \in works
    BY <1>2, <2>1, <2>2, <2>3
  <2>4. CASE w \notin works
    <3>1. SourcesOf(w) = {}
      BY <2>4, ReleaseLedgerAssumption DEF SourcesOf, IInv, TypeOK
    <3>2. ASSUME NEW v \in Work, NEW k \in Key PROVE event'[v][k].at = event[v][k].at
      BY <1>1, <2>2, <2>4, <3>1 DEF Inserted, BookFacts, Recorded
    <3>. QED BY <2>1, <3>2, SameDates
  <2>. QED BY <2>3, <2>4
<1>5. ASSUME NEW s \in Series, DropSeries(s) PROVE UNCHANGED <<now, works, released>>
  <2>1. ASSUME NEW w \in Work, NEW k \in Key PROVE event'[w][k].at = event[w][k].at
    BY <1>1, <1>5 DEF DropSeries, BookFacts, Event
  <2>. QED BY <1>5, <2>1, SameDates DEF DropSeries
<1>6. ASSUME NEW w \in Work, NEW v \in Work, NEW detached \in SUBSET Series, Split(w, detached, v)
      PROVE  Book!Next
  <2>1. w \in works
    BY <1>6, ReleaseLedgerAssumption DEF Split, SourcesOf, IInv, TypeOK
  <2>. QED BY <1>1, <1>6, <2>1, SplitDetaches
<1>7. CASE LedgerStep
  BY <1>1, <1>3, <1>4, <1>5, <1>6, <1>7, MergeAbsorbs DEF LedgerStep
<1>8. CASE ~LedgerStep
  BY <1>8, BookRests DEF Book!Next
<1>. QED BY <1>7, <1>8

(* The ledger implements the book of FirstReleases for any number of series, works,
   chapters and dates: two sources and the worker enter a date once, merges and splits
   carry it along, and nothing else shows. *)
THEOREM BookIsKept == Spec => KeepsTheBook
<1>1. Init => Book!Init
  <2>. SUFFICES ASSUME Init PROVE Book!Init
    OBVIOUS
  <2>1. event = [w \in Work |-> [k \in Key |-> NoEvent]]
    BY DEF Init
  <2>2. released = [w \in Work |-> Book!Blank]
    BY <2>1 DEF released, NoEvent, Book!Blank
  <2>. QED BY <2>2 DEF Init, Book!Init
<1>. QED BY <1>1, BookStep, Invariant, PTL DEF Spec, KeepsTheBook, Book!Spec

================================================================================
