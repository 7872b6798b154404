------------------------ MODULE EngineSupervisor_proofs ------------------------
(***************************************************************************)
(* Mutual exclusion by the lockfile of EngineSupervisor, for any number of *)
(* apps and any faults: it holds until a takeover misjudges the lock.      *)
(***************************************************************************)
EXTENDS EngineSupervisor, TLAPS

(* An app has at most one child, and none outside boot, run and stop. *)
Children ==
    \A a \in App : jvm[a] \in {0, 1} /\ (jvm[a] = 1 => task[a] \in {"boot", "run", "stop"})

(* Stopped is reported at the end only. *)
Reported == \A a \in App : state[a] = "stopped" => task[a] \in {"off", "over"}

(* A guard is held from the lock to the end of the process, and a file at the
   path that is not a corpse's is a guard's. *)
Guarded ==
    /\ \A a \in App : task[a] \in Supervising => a \in guard
    /\ \A a \in guard : task[a] \notin Locking /\ task[a] # "off"
    /\ path \in App => path \in guard

(* As long as no takeover has misjudged the lock: the path is the holder's, and
   whoever is about to remove it is alone and removes a corpse. *)
Exclusive ==
    misjudged = {} =>
        /\ \A a \in guard : path = a
        /\ \A a \in App : task[a] = "remove" => path = Corpse
        /\ \A a, b \in App : task[a] = "remove" /\ task[b] = "remove" => a = b

(* Every orphan is of a killed app or of an exit that ran out of time. *)
Excused == orphans \subseteq {"killed", "forced"}

IInv == TypeOK /\ Children /\ Reported /\ Guarded /\ Exclusive /\ Excused

-----------------------------------------------------------------------------
LEMMA JudgeFacts ==
    ASSUME NEW a \in App, Judge(a), misjudged' = {}
    PROVE  /\ misjudged = {}
           /\ Abandoned(path) =>
                 path \notin App /\ \A b \in App : task[b] # "remove"
<1>1. misjudged = {}
  BY Zenon DEF Judge
<1>2. ASSUME Abandoned(path), path \in App PROVE FALSE
  <2>1. "asleep" \in {k \in {"asleep"} : path \in App}
    BY <1>2
  <2>. QED BY <1>2, <2>1, Zenon DEF Judge
<1>3. ASSUME Abandoned(path), NEW b \in App, task[b] = "remove" PROVE FALSE
  <2>1. "contested" \in {k \in {"contested"} : \E c \in App : task[c] = "remove"}
    BY <1>3
  <2>. QED BY <1>3, <2>1, Zenon DEF Judge
<1>. QED BY <1>1, <1>2, <1>3

(* No step forgets a wrong takeover. *)
LEMMA MisjudgedStays == Next /\ misjudged' = {} => misjudged = {}
<1>. SUFFICES ASSUME Next, misjudged' = {} PROVE misjudged = {}
  OBVIOUS
<1>1. ASSUME NEW a \in App, Judge(a) PROVE misjudged = {}
  BY <1>1, JudgeFacts
<1>. QED
  BY <1>1, Zenon DEF Next, TaskStep, Launch, Acquire, LockError, Remove, Create, Retry, Start,
     BootOk, BootFails, BootStopped, NoticeExit, RunStopped, StopChild, Backoff,
     RequestStop, Backstop, Exit, Crash, EngineExits, OrphanExits, Beat, Lapse, Sleep

LEMMA Initially == Init => IInv
<1>. USE EngineAssumption
<1>. SUFFICES ASSUME Init PROVE IInv
  OBVIOUS
<1>1. TypeOK BY DEF Init, TypeOK
<1>2. Children /\ Reported BY DEF Init, Children, Reported
<1>3. Guarded BY DEF Init, Guarded, Locking, Supervising
<1>4. Exclusive BY DEF Init, Exclusive
<1>5. Excused BY DEF Init, Excused
<1>. QED BY <1>1, <1>2, <1>3, <1>4, <1>5 DEF IInv

LEMMA TypesKept == IInv /\ Next => TypeOK'
<1>. USE EngineAssumption
<1>. SUFFICES ASSUME IInv, Next PROVE TypeOK'
  OBVIOUS
<1>. USE DEF IInv, TypeOK, Locking, Supervising, Goto, Report
<1>1. ASSUME NEW a \in App, Launch(a) PROVE TypeOK'
  BY <1>1 DEF Launch, lockVars
<1>2. ASSUME NEW a \in App, Acquire(a) PROVE TypeOK'
  BY <1>2 DEF Acquire, TakePath, Over, lockVars
<1>3. ASSUME NEW a \in App, LockError(a) PROVE TypeOK'
  BY <1>3 DEF LockError, Refused, lockVars
<1>4. ASSUME NEW a \in App, Judge(a) PROVE TypeOK'
  BY <1>4 DEF Judge, Refused, lockVars
<1>5. ASSUME NEW a \in App, Remove(a) \/ Create(a) \/ Retry(a) PROVE TypeOK'
  BY <1>5 DEF Remove, Create, Retry, TakePath, Refused, Over, lockVars
<1>6. ASSUME NEW a \in App, Start(a) PROVE TypeOK'
  BY <1>6 DEF Start, Over, lockVars
<1>7. ASSUME NEW a \in App, BootOk(a) PROVE TypeOK'
  BY <1>7 DEF BootOk, lockVars
<1>8. ASSUME NEW a \in App, BootFails(a) PROVE TypeOK'
  BY <1>8 DEF BootFails, Reap, lockVars
<1>9. ASSUME NEW a \in App, BootStopped(a) PROVE TypeOK'
  BY <1>9 DEF BootStopped, Over, Reap, lockVars
<1>10. ASSUME NEW a \in App, NoticeExit(a) PROVE TypeOK'
  BY <1>10 DEF NoticeExit, lockVars
<1>11. ASSUME NEW a \in App, RunStopped(a) PROVE TypeOK'
  BY <1>11 DEF RunStopped, lockVars
<1>12. ASSUME NEW a \in App, StopChild(a) PROVE TypeOK'
  BY <1>12 DEF StopChild, Over, Reap, lockVars
<1>13. ASSUME NEW a \in App, Backoff(a) PROVE TypeOK'
  BY <1>13 DEF Backoff, Over, lockVars
<1>14. ASSUME NEW a \in App, RequestStop(a) \/ Backstop(a) PROVE TypeOK'
  BY <1>14 DEF RequestStop, Backstop, lockVars
<1>15. ASSUME NEW a \in App, Exit(a) PROVE TypeOK'
  BY <1>15 DEF Exit, Leave, Orphaned
<1>16. ASSUME NEW a \in App, Crash(a) PROVE TypeOK'
  BY <1>16 DEF Crash, Leave, Orphaned
<1>17. ASSUME NEW a \in App, EngineExits(a) PROVE TypeOK'
  BY <1>17 DEF EngineExits, lockVars
<1>18. ASSUME (\E a \in App : Beat(a)) \/ Lapse \/ Sleep \/ \E w \in orphans : OrphanExits(w)
       PROVE  TypeOK'
  BY <1>18 DEF Beat, Lapse, Sleep, OrphanExits, lockVars, appVars
<1>. QED BY <1>1, <1>2, <1>3, <1>4, <1>5, <1>6, <1>7, <1>8, <1>9,
         <1>10, <1>11, <1>12, <1>13, <1>14, <1>15, <1>16, <1>17, <1>18, Zenon
         DEF Next, TaskStep

LEMMA ChildrenKept == IInv /\ Next => Children' /\ Reported'
<1>. SUFFICES ASSUME IInv, Next PROVE Children' /\ Reported'
  OBVIOUS
<1>. USE DEF IInv, TypeOK, Children, Reported, Locking, Supervising, Goto, Report
<1>1. ASSUME NEW a \in App, Launch(a) PROVE Children' /\ Reported'
  BY <1>1 DEF Launch, lockVars
<1>2. ASSUME NEW a \in App, Acquire(a) PROVE Children' /\ Reported'
  BY <1>2 DEF Acquire, TakePath, Over, lockVars
<1>3. ASSUME NEW a \in App, LockError(a) \/ Judge(a) PROVE Children' /\ Reported'
  BY <1>3 DEF LockError, Judge, Refused, lockVars
<1>4. ASSUME NEW a \in App, Remove(a) \/ Create(a) \/ Retry(a) PROVE Children' /\ Reported'
  BY <1>4 DEF Remove, Create, Retry, TakePath, Refused, Over, lockVars
<1>5. ASSUME NEW a \in App, Start(a) PROVE Children' /\ Reported'
  BY <1>5 DEF Start, Over, lockVars
<1>6. ASSUME NEW a \in App, BootOk(a) \/ BootFails(a) PROVE Children' /\ Reported'
  BY <1>6 DEF BootOk, BootFails, Reap, lockVars
<1>7. ASSUME NEW a \in App, BootStopped(a) \/ NoticeExit(a) \/ RunStopped(a)
      PROVE  Children' /\ Reported'
  BY <1>7 DEF BootStopped, NoticeExit, RunStopped, Over, Reap, lockVars
<1>8. ASSUME NEW a \in App, StopChild(a) \/ Backoff(a) \/ RequestStop(a) \/ Backstop(a)
      PROVE  Children' /\ Reported'
  BY <1>8 DEF StopChild, Backoff, RequestStop, Backstop, Over, Reap, lockVars
<1>9. ASSUME NEW a \in App, Exit(a) \/ Crash(a) PROVE Children' /\ Reported'
  BY <1>9 DEF Exit, Crash, Orphaned
<1>10. ASSUME NEW a \in App, EngineExits(a) PROVE Children' /\ Reported'
  BY <1>10 DEF EngineExits, lockVars
<1>11. ASSUME (\E a \in App : Beat(a)) \/ Lapse \/ Sleep \/ \E w \in orphans : OrphanExits(w)
       PROVE  Children' /\ Reported'
  BY <1>11 DEF Beat, Lapse, Sleep, OrphanExits, appVars
<1>. QED BY <1>1, <1>2, <1>3, <1>4, <1>5, <1>6, <1>7, <1>8, <1>9, <1>10, <1>11, Zenon
         DEF Next, TaskStep

(* An exit that was not forced finds Stopped reported, and then no child is left. *)
LEMMA ExcusedKept == IInv /\ Next => Excused'
<1>. SUFFICES ASSUME IInv, Next PROVE Excused'
  OBVIOUS
<1>1. ASSUME NEW a \in App, Exit(a) PROVE Excused'
  <2>1. CASE state[a] = "forced"
    BY <1>1, <2>1 DEF IInv, Exit, Orphaned, Excused
  <2>2. CASE state[a] = "stopped"
    <3>1. jvm[a] = 0
      BY <2>2 DEF IInv, Children, Reported
    <3>2. orphans' = orphans \cup {w \in {"leaked"} : jvm[a] > 0}
      BY <1>1, <2>2 DEF Exit, Orphaned
    <3>3. {w \in {"leaked"} : jvm[a] > 0} = {}
      BY <3>1
    <3>. QED BY <3>2, <3>3 DEF IInv, Excused
  <2>. QED BY <1>1, <2>1, <2>2 DEF Exit
<1>2. ASSUME NEW a \in App, Crash(a) PROVE Excused'
  BY <1>2 DEF IInv, Crash, Orphaned, Excused
<1>3. ASSUME NEW w \in orphans, OrphanExits(w) PROVE Excused'
  BY <1>3 DEF IInv, OrphanExits, Excused
<1>4. ASSUME UNCHANGED orphans PROVE Excused'
  BY <1>4 DEF IInv, Excused
<1>. QED
  BY <1>1, <1>2, <1>3, <1>4, Zenon DEF Next, TaskStep, Launch, Acquire, LockError, Judge, Remove,
     Create, Retry, Start, BootOk, BootFails, BootStopped, NoticeExit, RunStopped, StopChild,
     Backoff, RequestStop, Backstop, EngineExits, Beat, Lapse, Sleep

-----------------------------------------------------------------------------
(* The lock. Steps of three kinds leave the path and the guards alone: those of
   the supervised task, those that only decide, and those of the clock. *)

Inside(a) ==
    \/ Start(a) \/ BootOk(a) \/ BootFails(a) \/ BootStopped(a) \/ NoticeExit(a)
    \/ RunStopped(a) \/ StopChild(a) \/ Backoff(a)

LEMMA InsideKeepsLock ==
    ASSUME IInv, NEW a \in App, Inside(a)
    PROVE  Guarded' /\ Exclusive'
<1>1. /\ UNCHANGED <<path, guard, misjudged>>
      /\ task[a] \in Supervising
      /\ task' = [task EXCEPT ![a] = task'[a]]
      /\ task'[a] \in Supervising \cup {"over"}
  BY DEF IInv, TypeOK, Inside, Start, BootOk, BootFails, BootStopped, NoticeExit, RunStopped,
     StopChild, Backoff, Over, Goto, lockVars, Supervising
<1>2. a \in guard
  BY <1>1 DEF IInv, Guarded
<1>3. Guarded'
  BY <1>1, <1>2 DEF IInv, TypeOK, Guarded, Supervising, Locking
<1>4. Exclusive'
  BY <1>1 DEF IInv, TypeOK, Exclusive, Supervising
<1>. QED BY <1>3, <1>4

Outside(a) ==
    \/ Launch(a) \/ RequestStop(a) \/ Backstop(a) \/ EngineExits(a) \/ Beat(a) \/ Retry(a)
    \/ LockError(a)

LEMMA OutsideKeepsLock ==
    ASSUME IInv, NEW a \in App, Outside(a)
    PROVE  Guarded' /\ Exclusive'
<1>1. /\ UNCHANGED <<path, guard, misjudged>>
      /\ task' = task
           \/ /\ task[a] \in Locking \cup {"off"}
              /\ task' = [task EXCEPT ![a] = task'[a]]
              /\ task'[a] \in {"check", "retry", "over"}
  BY DEF IInv, TypeOK, Outside, Launch, RequestStop, Backstop, EngineExits, Beat, Retry, LockError,
     Refused, Over, Goto, lockVars, appVars, Locking
<1>2. Guarded'
  BY <1>1 DEF IInv, TypeOK, Guarded, Supervising, Locking
<1>3. Exclusive'
  BY <1>1 DEF IInv, TypeOK, Exclusive
<1>. QED BY <1>2, <1>3

(* A path that was free becomes the only guard's. *)
LEMMA TakeKeepsLock ==
    ASSUME IInv, NEW a \in App, task[a] \in {"check", "create"}, TakePath(a),
           UNCHANGED misjudged
    PROVE  Guarded' /\ Exclusive'
<1>. USE EngineAssumption
<1>1. Guarded'
  BY DEF IInv, TypeOK, Guarded, TakePath, Goto, Supervising, Locking
<1>2. ASSUME misjudged' = {} PROVE guard = {} /\ \A b \in App : task[b] # "remove"
  BY <1>2 DEF IInv, TypeOK, Exclusive, TakePath
<1>3. Exclusive'
  BY <1>2 DEF IInv, TypeOK, Exclusive, TakePath, Goto
<1>. QED BY <1>1, <1>3

LEMMA LockKept == IInv /\ Next => Guarded' /\ Exclusive'
<1>. USE EngineAssumption
<1>. SUFFICES ASSUME IInv, Next PROVE Guarded' /\ Exclusive'
  OBVIOUS
<1>1. ASSUME NEW a \in App, Acquire(a) PROVE Guarded' /\ Exclusive'
  <2>1. CASE TakePath(a)
    BY <1>1, <2>1, TakeKeepsLock, Zenon DEF Acquire
  <2>2. CASE ~TakePath(a)
    BY <1>1, <2>2 DEF Acquire, IInv, TypeOK, Guarded, Exclusive, Over, Goto, lockVars,
       Supervising, Locking
  <2>. QED BY <2>1, <2>2
<1>2. ASSUME NEW a \in App, Judge(a) PROVE Guarded' /\ Exclusive'
  <2>1. /\ UNCHANGED <<path, guard>>
        /\ task[a] = "judge"
        /\ task' = [task EXCEPT ![a] = task'[a]]
        /\ task'[a] = "retry" \/ (Abandoned(path) /\ task'[a] = "remove")
    BY <1>2 DEF IInv, TypeOK, Judge, Refused, Goto, lockVars
  <2>2. Guarded'
    BY <2>1 DEF IInv, TypeOK, Guarded, Supervising, Locking
  <2>3. ASSUME misjudged' = {}, Abandoned(path) PROVE Exclusive'
    <3>1. path = Corpse /\ \A b \in App : task[b] # "remove"
      BY <1>2, <2>3, JudgeFacts DEF IInv, TypeOK, Abandoned
    <3>. QED BY <1>2, <2>1, <2>3, <3>1, JudgeFacts DEF IInv, TypeOK, Exclusive
  <2>4. ASSUME misjudged' = {}, ~Abandoned(path) PROVE Exclusive'
    BY <1>2, <2>1, <2>4, JudgeFacts DEF IInv, TypeOK, Exclusive
  <2>. QED BY <2>2, <2>3, <2>4 DEF Exclusive
<1>3. ASSUME NEW a \in App, Remove(a) PROVE Guarded' /\ Exclusive'
  BY <1>3 DEF Remove, IInv, TypeOK, Guarded, Exclusive, Goto, Supervising, Locking
<1>4. ASSUME NEW a \in App, Create(a) PROVE Guarded' /\ Exclusive'
  <2>1. CASE TakePath(a)
    BY <1>4, <2>1, TakeKeepsLock DEF Create
  <2>2. CASE ~TakePath(a)
    BY <1>4, <2>2 DEF Create, Refused, IInv, TypeOK, Guarded, Exclusive, Goto, lockVars,
       Supervising, Locking
  <2>. QED BY <2>1, <2>2
<1>5. ASSUME NEW a \in App, Exit(a) PROVE Guarded' /\ Exclusive'
  <2>1. Guarded'
    BY <1>5 DEF Exit, Leave, IInv, TypeOK, Guarded, Goto, Supervising, Locking
  <2>2. Exclusive'
    BY <1>5 DEF Exit, Leave, IInv, TypeOK, Exclusive, Goto
  <2>. QED BY <2>1, <2>2
<1>6. ASSUME NEW a \in App, Crash(a) PROVE Guarded' /\ Exclusive'
  <2>1. Guarded'
    BY <1>6 DEF Crash, Leave, IInv, TypeOK, Guarded, Goto, Supervising, Locking
  <2>2. Exclusive'
    BY <1>6 DEF Crash, Leave, IInv, TypeOK, Exclusive, Goto
  <2>. QED BY <2>1, <2>2
<1>7. ASSUME Lapse \/ Sleep \/ \E w \in orphans : OrphanExits(w) PROVE Guarded' /\ Exclusive'
  BY <1>7 DEF Lapse, Sleep, OrphanExits, IInv, Guarded, Exclusive, lockVars, appVars
<1>8. ASSUME NEW a \in App, Inside(a) \/ Outside(a) PROVE Guarded' /\ Exclusive'
  BY <1>8, InsideKeepsLock, OutsideKeepsLock
<1>. QED BY <1>1, <1>2, <1>3, <1>4, <1>5, <1>6, <1>7, <1>8, Zenon
         DEF Next, TaskStep, Inside, Outside

-----------------------------------------------------------------------------
THEOREM Invariant == Spec => []IInv
<1>1. Init => IInv
  BY Initially
<1>2. IInv /\ [Next]_vars => IInv'
  <2>1. ASSUME IInv, Next PROVE IInv'
    BY <2>1, TypesKept, ChildrenKept, LockKept, ExcusedKept DEF IInv
  <2>2. ASSUME IInv, UNCHANGED vars PROVE IInv'
    BY <2>2 DEF vars, lockVars, appVars, IInv, TypeOK, Children, Reported, Guarded, Exclusive, Excused
  <2>. QED BY <2>1, <2>2
<1>. QED BY <1>1, <1>2, PTL DEF Spec

(* Every variable of the supervisor and of the lockfile keeps its range; an app never
   has a negative number of children, whatever order a stop and an exit come in. *)
THEOREM EngineTypes == Spec => []TypeOK
  BY Invariant, PTL DEF IInv

(* No two supervised engines over one data directory until a takeover misjudges the
   lock: an app with a child holds a guard, and the path is the guard's. Any other engine
   there is the orphan of a killed app or of an exit that ran out of time. *)
THEOREM OneEngineOnly == Spec => []OneEngine
<1>1. IInv => OneEngine
  <2>3. IInv => orphans \subseteq {"killed", "forced"}
    BY DEF IInv, Excused
  <2>. SUFFICES ASSUME IInv, misjudged = {}, NEW a \in App, NEW b \in App, jvm[a] + jvm[b] > 0
                PROVE  IF a = b THEN jvm[a] = 1 ELSE jvm[a] = 0 \/ jvm[b] = 0
    BY <2>3 DEF OneEngine
  <2>1. jvm[a] \in {0, 1} /\ jvm[b] \in {0, 1}
    BY DEF IInv, Children
  <2>2. ASSUME jvm[a] = 1, jvm[b] = 1 PROVE a = b
    <3>1. a \in guard /\ b \in guard
      BY <2>2 DEF IInv, Children, Guarded, Supervising
    <3>. QED BY <3>1 DEF IInv, Exclusive
  <2>. QED BY <2>1, <2>2
<1>. QED BY <1>1, Invariant, PTL

(* When an app's task reports Stopped, on which the exit hook lets the process end, its
   child is gone. *)
THEOREM StoppedIsGone == Spec => []StoppedMeansGone
<1>1. IInv => StoppedMeansGone
  BY DEF IInv, Children, Reported, StoppedMeansGone
<1>. QED BY <1>1, Invariant, PTL

(* Neither the takeover of a corpse nor the exit of another app removes the
   lockfile of a running one. *)
THEOREM NotStolen == Spec => LockNotStolen
<1>1. ASSUME IInv, Next, NEW a \in App, path = a, path' # a, misjudged' = {}
      PROVE  task'[a] = "off"
  <2>. USE EngineAssumption
  <2>1. misjudged = {}
    BY <1>1, MisjudgedStays
  <2>2. \A b \in App : task[b] # "remove"
    BY <1>1, <2>1 DEF IInv, Exclusive
  <2>3. PICK b \in App : Exit(b) \/ Crash(b) \/ TakePath(b)
    BY <1>1, <2>2, Zenon DEF Next, TaskStep, Launch, Acquire, LockError, Refused, Judge, Remove,
       Create, Retry, Inside, Start, BootOk, BootFails, BootStopped, NoticeExit, RunStopped,
       StopChild, Backoff, RequestStop, Backstop, EngineExits, OrphanExits, Beat, Lapse, Sleep,
       lockVars, appVars
  <2>4. b = a
    BY <1>1, <2>1, <2>3 DEF IInv, Exclusive, Exit, Crash, TakePath, Leave
  <2>5. Exit(a) \/ Crash(a)
    BY <1>1, <2>3, <2>4 DEF TakePath
  <2>. QED BY <1>1, <2>5 DEF IInv, TypeOK, Exit, Crash, Goto
<1>2. ASSUME IInv, [Next]_vars
      PROVE  [\A a \in App : path = a /\ path' # a => task'[a] = "off" \/ misjudged' # {}]_vars
  BY <1>1, <1>2 DEF vars, lockVars
<1>. QED BY <1>2, Invariant, PTL DEF Spec, LockNotStolen
=============================================================================
