--------------------------- MODULE EngineSupervisor ---------------------------
(***************************************************************************)
(* The desktop app's embedded engine: a JVM child over one data directory  *)
(* (apps/reader/src-tauri/src/suwayomi.rs).  Two engines on one directory  *)
(* corrupt its store, so an app boots its engine only once it has created  *)
(* the lockfile there; the holder refreshes the file's mtime, and a file   *)
(* that stood still for LOCK_STALE_AFTER is taken over.                    *)
(*                                                                         *)
(* Each app runs one task, run_engine and then run_supervisor; its main    *)
(* thread only asks it to stop.  A system call on the lockfile is one      *)
(* step, so another app may act between any two.  The heartbeat keeps up   *)
(* unless the machine sleeps.  How long a backoff takes is abstracted, and *)
(* with it the restart accounting, which decides nothing else.             *)
(***************************************************************************)
EXTENDS Naturals, FiniteSets

CONSTANTS
    App,      \* desktop app instances over the same data directory
    None,     \* no lockfile
    Corpse,   \* the lockfile of a process that has gone
    Faults    \* what may go wrong, a subset of FaultKinds

FaultKinds == {"crash", "sleep", "exit", "boot", "io", "late"}

ASSUME EngineAssumption ==
    /\ None \notin App /\ Corpse \notin App /\ None # Corpse
    /\ Faults \subseteq FaultKinds

VARIABLES
    path,      \* whose file komika-suwayomi.lock is
    stale,     \* its mtime is older than LOCK_STALE_AFTER
    guard,     \* the apps that hold a LockGuard
    task,      \* where each app's supervision task stands; "off": no process
    stopping,  \* SuwayomiSupervisor.stopping of each app
    state,     \* Inner.state; Inner.port is Some just when it is "ready".
               \* "forced" is a Stopped that stop_and_wait wrote for the task
    jvm,       \* live children of each app
    orphans,   \* live engines whose app has gone, by the way it went: "killed", "forced"
               \* when its exit ran out of time, "leaked" when it did not
    misjudged  \* history: which kinds of wrong takeover there have been

lockVars == <<path, stale, guard>>
appVars == <<task, stopping, state, jvm>>
vars == <<lockVars, appVars, orphans, misjudged>>

Locking == {"check", "judge", "remove", "create", "retry"}
Supervising == {"start", "boot", "run", "backoff", "stop"}

TypeOK ==
    /\ path \in App \cup {None, Corpse}
    /\ stale \in BOOLEAN
    /\ guard \subseteq App
    /\ task \in [App -> Locking \cup Supervising \cup {"off", "over"}]
    /\ stopping \in [App -> BOOLEAN]
    /\ state \in [App -> {"starting", "ready", "degraded", "stopped", "forced"}]
    /\ jvm \in [App -> Nat]
    /\ orphans \subseteq {"killed", "forced", "leaked"}
    /\ misjudged \subseteq {"contested", "asleep"}

Init ==
    /\ path \in {None, Corpse} /\ stale = FALSE /\ guard = {}
    /\ task = [a \in App |-> "off"]
    /\ stopping = [a \in App |-> FALSE]
    /\ state = [a \in App |-> "stopped"]
    /\ jvm = [a \in App |-> 0]
    /\ orphans = {}
    /\ misjudged = {}

-----------------------------------------------------------------------------
(* run_engine: wait for the lock. *)

Goto(a, t) == task' = [task EXCEPT ![a] = t]
Report(a, s) == state' = [state EXCEPT ![a] = s]

(* The process starts; `start` spawns its task. *)
Launch(a) ==
    /\ task[a] = "off"
    /\ Goto(a, "check")
    /\ Report(a, "starting")
    /\ stopping' = [stopping EXCEPT ![a] = FALSE]
    /\ UNCHANGED <<lockVars, jvm, orphans, misjudged>>

(* Mutant: the file is opened with create instead of create_new. *)
TakePathMutShared(a) ==
    /\ path' = a /\ stale' = FALSE /\ guard' = guard \cup {a}
    /\ Goto(a, "start")
    /\ UNCHANGED state

(* create_lock_file succeeds: the path is free, and the guard is kept. *)
TakePath(a) ==
    /\ path = None
    /\ path' = a /\ stale' = FALSE /\ guard' = guard \cup {a}
    /\ Goto(a, "start")
    /\ UNCHANGED state

(* Mutant: a refused launch cleans up the path. *)
RefusedMutUnlink(a) ==
    /\ Goto(a, "retry")
    /\ Report(a, "degraded")
    /\ path' = None /\ stale' = FALSE
    /\ UNCHANGED guard

(* acquire_lock returns an error: reported as Degraded, retried later. *)
Refused(a) ==
    /\ Goto(a, "retry")
    /\ Report(a, "degraded")
    /\ UNCHANGED lockVars

(* The task ends in Stopped. *)
Over(a) == Goto(a, "over") /\ Report(a, "stopped")

Acquire(a) ==
    /\ task[a] = "check"
    /\ \/ stopping[a] /\ Over(a) /\ UNCHANGED lockVars
       \/ ~stopping[a] /\ TakePath(a)
       \/ ~stopping[a] /\ path # None /\ Goto(a, "judge") /\ UNCHANGED <<lockVars, state>>
    /\ UNCHANGED <<stopping, jvm, orphans, misjudged>>

(* The directory or the file cannot be created for another reason. *)
LockError(a) ==
    /\ "io" \in Faults
    /\ \/ task[a] = "check" /\ ~stopping[a]
       \/ task[a] = "create"
    /\ Refused(a)
    /\ UNCHANGED <<stopping, jvm, orphans, misjudged>>

(* Mutant: no lock is ever abandoned. *)
AbandonedMutNever(p) == FALSE

(* lock_is_abandoned: the mtime at the path, whoever's file that is now. *)
Abandoned(p) == p # None /\ stale

Judge(a) ==
    /\ task[a] = "judge"
    /\ IF Abandoned(path)
       THEN /\ Goto(a, "remove")
            /\ misjudged' = misjudged
                 \cup {k \in {"contested"} : \E b \in App : task[b] = "remove"}
                 \cup {k \in {"asleep"} : path \in App}
            /\ UNCHANGED <<lockVars, state>>
       ELSE Refused(a) /\ UNCHANGED misjudged
    /\ UNCHANGED <<stopping, jvm, orphans>>

(* remove_file: whatever is at the path by now. *)
Remove(a) ==
    /\ task[a] = "remove"
    /\ path' = None /\ stale' = FALSE
    /\ Goto(a, "create")
    /\ UNCHANGED <<guard, stopping, state, jvm, orphans, misjudged>>

Create(a) ==
    /\ task[a] = "create"
    /\ \/ TakePath(a)
       \/ path # None /\ Refused(a)
    /\ UNCHANGED <<stopping, jvm, orphans, misjudged>>

(* LOCK_RETRY passes, or the stop is seen first. *)
Retry(a) ==
    /\ task[a] = "retry"
    /\ IF stopping[a] THEN Over(a) ELSE Goto(a, "check") /\ UNCHANGED state
    /\ UNCHANGED <<lockVars, stopping, jvm, orphans, misjudged>>

-----------------------------------------------------------------------------
(* run_supervisor: boot, watch, back off. Every select prefers the stop. *)

(* boot_engine: a child is spawned and polled; a spawn that fails is a boot
   that fails. *)
Start(a) ==
    /\ task[a] = "start"
    /\ IF stopping[a]
       THEN Over(a) /\ UNCHANGED jvm
       ELSE /\ Goto(a, "boot")
            /\ Report(a, "starting")
            /\ jvm' = [jvm EXCEPT ![a] = @ + 1]
    /\ UNCHANGED <<lockVars, stopping, orphans, misjudged>>

(* What stop_child leaves of n children, or kill_on_drop of a dropped boot. *)
Reap(n) == IF n > 0 THEN n - 1 ELSE 0

BootOk(a) ==
    /\ task[a] = "boot" /\ ~stopping[a]
    /\ jvm[a] > 0
    /\ Goto(a, "run")
    /\ Report(a, "ready")
    /\ UNCHANGED <<lockVars, stopping, jvm, orphans, misjudged>>

(* The child has died, or did not answer in time: it is stopped. *)
BootFails(a) ==
    /\ task[a] = "boot" /\ ~stopping[a]
    /\ jvm[a] = 0 \/ "boot" \in Faults
    /\ jvm' = [jvm EXCEPT ![a] = Reap(@)]
    /\ Goto(a, "backoff")
    /\ Report(a, "degraded")
    /\ UNCHANGED <<lockVars, stopping, orphans, misjudged>>

(* A stop while booting: the future is dropped, and the child with it. *)
BootStopped(a) ==
    /\ task[a] = "boot" /\ stopping[a]
    /\ jvm' = [jvm EXCEPT ![a] = Reap(@)]
    /\ Over(a)
    /\ UNCHANGED <<lockVars, stopping, orphans, misjudged>>

NoticeExit(a) ==
    /\ task[a] = "run" /\ ~stopping[a]
    /\ jvm[a] = 0
    /\ Goto(a, "backoff")
    /\ Report(a, "degraded")
    /\ UNCHANGED <<lockVars, stopping, jvm, orphans, misjudged>>

(* A stop while the engine is up: SIGTERM, and SIGKILL after GRACE. *)
RunStopped(a) ==
    /\ task[a] = "run" /\ stopping[a]
    /\ Goto(a, "stop")
    /\ UNCHANGED <<lockVars, stopping, state, jvm, orphans, misjudged>>

StopChild(a) ==
    /\ task[a] = "stop"
    /\ jvm' = [jvm EXCEPT ![a] = Reap(@)]
    /\ Over(a)
    /\ UNCHANGED <<lockVars, stopping, orphans, misjudged>>

(* Mutant: a stop during the backoff is lost. *)
BackoffMutBlind(a) ==
    /\ task[a] = "backoff" /\ ~stopping[a]
    /\ Goto(a, "start")
    /\ UNCHANGED <<lockVars, stopping, state, jvm, orphans, misjudged>>

Backoff(a) ==
    /\ task[a] = "backoff"
    /\ IF stopping[a] THEN Over(a) ELSE Goto(a, "start") /\ UNCHANGED state
    /\ UNCHANGED <<lockVars, stopping, jvm, orphans, misjudged>>

-----------------------------------------------------------------------------
(* The rest of the process, and the machine. *)

(* The exit hook: stop_and_wait. *)
RequestStop(a) ==
    /\ task[a] # "off" /\ ~stopping[a]
    /\ stopping' = [stopping EXCEPT ![a] = TRUE]
    /\ UNCHANGED <<lockVars, task, state, jvm, orphans, misjudged>>

(* The task has not stopped when stop_and_wait has waited long enough. *)
Backstop(a) ==
    /\ "late" \in Faults
    /\ stopping[a] /\ task[a] # "off" /\ state[a] \notin {"stopped", "forced"}
    /\ Report(a, "forced")
    /\ UNCHANGED <<lockVars, task, stopping, jvm, orphans, misjudged>>

(* The process ends without its guard being dropped. *)
Leave(a) == IF path = a THEN Corpse ELSE path

(* The process ends with a child that nobody has stopped: kill_on_drop only runs when
   the Child is dropped. The engine lives on, over the same data directory (known and
   open, NATIVE_ENGINE_STATUS_2026-07-27.md:194). *)
Orphaned(a, way) ==
    /\ orphans' = orphans \cup {w \in {way} : jvm[a] > 0}
    /\ jvm' = [jvm EXCEPT ![a] = 0]

(* stop_and_wait returns and the process ends, wherever its task is. Whether the
   guard is dropped on the way is up to the runtime; dropping it removes the
   path. *)
Exit(a) ==
    /\ stopping[a] /\ state[a] \in {"stopped", "forced"} /\ task[a] # "off"
    /\ path' \in {Leave(a)} \cup {p \in {None} : a \in guard}
    /\ stale' = (stale /\ path' = path)
    /\ guard' = guard \ {a}
    /\ Goto(a, "off")
    /\ Report(a, "stopped")
    /\ Orphaned(a, IF state[a] = "forced" THEN "forced" ELSE "leaked")
    /\ UNCHANGED <<stopping, misjudged>>

(* The process is killed. *)
Crash(a) ==
    /\ "crash" \in Faults
    /\ task[a] # "off"
    /\ path' = Leave(a)
    /\ guard' = guard \ {a}
    /\ Goto(a, "off")
    /\ Report(a, "stopped")
    /\ Orphaned(a, "killed")
    /\ UNCHANGED <<stale, stopping, misjudged>>

(* The last orphan of its kind exits, or its user kills it. *)
OrphanExits(way) ==
    /\ "exit" \in Faults
    /\ way \in orphans
    /\ orphans' = orphans \ {way}
    /\ UNCHANGED <<lockVars, appVars, misjudged>>

(* The engine exits on its own. *)
EngineExits(a) ==
    /\ "exit" \in Faults
    /\ jvm[a] > 0
    /\ jvm' = [jvm EXCEPT ![a] = @ - 1]
    /\ UNCHANGED <<lockVars, task, stopping, state, orphans, misjudged>>

(* run_lock_heartbeat: through the guard's handle, so that it reaches the path
   only while the path is still this app's file. *)
Beat(a) ==
    /\ a \in guard /\ task[a] # "off" /\ ~stopping[a]
    /\ path = a /\ stale
    /\ stale' = FALSE
    /\ UNCHANGED <<path, guard, appVars, orphans, misjudged>>

(* Nobody refreshes the file of a process that has gone. *)
Lapse ==
    /\ path = Corpse /\ ~stale
    /\ stale' = TRUE
    /\ UNCHANGED <<path, guard, appVars, orphans, misjudged>>

(* The machine sleeps for longer than LOCK_STALE_AFTER: the file's age counts
   the sleep, the timer of the heartbeat does not. *)
Sleep ==
    /\ "sleep" \in Faults
    /\ path \in App /\ ~stale
    /\ stale' = TRUE
    /\ UNCHANGED <<path, guard, appVars, orphans, misjudged>>

TaskStep(a) ==
    \/ Acquire(a) \/ LockError(a) \/ Judge(a) \/ Remove(a) \/ Create(a) \/ Retry(a)
    \/ Start(a) \/ BootOk(a) \/ BootFails(a) \/ BootStopped(a) \/ NoticeExit(a)
    \/ RunStopped(a) \/ StopChild(a) \/ Backoff(a)

Next ==
    \/ \E a \in App :
         \/ Launch(a) \/ TaskStep(a) \/ RequestStop(a) \/ Backstop(a) \/ Exit(a) \/ Crash(a)
         \/ EngineExits(a) \/ Beat(a)
    \/ \E way \in orphans : OrphanExits(way)
    \/ Lapse \/ Sleep

Spec == Init /\ [][Next]_vars

(* The task, its timers and the exit hook run; a corpse ages; and however often
   the file system or a boot fails, neither does so for ever. *)
FairSpec ==
    /\ Spec
    /\ \A a \in App : WF_vars(TaskStep(a)) /\ WF_vars(Exit(a))
    /\ \A a \in App : SF_vars(Acquire(a)) /\ SF_vars(BootOk(a))
    /\ WF_vars(Lapse)

-----------------------------------------------------------------------------
(* Properties *)

(* The supervised engines are at most one, over all apps, whatever crashes, restarts
   and races there are: that is what the lockfile is for, and only a takeover that
   misjudged the lock can break it. An engine beside it is an orphan, which the
   lockfile does not know of: of an app that was killed, or one whose exit ran into
   the deadline of stop_and_wait. An exit that waited for the task leaves none. *)
OneEngine ==
    misjudged = {} =>
        /\ \A a, b \in App : jvm[a] + jvm[b] > 0 =>
               IF a = b THEN jvm[a] = 1 ELSE jvm[a] = 0 \/ jvm[b] = 0
        /\ orphans \subseteq {"killed", "forced"}

(* "If a second launch is racing us for the same corpse, exactly one create_new
   wins; the loser reports the lock as held" (acquire_lock). *)
OneWinner == "asleep" \notin misjudged => Cardinality(guard) <= 1

(* An app whose task reports Stopped, on which the exit hook lets the process
   end, has no child left. *)
StoppedMeansGone == \A a \in App : state[a] = "stopped" => jvm[a] = 0

(* The lockfile of a running app is not taken from it: neither a takeover nor
   the exit of another app removes it. *)
LockNotStolen ==
    [][\A a \in App : path = a /\ path' # a => task'[a] = "off" \/ misjudged' # {}]_vars

(* An app that runs gets its engine, and one that fails or exits is brought
   back, until the stop, unless the app waits for another that has the lock:
   "neither a crash nor a live second instance can leave the engine permanently
   disabled". *)
Serving(a) == state[a] = "ready" /\ jvm[a] > 0
EngineComesBack ==
    \A a \in App : task[a] \in Locking \cup Supervising ~>
        (Serving(a) \/ stopping[a] \/ task[a] = "off" \/ (task[a] \in Locking /\ guard # {}))

(* The exit hook ends, wherever the task is when it asks. *)
StopsWhenTold == \A a \in App : stopping[a] ~> task[a] = "off"
=============================================================================
