----------------------------- MODULE OfflineQueue -----------------------------
(***************************************************************************)
(* The native app's durable queue of library and progress writes           *)
(* (packages/api/src/offline-queue.ts), the CompositeBackend that feeds    *)
(* and drains it, and the auth layer that tells both who is signed in.     *)
(*                                                                         *)
(* A write is an identifier; what it says is abstracted, which target      *)
(* (chapter or series) it is about is not.  Steps are the synchronous      *)
(* blocks between two awaits of the JavaScript event loop: everything      *)
(* else interleaves, requests included, and a request may be applied by    *)
(* the server and still look failed to the client.                         *)
(***************************************************************************)
EXTENDS Naturals, FiniteSets

CONSTANTS
    User,        \* accounts
    Target,      \* chapters and series a write can address
    None,        \* nobody: signed out, or identity not validated yet
    MaxTries,    \* MAX_TRIES of offline-queue.ts (5 there)
    MaxWrites,   \* bound: writes made in a behaviour
    Drain        \* bound: drains that may be suspended at once

ASSUME OfflineQueueAssumption ==
    /\ None \notin User
    /\ None \notin Target
    /\ MaxTries \in Nat \ {0}
    /\ MaxWrites \in Nat

Write == 1 .. MaxWrites
Identity == User \cup {None}

(* An element of `ops`. The array order is the order of `ts`. *)
Op == [id : Write, owner : Identity, ts : Nat]

VARIABLES
    token,      \* bearer token the hosted backend sends, as the account it opens
    identity,   \* CompositeBackend.currentUserId
    ops,        \* OfflineWriteQueue.ops; persisted by every step that changes it
    clock,      \* ts of the latest enqueue
    tries,      \* tries of the op object of each write
    call,       \* the direct hosted call of each write
    drain,      \* suspended drain() calls and the op each is flushing
    writes,     \* number of writes made so far
    author,     \* account at the keyboard when the write was made
    target,     \* what the write addresses
    server,     \* hosted state: the last write applied, per account and target
    owed,       \* history: writes that entered the queue and have been neither applied,
                \* superseded, dropped as foreign nor dropped as poison
    displaced,  \* history: owed writes shifted off by a drain whose own op had gone
    crossed     \* history: writes whose direct call was in flight when the token changed

queueVars == <<ops, clock, tries>>
historyVars == <<owed, displaced, crossed>>
inputVars == <<writes, author, target>>
vars == <<token, identity, queueVars, call, drain, inputVars, server, historyVars>>

Idle == [phase |-> "idle", id |-> 0, owner |-> None, token |-> None]

TypeOK ==
    /\ token \in Identity
    /\ identity \in Identity
    /\ ops \subseteq Op
    /\ clock \in Nat
    /\ tries \in [Write -> Nat]
    /\ call \in [Write -> {"unsent", "sent", "applied", "done"}]
    /\ drain \in [Drain -> {Idle} \cup
          [phase : {"sent", "applied"}, id : Write, owner : Identity, token : Identity]]
    /\ writes \in 0 .. MaxWrites
    /\ author \in [Write -> Identity]
    /\ target \in [Write -> Target \cup {None}]
    /\ server \in [User -> [Target -> 0 .. MaxWrites]]
    /\ owed \subseteq Write
    /\ displaced \subseteq Write
    /\ crossed \subseteq Write

Init ==
    /\ token = None /\ identity = None
    /\ ops = {} /\ clock = 0
    /\ tries = [i \in Write |-> 0]
    /\ call = [i \in Write |-> "unsent"]
    /\ drain = [d \in Drain |-> Idle]
    /\ writes = 0
    /\ author = [i \in Write |-> None]
    /\ target = [i \in Write |-> None]
    /\ server = [u \in User |-> [t \in Target |-> 0]]
    /\ owed = {} /\ displaced = {} /\ crossed = {}

-----------------------------------------------------------------------------
(* The operations of OfflineWriteQueue. *)

Ids(q) == {o.id : o \in q}

(* ops[0]: the oldest pending op (a singleton, as ts are distinct). *)
Heads(q) == {o \in q : \A p \in q : o.ts <= p.ts}

(* ops.shift(): removes whatever is the head now, nothing from an empty list. *)
ShiftMutNewest(q) == q \ {o \in q : \A p \in q : p.ts <= o.ts}
Shift(q) == q \ Heads(q)

(* enqueue(): drops every pending op of the same target and appends the new
   one, with a fresh budget of tries (its object is new). *)
EnqueueMutAuthor(q, i, owner, ts) ==
    {o \in q : target[o.id] # target[i]} \cup {[id |-> i, owner |-> author[i], ts |-> ts]}
Enqueue(q, i, owner, ts) ==
    {o \in q : target[o.id] # target[i]} \cup {[id |-> i, owner |-> owner, ts |-> ts]}

(* dropForeign(): null clears the queue, an account keeps its own ops. *)
DropForeignMutKeep(q, u) == IF u = None THEN q ELSE {o \in q : o.owner = u}
DropForeign(q, u) == IF u = None THEN {} ELSE {o \in q : o.owner = u}

(* drain() up to its first await: defers while identity is unknown, purges what
   the account does not own, and sends the oldest op under the token of the
   moment. *)
Sent(o, tok) == [phase |-> "sent", id |-> o.id, owner |-> o.owner, token |-> tok]

Purged(q, u) == IF u = None THEN q ELSE {o \in q : o.owner = u}

StartDrain(q, u, tok) ==
    LET kept == Purged(q, u)
    IN  /\ ops' = kept
        /\ owed' = owed \ Ids(ops \ kept)
        /\ IF u = None \/ kept = {}
           THEN drain' = drain
           ELSE \E d \in Drain, o \in Heads(kept) :
                  /\ drain[d] = Idle
                  /\ drain' = [drain EXCEPT ![d] = Sent(o, tok)]

(* The while loop of drain() after an op left the list. *)
KeepDraining(d, q) ==
    IF q = {}
    THEN drain' = [drain EXCEPT ![d] = Idle]
    ELSE \E o \in Heads(q) : drain' = [drain EXCEPT ![d] = Sent(o, token)]

-----------------------------------------------------------------------------
(* CompositeBackend: mark / setProgress, flushQueue, setCurrentUser. *)

(* mark()/setProgress() up to the hosted call. *)
StartWrite(t) ==
    /\ writes < MaxWrites
    /\ writes' = writes + 1
    /\ author' = [author EXCEPT ![writes + 1] = token]
    /\ target' = [target EXCEPT ![writes + 1] = t]
    /\ call' = [call EXCEPT ![writes + 1] = "sent"]
    /\ UNCHANGED <<token, identity, queueVars, drain, server, historyVars>>

Apply(i, u) ==
    /\ u # None
    /\ server' = [server EXCEPT ![u][target[i]] = i]
    /\ owed' = owed \ {i}

(* The server handles the direct call of write i, under its author's token. *)
ServeWrite(i) ==
    /\ call[i] = "sent"
    /\ Apply(i, author[i])
    /\ call' = [call EXCEPT ![i] = "applied"]
    /\ UNCHANGED <<token, identity, queueVars, drain, inputVars, displaced, crossed>>

(* The hosted call resolves: drain the backlog. *)
WriteSucceeds(i) ==
    /\ call[i] = "applied"
    /\ call' = [call EXCEPT ![i] = "done"]
    /\ StartDrain(ops, identity, token)
    /\ UNCHANGED <<token, identity, clock, tries, inputVars, server, displaced, crossed>>

(* The hosted call throws, applied or not: capture the write, stamped with the
   account that is signed in now. *)
WriteFails(i) ==
    /\ call[i] \in {"sent", "applied"}
    /\ call' = [call EXCEPT ![i] = "done"]
    /\ clock' = clock + 1
    /\ ops' = Enqueue(ops, i, identity, clock')
    /\ owed' = (owed \ Ids(ops \ ops')) \cup {j \in {i} : call[j] = "sent"}
    /\ UNCHANGED <<token, identity, tries, drain, inputVars, server, displaced, crossed>>

(* setCurrentUser(u), called with the token already in force being tok. *)
SetCurrentUser(u, tok) ==
    /\ identity' = u
    /\ IF u = identity
       THEN UNCHANGED <<ops, owed, drain>>
       ELSE StartDrain(DropForeign(ops, u), u, tok)

(* The browser's `online` event. *)
Online ==
    /\ StartDrain(ops, identity, token)
    /\ UNCHANGED <<token, identity, clock, tries, call, inputVars, server, displaced, crossed>>

-----------------------------------------------------------------------------
(* A suspended drain() resumes. *)

ServeDrain(d) ==
    /\ drain[d].phase = "sent"
    /\ Apply(drain[d].id, drain[d].token)
    /\ drain' = [drain EXCEPT ![d].phase = "applied"]
    /\ UNCHANGED <<token, identity, queueVars, call, inputVars, displaced, crossed>>

(* While the drain was suspended, an enqueue, a dropForeign or the shift of another
   drain has taken the op it is sending off the list. *)
Stray(d) == drain[d].id \notin Ids(ops)

(* The shift after the await, and the history of what a stray drain removes. *)
ShiftHead(d) ==
    /\ ops' = Shift(ops)
    /\ displaced' = displaced \cup {i \in owed \cap Ids(ops \ ops') : Stray(d)}

(* flush resolved: remove the head, go on with the next op. *)
DrainSucceeds(d) ==
    /\ drain[d].phase = "applied"
    /\ ShiftHead(d)
    /\ KeepDraining(d, ops')
    /\ UNCHANGED <<token, identity, clock, tries, call, inputVars, server, owed, crossed>>

(* flush threw. The op object counts the failure wherever it is; at MaxTries
   the head is dropped and the drain goes on, otherwise it stops. *)
DrainFailsMutCopy(d) ==
    /\ drain[d].phase \in {"sent", "applied"}
    /\ drain' = [drain EXCEPT ![d] = Idle]
    /\ UNCHANGED <<token, identity, queueVars, call, inputVars, server, historyVars>>

DrainFails(d) ==
    LET i == drain[d].id
    IN  /\ drain[d].phase \in {"sent", "applied"}
        /\ tries' = [tries EXCEPT ![i] = @ + 1]
        /\ IF tries'[i] >= MaxTries
           THEN /\ ShiftHead(d)
                /\ owed' = owed \ {i}
                /\ KeepDraining(d, ops')
           ELSE /\ drain' = [drain EXCEPT ![d] = Idle]
                /\ UNCHANGED <<ops, owed, displaced>>
        /\ UNCHANGED <<token, identity, clock, call, inputVars, server, crossed>>

-----------------------------------------------------------------------------
(* auth.svelte.ts *)

authUnchanged == <<clock, tries, call, inputVars, server, displaced>>

(* The direct calls that are waiting for an answer. *)
Busy == {i \in Write : call[i] \in {"sent", "applied"}}

(* setToken waits for no request; the history remembers whose session ended under them. *)
SetToken(tok) ==
    /\ token' = tok
    /\ crossed' = IF tok = token THEN crossed ELSE crossed \cup Busy

(* login()/register() after the hosted answer; the login screen is reachable
   only while nobody is signed in. *)
Login(u) ==
    /\ identity = None
    /\ SetToken(u)
    /\ SetCurrentUser(u, u)
    /\ UNCHANGED authUnchanged

(* logout() after its await. *)
Logout ==
    /\ identity # None
    /\ SetToken(None)
    /\ SetCurrentUser(None, None)
    /\ UNCHANGED authUnchanged

(* initAuth()/revalidateSession() with an answer for the current token; an
   answer for another token is discarded and an unreachable server changes
   nothing. *)
ValidateSession ==
    /\ token # None
    /\ \/ /\ SetCurrentUser(token, token)
          /\ SetToken(token)
       \/ /\ SetCurrentUser(None, token)
          /\ SetToken(None)
    /\ UNCHANGED authUnchanged

(* The app is killed or reloaded: requests and drains die with it, the queue
   and the token were persisted, the identity was not. *)
Reload ==
    /\ identity' = None
    /\ call' = [i \in Write |-> IF call[i] = "unsent" THEN "unsent" ELSE "done"]
    /\ drain' = [d \in Drain |-> Idle]
    /\ UNCHANGED <<token, queueVars, inputVars, server, historyVars>>

-----------------------------------------------------------------------------
Network ==
    \/ \E i \in Write : ServeWrite(i) \/ WriteSucceeds(i) \/ WriteFails(i)
    \/ \E d \in Drain : ServeDrain(d) \/ DrainSucceeds(d) \/ DrainFails(d)

Account ==
    \/ \E u \in User : Login(u)
    \/ Logout
    \/ ValidateSession

Next ==
    \/ \E t \in Target : StartWrite(t)
    \/ Network
    \/ Online
    \/ Account
    \/ Reload

Spec == Init /\ [][Next]_vars

(* Every request ends one way or the other (fetch settles), and connectivity
   signals keep coming: the environment's promise, not the queue's. *)
FairSpec ==
    /\ Spec
    /\ \A i \in Write : WF_vars(WriteSucceeds(i) \/ WriteFails(i))
    /\ \A d \in Drain : WF_vars(DrainSucceeds(d) \/ DrainFails(d))
    /\ WF_vars(Online)

-----------------------------------------------------------------------------
(* Properties *)

(* enqueue() collapses: at most one pending op per target, so the queue is
   bounded by what the user touched, whatever drains are suspended. *)
OneOpPerTarget ==
    \A o, p \in ops : target[o.id] = target[p.id] => o = p

(* Once an identity is known the queue holds only that account's stamps: what
   setCurrentUser's dropForeign promises across logins, reloads and late
   failures of requests sent earlier. *)
OwnedByIdentity ==
    identity # None => token = identity /\ \A o \in ops : o.owner = identity

(* No drain, however old, sends an op under a token other than the one its
   stamp names (the C1 guard of flushQueue and drain). *)
ReplayUnderStamp ==
    \A d \in Drain : drain[d].owner = drain[d].token

(* "Persist happens after every mutation so a crash/reload never loses an
   accepted write": whatever overlaps, a write that entered the queue is pending
   until it is applied or leaves for one of the documented reasons, unless a drain
   whose own op had gone removes it in that op's stead. And "makes cross-user replay
   impossible" (setCurrentUser): no account carries a write that another made,
   unless the token changed during the direct call of that very write. The code
   does both: the shift is positional, and the stamp is read after the await. *)
WritesArrive ==
    /\ owed \subseteq Ids(ops) \cup displaced
    /\ \A u \in User, t \in Target :
          LET i == server[u][t]
          IN  i # 0 /\ i \notin crossed => author[i] = u

(* A queued write leaves the queue while its account stays signed in: the
   poison rule keeps one rejected write from wedging the others. *)
QueueDrains ==
    \A i \in Write : []<>(identity = None \/ i \notin Ids(ops))
=============================================================================
