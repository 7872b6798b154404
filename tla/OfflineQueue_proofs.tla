-------------------------- MODULE OfflineQueue_proofs --------------------------
(***************************************************************************)
(* Proofs about OfflineQueue for every number of accounts, targets, writes *)
(* and overlapping drains.                                                 *)
(***************************************************************************)
EXTENDS OfflineQueue, TLAPS

(* A write that was never made has no call and no op: its target may still
   be chosen. *)
Made ==
    /\ \A i \in Write : call[i] # "unsent" => i <= writes
    /\ \A o \in ops : o.id <= writes

(* While a drain is suspended nobody's ops but the token's are in the queue,
   even when nobody is signed in. *)
DrainScoped ==
    (\E d \in Drain : drain[d] # Idle) =>
        /\ identity = None => token = None
        /\ \A o \in ops : o.owner = token

(* The inductive invariant. ReplayUnderStamp alone is not inductive: a resumed
   drain sends the next op under the token of that moment, and only DrainScoped
   knows whose op that is. *)
Scope == OwnedByIdentity /\ ReplayUnderStamp /\ DrainScoped

ActiveDrain ==
    [phase : {"sent", "applied"}, id : Write, owner : Identity, token : Identity]

-----------------------------------------------------------------------------
(* What starting or resuming a drain does to the queue and to the slots. *)

LEMMA StartDrainFacts ==
    ASSUME TypeOK, NEW q, q \subseteq Op, NEW u \in Identity, NEW tok \in Identity,
           StartDrain(q, u, tok)
    PROVE  /\ ops' \subseteq q
           /\ u # None => \A o \in ops' : o.owner = u
           /\ u = None => drain' = drain
           /\ owed' \subseteq owed
           /\ \A d \in Drain :
                \/ drain'[d] = drain[d]
                \/ \E o \in ops' : drain'[d] = Sent(o, tok)
           /\ drain' \in [Drain -> {Idle} \cup ActiveDrain]
<1> DEFINE kept == Purged(q, u)
<1>1. /\ kept \subseteq q
      /\ ops' = kept
      /\ u # None => \A o \in kept : o.owner = u
      /\ u = None => drain' = drain
  BY DEF StartDrain, Purged
<1>2. owed' \subseteq owed
  BY DEF StartDrain
<1>3. CASE drain' = drain
  BY <1>1, <1>2, <1>3 DEF TypeOK, ActiveDrain
<1>4. CASE drain' # drain
  <2>1. PICK d \in Drain, o \in Heads(kept) : drain' = [drain EXCEPT ![d] = Sent(o, tok)]
    BY <1>4 DEF StartDrain
  <2>2. o \in kept /\ o \in Op
    BY <1>1 DEF Heads
  <2>3. Sent(o, tok) \in ActiveDrain
    BY <2>2 DEF Sent, Op, ActiveDrain
  <2>4. drain \in [Drain -> {Idle} \cup ActiveDrain]
    BY DEF TypeOK, ActiveDrain
  <2>. QED BY <1>1, <1>2, <2>1, <2>2, <2>3, <2>4
<1>. QED BY <1>3, <1>4

LEMMA KeepDrainingFacts ==
    ASSUME TypeOK, NEW q, q \subseteq Op, NEW d \in Drain, KeepDraining(d, q)
    PROVE  /\ \A e \in Drain \ {d} : drain'[e] = drain[e]
           /\ \/ drain'[d] = Idle
              \/ \E o \in q : drain'[d] = Sent(o, token)
           /\ drain' \in [Drain -> {Idle} \cup ActiveDrain]
<1>0. drain \in [Drain -> {Idle} \cup ActiveDrain]
  BY DEF TypeOK, ActiveDrain
<1>1. CASE q = {}
  BY <1>0, <1>1 DEF KeepDraining
<1>2. CASE q # {}
  <2>1. PICK o \in Heads(q) : drain' = [drain EXCEPT ![d] = Sent(o, token)]
    BY <1>2 DEF KeepDraining
  <2>2. o \in q /\ o \in Op
    BY DEF Heads
  <2>3. Sent(o, token) \in ActiveDrain
    BY <2>2 DEF Sent, Op, ActiveDrain, TypeOK
  <2>. QED BY <1>0, <2>1, <2>2, <2>3
<1>. QED BY <1>1, <1>2

(* An identity change: what setCurrentUser leaves in the queue. *)
LEMMA SetCurrentUserFacts ==
    ASSUME TypeOK, NEW u \in Identity, NEW tok \in Identity, SetCurrentUser(u, tok)
    PROVE  /\ identity' = u
           /\ ops' \subseteq ops
           /\ u = identity => ops' = ops /\ drain' = drain
           /\ u # identity /\ u = None => ops' = {} /\ drain' = drain
           /\ u # identity => \A o \in ops' : o.owner = u
           /\ owed' \subseteq owed
           /\ \A d \in Drain :
                \/ drain'[d] = drain[d]
                \/ \E o \in ops' : drain'[d] = Sent(o, tok)
           /\ drain' \in [Drain -> {Idle} \cup ActiveDrain]
<1>1. CASE u = identity
  BY <1>1 DEF SetCurrentUser, TypeOK, ActiveDrain
<1>2. CASE u # identity
  <2> DEFINE q == DropForeign(ops, u)
  <2>1. StartDrain(q, u, tok) /\ identity' = u
    BY <1>2 DEF SetCurrentUser
  <2>2. q \subseteq ops /\ q \subseteq Op /\ (u = None => q = {})
    BY DEF DropForeign, TypeOK
  <2> HIDE DEF q
  <2>3. /\ ops' \subseteq q
        /\ u # None => \A o \in ops' : o.owner = u
        /\ u = None => drain' = drain
        /\ owed' \subseteq owed
        /\ \A d \in Drain :
             \/ drain'[d] = drain[d]
             \/ \E o \in ops' : drain'[d] = Sent(o, tok)
        /\ drain' \in [Drain -> {Idle} \cup ActiveDrain]
    BY <2>1, <2>2, StartDrainFacts
  <2>. QED BY <1>2, <2>1, <2>2, <2>3
<1>. QED BY <1>1, <1>2

-----------------------------------------------------------------------------
(* Types. *)

LEMMA ApplyType ==
    ASSUME TypeOK, NEW i \in Write, NEW u \in Identity, Apply(i, u)
    PROVE  server' \in [User -> [Target -> 0 .. MaxWrites]] /\ owed' \subseteq Write
<1>1. u \in User /\ i \in 0 .. MaxWrites
  BY OfflineQueueAssumption DEF Apply, Identity, Write
<1>. QED BY <1>1 DEF Apply, TypeOK

LEMMA TypeStep == TypeOK /\ [Next]_vars => TypeOK'
<1> SUFFICES ASSUME TypeOK, [Next]_vars PROVE TypeOK'
  OBVIOUS
<1>1. ASSUME NEW t \in Target, StartWrite(t) PROVE TypeOK'
  <2>1. writes + 1 \in Write /\ writes + 1 \in 0 .. MaxWrites
    BY <1>1, OfflineQueueAssumption DEF StartWrite, TypeOK, Write
  <2>. QED BY <1>1, <2>1 DEF StartWrite, TypeOK, queueVars, historyVars
<1>2. ASSUME NEW i \in Write, ServeWrite(i) PROVE TypeOK'
  <2>1. server' \in [User -> [Target -> 0 .. MaxWrites]] /\ owed' \subseteq Write
    BY <1>2, ApplyType DEF ServeWrite, TypeOK
  <2>. QED BY <1>2, <2>1 DEF ServeWrite, TypeOK, queueVars, inputVars
<1>3. ASSUME NEW i \in Write, WriteSucceeds(i) PROVE TypeOK'
  <2>1. /\ ops' \subseteq ops /\ owed' \subseteq owed
        /\ drain' \in [Drain -> {Idle} \cup ActiveDrain]
    BY <1>3, StartDrainFacts DEF WriteSucceeds, TypeOK
  <2>. QED BY <1>3, <2>1 DEF WriteSucceeds, TypeOK, inputVars, ActiveDrain
<1>4. ASSUME NEW i \in Write, WriteFails(i) PROVE TypeOK'
  <2>1. ops' \subseteq Op
    BY <1>4 DEF WriteFails, Enqueue, TypeOK, Op
  <2>2. owed' \subseteq Write
    BY <1>4 DEF WriteFails, TypeOK
  <2>3. clock' \in Nat /\ call' \in [Write -> {"unsent", "sent", "applied", "done"}]
    BY <1>4 DEF WriteFails, TypeOK
  <2>4. UNCHANGED <<token, identity, tries, drain, inputVars, server, displaced, crossed>>
    BY <1>4 DEF WriteFails
  <2>. QED BY <2>1, <2>2, <2>3, <2>4 DEF TypeOK, inputVars
<1>5. ASSUME NEW d \in Drain, ServeDrain(d) PROVE TypeOK'
  <2>1. drain[d] \in ActiveDrain
    BY <1>5 DEF ServeDrain, TypeOK, Idle, ActiveDrain
  <2>2. server' \in [User -> [Target -> 0 .. MaxWrites]] /\ owed' \subseteq Write
    BY <1>5, <2>1, ApplyType DEF ServeDrain, ActiveDrain
  <2>3. [drain[d] EXCEPT !.phase = "applied"] \in ActiveDrain
    BY <2>1 DEF ActiveDrain
  <2>. QED BY <1>5, <2>2, <2>3 DEF ServeDrain, TypeOK, queueVars, inputVars, ActiveDrain
<1>6. ASSUME NEW d \in Drain, DrainSucceeds(d) PROVE TypeOK'
  <2>1. ops' \subseteq ops /\ ops' \subseteq Op
    BY <1>6 DEF DrainSucceeds, ShiftHead, Shift, TypeOK
  <2>2. drain' \in [Drain -> {Idle} \cup ActiveDrain]
    BY <1>6, <2>1, KeepDrainingFacts DEF DrainSucceeds
  <2>3. displaced' \subseteq Write
    BY <1>6 DEF DrainSucceeds, ShiftHead, TypeOK
  <2>. QED BY <1>6, <2>1, <2>2, <2>3 DEF DrainSucceeds, TypeOK, inputVars, ActiveDrain
<1>7. ASSUME NEW d \in Drain, DrainFails(d) PROVE TypeOK'
  <2>0. drain[d].id \in Write
    BY <1>7 DEF DrainFails, TypeOK, Idle
  <2>1. /\ ops' \subseteq Op /\ tries' \in [Write -> Nat]
        /\ owed' \subseteq Write /\ displaced' \subseteq Write
    BY <1>7, <2>0 DEF DrainFails, ShiftHead, Shift, TypeOK
  <2>2. drain' \in [Drain -> {Idle} \cup ActiveDrain]
    <3>1. CASE KeepDraining(d, ops')
      BY <2>1, <3>1, KeepDrainingFacts
    <3>2. CASE drain' = [drain EXCEPT ![d] = Idle]
      BY <3>2 DEF TypeOK, ActiveDrain
    <3>. QED BY <1>7, <3>1, <3>2 DEF DrainFails
  <2>. QED BY <1>7, <2>1, <2>2 DEF DrainFails, TypeOK, inputVars, ActiveDrain
<1>8. CASE Online
  <2>1. /\ ops' \subseteq ops /\ owed' \subseteq owed
        /\ drain' \in [Drain -> {Idle} \cup ActiveDrain]
    BY <1>8, StartDrainFacts DEF Online, TypeOK
  <2>. QED BY <1>8, <2>1 DEF Online, TypeOK, inputVars, ActiveDrain
<1>9. ASSUME NEW u \in Identity, NEW tok \in Identity, SetCurrentUser(u, tok),
             NEW new \in Identity, SetToken(new), UNCHANGED authUnchanged
      PROVE  TypeOK'
  <2>1. /\ ops' \subseteq ops /\ owed' \subseteq owed /\ identity' = u
        /\ drain' \in [Drain -> {Idle} \cup ActiveDrain]
    BY <1>9, SetCurrentUserFacts
  <2>2. token' \in Identity /\ crossed' \subseteq Write
    BY <1>9 DEF SetToken, Busy, TypeOK
  <2>. QED BY <1>9, <2>1, <2>2 DEF authUnchanged, TypeOK, inputVars, ActiveDrain
<1>10. CASE Account
  <2>1. ASSUME NEW u \in User, Login(u) PROVE TypeOK'
    BY <1>9, <2>1 DEF Login, Identity
  <2>2. CASE Logout
    BY <1>9, <2>2 DEF Logout, Identity
  <2>3. CASE ValidateSession
    BY <1>9, <2>3 DEF ValidateSession, Identity, TypeOK
  <2>. QED BY <1>10, <2>1, <2>2, <2>3 DEF Account
<1>11. CASE Reload
  BY <1>11 DEF Reload, TypeOK, Identity, queueVars, inputVars, historyVars
<1>12. CASE UNCHANGED vars
  BY <1>12 DEF vars, TypeOK, queueVars, inputVars, historyVars
<1>. QED
  BY <1>1, <1>2, <1>3, <1>4, <1>5, <1>6, <1>7, <1>8, <1>10, <1>11, <1>12 DEF Next, Network

(* Every variable keeps its type: pending ops name writes that exist, and a
   suspended drain holds a whole op and the token it was sent under. *)
THEOREM QueueTypes == Spec => []TypeOK
<1>1. Init => TypeOK
  BY OfflineQueueAssumption DEF Init, TypeOK, Identity, Write
<1>. QED BY <1>1, TypeStep, PTL DEF Spec

-----------------------------------------------------------------------------
(* Whose ops are replayed. *)

LEMMA SentStamp ==
    ASSUME NEW q, NEW tok, \A o \in q : o.owner = tok,
           NEW o \in q
    PROVE  Sent(o, tok).owner = Sent(o, tok).token
BY DEF Sent

(* Starting a drain for the account that is signed in, or for nobody. *)
LEMMA ScopeStart ==
    ASSUME TypeOK, Scope, StartDrain(ops, identity, token), UNCHANGED <<identity, token>>
    PROVE  Scope'
<1>1. /\ ops' \subseteq ops
      /\ identity = None => drain' = drain
      /\ \A d \in Drain :
           \/ drain'[d] = drain[d]
           \/ \E o \in ops' : drain'[d] = Sent(o, token)
  BY StartDrainFacts DEF TypeOK
<1>2. OwnedByIdentity'
  BY <1>1 DEF Scope, OwnedByIdentity
<1>3. CASE identity = None
  BY <1>1, <1>2, <1>3 DEF Scope, ReplayUnderStamp, DrainScoped
<1>4. CASE identity # None
  <2>1. \A o \in ops' : o.owner = token
    BY <1>1, <1>4 DEF Scope, OwnedByIdentity
  <2>2. ReplayUnderStamp'
    BY <1>1, <2>1, SentStamp DEF Scope, ReplayUnderStamp
  <2>. QED BY <1>2, <1>4, <2>1, <2>2 DEF Scope, DrainScoped
<1>. QED BY <1>3, <1>4

(* An identity change, with the token it comes with. *)
LEMMA ScopeIdentity ==
    ASSUME TypeOK, Scope, NEW u \in Identity, NEW tok \in Identity, SetCurrentUser(u, tok),
           u # None => tok = u /\ token' = u,
           u = None => token' = None,
           u = None /\ identity = None => \A d \in Drain : drain[d] = Idle
    PROVE  Scope'
<1>1. /\ identity' = u
      /\ ops' \subseteq ops
      /\ u = identity => ops' = ops /\ drain' = drain
      /\ u # identity /\ u = None => ops' = {} /\ drain' = drain
      /\ u # identity => \A o \in ops' : o.owner = u
      /\ \A d \in Drain :
           \/ drain'[d] = drain[d]
           \/ \E o \in ops' : drain'[d] = Sent(o, tok)
  BY SetCurrentUserFacts
<1>2. CASE u = None
  <2>1. drain' = drain
    BY <1>1, <1>2
  <2>2. OwnedByIdentity' /\ ReplayUnderStamp'
    BY <1>1, <1>2, <2>1 DEF Scope, OwnedByIdentity, ReplayUnderStamp
  <2>3. DrainScoped'
    BY <1>1, <1>2, <2>1 DEF DrainScoped
  <2>. QED BY <2>2, <2>3 DEF Scope
<1>3. CASE u # None
  <2>1. \A o \in ops' : o.owner = u
    BY <1>1, <1>3 DEF Scope, OwnedByIdentity
  <2>2. OwnedByIdentity' /\ DrainScoped'
    BY <1>1, <1>3, <2>1 DEF OwnedByIdentity, DrainScoped
  <2>3. ReplayUnderStamp'
    BY <1>1, <1>3, <2>1, SentStamp DEF Scope, ReplayUnderStamp
  <2>. QED BY <2>2, <2>3 DEF Scope
<1>. QED BY <1>2, <1>3

LEMMA ScopeStep == TypeOK /\ Scope /\ [Next]_vars => Scope'
<1> SUFFICES ASSUME TypeOK, Scope, [Next]_vars PROVE Scope'
  OBVIOUS
<1> USE DEF Scope
<1>1. ASSUME NEW t \in Target, StartWrite(t) PROVE Scope'
  BY <1>1 DEF StartWrite, OwnedByIdentity, ReplayUnderStamp, DrainScoped, queueVars
<1>2. ASSUME NEW i \in Write, ServeWrite(i) PROVE Scope'
  BY <1>2 DEF ServeWrite, OwnedByIdentity, ReplayUnderStamp, DrainScoped, queueVars
<1>3. ASSUME NEW i \in Write, WriteSucceeds(i) PROVE Scope'
  BY <1>3, ScopeStart DEF WriteSucceeds
<1>4. ASSUME NEW i \in Write, WriteFails(i) PROVE Scope'
  <2>1. /\ \A o \in ops' : o \in ops \/ o.owner = identity
        /\ UNCHANGED <<token, identity, drain>>
    BY <1>4 DEF WriteFails, Enqueue
  <2>. QED BY <2>1 DEF OwnedByIdentity, ReplayUnderStamp, DrainScoped
<1>5. ASSUME NEW d \in Drain, ServeDrain(d) PROVE Scope'
  <2>1. drain[d] # Idle
    BY <1>5 DEF ServeDrain, Idle
  <2>2. \A e \in Drain : drain'[e].owner = drain[e].owner /\ drain'[e].token = drain[e].token
    BY <1>5 DEF ServeDrain, TypeOK
  <2>3. UNCHANGED <<token, identity, ops>>
    BY <1>5 DEF ServeDrain, queueVars
  <2>. QED BY <2>1, <2>2, <2>3 DEF OwnedByIdentity, ReplayUnderStamp, DrainScoped
<1>6. ASSUME NEW d \in Drain, NEW q, q \subseteq ops, drain[d] # Idle, ops' = q,
             KeepDraining(d, q), UNCHANGED <<token, identity>>
      PROVE  Scope'
  <2>1. /\ \A e \in Drain \ {d} : drain'[e] = drain[e]
        /\ drain'[d] = Idle \/ \E o \in q : drain'[d] = Sent(o, token)
    BY <1>6, KeepDrainingFacts DEF TypeOK
  <2>2. OwnedByIdentity' /\ DrainScoped'
    BY <1>6 DEF OwnedByIdentity, DrainScoped
  <2>3. ReplayUnderStamp'
    <3>1. \A o \in q : o.owner = token
      BY <1>6 DEF DrainScoped
    <3>. QED BY <1>6, <2>1, <3>1, SentStamp DEF ReplayUnderStamp, Idle
  <2>. QED BY <2>2, <2>3
<1>7. ASSUME NEW d \in Drain, DrainSucceeds(d) PROVE Scope'
  <2>1. drain[d] # Idle /\ ops' \subseteq ops
    BY <1>7 DEF DrainSucceeds, ShiftHead, Idle, Shift
  <2>. QED BY <1>6, <1>7, <2>1 DEF DrainSucceeds, ShiftHead
<1>8. ASSUME NEW d \in Drain, DrainFails(d) PROVE Scope'
  <2>1. drain[d] # Idle /\ UNCHANGED <<token, identity>>
    BY <1>8 DEF DrainFails, Idle
  <2>2. CASE ops' = Shift(ops) /\ KeepDraining(d, ops')
    BY <1>6, <2>1, <2>2 DEF Shift
  <2>3. CASE ops' = ops /\ drain' = [drain EXCEPT ![d] = Idle]
    BY <2>1, <2>3 DEF OwnedByIdentity, ReplayUnderStamp, DrainScoped, Idle, TypeOK
  <2>. QED BY <1>8, <2>2, <2>3 DEF DrainFails, ShiftHead
<1>9. CASE Online
  BY <1>9, ScopeStart DEF Online
<1>10. ASSUME NEW u \in User, Login(u) PROVE Scope'
  <2>1. u \in Identity /\ u # None
    BY OfflineQueueAssumption DEF Identity
  <2>. QED BY <1>10, <2>1, ScopeIdentity DEF Login, SetToken
<1>11. CASE Logout
  BY <1>11, ScopeIdentity DEF Logout, SetToken, Identity
<1>12. CASE ValidateSession
  <2>1. token # None /\ token \in Identity /\ None \in Identity
    BY <1>12 DEF ValidateSession, TypeOK, Identity
  <2>2. CASE SetCurrentUser(token, token) /\ token' = token
    BY <2>1, <2>2, ScopeIdentity
  <2>3. CASE SetCurrentUser(None, token) /\ token' = None
    <3>1. identity = None => \A d \in Drain : drain[d] = Idle
      BY <2>1 DEF DrainScoped
    <3>. QED BY <2>1, <2>3, <3>1, ScopeIdentity
  <2>. QED BY <1>12, <2>2, <2>3 DEF ValidateSession, SetToken
<1>13. CASE Reload
  BY <1>13 DEF Reload, OwnedByIdentity, ReplayUnderStamp, DrainScoped, Idle
<1>14. CASE UNCHANGED vars
  BY <1>14 DEF vars, queueVars, OwnedByIdentity, ReplayUnderStamp, DrainScoped
<1>. QED
  BY <1>1, <1>2, <1>3, <1>4, <1>5, <1>7, <1>8, <1>9, <1>10, <1>11, <1>12, <1>13, <1>14
     DEF Next, Network, Account

LEMMA ScopeInvariant == Spec => [](TypeOK /\ Scope)
<1>1. Init => Scope
  BY DEF Init, Scope, OwnedByIdentity, ReplayUnderStamp, DrainScoped, Idle
<1>2. Init => TypeOK
  BY OfflineQueueAssumption DEF Init, TypeOK, Identity, Write
<1>. QED BY <1>1, <1>2, TypeStep, ScopeStep, PTL DEF Spec

(* However many drains, requests, sign-ins and reloads overlap, no op is ever
   sent under a token other than the one its stamp names: the guard flushQueue
   and setCurrentUser implement together. *)
THEOREM ReplayIsScoped == Spec => []ReplayUnderStamp
<1>1. Scope => ReplayUnderStamp
  BY DEF Scope
<1>. QED BY <1>1, ScopeInvariant, PTL

(* While an account is signed in, the queue holds its stamps only. *)
THEOREM QueueIsOwned == Spec => []OwnedByIdentity
<1>1. Scope => OwnedByIdentity
  BY DEF Scope
<1>. QED BY <1>1, ScopeInvariant, PTL

-----------------------------------------------------------------------------
(* The queue stays collapsed. *)

LEMMA CollapseShrinks ==
    ASSUME Made, OneOpPerTarget, ops' \subseteq ops, UNCHANGED <<writes, target>>,
           \A i \in Write : call'[i] # "unsent" => call[i] # "unsent"
    PROVE  Made' /\ OneOpPerTarget'
BY DEF Made, OneOpPerTarget

LEMMA CollapseStep == TypeOK /\ Made /\ OneOpPerTarget /\ [Next]_vars => Made' /\ OneOpPerTarget'
<1> SUFFICES ASSUME TypeOK, Made, OneOpPerTarget, [Next]_vars
             PROVE  Made' /\ OneOpPerTarget'
  OBVIOUS
<1>1. ASSUME NEW t \in Target, StartWrite(t) PROVE Made' /\ OneOpPerTarget'
  <2>1. Made'
    BY <1>1 DEF StartWrite, Made, TypeOK, queueVars, Write, Op
  <2>2. \A o \in ops : o.id \in Write /\ o.id # writes + 1
    BY DEF Made, TypeOK, Op, Write
  <2>3. \A o \in ops : target'[o.id] = target[o.id]
    BY <1>1, <2>2 DEF StartWrite, TypeOK
  <2>. QED BY <1>1, <2>1, <2>3 DEF StartWrite, OneOpPerTarget, queueVars
<1>2. ASSUME NEW i \in Write, ServeWrite(i) PROVE Made' /\ OneOpPerTarget'
  BY <1>2, CollapseShrinks DEF ServeWrite, TypeOK, queueVars, inputVars
<1>3. ASSUME NEW i \in Write, WriteSucceeds(i) PROVE Made' /\ OneOpPerTarget'
  <2>1. ops' \subseteq ops
    BY <1>3, StartDrainFacts DEF WriteSucceeds, TypeOK
  <2>. QED BY <1>3, <2>1, CollapseShrinks DEF WriteSucceeds, TypeOK, inputVars
<1>4. ASSUME NEW i \in Write, WriteFails(i) PROVE Made' /\ OneOpPerTarget'
  <2> DEFINE op == [id |-> i, owner |-> identity, ts |-> clock']
  <2>1. i <= writes /\ UNCHANGED <<writes, target>>
    BY <1>4 DEF WriteFails, Made, inputVars
  <2>2. ops' = {o \in ops : target[o.id] # target[i]} \cup {op}
    BY <1>4 DEF WriteFails, Enqueue
  <2>3. op.id = i
    OBVIOUS
  <2> HIDE DEF op
  <2>4. Made'
    BY <1>4, <2>1, <2>2, <2>3 DEF WriteFails, Made, TypeOK
  <2>5. OneOpPerTarget'
    BY <2>1, <2>2, <2>3 DEF OneOpPerTarget
  <2>. QED BY <2>4, <2>5
<1>5. ASSUME NEW d \in Drain, ServeDrain(d) PROVE Made' /\ OneOpPerTarget'
  BY <1>5, CollapseShrinks DEF ServeDrain, queueVars, inputVars
<1>6. ASSUME NEW d \in Drain, DrainSucceeds(d) \/ DrainFails(d)
      PROVE  Made' /\ OneOpPerTarget'
  <2>1. ops' \subseteq ops /\ UNCHANGED <<call, writes, target>>
    BY <1>6 DEF DrainSucceeds, DrainFails, ShiftHead, Shift, inputVars
  <2>. QED BY <2>1, CollapseShrinks
<1>7. CASE Online
  <2>1. ops' \subseteq ops
    BY <1>7, StartDrainFacts DEF Online, TypeOK
  <2>. QED BY <1>7, <2>1, CollapseShrinks DEF Online, inputVars
<1>8. CASE Account
  <2>1. PICK u \in Identity, tok \in Identity : SetCurrentUser(u, tok)
    BY <1>8 DEF Account, Login, Logout, ValidateSession, Identity, TypeOK
  <2>2. ops' \subseteq ops
    BY <2>1, SetCurrentUserFacts
  <2>3. UNCHANGED <<call, writes, target>>
    BY <1>8 DEF Account, Login, Logout, ValidateSession, authUnchanged, inputVars
  <2>. QED BY <2>2, <2>3, CollapseShrinks
<1>9. CASE Reload
  BY <1>9, CollapseShrinks DEF Reload, TypeOK, queueVars, inputVars
<1>10. CASE UNCHANGED vars
  BY <1>10, CollapseShrinks DEF vars, queueVars, inputVars
<1>. QED
  BY <1>1, <1>2, <1>3, <1>4, <1>5, <1>6, <1>7, <1>8, <1>9, <1>10 DEF Next, Network

(* Whatever overlaps, at most one op per target is pending. *)
THEOREM QueueIsCollapsed == Spec => []OneOpPerTarget
<1>1. Init => TypeOK /\ Made /\ OneOpPerTarget
  BY OfflineQueueAssumption DEF Init, TypeOK, Identity, Write, Made, OneOpPerTarget
<1>. QED BY <1>1, TypeStep, CollapseStep, PTL DEF Spec
-----------------------------------------------------------------------------
(* Accepted writes arrive. *)

(* The order of the queue is total, and no write is in it twice. *)
Ordered ==
    /\ \A o, p \in ops : o.ts = p.ts \/ o.id = p.id => o = p
    /\ \A o \in ops : o.ts <= clock

(* What is queued or being replayed has had its direct call. *)
Spent ==
    /\ \A o \in ops : call[o.id] = "done"
    /\ \A d \in Drain : drain[d] # Idle => call[drain[d].id] = "done"

(* A drain whose op is still queued is sending the only oldest one, however many
   others there are: so its shift removes the op that it sent. *)
Heading ==
    \A d \in Drain : drain[d] # Idle /\ ~Stray(d) =>
        \E o \in ops : Heads(ops) = {o} /\ o.id = drain[d].id

(* What a drain saw applied is not owed any more. *)
Replied == \A d \in Drain : drain[d].phase = "applied" => drain[d].id \notin owed

(* Nothing owed is lost. *)
Kept == owed \subseteq Ids(ops) \cup displaced

(* Who wrote what, for the calls that lived in one session: they go out under their
   author's token, and so are the stamps and what the server holds. *)
Authored ==
    /\ \A i \in Busy \ crossed : author[i] = token
    /\ \A o \in ops : o.id \notin crossed /\ o.owner # None => author[o.id] = o.owner
    /\ \A d \in Drain :
          drain[d].owner # None /\ drain[d].id \notin crossed
              => author[drain[d].id] = drain[d].owner
    /\ \A u \in User, t \in Target :
          server[u][t] # 0 =>
              /\ server[u][t] <= writes
              /\ server[u][t] \notin crossed => author[server[u][t]] = u

Replaying == Ordered /\ Spent /\ Heading /\ Replied

(* What a step may do to the drains: nothing, end them, or let them send the head. *)
DrainsSend ==
    \A d \in Drain :
        \/ drain'[d] = drain[d]
        \/ drain'[d] = Idle
        \/ \E o \in Heads(ops'), tok \in Identity : drain'[d] = Sent(o, tok)

LEMMA HeadIsAlone ==
    ASSUME NEW q, q \subseteq Op, \A o, p \in q : o.ts = p.ts => o = p, NEW o \in Heads(q)
    PROVE  Heads(q) = {o}
<1>1. o \in q /\ \A p \in q : o.ts <= p.ts
  BY DEF Heads
<1>2. ASSUME NEW p \in Heads(q) PROVE p = o
  <2>1. p \in q /\ p.ts <= o.ts /\ o.ts <= p.ts
    BY <1>1, <1>2 DEF Heads
  <2>2. p.ts \in Nat /\ o.ts \in Nat
    BY <1>1, <2>1 DEF Op
  <2>. QED BY <1>1, <2>1, <2>2
<1>. QED BY <1>1, <1>2

(* The head stays the head of a list that loses others. *)
LEMMA HeadStays ==
    ASSUME NEW q, q \subseteq Op, \A o, p \in q : o.ts = p.ts => o = p,
           NEW r, r \subseteq q, NEW o \in r, Heads(q) = {o}
    PROVE  Heads(r) = {o}
<1>1. o \in Heads(r)
  <2>1. o \in Heads(q)
    OBVIOUS
  <2>. QED BY <2>1 DEF Heads
<1>2. r \subseteq Op /\ \A x, y \in r : x.ts = y.ts => x = y
  OBVIOUS
<1>. QED BY <1>1, <1>2, HeadIsAlone

LEMMA SentFields ==
    ASSUME NEW o, NEW tok
    PROVE  /\ Sent(o, tok).phase = "sent" /\ Sent(o, tok).id = o.id
           /\ Sent(o, tok).owner = o.owner /\ Sent(o, tok).token = tok
           /\ Sent(o, tok) # Idle
BY DEF Sent, Idle

LEMMA IdleFields == Idle.phase = "idle" /\ Idle.owner = None
BY DEF Idle

(* Any step that only takes ops off the list. *)
LEMMA ReplayingShrinks ==
    ASSUME TypeOK, Replaying, ops' \subseteq ops, DrainsSend, owed' \subseteq owed,
           \A i \in Write : call[i] = "done" => call'[i] = "done", clock' = clock
    PROVE  Replaying'
<1>. USE DEF Replaying
<1>1. Ordered'
  BY DEF Ordered
<1>2. ops \subseteq Op /\ \A o, p \in ops : o.ts = p.ts => o = p
  BY DEF TypeOK, Ordered
<1>3. \A o \in ops : o.id \in Write
  BY <1>2 DEF Op
<1>4. Spent'
  <2>1. \A o \in ops' : call'[o.id] = "done"
    BY <1>3 DEF Spent
  <2>2. ASSUME NEW d \in Drain, drain'[d] # Idle PROVE call'[drain'[d].id] = "done"
    <3>1. CASE drain'[d] = drain[d]
      <4>1. drain[d].id \in Write
        BY <2>2, <3>1 DEF TypeOK
      <4>. QED BY <2>2, <3>1, <4>1 DEF Spent
    <3>2. ASSUME NEW o \in Heads(ops'), NEW tok \in Identity, drain'[d] = Sent(o, tok)
          PROVE  call'[drain'[d].id] = "done"
      BY <2>1, <3>2, SentFields DEF Heads
    <3>. QED BY <2>2, <3>1, <3>2 DEF DrainsSend
  <2>. QED BY <2>1, <2>2 DEF Spent
<1>5. Heading'
  <2>. SUFFICES ASSUME NEW d \in Drain, drain'[d] # Idle, ~Stray(d)'
                PROVE  \E o \in ops' : Heads(ops') = {o} /\ o.id = drain'[d].id
    BY DEF Heading
  <2>1. CASE drain'[d] = drain[d]
    <3>1. PICK p \in ops' : p.id = drain[d].id
      BY <2>1 DEF Stray, Ids
    <3>2. ~Stray(d)
      BY <3>1 DEF Stray, Ids
    <3>3. PICK o \in ops : Heads(ops) = {o} /\ o.id = drain[d].id
      BY <2>1, <3>2 DEF Heading
    <3>4. o = p
      BY <3>1, <3>3 DEF Ordered
    <3>. QED BY <1>2, <2>1, <3>1, <3>3, <3>4, HeadStays
  <2>2. ASSUME NEW o \in Heads(ops'), NEW tok \in Identity, drain'[d] = Sent(o, tok)
        PROVE  \E p \in ops' : Heads(ops') = {p} /\ p.id = drain'[d].id
    <3>1. ops' \subseteq Op /\ \A x, y \in ops' : x.ts = y.ts => x = y
      BY <1>2
    <3>2. Heads(ops') = {o}
      BY <3>1, HeadIsAlone
    <3>. QED BY <2>2, <3>2, SentFields DEF Heads
  <2>. QED BY <2>1, <2>2 DEF DrainsSend
<1>6. Replied'
  BY SentFields, IdleFields DEF Replied, DrainsSend
<1>. QED BY <1>1, <1>4, <1>5, <1>6

(* Authorship through any step that makes no write, captures none and applies none. *)
LEMMA AuthoredShrinks ==
    ASSUME TypeOK, Authored, ops' \subseteq ops, DrainsSend, crossed \subseteq crossed',
           Busy' \subseteq Busy, token' = token \/ Busy' \subseteq crossed',
           UNCHANGED <<author, server, writes>>
    PROVE  Authored'
<1>1. \A i \in Busy' \ crossed' : author'[i] = token'
  BY DEF Authored
<1>2. \A o \in ops' : o.id \notin crossed' /\ o.owner # None => author'[o.id] = o.owner
  BY DEF Authored
<1>3. ASSUME NEW d \in Drain, drain'[d].owner # None, drain'[d].id \notin crossed'
      PROVE  author'[drain'[d].id] = drain'[d].owner
  <2>1. CASE drain'[d] = drain[d]
    BY <1>3, <2>1 DEF Authored
  <2>2. ASSUME NEW o \in Heads(ops'), NEW tok \in Identity, drain'[d] = Sent(o, tok)
        PROVE  author'[drain'[d].id] = drain'[d].owner
    BY <1>2, <1>3, <2>2, SentFields DEF Heads
  <2>. QED BY <1>3, <2>1, <2>2, IdleFields DEF DrainsSend
<1>4. \A u \in User, t \in Target :
          server'[u][t] # 0 =>
              /\ server'[u][t] <= writes'
              /\ server'[u][t] \notin crossed' => author'[server'[u][t]] = u
  BY DEF Authored
<1>. QED BY <1>1, <1>2, <1>3, <1>4 DEF Authored

(* Starting a drain: the ops that are purged are settled. *)
LEMMA StartArrives ==
    ASSUME TypeOK, Kept, NEW q, q \subseteq ops, NEW u, NEW tok \in Identity,
           StartDrain(q, u, tok), displaced' = displaced
    PROVE  DrainsSend /\ ops' \subseteq ops /\ owed' \subseteq owed /\ Kept'
<1> DEFINE kept == Purged(q, u)
<1>1. kept \subseteq ops /\ ops' = kept /\ owed' = owed \ Ids(ops \ kept)
  BY DEF StartDrain, Purged
<1>2. \/ drain' = drain
      \/ \E d \in Drain, o \in Heads(kept) : drain' = [drain EXCEPT ![d] = Sent(o, tok)]
  BY DEF StartDrain
<1> HIDE DEF kept
<1>3. DrainsSend
  BY <1>1, <1>2 DEF DrainsSend, TypeOK
<1>4. Ids(ops) \subseteq Ids(kept) \cup Ids(ops \ kept)
  BY DEF Ids
<1>. QED BY <1>1, <1>3, <1>4 DEF Kept

(* Resuming a drain that ends or goes on. *)
LEMMA ResumeSends ==
    ASSUME TypeOK, NEW d \in Drain,
           KeepDraining(d, ops') \/ drain' = [drain EXCEPT ![d] = Idle]
    PROVE  DrainsSend
<1>1. CASE drain' = [drain EXCEPT ![d] = Idle]
  BY <1>1 DEF TypeOK, DrainsSend
<1>2. ASSUME NEW o \in Heads(ops'), drain' = [drain EXCEPT ![d] = Sent(o, token)]
      PROVE  DrainsSend
  BY <1>2 DEF TypeOK, DrainsSend
<1>. QED BY <1>1, <1>2 DEF KeepDraining

(* The shift of a drain that has its op applied or given up: it removes that op, or
   the history tells what it removed instead. *)
LEMMA ShiftKeeps ==
    ASSUME TypeOK, Replaying, Kept, NEW d \in Drain, drain[d] # Idle, ShiftHead(d),
           owed' \subseteq owed, drain[d].id \notin owed'
    PROVE  Kept'
<1>1. ops' = ops \ Heads(ops)
  BY DEF ShiftHead, Shift
<1>2. ASSUME NEW i \in owed' PROVE i \in Ids(ops') \cup displaced'
  <2>1. CASE i \in displaced
    BY <2>1 DEF ShiftHead
  <2>2. ASSUME NEW o \in ops, o.id = i PROVE i \in Ids(ops') \cup displaced'
    <3>1. CASE o \in ops'
      BY <2>2, <3>1 DEF Ids
    <3>2. CASE o \notin ops'
      <4>1. i \in owed \cap Ids(ops \ ops')
        BY <1>2, <2>2, <3>2 DEF Ids
      <4>2. Stray(d)
        <5>1. ASSUME ~Stray(d) PROVE FALSE
          <6>1. PICK h \in ops : Heads(ops) = {h} /\ h.id = drain[d].id
            BY <5>1 DEF Replaying, Heading
          <6>2. o = h
            BY <1>1, <3>2, <6>1
          <6>. QED BY <1>2, <2>2, <6>1, <6>2
        <5>. QED BY <5>1
      <4>. QED BY <4>1, <4>2 DEF ShiftHead
    <3>. QED BY <3>1, <3>2
  <2>. QED BY <1>2, <2>1, <2>2 DEF Kept, Ids
<1>. QED BY <1>2 DEF Kept

-----------------------------------------------------------------------------
(* Each step of the server and of a failed call on its own. *)

LEMMA WriteFailsArrives ==
    ASSUME TypeOK, Scope, Replaying, Kept, Authored, NEW i \in Write, WriteFails(i)
    PROVE  Replaying' /\ Kept' /\ Authored'
<1> DEFINE op == [id |-> i, owner |-> identity, ts |-> clock + 1]
           stay == {o \in ops : target[o.id] # target[i]}
<1>1. /\ ops' = stay \cup {op}
      /\ owed' = (owed \ Ids(ops \ ops')) \cup {j \in {i} : call[j] = "sent"}
      /\ call' = [call EXCEPT ![i] = "done"]
      /\ clock' = clock + 1 /\ clock \in Nat
      /\ UNCHANGED <<token, identity, drain, author, writes, server, displaced, crossed>>
      /\ i \in Busy
  BY DEF WriteFails, Enqueue, inputVars, Busy, TypeOK
<1>2. op.id = i /\ op.owner = identity /\ op.ts = clock + 1 /\ stay \subseteq ops
  OBVIOUS
<1>3. ops' \subseteq Op
  BY DEF WriteFails, Enqueue, TypeOK, Op
<1> HIDE DEF op, stay
<1>4. \A o \in ops : o.id \in Write /\ o.id # i /\ o.ts \in Nat /\ o.ts <= clock
  BY <1>1 DEF TypeOK, Op, Replaying, Spent, Ordered, Busy
<1>5. \A d \in Drain : drain[d] # Idle => drain[d].id \in Write /\ drain[d].id # i
  BY <1>1 DEF TypeOK, Replaying, Spent, Busy
<1>6. Ordered'
  <2>1. \A o \in ops' : o.ts <= clock'
    BY <1>1, <1>2, <1>4
  <2>2. \A o, p \in ops' : o.ts = p.ts \/ o.id = p.id => o = p
    BY <1>1, <1>2, <1>4 DEF Replaying, Ordered
  <2>. QED BY <2>1, <2>2 DEF Ordered
<1>7. Spent'
  <2>1. \A o \in ops' : call'[o.id] = "done"
    BY <1>1, <1>2, <1>4 DEF Replaying, Spent, TypeOK
  <2>2. \A d \in Drain : drain'[d] # Idle => call'[drain'[d].id] = "done"
    BY <1>1, <1>5 DEF Replaying, Spent, TypeOK
  <2>. QED BY <2>1, <2>2 DEF Spent
<1>8. Heading'
  <2>. SUFFICES ASSUME NEW d \in Drain, drain'[d] # Idle, ~Stray(d)'
                PROVE  \E o \in ops' : Heads(ops') = {o} /\ o.id = drain'[d].id
    BY DEF Heading
  <2>1. drain'[d] = drain[d] /\ drain[d] # Idle
    BY <1>1
  <2>2. PICK p \in ops' : p.id = drain[d].id
    BY <2>1 DEF Stray, Ids
  <2>3. p \in ops
    BY <1>1, <1>2, <1>5, <2>1, <2>2
  <2>4. PICK o \in ops : Heads(ops) = {o} /\ o.id = drain[d].id
    BY <2>1, <2>2, <2>3 DEF Replaying, Heading, Stray, Ids
  <2>5. o = p
    BY <2>2, <2>3, <2>4 DEF Replaying, Ordered
  <2>6. \A x \in ops' : o.ts <= x.ts
    <3>1. \A x \in ops : o.ts <= x.ts
      BY <2>4 DEF Heads
    <3>. QED BY <1>1, <1>2, <1>4, <3>1
  <2>7. o \in Heads(ops')
    BY <2>5, <2>6 DEF Heads
  <2>8. Heads(ops') = {o}
    <3> DEFINE q == ops'
    <3>1. q \subseteq Op /\ (\A x, y \in q : x.ts = y.ts => x = y) /\ o \in Heads(q)
      BY <1>3, <1>6, <2>7 DEF Ordered
    <3> HIDE DEF q
    <3>2. Heads(q) = {o}
      BY <3>1, HeadIsAlone
    <3>. QED BY <3>2 DEF q
  <2>. QED BY <2>1, <2>2, <2>5, <2>8
<1>9. Replied'
  BY <1>1, <1>5, IdleFields DEF Replaying, Replied
<1>10. Kept'
  <2>1. Ids(ops) \subseteq Ids(ops') \cup Ids(ops \ ops') /\ i \in Ids(ops')
    BY <1>1, <1>2 DEF Ids
  <2>. QED BY <1>1, <2>1 DEF Kept
<1>11. Authored'
  <2>1. Busy' \subseteq Busy
    BY <1>1 DEF Busy, TypeOK
  <2>2. op.id \notin crossed /\ op.owner # None => author[op.id] = op.owner
    BY <1>1, <1>2 DEF Authored, Scope, OwnedByIdentity
  <2>3. \A o \in ops' : o.id \notin crossed' /\ o.owner # None => author'[o.id] = o.owner
    BY <1>1, <1>2, <2>2 DEF Authored
  <2>4. \A j \in Busy' \ crossed' : author'[j] = token'
    BY <1>1, <2>1 DEF Authored
  <2>5. \A d \in Drain :
          drain'[d].owner # None /\ drain'[d].id \notin crossed'
              => author'[drain'[d].id] = drain'[d].owner
    BY <1>1 DEF Authored
  <2>6. \A u \in User, t \in Target :
          server'[u][t] # 0 =>
              /\ server'[u][t] <= writes'
              /\ server'[u][t] \notin crossed' => author'[server'[u][t]] = u
    BY <1>1 DEF Authored
  <2>. QED BY <2>3, <2>4, <2>5, <2>6 DEF Authored
<1>. QED BY <1>6, <1>7, <1>8, <1>9, <1>10, <1>11 DEF Replaying

(* The server applies a write that its account made. *)
LEMMA ApplyArrives ==
    ASSUME TypeOK, Kept, Authored, NEW i \in Write, NEW u \in User, Apply(i, u), i <= writes,
           i \notin crossed => author[i] = u, Busy' = Busy,
           \A d \in Drain : drain'[d].owner = drain[d].owner /\ drain'[d].id = drain[d].id,
           UNCHANGED <<ops, token, author, writes, displaced, crossed>>
    PROVE  Kept' /\ Authored' /\ owed' \subseteq owed /\ i \notin owed'
<1>1. Kept' /\ owed' \subseteq owed /\ i \notin owed'
  BY DEF Kept, Apply
<1>2. \A v \in User, s \in Target : server'[v][s] = server[v][s] \/ (v = u /\ server'[v][s] = i)
  BY DEF Apply, TypeOK
<1>3. \A v \in User, s \in Target :
          server'[v][s] # 0 =>
              /\ server'[v][s] <= writes'
              /\ server'[v][s] \notin crossed' => author'[server'[v][s]] = v
  BY <1>2 DEF Authored
<1>4. \A j \in Busy' \ crossed' : author'[j] = token'
  BY DEF Authored
<1>5. \A o \in ops' : o.id \notin crossed' /\ o.owner # None => author'[o.id] = o.owner
  BY DEF Authored
<1>6. \A d \in Drain :
          drain'[d].owner # None /\ drain'[d].id \notin crossed'
              => author'[drain'[d].id] = drain'[d].owner
  BY DEF Authored
<1>. QED BY <1>1, <1>3, <1>4, <1>5, <1>6 DEF Authored

LEMMA StartWriteArrives ==
    ASSUME TypeOK, Made, Replaying, Kept, Authored, NEW t \in Target, StartWrite(t)
    PROVE  Replaying' /\ Kept' /\ Authored'
<1> DEFINE n == writes + 1
<1>1. /\ writes' = n /\ writes \in Nat /\ n \in Write /\ ~(n <= writes)
      /\ author' = [author EXCEPT ![n] = token]
      /\ call' = [call EXCEPT ![n] = "sent"]
      /\ UNCHANGED <<token, ops, clock, drain, server, owed, displaced, crossed>>
  BY OfflineQueueAssumption DEF StartWrite, TypeOK, Write, queueVars, historyVars
<1> HIDE DEF n
<1>2. call[n] = "unsent"
  BY <1>1 DEF Made, TypeOK
<1>3. Replaying'
  <2>1. \A i \in Write : call[i] = "done" => call'[i] = "done"
    BY <1>1, <1>2 DEF TypeOK
  <2>2. DrainsSend
    BY <1>1 DEF DrainsSend
  <2>. QED BY <1>1, <2>1, <2>2, ReplayingShrinks
<1>4. Kept'
  BY <1>1 DEF Kept
<1>5. \A o \in ops : o.id \in Write /\ o.id # n
  BY <1>2 DEF Replaying, Spent, TypeOK, Op
<1>6. \A d \in Drain : drain[d] # Idle => drain[d].id \in Write /\ drain[d].id # n
  BY <1>2 DEF Replaying, Spent, TypeOK
<1>7. \A i \in Busy' \ crossed' : author'[i] = token'
  BY <1>1 DEF Authored, Busy, TypeOK
<1>8. \A o \in ops' : o.id \notin crossed' /\ o.owner # None => author'[o.id] = o.owner
  BY <1>1, <1>5 DEF Authored, TypeOK
<1>9. \A d \in Drain :
          drain'[d].owner # None /\ drain'[d].id \notin crossed'
              => author'[drain'[d].id] = drain'[d].owner
  BY <1>1, <1>6, IdleFields DEF Authored, TypeOK
<1>10. ASSUME NEW u \in User, NEW s \in Target, server'[u][s] # 0
       PROVE  /\ server'[u][s] <= writes'
              /\ server'[u][s] \notin crossed' => author'[server'[u][s]] = u
  <2>1. server[u][s] \in Write /\ server[u][s] <= writes
    BY <1>1, <1>10, OfflineQueueAssumption DEF TypeOK, Authored, Write
  <2>2. server[u][s] # n /\ server[u][s] <= n
    BY <1>1, <2>1 DEF n, Write
  <2>3. author'[server[u][s]] = author[server[u][s]]
    BY <1>1, <2>1, <2>2 DEF TypeOK
  <2>. QED BY <1>1, <1>10, <2>2, <2>3 DEF Authored
<1>11. Authored'
  BY <1>7, <1>8, <1>9, <1>10 DEF Authored
<1>. QED BY <1>3, <1>4, <1>11

Arrival == Replaying /\ Kept /\ Authored

LEMMA ArrivalStep ==
    TypeOK /\ Scope /\ Made /\ Arrival /\ [Next]_vars => Arrival'
<1> SUFFICES ASSUME TypeOK, Scope, Made, Replaying, Kept, Authored, [Next]_vars
             PROVE  Replaying' /\ Kept' /\ Authored'
  BY DEF Arrival
<1>1. ASSUME NEW t \in Target, StartWrite(t) PROVE Replaying' /\ Kept' /\ Authored'
  BY <1>1, StartWriteArrives
<1>2. ASSUME NEW i \in Write, ServeWrite(i) PROVE Replaying' /\ Kept' /\ Authored'
  <2>1. /\ i \in Busy /\ i <= writes /\ author[i] \in User
        /\ Apply(i, author[i])
        /\ UNCHANGED <<token, ops, clock, drain, author, writes, displaced, crossed>>
        /\ Busy' = Busy
        /\ \A j \in Write : call[j] = "done" => call'[j] = "done"
    BY <1>2, OfflineQueueAssumption
       DEF ServeWrite, Apply, Busy, Made, TypeOK, Identity, queueVars, inputVars
  <2>2. i \notin crossed => author[i] = author[i]
    OBVIOUS
  <2>3. Kept' /\ Authored' /\ owed' \subseteq owed
    BY <2>1, <2>2, ApplyArrives
  <2>4. DrainsSend
    BY <2>1 DEF DrainsSend
  <2>5. Replaying'
    BY <2>1, <2>3, <2>4, ReplayingShrinks
  <2>. QED BY <2>3, <2>5
<1>3. ASSUME NEW q, q \subseteq ops, NEW u, NEW tok \in Identity, StartDrain(q, u, tok),
             UNCHANGED <<clock, author, server, writes, displaced>>,
             \A i \in Write : call[i] = "done" => call'[i] = "done", Busy' \subseteq Busy,
             crossed \subseteq crossed', token' = token \/ Busy' \subseteq crossed'
      PROVE  Replaying' /\ Kept' /\ Authored'
  <2>1. DrainsSend /\ ops' \subseteq ops /\ owed' \subseteq owed /\ Kept'
    BY <1>3, StartArrives
  <2>2. Replaying'
    BY <1>3, <2>1, ReplayingShrinks
  <2>3. Authored'
    BY <1>3, <2>1, AuthoredShrinks
  <2>. QED BY <2>1, <2>2, <2>3
<1>4. ASSUME NEW i \in Write, WriteSucceeds(i) PROVE Replaying' /\ Kept' /\ Authored'
  <2>1. /\ StartDrain(ops, identity, token) /\ token \in Identity
        /\ UNCHANGED <<token, clock, author, server, writes, displaced, crossed>>
        /\ \A j \in Write : call[j] = "done" => call'[j] = "done"
        /\ Busy' \subseteq Busy
    BY <1>4 DEF WriteSucceeds, Busy, TypeOK, inputVars
  <2>. QED BY <1>3, <2>1
<1>5. ASSUME NEW i \in Write, WriteFails(i) PROVE Replaying' /\ Kept' /\ Authored'
  BY <1>5, WriteFailsArrives
<1>6. ASSUME NEW d \in Drain, ServeDrain(d) PROVE Replaying' /\ Kept' /\ Authored'
  <2>1. drain[d] # Idle /\ drain[d] \in ActiveDrain
    BY <1>6 DEF ServeDrain, TypeOK, Idle, ActiveDrain
  <2>2. /\ Apply(drain[d].id, drain[d].token)
        /\ drain' = [drain EXCEPT ![d].phase = "applied"]
        /\ UNCHANGED <<token, ops, clock, call, author, writes, displaced, crossed>>
    BY <1>6 DEF ServeDrain, queueVars, inputVars
  <2>3. /\ drain[d].id \in Write /\ drain[d].token \in User /\ drain[d].owner = drain[d].token
        /\ drain[d].owner # None
    BY <2>1, <2>2, OfflineQueueAssumption
       DEF ActiveDrain, Apply, Identity, Scope, ReplayUnderStamp
  <2>4. drain[d].id <= writes /\ (drain[d].id \notin crossed => author[drain[d].id] = drain[d].token)
    BY <2>1, <2>3 DEF Replaying, Spent, Made, Authored
  <2>5. /\ \A e \in Drain : drain'[e].owner = drain[e].owner /\ drain'[e].id = drain[e].id
        /\ \A e \in Drain \ {d} : drain'[e] = drain[e]
        /\ \A e \in Drain : drain'[e] # Idle => drain[e] # Idle
    BY <2>1, <2>2 DEF TypeOK
  <2>6. Busy' = Busy
    BY <2>2 DEF Busy
  <2>7. Kept' /\ Authored' /\ owed' \subseteq owed /\ drain[d].id \notin owed'
    BY <2>2, <2>3, <2>4, <2>5, <2>6, ApplyArrives
  <2>8. Ordered' /\ Spent'
    BY <2>2, <2>5 DEF Replaying, Ordered, Spent
  <2>9. Heading'
    BY <2>2, <2>5 DEF Replaying, Heading, Stray
  <2>10. Replied'
    BY <2>5, <2>7 DEF Replaying, Replied
  <2>. QED BY <2>7, <2>8, <2>9, <2>10 DEF Replaying
<1>7. ASSUME NEW d \in Drain, ops' \subseteq ops, owed' \subseteq owed,
             KeepDraining(d, ops') \/ drain' = [drain EXCEPT ![d] = Idle],
             UNCHANGED <<token, clock, call, author, server, writes, crossed>>
      PROVE  Replaying' /\ Authored'
  <2>1. DrainsSend
    BY <1>7, ResumeSends
  <2>2. Replaying'
    BY <1>7, <2>1, ReplayingShrinks
  <2>3. Busy' = Busy
    BY <1>7 DEF Busy
  <2>. QED BY <1>7, <2>1, <2>2, <2>3, AuthoredShrinks
<1>8. ASSUME NEW d \in Drain, DrainSucceeds(d) PROVE Replaying' /\ Kept' /\ Authored'
  <2>1. drain[d] # Idle /\ drain[d].id \notin owed /\ owed' = owed /\ ShiftHead(d)
    BY <1>8 DEF DrainSucceeds, Idle, Replaying, Replied
  <2>2. Kept'
    BY <2>1, ShiftKeeps
  <2>3. Replaying' /\ Authored'
    BY <1>7, <1>8, <2>1 DEF DrainSucceeds, ShiftHead, Shift, inputVars
  <2>. QED BY <2>2, <2>3
<1>9. ASSUME NEW d \in Drain, DrainFails(d) PROVE Replaying' /\ Kept' /\ Authored'
  <2>1. drain[d] # Idle /\ UNCHANGED <<token, clock, call, author, server, writes, crossed>>
    BY <1>9 DEF DrainFails, Idle, inputVars
  <2>2. CASE ShiftHead(d) /\ owed' = owed \ {drain[d].id} /\ KeepDraining(d, ops')
    <3>1. Kept'
      BY <2>1, <2>2, ShiftKeeps
    <3>2. ops' \subseteq ops
      BY <2>2 DEF ShiftHead, Shift
    <3>3. Replaying' /\ Authored'
      BY <1>7, <2>1, <2>2, <3>2
    <3>. QED BY <3>1, <3>3
  <2>3. CASE drain' = [drain EXCEPT ![d] = Idle] /\ UNCHANGED <<ops, owed, displaced>>
    <3>1. Kept'
      BY <2>3 DEF Kept
    <3>2. Replaying' /\ Authored'
      BY <1>7, <2>1, <2>3
    <3>. QED BY <3>1, <3>2
  <2>. QED BY <1>9, <2>2, <2>3 DEF DrainFails
<1>10. CASE Online
  <2>1. /\ StartDrain(ops, identity, token) /\ token \in Identity
        /\ UNCHANGED <<token, clock, call, author, server, writes, displaced, crossed>>
    BY <1>10 DEF Online, TypeOK, inputVars
  <2>2. Busy' = Busy
    BY <2>1 DEF Busy
  <2>. QED BY <1>3, <2>1, <2>2
<1>11. ASSUME NEW u \in Identity, NEW tok \in Identity, SetCurrentUser(u, tok),
              NEW new \in Identity, SetToken(new), UNCHANGED authUnchanged
       PROVE  Replaying' /\ Kept' /\ Authored'
  <2>1. /\ UNCHANGED <<clock, call, author, server, writes, displaced>>
        /\ crossed \subseteq crossed'
    BY <1>11 DEF authUnchanged, SetToken, inputVars
  <2>2. Busy' = Busy
    BY <2>1 DEF Busy
  <2>3. token' = token \/ Busy' \subseteq crossed'
    BY <1>11, <2>2 DEF SetToken
  <2>4. CASE UNCHANGED <<ops, owed, drain>>
    <3>1. DrainsSend
      BY <2>4 DEF DrainsSend
    <3>2. Replaying'
      BY <2>1, <2>4, <3>1, ReplayingShrinks
    <3>3. Authored'
      BY <2>1, <2>2, <2>3, <2>4, <3>1, AuthoredShrinks
    <3>. QED BY <2>1, <2>4, <3>2, <3>3 DEF Kept
  <2>5. CASE StartDrain(DropForeign(ops, u), u, tok)
    <3>1. DropForeign(ops, u) \subseteq ops
      BY DEF DropForeign
    <3>. QED BY <1>3, <2>1, <2>2, <2>3, <2>5, <3>1
  <2>. QED BY <1>11, <2>4, <2>5 DEF SetCurrentUser
<1>12. CASE Account
  <2>1. ASSUME NEW u \in User, Login(u) PROVE Replaying' /\ Kept' /\ Authored'
    BY <1>11, <2>1 DEF Login, Identity
  <2>2. CASE Logout
    BY <1>11, <2>2 DEF Logout, Identity
  <2>3. CASE ValidateSession
    BY <1>11, <2>3 DEF ValidateSession, Identity, TypeOK
  <2>. QED BY <1>12, <2>1, <2>2, <2>3 DEF Account
<1>13. CASE Reload
  <2>1. /\ UNCHANGED <<token, ops, clock, author, server, writes, owed, displaced, crossed>>
        /\ DrainsSend
        /\ \A i \in Write : call[i] = "done" => call'[i] = "done"
        /\ Busy' = {}
    BY <1>13 DEF Reload, DrainsSend, Busy, queueVars, inputVars, historyVars
  <2>2. Replaying' /\ Authored'
    BY <2>1, ReplayingShrinks, AuthoredShrinks
  <2>. QED BY <2>1, <2>2 DEF Kept
<1>14. CASE UNCHANGED vars
  <2>1. UNCHANGED <<token, ops, clock, call, drain, author, server, writes, owed, displaced,
                    crossed>>
    BY <1>14 DEF vars, queueVars, inputVars, historyVars
  <2>2. DrainsSend /\ Busy' = Busy
    BY <2>1 DEF DrainsSend, Busy
  <2>3. Replaying' /\ Authored'
    BY <2>1, <2>2, ReplayingShrinks, AuthoredShrinks
  <2>. QED BY <2>1, <2>3 DEF Kept
<1>. QED
  BY <1>1, <1>2, <1>4, <1>5, <1>6, <1>8, <1>9, <1>10, <1>12, <1>13, <1>14 DEF Next, Network

(* "Persist happens after every mutation so a crash/reload never loses an
   accepted write", and no account carries a write of another: what drain, enqueue
   and setCurrentUser do whatever overlaps, with the two exceptions named. The
   strengthening says that a drain whose op is still queued is sending the only
   oldest one, so that the shift after its await removes the op it sent. *)
THEOREM AcceptedWritesArrive == Spec => []WritesArrive
<1>1. Init => TypeOK /\ Scope /\ Made /\ OneOpPerTarget /\ Arrival
  <2> SUFFICES ASSUME Init PROVE TypeOK /\ Scope /\ Made /\ OneOpPerTarget /\ Arrival
    OBVIOUS
  <2>1. TypeOK
    BY OfflineQueueAssumption DEF Init, TypeOK, Identity, Write
  <2>2. Scope /\ Made /\ OneOpPerTarget
    BY DEF Init, Scope, OwnedByIdentity, ReplayUnderStamp, DrainScoped, Idle, Made, OneOpPerTarget
  <2>3. Busy = {}
    BY DEF Init, Busy
  <2>4. Kept /\ Authored
    BY <2>3 DEF Init, Kept, Authored, Idle
  <2>5. Replaying
    BY DEF Init, Replaying, Ordered, Spent, Heading, Replied, Idle
  <2>. QED BY <2>1, <2>2, <2>4, <2>5 DEF Arrival
<1>2. TypeOK /\ Scope /\ Made /\ OneOpPerTarget /\ Arrival /\ [Next]_vars
        => (TypeOK /\ Scope /\ Made /\ OneOpPerTarget /\ Arrival)'
  BY TypeStep, ScopeStep, CollapseStep, ArrivalStep
<1>3. Arrival => WritesArrive
  BY DEF Arrival, Kept, Authored, WritesArrive
<1>. QED BY <1>1, <1>2, <1>3, PTL DEF Spec
=============================================================================
