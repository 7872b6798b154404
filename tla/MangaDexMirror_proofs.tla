------------------------- MODULE MangaDexMirror_proofs -------------------------
(***************************************************************************)
(* Proofs about the MangaDex mirror, for any records, page length, cap,    *)
(* number of retries, time and faults.                                     *)
(***************************************************************************)
EXTENDS MangaDexMirror, FiniteSetTheorems, TLAPS

-----------------------------------------------------------------------------
(* Listings: sets of pairs of numbers in lexical order, read by offset. *)

Listed(W) == W \subseteq Nat \X Nat /\ IsFiniteSet(W)

(* Of two records of a listing one comes before the other, not both, and what comes
   before a record comes before what follows it (the order MangaDex is asked for). *)
LEMMA BeforeIsAnOrder ==
    ASSUME NEW p \in Nat \X Nat, NEW q \in Nat \X Nat, NEW r \in Nat \X Nat
    PROVE  /\ ~Before(p, p)
           /\ p = q \/ Before(p, q) \/ Before(q, p)
           /\ ~(Before(p, q) /\ Before(q, p))
           /\ Before(p, q) /\ Before(q, r) => Before(p, r)
           /\ Before(p, q) => p[1] <= q[1]
           /\ p[1] < q[1] => Before(p, q)
    BY DEF Before

(* The rank of a record is a number below the listing's length (the total). *)
LEMMA RankType ==
    ASSUME NEW W, Listed(W), NEW p
    PROVE  /\ Rank(p, W) \in Nat
           /\ Cardinality(W) \in Nat
           /\ p \in W => Rank(p, W) < Cardinality(W)
<1> DEFINE B == {q \in W : Before(q, p)}
<1>1. B \in SUBSET W /\ IsFiniteSet(W)
    BY DEF Listed
<1>2. IsFiniteSet(B) /\ Cardinality(B) <= Cardinality(W) /\ (Cardinality(W) = Cardinality(B) => W = B)
    BY <1>1, FS_Subset
<1>3. Cardinality(B) \in Nat /\ Cardinality(W) \in Nat
    BY <1>1, <1>2, FS_CardinalityType
<1>4. p \in W => p \notin B
    BY BeforeIsAnOrder DEF Listed
<1>5. Rank(p, W) = Cardinality(B)
    BY DEF Rank
<1> QED
    BY <1>2, <1>3, <1>4, <1>5

(* A record before another has the smaller rank, so that ranks tell records apart. *)
LEMMA RankGrows ==
    ASSUME NEW W, Listed(W), NEW p \in W, NEW q \in W
    PROVE  /\ Before(p, q) => Rank(p, W) < Rank(q, W)
           /\ p # q => Rank(p, W) # Rank(q, W)
<1>1. ASSUME NEW a \in W, NEW b \in W, Before(a, b)
      PROVE  Rank(a, W) < Rank(b, W)
    <2> DEFINE A == {x \in W : Before(x, a)}
               B == {x \in W : Before(x, b)}
    <2>1. A \in SUBSET B
        BY <1>1, BeforeIsAnOrder DEF Listed
    <2>2. a \in B /\ a \notin A
        BY <1>1, BeforeIsAnOrder DEF Listed
    <2>3. IsFiniteSet(B)
        BY FS_Subset DEF Listed
    <2>4. Cardinality(A) <= Cardinality(B) /\ (Cardinality(B) = Cardinality(A) => B = A)
        BY <2>1, <2>3, FS_Subset
    <2>5. Rank(a, W) = Cardinality(A) /\ Rank(b, W) = Cardinality(B)
        BY DEF Rank
    <2>6. Rank(a, W) \in Nat /\ Rank(b, W) \in Nat
        BY RankType
    <2> QED
        BY <2>2, <2>4, <2>5, <2>6
<1>2. p # q => Before(p, q) \/ Before(q, p)
    BY BeforeIsAnOrder DEF Listed
<1>3. Rank(p, W) \in Nat /\ Rank(q, W) \in Nat
    BY RankType
<1> QED
    BY <1>1, <1>2, <1>3

(* How long a stretch of numbers is. *)
LEMMA LengthOfStretch ==
    ASSUME NEW a \in Nat, NEW b \in Nat
    PROVE  /\ IsFiniteSet(a .. (b - 1))
           /\ Cardinality(a .. (b - 1)) = IF b > a THEN b - a ELSE 0
<1> DEFINE c == b - 1
<1>1. a \in Int /\ c \in Int
    OBVIOUS
<1> HIDE DEF c
<1>2. IsFiniteSet(a .. c) /\ Cardinality(a .. c) = IF a > c THEN 0 ELSE c - a + 1
    BY <1>1, FS_Interval
<1> QED
    BY <1>2 DEF c

(* Each offset below the total is the rank of a record: a listing read by offset has
   no holes. *)
LEMMA EveryOffsetIsARank ==
    ASSUME NEW W, Listed(W), NEW k \in Nat, k < Cardinality(W)
    PROVE  \E p \in W : Rank(p, W) = k
<1> DEFINE N == Cardinality(W)
           I == 0 .. (N - 1)
           f == [p \in W |-> Rank(p, W)]
<1>1. N \in Nat /\ N > 0
    BY RankType
<1>2. IsFiniteSet(I) /\ Cardinality(I) = N
    BY <1>1, LengthOfStretch
<1>3. f \in [W -> I]
    BY <1>1, RankType
<1>4. \A p, q \in W : f[p] = f[q] => p = q
    BY RankGrows
<1>5. f \in Injection(W, I)
    BY <1>3, <1>4 DEF Injection, IsInjective
<1>6. f \in Surjection(W, I)
    BY <1>2, <1>5, FS_Injection
<1>7. k \in I
    BY <1>1
<1> QED
    BY <1>6, <1>7 DEF Surjection

(* The page at an offset is as long as the listing allows, it is the stretch of ranks
   that begins at the offset, and a short page is the end of the listing. *)
LEMMA PageIsAStretch ==
    ASSUME NEW W, Listed(W), NEW offset \in Nat
    PROVE  LET P == PageAt(W, offset)
               n == Cardinality(P)
           IN  /\ P \subseteq W /\ n \in Nat /\ n <= Page
               /\ \A p \in P : Rank(p, W) < offset + n
               /\ \A p \in W \ P : Rank(p, W) < offset \/ Rank(p, W) >= offset + n
               /\ n < Page => \A p \in W : Rank(p, W) < offset + n
               /\ P = {} => \A p \in W : Rank(p, W) < offset
<1> DEFINE P == PageAt(W, offset)
           N == Cardinality(W)
           top == IF offset + Page < N THEN offset + Page ELSE N
           I == offset .. (top - 1)
           f == [p \in P |-> Rank(p, W)]
           n == Cardinality(P)
<1>1. N \in Nat /\ Page \in Nat \ {0} /\ top \in Nat
    BY RankType, MirrorAssumption
<1>2. P \subseteq W /\ IsFiniteSet(P) /\ n \in Nat
    <2>1. P \in SUBSET W
        BY DEF PageAt
    <2> QED
        BY <2>1, FS_Subset, FS_CardinalityType DEF Listed
<1>3. \A p \in W : Rank(p, W) \in Nat /\ Rank(p, W) < N
    BY RankType
<1>4. \A p \in W : p \in P <=> Rank(p, W) \in I
    BY <1>1, <1>3 DEF PageAt
<1>5. f \in [P -> I]
    BY <1>2, <1>4
<1>6. f \in Injection(P, I)
    <2>1. \A p, q \in P : f[p] = f[q] => p = q
        BY <1>2, RankGrows
    <2> QED
        BY <1>5, <2>1 DEF Injection, IsInjective
<1>7. f \in Surjection(P, I)
    <2>1. ASSUME NEW k \in I PROVE \E p \in P : f[p] = k
        <3>1. k \in Nat /\ k < Cardinality(W)
            BY <1>1
        <3>2. PICK p \in W : Rank(p, W) = k
            BY <3>1, EveryOffsetIsARank
        <3> QED
            BY <3>2, <1>4
    <2> QED
        BY <1>5, <2>1 DEF Surjection
<1>8. IsFiniteSet(I) /\ Cardinality(I) = IF top > offset THEN top - offset ELSE 0
    BY <1>1, LengthOfStretch
<1>9. n = IF top > offset THEN top - offset ELSE 0
    BY <1>6, <1>7, <1>8, FS_Injection
<1>10. P = {} => n = 0
    BY FS_EmptySet
<1> HIDE DEF P
<1>11. /\ n <= Page
       /\ \A p \in P : Rank(p, W) < offset + n
       /\ \A p \in W \ P : Rank(p, W) < offset \/ Rank(p, W) >= offset + n
       /\ n < Page => \A p \in W : Rank(p, W) < offset + n
       /\ P = {} => \A p \in W : Rank(p, W) < offset
    BY <1>1, <1>2, <1>3, <1>4, <1>9, <1>10
<1> QED
    BY <1>2, <1>11 DEF P

(* A listing that is not empty has a first record. *)
LEMMA FirstIsFirst ==
    ASSUME NEW W, Listed(W), W # {}
    PROVE  First(W) \in W /\ \A q \in W \ {First(W)} : Before(First(W), q)
<1>1. Cardinality(W) \in Nat /\ Cardinality(W) # 0
    BY RankType, FS_EmptySet DEF Listed
<1>2. PICK p \in W : Rank(p, W) = 0
    BY <1>1, EveryOffsetIsARank
<1>3. \A q \in W \ {p} : Before(p, q)
    BY <1>2, RankGrows, RankType, BeforeIsAnOrder DEF Listed
<1> QED
    BY <1>3 DEF First

(* A record keeps its rank, or gets a smaller one, when nothing new comes before it:
   what is published or updated now comes after all that is older. *)
LEMMA RankShrinks ==
    ASSUME NEW V, Listed(V), NEW W, Listed(W), NEW p \in V, NEW c \in Nat,
           \A q \in V : q[1] < c => q \in W,
           p[1] < c
    PROVE  Rank(p, V) <= Rank(p, W)
<1> DEFINE A == {q \in V : Before(q, p)}
           B == {q \in W : Before(q, p)}
<1>1. A \in SUBSET B
    BY BeforeIsAnOrder DEF Listed
<1>2. IsFiniteSet(B)
    BY FS_Subset DEF Listed
<1>3. Cardinality(A) <= Cardinality(B)
    BY <1>1, <1>2, FS_Subset
<1> QED
    BY <1>3 DEF Rank

(* A listing that only grows takes no record a rank down. *)
LEMMA RankOfMore ==
    ASSUME NEW V, Listed(V), NEW W, W \subseteq V, NEW p
    PROVE  Listed(W) /\ Rank(p, W) <= Rank(p, V)
<1> DEFINE A == {q \in W : Before(q, p)}
           B == {q \in V : Before(q, p)}
<1>1. IsFiniteSet(W) /\ IsFiniteSet(B)
    BY FS_Subset DEF Listed
<1>2. Cardinality(A) <= Cardinality(B)
    BY <1>1, FS_Subset
<1> QED
    BY <1>1, <1>2 DEF Rank, Listed

(* A window is a listing of its job's records, each with its stamp. *)
LEMMA WindowType ==
    ASSUME NEW job \in Jobs, NEW stamp \in [Items -> Time], NEW since \in Nat
    PROVE  LET W == Window(job, stamp, since)
           IN  /\ Listed(W)
               /\ W \subseteq Time \X Items
               /\ ItemsOf(job) \subseteq Items
               /\ \A p \in W : /\ p[2] \in ItemsOf(job) /\ p = <<stamp[p[2]], p[2]>>
                               /\ p[1] > 0 /\ p[1] >= since
               /\ \A i \in ItemsOf(job) : stamp[i] > 0 /\ stamp[i] >= since
                                          => <<stamp[i], i>> \in W
<1> DEFINE W == Window(job, stamp, since)
           S == {x \in ItemsOf(job) : stamp[x] > 0 /\ stamp[x] >= since}
           f == [x \in S |-> <<stamp[x], x>>]
<1>1. Works \subseteq Nat /\ Chapters \subseteq Nat /\ IsFiniteSet(Works) /\ IsFiniteSet(Chapters)
    BY MirrorAssumption
<1>2. ItemsOf(job) \subseteq Items /\ IsFiniteSet(ItemsOf(job)) /\ Items \subseteq Nat
    BY <1>1 DEF ItemsOf, Items
<1>3. S \in SUBSET ItemsOf(job)
    OBVIOUS
<1>4. IsFiniteSet(S)
    BY <1>2, <1>3, FS_Subset
<1>5. W = {<<stamp[i], i>> : i \in S}
    BY DEF Window
<1>6. f \in Surjection(S, W)
    BY <1>5 DEF Surjection
<1>7. IsFiniteSet(W)
    BY <1>4, <1>6, FS_Surjection
<1>8. \A i \in ItemsOf(job) : i \in Items /\ stamp[i] \in Time
    BY <1>2
<1>9. Time \subseteq Nat
    BY MirrorAssumption DEF Time
<1>10. W \subseteq Time \X Items
    BY <1>5, <1>8
<1>11. Time \X Items \subseteq Nat \X Nat
    BY <1>2, <1>9
<1>12. Listed(W)
    BY <1>7, <1>10, <1>11 DEF Listed
<1>13. \A p \in W : /\ p[2] \in ItemsOf(job) /\ p = <<stamp[p[2]], p[2]>>
                   /\ p[1] > 0 /\ p[1] >= since
    BY <1>5
<1>14. \A i \in ItemsOf(job) : stamp[i] > 0 /\ stamp[i] >= since => <<stamp[i], i>> \in W
    BY <1>5
<1> QED
    BY <1>2, <1>10, <1>12, <1>13, <1>14

-----------------------------------------------------------------------------
(* Types. *)

LEMMA IdleType == Idle \in Sweeps
    BY MirrorAssumption DEF Idle, Sweeps, Jobs, Time

LEMMA StampsType ==
    ASSUME TypeOK, NEW seeded
    PROVE  Stamps(seeded) \in [Items -> Time]
    BY DEF TypeOK, Stamps

LEMMA ListingType ==
    ASSUME TypeOK, NEW s \in Sweeps
    PROVE  LET W == Listing(s)
           IN  /\ Listed(W)
               /\ W \subseteq Time \X Items
               /\ Ids(W) \subseteq Items
               /\ Cardinality(W) \in Nat
               /\ IsFiniteSet(PageAt(W, s.offset))
               /\ Cardinality(PageAt(W, s.offset)) \in Nat
<1>1. s.job \in Jobs /\ s.since \in Nat
    BY MirrorAssumption DEF Sweeps
<1>2. Listed(Listing(s)) /\ Listing(s) \subseteq Time \X Items
    BY <1>1, StampsType, WindowType DEF Listing
<1>3. PageAt(Listing(s), s.offset) \in SUBSET Listing(s)
    BY DEF PageAt
<1>4. IsFiniteSet(PageAt(Listing(s), s.offset)) /\ Cardinality(PageAt(Listing(s), s.offset)) \in Nat
      /\ Cardinality(Listing(s)) \in Nat
    BY <1>2, <1>3, FS_Subset, FS_CardinalityType DEF Listed
<1> QED
    BY <1>2, <1>4 DEF Ids

LEMMA NewSweepType ==
    ASSUME TypeOK, NEW job \in Jobs
    PROVE  NewSweep(job) \in Sweeps
<1>1. state[job] \in Rows /\ clock \in Time /\ "list" \in {"idle", "reset_catalogue", "reset_chapters",
                 "list", "page", "slide", "done", "stopped"}
    BY DEF TypeOK
<1>2. state[job].cursor \in 0 .. MaxTime + 1 /\ state[job].seed_done \in BOOLEAN
    BY <1>1 DEF Rows
<1> QED
    BY <1>1, <1>2, IdleType DEF NewSweep, Sweeps

(* The page of a sweep is a listing itself. *)
LEMMA PageType ==
    ASSUME TypeOK, NEW s \in Sweeps
    PROVE  /\ Listed(s.page)
           /\ s.page # {} => /\ First(s.page) \in s.page
                             /\ First(s.page) \in Time \X Items
                             /\ \A q \in s.page \ {First(s.page)} : Before(First(s.page), q)
<1>1. s.page \in SUBSET (Time \X Items)
    BY DEF Sweeps
<1>2. Time \in SUBSET Nat /\ IsFiniteSet(Time) /\ Items \subseteq Nat /\ IsFiniteSet(Items)
    <2>1. IsFiniteSet(0 .. MaxTime)
        BY MirrorAssumption, FS_Interval
    <2>2. IsFiniteSet(Works \cup Chapters)
        BY MirrorAssumption, FS_Union
    <2> QED
        BY <2>1, <2>2, MirrorAssumption DEF Time, Items
<1>3. IsFiniteSet(Time \X Items)
    BY <1>2, FS_Product
<1>4. Listed(s.page)
    BY <1>1, <1>2, <1>3, FS_Subset DEF Listed
<1> QED
    BY <1>1, <1>4, FirstIsFirst

(* What an action makes of a task's sweep is a sweep again. *)
LEMMA MovesType ==
    ASSUME TypeOK, NEW t \in Tasks, NEW s \in Sweeps, Moves(t, s)
    PROVE  sweep' \in [Tasks -> Sweeps]
    BY DEF TypeOK, Moves

(* MangaDex publishes and updates, and the clock goes on: the types stay. *)
LEMMA UpstreamTypes ==
    ASSUME TypeOK
    PROVE  /\ Tick => TypeOK'
           /\ \A i \in Items : Publish(i) \/ Update(i) => TypeOK'
<1>1. clock \in Time /\ created \in [Items -> Time] /\ updated \in [Items -> Time]
      /\ sweep \in [Tasks -> Sweeps]
    BY DEF TypeOK
<1>2. ASSUME Tick PROVE TypeOK'
    BY <1>1, <1>2, MirrorAssumption DEF TypeOK, Tick, Time
<1>3. ASSUME NEW i \in Items, Publish(i) PROVE TypeOK'
    <2>1. ASSUME NEW s \in Sweeps PROVE [s EXCEPT !.excused = @ \cup {i}] \in Sweeps
        BY <2>1 DEF Sweeps
    <2>2. sweep' \in [Tasks -> Sweeps]
        BY <1>1, <1>3, <2>1 DEF Publish
    <2>3. created' \in [Items -> Time] /\ updated' \in [Items -> Time]
        BY <1>1, <1>3 DEF Publish
    <2>4. forgotten' \subseteq Items
        BY <1>3 DEF Publish, TypeOK, Items
    <2> QED
        BY <1>3, <2>2, <2>3, <2>4 DEF TypeOK, Publish
<1>4. ASSUME NEW i \in Items, Update(i) PROVE TypeOK'
    <2>1. ASSUME NEW s \in Sweeps, NEW X \in SUBSET Items
          PROVE  [s EXCEPT !.excused = @ \cup X] \in Sweeps
        BY <2>1 DEF Sweeps
    <2>2. ASSUME NEW s \in Sweeps, NEW P, P \subseteq Listing(s)
          PROVE  Ids(P) \in SUBSET Items
        BY <2>2, ListingType DEF Ids
    <2>3. ASSUME NEW t \in Tasks PROVE sweep'[t] \in Sweeps
        <3> DEFINE W == Listing(sweep[t])
                   V == Window(sweep[t].job, updated', sweep[t].since)
                   slipped == {p \in W \cap V : /\ Rank(p, W) >= Fetched(sweep[t])
                                                /\ Rank(p, V) < Fetched(sweep[t])}
        <3>1. sweep[t] \in Sweeps /\ slipped \subseteq W
            BY <1>1
        <3>2. Ids(slipped) \in SUBSET Items
            BY <3>1, <2>2
        <3>3. sweep'[t] = IF Reading(sweep[t]) /\ sweep[t].seeded
                          THEN [sweep[t] EXCEPT !.excused = @ \cup Ids(slipped)]
                          ELSE sweep[t]
            BY <1>4 DEF Update
        <3> HIDE DEF slipped
        <3>4. [sweep[t] EXCEPT !.excused = @ \cup Ids(slipped)] \in Sweeps
            BY <3>1, <3>2, <2>1
        <3> QED
            BY <3>1, <3>3, <3>4
    <2>4. \E F : sweep' = [t \in Tasks |-> F[t]]
        <3> DEFINE X(t) == {p \in Listing(sweep[t]) \cap Window(sweep[t].job, updated', sweep[t].since) :
                              /\ Rank(p, Listing(sweep[t])) >= Fetched(sweep[t])
                              /\ Rank(p, Window(sweep[t].job, updated', sweep[t].since)) < Fetched(sweep[t])}
                   F == [t \in Tasks |-> IF Reading(sweep[t]) /\ sweep[t].seeded
                                         THEN [sweep[t] EXCEPT !.excused = @ \cup Ids(X(t))]
                                         ELSE sweep[t]]
        <3>1. sweep' = F
            BY <1>4 DEF Update
        <3>2. F = [t \in Tasks |-> F[t]]
            OBVIOUS
        <3> QED
            BY <3>1, <3>2
    <2>5. sweep' \in [Tasks -> Sweeps]
        BY <2>3, <2>4
    <2>6. updated' \in [Items -> Time]
        BY <1>1, <1>4 DEF Update
    <2> QED
        BY <1>4, <2>5, <2>6 DEF TypeOK, Update
<1> QED
    BY <1>2, <1>3, <1>4

(* A sweep begins, the resets included: the types stay. *)
LEMMA BeginTypes ==
    ASSUME TypeOK
    PROVE  Begin \/ ResetCatalogue \/ ResetChapters => TypeOK'
<1>1. /\ NewSweep("catalogue") \in Sweeps /\ NewSweep("chapters") \in Sweeps
      /\ NewSweep("backfill") \in Sweeps
    BY NewSweepType DEF Jobs
<1>2. [Idle EXCEPT !.pc = "reset_catalogue"] \in Sweeps
    BY IdleType DEF Sweeps
<1>3. [sweep["admin"] EXCEPT !.pc = "reset_chapters"] \in Sweeps
    BY DEF TypeOK, Sweeps, Tasks
<1>4. Begin \/ ResetCatalogue \/ ResetChapters =>
      /\ sweep' \in [Tasks -> Sweeps]
      /\ UNCHANGED <<clock, created, updated, landed, flag, forgotten>>
    BY <1>1, <1>2, <1>3, MovesType DEF Begin, SyncCycle, ChapterCycle, Resync, BackfillPass,
       ResetCatalogue, ResetChapters, Tasks, upstream
<1>5. NoRow \in Rows
    BY MirrorAssumption DEF NoRow, Rows
<1>6. Begin \/ ResetCatalogue \/ ResetChapters => state' \in [Jobs -> Rows]
    BY <1>5 DEF TypeOK, Begin, SyncCycle, ChapterCycle, Resync, BackfillPass, ResetCatalogue, ResetChapters
<1> QED
    BY <1>4, <1>6 DEF TypeOK

(* A sweep reads on: the types stay. *)
LEMMA ReadTypes ==
    ASSUME TypeOK, NEW t \in Tasks
    PROVE  ListPage(t) \/ EmptyPage(t) \/ PageKeepsFailing => TypeOK'
<1>1. \A u \in Tasks : sweep[u] \in Sweeps
    BY DEF TypeOK
<1> DEFINE s == sweep[t]
           W == Listing(s)
           P == PageAt(W, s.offset)
<1>2. s \in Sweeps /\ W \subseteq Time \X Items /\ P \subseteq W /\ Ids(W) \subseteq Items
      /\ Cardinality(W) \in Nat /\ Cardinality(P) \in Nat
    BY <1>1, ListingType DEF PageAt
<1>3. ASSUME ListPage(t) PROVE sweep' \in [Tasks -> Sweeps]
    <2>1. CASE P = {}
        <3>1. [s EXCEPT !.pc = "done"] \in Sweeps
            BY <1>2 DEF Sweeps
        <3> QED
            BY <1>3, <2>1, <3>1, MovesType DEF ListPage
    <2>2. CASE P # {}
        <3>1. PICK bad \in SUBSET P :
                Moves(t, [s EXCEPT !.pc = "page", !.page = P \ bad,
                                   !.raw = Cardinality(P),
                                   !.total = Cardinality(W),
                                   !.empties = 0,
                                   !.lost = @ \cup Ids(bad)])
            BY <1>3, <2>2 DEF ListPage
        <3>2. Ids(bad) \subseteq Items /\ P \ bad \in SUBSET (Time \X Items)
            BY <1>2 DEF Ids
        <3>3. 0 \in 0 .. Retries /\ s.lost \cup Ids(bad) \in SUBSET Items
            BY <1>2, <3>2, MirrorAssumption DEF Sweeps
        <3> HIDE DEF P, W, s
        <3>4. [s EXCEPT !.pc = "page", !.page = P \ bad,
                        !.raw = Cardinality(P),
                        !.total = Cardinality(W),
                        !.empties = 0,
                        !.lost = @ \cup Ids(bad)] \in Sweeps
            BY <1>2, <3>2, <3>3 DEF Sweeps
        <3> QED
            BY <3>1, <3>4, MovesType DEF s
    <2> QED
        BY <2>1, <2>2
<1>4. ASSUME EmptyPage(t) PROVE sweep' \in [Tasks -> Sweeps]
    <2>1. Ids(Unread(s)) \subseteq Items
        BY <1>2 DEF Ids, Unread
    <2>2. s.empties < Retries => [s EXCEPT !.empties = @ + 1] \in Sweeps
        BY <1>2, MirrorAssumption DEF Sweeps
    <2>3. [s EXCEPT !.pc = IF s.job = "backfill" THEN "slide" ELSE "done",
                    !.truncated = s.job = "backfill",
                    !.excused = @ \cup Ids(Unread(s))] \in Sweeps
        BY <1>2, <2>1 DEF Sweeps
    <2> QED
        BY <1>4, <2>2, <2>3, MovesType DEF EmptyPage
<1>5. ASSUME PageKeepsFailing PROVE sweep' \in [Tasks -> Sweeps]
    <2>1. "backfill" \in Tasks /\ [sweep["backfill"] EXCEPT !.pc = "slide"] \in Sweeps
        BY <1>1 DEF Sweeps, Tasks
    <2> QED
        BY <1>5, <2>1, MovesType DEF PageKeepsFailing
<1>6. ListPage(t) \/ EmptyPage(t) \/ PageKeepsFailing =>
      UNCHANGED <<clock, created, updated, landed, state, flag, forgotten>>
    BY DEF ListPage, EmptyPage, PageKeepsFailing, upstream
<1> QED
    BY <1>3, <1>4, <1>5, <1>6 DEF TypeOK

(* What Done makes of a sweep. *)
LEMMA DoneType ==
    ASSUME TypeOK, NEW s \in Sweeps, NEW p \in s.page, NEW moves \in BOOLEAN
    PROVE  /\ Done(s, p, moves) \in Sweeps
           /\ [Done(s, p, moves) EXCEPT !.lost = @ \cup {p[2]}] \in Sweeps
           /\ p[2] \in Items
<1>1. p \in Time \X Items
    BY DEF Sweeps
<1>2. Done(s, p, moves) \in Sweeps
    BY <1>1 DEF Sweeps, Done
<1> QED
    BY <1>1, <1>2 DEF Sweeps

(* A record of the page is done with: the types stay. *)
LEMMA OfferTypes ==
    ASSUME TypeOK, NEW t \in Tasks
    PROVE  Offer(t) => TypeOK'
<1> DEFINE s == sweep[t]
           p == First(s.page)
<1>1. s \in Sweeps
    BY DEF TypeOK
<1>2. Offer(t) => s.page # {}
    BY DEF Offer, Land, Fail, Skip, Unrelated
<1>3. ASSUME Offer(t) PROVE p \in s.page
    BY <1>1, <1>2, <1>3, PageType
<1> HIDE DEF p
<1>4. ASSUME Offer(t)
      PROVE  /\ \A moves \in BOOLEAN : /\ Done(s, p, moves) \in Sweeps
                                      /\ [Done(s, p, moves) EXCEPT !.lost = @ \cup {p[2]}] \in Sweeps
             /\ p[2] \in Items
    BY <1>1, <1>3, <1>4, DoneType
<1>5. (s.job # "chapters") \in BOOLEAN
    OBVIOUS
<1>6. Offer(t) => \/ \E moves \in BOOLEAN : Moves(t, Done(s, p, moves))
                  \/ \E moves \in BOOLEAN : Moves(t, [Done(s, p, moves) EXCEPT !.lost = @ \cup {p[2]}])
    BY <1>5 DEF Offer, Land, Fail, Skip, Unrelated, p
<1>7. Offer(t) => sweep' \in [Tasks -> Sweeps]
    BY <1>4, <1>6, MovesType
<1>8. Offer(t) => /\ UNCHANGED <<clock, created, updated, state, flag, forgotten>>
                  /\ landed' \in {landed, landed \cup {p[2]}}
    BY DEF Offer, Land, Fail, Skip, Unrelated, upstream, p
<1> QED
    BY <1>4, <1>7, <1>8 DEF TypeOK

(* A checkpoint moves a cursor, and nothing else. *)
LEMMA CheckpointType ==
    ASSUME TypeOK, NEW s \in Sweeps, NEW cursor \in 0 .. MaxTime + 1, Checkpoint(s, cursor)
    PROVE  /\ state' \in [Jobs -> Rows]
           /\ \A j \in Jobs : state'[j].seed_done = state[j].seed_done
           /\ \A j \in Jobs \ {s.job} : state'[j] = state[j]
           /\ \/ state' = state
              \/ ~s.seeded /\ cursor # 0 /\ state'[s.job].cursor = cursor
<1>1. s.job \in Jobs
    BY DEF Sweeps
<1>2. state \in [Jobs -> Rows]
    BY DEF TypeOK
<1>3. CASE UNCHANGED state
    BY <1>2, <1>3
<1>4. CASE /\ state' = [state EXCEPT ![s.job].cursor = cursor]
           /\ ~s.seeded /\ cursor # 0
    <2>1. state'[s.job] = [state[s.job] EXCEPT !.cursor = cursor]
        BY <1>1, <1>2, <1>4
    <2>2. \A j \in Jobs \ {s.job} : state'[j] = state[j]
        BY <1>1, <1>2, <1>4
    <2>3. state[s.job] \in Rows
        BY <1>1, <1>2
    <2>4. state'[s.job] \in Rows /\ state'[s.job].seed_done = state[s.job].seed_done
          /\ state'[s.job].cursor = cursor
        BY <2>1, <2>3 DEF Rows
    <2>5. state' \in [Jobs -> Rows]
        BY <1>1, <1>2, <1>4, <2>1, <2>4
    <2> QED
        BY <1>4, <2>2, <2>4, <2>5
<1> QED
    BY <1>3, <1>4 DEF Checkpoint

(* What follows a page, a slide: the types stay. *)
LEMMA TurnTypes ==
    ASSUME TypeOK, NEW t \in Tasks
    PROVE  PageDone(t) \/ Slide(t) => TypeOK'
<1> DEFINE s == sweep[t]
<1>1. s \in Sweeps
    BY DEF TypeOK
<1>2. PageDone(t) \/ Slide(t) => UNCHANGED <<clock, created, updated, landed, flag, forgotten>>
    BY DEF PageDone, Slide, upstream
<1>3. ASSUME PageDone(t) PROVE TypeOK'
    <2> DEFINE offset == s.offset + s.raw
               over == IF s.job = "chapters" THEN s.raw < Page ELSE offset >= s.total
    <2>1. state' \in [Jobs -> Rows]
        <3>1. s.last \in 0 .. MaxTime + 1
            BY <1>1, MirrorAssumption DEF Sweeps, Time
        <3>2. UNCHANGED state \/ Checkpoint(s, s.last)
            BY <1>3 DEF PageDone
        <3> QED
            BY <1>1, <3>1, <3>2, CheckpointType DEF TypeOK
    <2>2. PICK spent \in BOOLEAN :
            Moves(t, [s EXCEPT !.offset = offset, !.spent = spent, !.raw = 0, !.total = 0,
                               !.pc = CASE over -> "done"
                                        [] ~over /\ (offset >= Cap \/ spent) -> "slide"
                                        [] OTHER -> "list"])
        BY <1>3 DEF PageDone
    <2>3. offset \in Nat
        BY <1>1 DEF Sweeps
    <2> HIDE DEF offset, over
    <2>4. [s EXCEPT !.offset = offset, !.spent = spent, !.raw = 0, !.total = 0,
                    !.pc = CASE over -> "done"
                             [] ~over /\ (offset >= Cap \/ spent) -> "slide"
                             [] OTHER -> "list"] \in Sweeps
        BY <1>1, <2>3 DEF Sweeps
    <2> QED
        BY <1>2, <1>3, <2>1, <2>2, <2>4, MovesType DEF TypeOK
<1>4. ASSUME Slide(t) PROVE TypeOK'
    <2> DEFINE next == IF s.last = s.since THEN s.last + 1 ELSE s.last
               tied == {p \in Listing(s) : s.last = s.since /\ p[1] = s.last}
               late == s.excused \cup (Ids(tied) \ landed)
               after == [s EXCEPT !.since = next, !.offset = 0, !.last = 0, !.empties = 0,
                                  !.excused = late]
    <2>1. next \in 0 .. MaxTime + 1
        BY <1>1, MirrorAssumption DEF Sweeps, Time
    <2>2. Ids(tied) \in SUBSET Items /\ Ids(Unread(s)) \in SUBSET Items
        BY <1>1, ListingType DEF Ids, Unread
    <2>3. late \in SUBSET Items /\ s.excused \cup Ids(Unread(s)) \in SUBSET Items
          /\ 0 \in 0 .. Retries /\ 0 \in Time
        BY <1>1, <2>2, MirrorAssumption DEF Sweeps, Time
    <2>4. CASE s.last = 0
        <3>1. [s EXCEPT !.pc = "stopped", !.excused = @ \cup Ids(Unread(s))] \in Sweeps
            BY <1>1, <2>3 DEF Sweeps
        <3> QED
            BY <1>2, <1>4, <2>4, <3>1, MovesType DEF TypeOK, Slide
    <2>5. CASE s.last # 0
        <3>1. Checkpoint(s, next) /\ \E spent \in BOOLEAN :
                Moves(t, [after EXCEPT !.pc = IF spent THEN "stopped" ELSE "list"])
            BY <1>4, <2>5 DEF Slide
        <3> HIDE DEF next, late
        <3>2. after \in Sweeps
            BY <1>1, <2>1, <2>3 DEF Sweeps
        <3> HIDE DEF after
        <3>3. ASSUME NEW spent \in BOOLEAN
              PROVE  [after EXCEPT !.pc = IF spent THEN "stopped" ELSE "list"] \in Sweeps
            BY <3>2 DEF Sweeps
        <3>4. state' \in [Jobs -> Rows]
            BY <1>1, <2>1, <3>1, CheckpointType
        <3> QED
            BY <1>2, <1>4, <3>1, <3>3, <3>4, MovesType DEF TypeOK
    <2> QED
        BY <2>4, <2>5
<1> QED
    BY <1>3, <1>4

(* A sweep ends: the types stay. *)
LEMMA EndTypes ==
    ASSUME TypeOK, NEW t \in Tasks
    PROVE  FinishSync(t) \/ FinishBackfill \/ Stop(t) => TypeOK'
<1> DEFINE s == sweep[t]
<1>1. s \in Sweeps /\ s.job \in Jobs /\ s.start \in 0 .. MaxTime + 1 /\ state \in [Jobs -> Rows]
    BY MirrorAssumption DEF TypeOK, Sweeps, Time
<1>2. FinishSync(t) \/ FinishBackfill \/ Stop(t) => sweep' \in [Tasks -> Sweeps]
    BY IdleType, MovesType DEF FinishSync, FinishBackfill, Stop, Tasks
<1>3. FinishSync(t) => state' \in [Jobs -> Rows]
    <2>1. [state[s.job] EXCEPT !.cursor = s.start] \in Rows
        BY <1>1 DEF Rows
    <2>2. [cursor |-> s.start, seed_done |-> TRUE] \in Rows
        BY <1>1 DEF Rows
    <2> QED
        BY <1>1, <2>1, <2>2 DEF FinishSync
<1>4. FinishBackfill => /\ state' \in [Jobs -> Rows] /\ flag' \in BOOLEAN /\ forgotten' \subseteq Items
    <2>1. NoRow \in Rows
        BY MirrorAssumption DEF NoRow, Rows
    <2>2. sweep["backfill"].excused \subseteq Items /\ sweep["backfill"].lost \subseteq Items
          /\ forgotten \subseteq Items
        BY DEF TypeOK, Sweeps, Tasks, Items
    <2> QED
        BY <1>1, <2>1, <2>2 DEF FinishBackfill, TypeOK
<1>5. Stop(t) => forgotten' \subseteq Items
    BY <1>1 DEF Stop, TypeOK, Sweeps, Items
<1>6. FinishSync(t) \/ FinishBackfill \/ Stop(t) =>
      /\ UNCHANGED <<clock, created, updated, landed>>
      /\ FinishSync(t) => UNCHANGED <<flag, forgotten>>
      /\ Stop(t) => UNCHANGED <<state, flag>>
    BY DEF FinishSync, FinishBackfill, Stop, upstream
<1> QED
    BY <1>1, <1>2, <1>3, <1>4, <1>5, <1>6 DEF TypeOK

-----------------------------------------------------------------------------
(* What a sweep keeps to.  s is a sweep, W its listing and stamp the times that
   order it, now the clock, have what the database has. *)

(* Whatever is older than c has been read by offset n. *)
Ahead(W, c, n) == \A w \in W : w[1] < c => Rank(w, W) < n

(* A page is read in order, and last_created only moves over what was read. *)
Ordered(s, W, now) ==
    /\ s.last <= now
    /\ s.last > 0 => s.last >= s.since
    /\ Ahead(W, s.last, Fetched(s))
    /\ s.pc = "page" => \A p \in s.page : /\ p[1] > 0 /\ p[1] >= s.since /\ p[1] >= s.last
                                          /\ p[1] <= now
                                          /\ Ahead(W, p[1], Fetched(s))

(* A page that says that the window ends is right about all that is older than the
   sweep. *)
PageEnds(s, W) ==
    s.pc = "page" =>
    \A w \in W : w[1] < s.start =>
        /\ Rank(w, W) < s.total
        /\ s.raw < Page => Rank(w, W) < Fetched(s)

(* What a sweep has to walk over and has not accounted for. *)
Unaccounted(s, stamp, have) ==
    {i \in ItemsOf(s.job) : /\ stamp[i] > 0 /\ stamp[i] >= s.from
                            /\ s.seeded => stamp[i] < s.start
                            /\ i \notin have /\ i \notin s.lost /\ i \notin s.excused}

(* It is still to be read, or in the page, or too young for a sweep that is over, or
   the backfill's time was up. *)
StillOffered(s, W, stamp, i) ==
    \/ Reading(s) /\ stamp[i] >= s.since /\ Rank(<<stamp[i], i>>, W) >= Fetched(s)
    \/ s.pc = "page" /\ i \in Ids(s.page)
    \/ Over(s) /\ (stamp[i] >= s.start \/ (s.pc = "stopped" /\ s.job = "backfill"))

Walked(s, W, stamp, have) ==
    \A i \in Unaccounted(s, stamp, have) : StillOffered(s, W, stamp, i)

Keeps(s, W, stamp, now, have) ==
    /\ Reading(s) => Ordered(s, W, now) /\ PageEnds(s, W)
    /\ Reading(s) \/ Over(s) => Walked(s, W, stamp, have)

(* A sweep, its listing and the clock that belong together. *)
Fits(s, W, stamp, now) ==
    /\ s \in Sweeps /\ now \in Time /\ stamp \in [Items -> Time]
    /\ \A i \in Items : stamp[i] <= now
    /\ W = Window(s.job, stamp, s.since)

LEMMA FitsFacts ==
    ASSUME NEW s, NEW W, NEW stamp, NEW now, Fits(s, W, stamp, now)
    PROVE  /\ Listed(W)
           /\ now \in Nat /\ s.last \in Nat /\ s.since \in Nat /\ s.offset \in Nat /\ s.raw \in Nat
           /\ s.total \in Nat /\ s.start \in Nat /\ s.from \in Nat /\ Fetched(s) \in Nat
           /\ s.page \in SUBSET (Nat \X Nat)
           /\ \A w \in W : /\ Rank(w, W) \in Nat /\ w[1] \in Nat /\ w[1] > 0 /\ w[1] >= s.since
                            /\ w[1] <= now /\ w[2] \in ItemsOf(s.job) /\ w = <<stamp[w[2]], w[2]>>
           /\ \A i \in ItemsOf(s.job) : /\ stamp[i] \in Nat
                                        /\ stamp[i] > 0 /\ stamp[i] >= s.since
                                           => <<stamp[i], i>> \in W
<1>1. s.job \in Jobs /\ s.since \in Nat
    BY MirrorAssumption DEF Fits, Sweeps
<1>2. stamp \in [Items -> Time] /\ W = Window(s.job, stamp, s.since)
    BY DEF Fits
<1>3. /\ Listed(W)
      /\ ItemsOf(s.job) \subseteq Items
      /\ \A p \in W : /\ p[2] \in ItemsOf(s.job) /\ p = <<stamp[p[2]], p[2]>>
                      /\ p[1] > 0 /\ p[1] >= s.since
      /\ \A i \in ItemsOf(s.job) : stamp[i] > 0 /\ stamp[i] >= s.since => <<stamp[i], i>> \in W
    BY <1>1, <1>2, WindowType
<1>4. Time \subseteq Nat /\ Items \subseteq Nat
    BY MirrorAssumption DEF Time, Items
<1>5. /\ now \in Nat /\ s.last \in Nat /\ s.offset \in Nat /\ s.raw \in Nat
      /\ s.total \in Nat /\ s.start \in Nat /\ s.from \in Nat
      /\ s.page \in SUBSET (Nat \X Nat)
    <2>1. s.page \in SUBSET (Time \X Items) /\ now \in Time /\ s.last \in Time /\ s.start \in Time
          /\ s.offset \in Nat /\ s.raw \in Nat /\ s.total \in Nat /\ s.from \in 0 .. MaxTime + 1
        BY DEF Fits, Sweeps
    <2>2. Time \X Items \subseteq Nat \X Nat
        BY <1>4
    <2>3. s.page \in SUBSET (Nat \X Nat)
        BY <2>1, <2>2, Zenon
    <2>4. s.from \in Nat
        BY <2>1, MirrorAssumption
    <2> QED
        BY <1>4, <2>1, <2>3, <2>4
<1>6. Fetched(s) \in Nat
    BY <1>5 DEF Fetched
<1>7. \A i \in ItemsOf(s.job) : stamp[i] \in Nat /\ stamp[i] <= now
    BY <1>3, <1>4 DEF Fits
<1>8. \A w \in W : Rank(w, W) \in Nat
    BY <1>3, RankType
<1>9. \A w \in W : w[1] \in Nat /\ w[1] <= now
    BY <1>3, <1>7
<1> QED
    BY <1>1, <1>3, <1>5, <1>6, <1>7, <1>8, <1>9

(* What a sweep that reads on keeps. *)
SameWalk(r, s) ==
    /\ r.job = s.job /\ r.seeded = s.seeded /\ r.from = s.from /\ r.start = s.start

(* Past the end of the listing there is nothing left to account for. *)
LEMMA KeepsEnd ==
    ASSUME NEW s, NEW W, NEW stamp, NEW now, NEW have,
           Fits(s, W, stamp, now), Keeps(s, W, stamp, now, have), s.pc = "list",
           PageAt(W, s.offset) = {},
           NEW r, SameWalk(r, s), r.pc = "done", r.lost = s.lost, r.excused = s.excused
    PROVE  Keeps(r, W, stamp, now, have)
<1>1. Listed(W) /\ s.offset \in Nat
    BY FitsFacts
<1>2. \A w \in W : Rank(w, W) \in Nat /\ ~(Rank(w, W) >= s.offset)
    <2>1. \A w \in W : Rank(w, W) < s.offset
        BY <1>1, PageIsAStretch
    <2> QED
        BY <1>1, <2>1, RankType
<1>3. ASSUME NEW i \in Unaccounted(s, stamp, have) PROVE FALSE
    <2>1. i \in ItemsOf(s.job) /\ stamp[i] > 0
        BY DEF Unaccounted
    <2>2. stamp[i] >= s.since /\ Rank(<<stamp[i], i>>, W) >= s.offset
        BY DEF Keeps, Walked, StillOffered, Reading, Over, Fetched
    <2> QED
        BY <1>2, <2>1, <2>2, FitsFacts
<1>4. Unaccounted(r, stamp, have) = {}
    BY <1>3 DEF Unaccounted, SameWalk
<1> QED
    BY <1>4 DEF Keeps, Walked, Reading

(* A page is read: what it has is in the page or counted, and what it has not comes
   after it. *)
LEMMA KeepsListPage ==
    ASSUME NEW s, NEW W, NEW stamp, NEW now, NEW have,
           Fits(s, W, stamp, now), Keeps(s, W, stamp, now, have), s.pc = "list",
           NEW P, P = PageAt(W, s.offset), NEW bad \in SUBSET P,
           NEW r, SameWalk(r, s), r.pc = "page", r.page = P \ bad, r.raw = Cardinality(P),
           r.total = Cardinality(W), r.lost = s.lost \cup Ids(bad), r.excused = s.excused,
           r.since = s.since, r.last = s.last, r.offset = s.offset
    PROVE  Keeps(r, W, stamp, now, have)
<1> DEFINE n == Cardinality(P)
<1>1. Listed(W) /\ s.offset \in Nat /\ s.last \in Nat
    BY FitsFacts
<1>2. /\ P \subseteq W /\ n \in Nat /\ n <= Page
      /\ \A p \in P : Rank(p, W) < s.offset + n
      /\ \A p \in W \ P : Rank(p, W) < s.offset \/ Rank(p, W) >= s.offset + n
      /\ n < Page => \A p \in W : Rank(p, W) < s.offset + n
    BY <1>1, PageIsAStretch
<1>3. \A p \in P : Rank(p, W) >= s.offset
    BY DEF PageAt
<1>4. Fetched(s) = s.offset /\ Reading(s) /\ ~Over(s)
    BY DEF Fetched, Reading, Over
<1>5. s.last <= now /\ (s.last > 0 => s.last >= s.since) /\ Ahead(W, s.last, s.offset)
    BY <1>4 DEF Keeps, Ordered
<1>6. \A w \in W : Rank(w, W) \in Nat /\ Rank(w, W) < Cardinality(W) /\ w[1] \in Nat
    BY <1>1, RankType, FitsFacts
<1>7. Fetched(r) = s.offset + n /\ Reading(r) /\ ~Over(r)
    BY DEF Fetched, Reading, Over
<1> HIDE DEF n
<1>8. Ahead(W, s.last, s.offset + n)
    BY <1>1, <1>2, <1>5, <1>6 DEF Ahead
<1>9. ASSUME NEW p \in P
      PROVE  /\ p[1] > 0 /\ p[1] >= s.since /\ p[1] <= now /\ p[1] >= s.last
             /\ Ahead(W, p[1], s.offset + n)
    <2>1. p \in W /\ p[1] \in Nat
        BY <1>2, <1>6
    <2>2. p[1] > 0 /\ p[1] >= s.since /\ p[1] <= now
        BY <2>1, FitsFacts
    <2>3. ~(p[1] < s.last)
        <3>1. Rank(p, W) >= s.offset /\ Rank(p, W) \in Nat
            BY <1>3, <1>6, <2>1
        <3> QED
            BY <1>1, <1>5, <2>1, <3>1 DEF Ahead
    <2>4. ASSUME NEW w \in W, w[1] < p[1] PROVE Rank(w, W) < s.offset + n
        <3>1. Before(w, p)
            BY <2>4 DEF Before
        <3>2. Rank(w, W) < Rank(p, W)
            BY <1>1, <2>1, <3>1, RankGrows
        <3>3. Rank(p, W) < s.offset + n
            BY <1>2
        <3> QED
            BY <1>1, <1>2, <1>6, <2>1, <3>2, <3>3
    <2>5. Ahead(W, p[1], s.offset + n)
        BY <2>4 DEF Ahead
    <2> QED
        BY <1>1, <2>1, <2>2, <2>3, <2>5
<1>10. Ordered(r, W, now)
    BY <1>5, <1>7, <1>8, <1>9 DEF Ordered
<1>11. PageEnds(r, W)
    BY <1>2, <1>6, <1>7 DEF PageEnds, n
<1>12. ASSUME NEW i \in Unaccounted(r, stamp, have) PROVE StillOffered(r, W, stamp, i)
    <2> DEFINE w == <<stamp[i], i>>
    <2>1. i \in Unaccounted(s, stamp, have) /\ i \notin Ids(bad)
        BY DEF Unaccounted, SameWalk
    <2>2. i \in ItemsOf(s.job) /\ stamp[i] > 0
        BY <2>1 DEF Unaccounted
    <2>3. stamp[i] >= s.since /\ Rank(w, W) >= s.offset
        BY <1>4, <2>1 DEF Keeps, Walked, StillOffered
    <2>4. w \in W
        BY <2>2, <2>3, FitsFacts
    <2>5. CASE w \in P
        <3>1. w[2] = i
            OBVIOUS
        <3>2. w \notin bad
            BY <2>1, <3>1 DEF Ids
        <3>3. i \in Ids(r.page)
            BY <2>5, <3>1, <3>2 DEF Ids
        <3> QED
            BY <3>3 DEF StillOffered
    <2>6. CASE w \notin P
        <3>1. Rank(w, W) >= s.offset + n
            <4>1. Rank(w, W) < s.offset \/ Rank(w, W) >= s.offset + n
                BY <1>2, <2>4, <2>6
            <4>2. Rank(w, W) \in Nat
                BY <1>6, <2>4
            <4> HIDE DEF w
            <4> QED
                BY <1>1, <2>3, <4>1, <4>2
        <3> QED
            BY <1>7, <2>3, <3>1 DEF StillOffered
    <2> QED
        BY <2>5, <2>6
<1> QED
    BY <1>7, <1>10, <1>11, <1>12 DEF Keeps, Walked

(* A sweep that reads on from where it is, a page that is done with behind it. *)
LEMMA KeepsOn ==
    ASSUME NEW s, NEW W, NEW stamp, NEW now, NEW have,
           Keeps(s, W, stamp, now, have), Reading(s), s.pc = "page" => s.page = {},
           NEW r, SameWalk(r, s), r.pc \in {"list", "slide"}, Fetched(r) = Fetched(s),
           r.since = s.since, r.last = s.last, r.lost = s.lost, s.excused \subseteq r.excused
    PROVE  Keeps(r, W, stamp, now, have)
<1>1. Ordered(r, W, now) /\ PageEnds(r, W)
    BY DEF Keeps, Ordered, PageEnds, Reading
<1>2. ASSUME NEW i \in Unaccounted(r, stamp, have) PROVE StillOffered(r, W, stamp, i)
    <2>1. i \in Unaccounted(s, stamp, have)
        BY DEF Unaccounted, SameWalk
    <2>2. stamp[i] >= s.since /\ Rank(<<stamp[i], i>>, W) >= Fetched(s)
        BY <2>1 DEF Keeps, Walked, StillOffered, Reading, Over, Ids
    <2> QED
        BY <2>2 DEF StillOffered, Reading
<1> QED
    BY <1>1, <1>2 DEF Keeps, Walked, Reading, Over

(* A listing that is given up: what was not read is excused. *)
LEMMA KeepsGivenUp ==
    ASSUME NEW s, NEW W, NEW stamp, NEW now, NEW have,
           Fits(s, W, stamp, now), Keeps(s, W, stamp, now, have), s.pc \in {"list", "slide"},
           NEW r, SameWalk(r, s), Over(r), r.lost = s.lost,
           r.excused = s.excused \cup Ids({p \in W : Rank(p, W) >= s.offset})
    PROVE  Keeps(r, W, stamp, now, have)
<1>1. ASSUME NEW i \in Unaccounted(s, stamp, have)
      PROVE  i \in Ids({p \in W : Rank(p, W) >= s.offset})
    <2>1. i \in ItemsOf(s.job) /\ stamp[i] > 0
        BY DEF Unaccounted
    <2>2. stamp[i] >= s.since /\ Rank(<<stamp[i], i>>, W) >= s.offset
        BY DEF Keeps, Walked, StillOffered, Reading, Over, Fetched
    <2>3. <<stamp[i], i>> \in W
        BY <2>1, <2>2, FitsFacts
    <2>4. <<stamp[i], i>>[2] = i
        OBVIOUS
    <2> QED
        BY <2>2, <2>3, <2>4 DEF Ids
<1>2. Unaccounted(r, stamp, have) = {}
    BY <1>1 DEF Unaccounted, SameWalk
<1> QED
    BY <1>2 DEF Keeps, Walked, Reading, Over

(* A page that says the window ends: what is left is younger than the sweep. *)
LEMMA KeepsOver ==
    ASSUME NEW s, NEW W, NEW stamp, NEW now, NEW have,
           Fits(s, W, stamp, now), Keeps(s, W, stamp, now, have), s.pc = "page", s.page = {},
           s.raw < Page \/ s.offset + s.raw >= s.total,
           NEW r, SameWalk(r, s), r.pc = "done", r.lost = s.lost, r.excused = s.excused
    PROVE  Keeps(r, W, stamp, now, have)
<1>1. PageEnds(s, W) /\ Fetched(s) = s.offset + s.raw
    BY DEF Keeps, Reading, Fetched
<1>2. s.offset + s.raw \in Nat /\ s.total \in Nat
    BY FitsFacts
<1>3. ASSUME NEW i \in Unaccounted(r, stamp, have) PROVE stamp[i] >= s.start
    <2> DEFINE w == <<stamp[i], i>>
    <2>1. i \in Unaccounted(s, stamp, have)
        BY DEF Unaccounted, SameWalk
    <2>2. i \in ItemsOf(s.job) /\ stamp[i] > 0
        BY <2>1 DEF Unaccounted
    <2>3. stamp[i] >= s.since /\ Rank(w, W) >= Fetched(s)
        BY <2>1 DEF Keeps, Walked, StillOffered, Reading, Over, Ids
    <2>4. w \in W /\ w[1] = stamp[i] /\ w[1] \in Nat /\ s.start \in Nat /\ Rank(w, W) \in Nat
        BY <2>2, <2>3, FitsFacts
    <2> HIDE DEF w
    <2>5. ~(w[1] < s.start)
        BY <1>1, <1>2, <2>3, <2>4 DEF PageEnds
    <2> QED
        BY <2>4, <2>5
<1> QED
    BY <1>3 DEF Keeps, Walked, StillOffered, Reading, Over, SameWalk

(* The first record of a page is done with: it has landed or is counted, and the cursor
   may pass it. *)
LEMMA KeepsOffer ==
    ASSUME NEW s, NEW W, NEW stamp, NEW now, NEW have,
           Fits(s, W, stamp, now), Keeps(s, W, stamp, now, have), s.pc = "page",
           NEW p \in s.page, \A q \in s.page \ {p} : Before(p, q),
           NEW r, SameWalk(r, s), r.pc = "page", r.page = s.page \ {p},
           r.last \in {s.last, p[1]},
           r.since = s.since, r.offset = s.offset, r.raw = s.raw, r.total = s.total,
           r.excused = s.excused, s.lost \subseteq r.lost,
           NEW has, have \subseteq has, p[2] \in r.lost \cup has
    PROVE  Keeps(r, W, stamp, now, has)
<1>1. Reading(s) /\ Reading(r) /\ ~Over(r) /\ ~Over(s) /\ Fetched(r) = Fetched(s)
    BY DEF Reading, Over, Fetched
<1>2. Ordered(s, W, now) /\ PageEnds(s, W)
    BY <1>1 DEF Keeps
<1>3. \A q \in r.page : q \in s.page /\ q[1] >= p[1]
    <2>1. s.page \in SUBSET (Nat \X Nat)
        BY FitsFacts
    <2> QED
        BY <2>1 DEF Before
<1>4. Ordered(r, W, now)
    BY <1>1, <1>2, <1>3 DEF Ordered
<1>5. PageEnds(r, W)
    BY <1>1, <1>2 DEF PageEnds, SameWalk
<1>6. ASSUME NEW i \in Unaccounted(r, stamp, has) PROVE StillOffered(r, W, stamp, i)
    <2>1. i \in Unaccounted(s, stamp, have) /\ i # p[2]
        BY DEF Unaccounted, SameWalk
    <2>2. StillOffered(s, W, stamp, i)
        BY <1>1, <2>1 DEF Keeps, Walked
    <2>3. i \in Ids(s.page) => i \in Ids(r.page)
        BY <2>1 DEF Ids
    <2> QED
        BY <1>1, <2>2, <2>3 DEF StillOffered
<1> QED
    BY <1>1, <1>4, <1>5, <1>6 DEF Keeps, Walked

(* The window slides: what it leaves behind was read or is excused. *)
LEMMA KeepsSlide ==
    ASSUME NEW s, NEW W, NEW stamp, NEW now, NEW have,
           Fits(s, W, stamp, now), Keeps(s, W, stamp, now, have), s.pc = "slide",
           NEW next, next = IF s.last = s.since THEN s.last + 1 ELSE s.last,
           NEW r, SameWalk(r, s), r.since = next, r.offset = 0, r.last = 0, r.lost = s.lost,
           r.pc = "list" \/ (r.pc = "stopped" /\ r.job = "backfill"),
           r.excused = s.excused \cup (Ids({p \in W : s.last = s.since /\ p[1] = s.last}) \ have),
           NEW V, Fits(r, V, stamp, now)
    PROVE  Keeps(r, V, stamp, now, have)
<1>1. Reading(s) /\ ~Over(s) /\ Fetched(s) = s.offset
    BY DEF Reading, Over, Fetched
<1>2. Ahead(W, s.last, s.offset)
    BY <1>1 DEF Keeps, Ordered
<1>3. ASSUME NEW i \in Unaccounted(r, stamp, have) PROVE stamp[i] >= next
    <2> DEFINE w == <<stamp[i], i>>
    <2>1. i \in Unaccounted(s, stamp, have)
        BY DEF Unaccounted, SameWalk
    <2>2. i \in ItemsOf(s.job) /\ stamp[i] > 0 /\ i \notin have /\ i \notin r.excused
        BY DEF Unaccounted, SameWalk
    <2>3. stamp[i] >= s.since /\ Rank(w, W) >= s.offset
        BY <1>1, <2>1 DEF Keeps, Walked, StillOffered
    <2>4. w \in W /\ w[1] = stamp[i] /\ w[2] = i /\ w[1] \in Nat /\ s.last \in Nat /\ s.offset \in Nat
          /\ Rank(w, W) \in Nat
        BY <2>2, <2>3, FitsFacts
    <2> HIDE DEF w
    <2>5. ~(w[1] < s.last)
        BY <1>2, <2>3, <2>4 DEF Ahead
    <2>6. ~(s.last = s.since /\ w[1] = s.last)
        BY <2>2, <2>4 DEF Ids
    <2> QED
        BY <2>4, <2>5, <2>6
<1>4. CASE r.pc = "list"
    <2>1. Reading(r) /\ ~Over(r) /\ Fetched(r) = 0 /\ now \in Nat
        BY <1>4, FitsFacts DEF Reading, Over, Fetched
    <2>2. \A w \in V : w[1] \in Nat
        BY FitsFacts
    <2>3. Ordered(r, V, now) /\ PageEnds(r, V)
        BY <1>4, <2>1, <2>2 DEF Ordered, PageEnds, Ahead
    <2>4. ASSUME NEW i \in Unaccounted(r, stamp, have) PROVE StillOffered(r, V, stamp, i)
        <3>1. stamp[i] >= next /\ i \in ItemsOf(r.job) /\ stamp[i] > 0
            BY <1>3 DEF Unaccounted
        <3>2. Rank(<<stamp[i], i>>, V) \in Nat
            BY <3>1, FitsFacts
        <3> QED
            BY <2>1, <3>1, <3>2 DEF StillOffered
    <2> QED
        BY <2>1, <2>3, <2>4 DEF Keeps, Walked
<1>5. CASE r.pc = "stopped" /\ r.job = "backfill"
    BY <1>5 DEF Keeps, Walked, StillOffered, Reading, Over
<1> QED
    BY <1>4, <1>5

(* A sweep that begins has everything from its cursor on before it. *)
LEMMA KeepsBegin ==
    ASSUME NEW r, NEW W, NEW stamp, NEW now, NEW have,
           Fits(r, W, stamp, now), r.pc = "list", r.from = r.since, r.offset = 0, r.last = 0
    PROVE  Keeps(r, W, stamp, now, have)
<1>1. Reading(r) /\ ~Over(r) /\ Fetched(r) = 0 /\ now \in Nat
    BY FitsFacts DEF Reading, Over, Fetched
<1>2. \A w \in W : w[1] \in Nat
    BY FitsFacts
<1>3. Ordered(r, W, now) /\ PageEnds(r, W)
    BY <1>1, <1>2 DEF Ordered, PageEnds, Ahead
<1>4. ASSUME NEW i \in Unaccounted(r, stamp, have) PROVE StillOffered(r, W, stamp, i)
    <2>1. i \in ItemsOf(r.job) /\ stamp[i] > 0 /\ stamp[i] >= r.since
        BY DEF Unaccounted
    <2>2. Rank(<<stamp[i], i>>, W) \in Nat
        BY <2>1, FitsFacts
    <2> QED
        BY <1>1, <2>1, <2>2 DEF StillOffered
<1> QED
    BY <1>1, <1>3, <1>4 DEF Keeps, Walked

(* MangaDex's listing moves under a sweep: what is new in it is of this moment, and
   what would escape the sweep is excused. *)
LEMMA KeepsUpstream ==
    ASSUME NEW s, NEW W, NEW stamp, NEW now, NEW have,
           Fits(s, W, stamp, now), Keeps(s, W, stamp, now, have),
           Reading(s) \/ Over(s) => s.start <= now,
           NEW r, NEW V, NEW after, NEW later, Fits(r, V, after, later), now <= later,
           SameWalk(r, s), r.pc = s.pc, r.page = s.page, r.last = s.last, r.since = s.since,
           r.offset = s.offset, r.raw = s.raw, r.total = s.total,
           r.lost = s.lost, s.excused \subseteq r.excused,
           \A q \in V : q[1] < now => q \in W,
           \A i \in ItemsOf(s.job) : after[i] # stamp[i] =>
               /\ after[i] = now
               /\ \/ s.seeded \/ ~Reading(s) \/ i \in r.excused
                  \/ now >= s.since /\ Rank(<<now, i>>, V) >= Fetched(s),
           \A i \in ItemsOf(s.job) :
               /\ Reading(s) /\ after[i] = stamp[i] /\ <<stamp[i], i>> \in W
               /\ Rank(<<stamp[i], i>>, W) >= Fetched(s)
               => i \in r.excused \/ Rank(<<stamp[i], i>>, V) >= Fetched(s)
    PROVE  Keeps(r, V, after, later, have)
<1>1. /\ Reading(r) <=> Reading(s)
      /\ Over(r) <=> Over(s)
      /\ Fetched(r) = Fetched(s) /\ Fetched(s) \in Nat
    BY FitsFacts DEF Reading, Over, Fetched
<1>2. Listed(W) /\ Listed(V) /\ now \in Nat /\ later \in Nat /\ s.last \in Nat /\ s.start \in Nat
      /\ s.total \in Nat /\ s.page \in SUBSET (Nat \X Nat)
    BY FitsFacts
<1>3. ASSUME NEW c \in Nat, c <= now, NEW w \in V, w[1] < c
      PROVE  /\ w \in W /\ Rank(w, V) <= Rank(w, W)
             /\ Rank(w, V) \in Nat /\ Rank(w, W) \in Nat
    <2>1. \A q \in V : q[1] < c => q \in W
        <3>1. \A q \in V : q[1] \in Nat
            BY FitsFacts
        <3> QED
            BY <1>2, <1>3, <3>1
    <2>2. Rank(w, V) <= Rank(w, W)
        BY <1>2, <1>3, <2>1, RankShrinks
    <2> QED
        BY <1>2, <1>3, <2>1, <2>2, RankType
<1>4. ASSUME NEW c \in Nat, c <= now, NEW n \in Nat, Ahead(W, c, n)
      PROVE  Ahead(V, c, n)
    BY <1>3, <1>4 DEF Ahead
<1>5. ASSUME Reading(s) PROVE Ordered(r, V, later)
    <2>1. Ordered(s, W, now)
        BY <1>5 DEF Keeps
    <2>2. Ahead(V, s.last, Fetched(s))
        BY <1>1, <1>2, <1>4, <2>1 DEF Ordered
    <2>3. ASSUME s.pc = "page", NEW p \in s.page
          PROVE  /\ p[1] > 0 /\ p[1] >= s.since /\ p[1] >= s.last /\ p[1] <= later
                 /\ Ahead(V, p[1], Fetched(s))
        <3>1. p[1] > 0 /\ p[1] >= s.since /\ p[1] >= s.last /\ p[1] <= now /\ Ahead(W, p[1], Fetched(s))
            BY <2>1, <2>3 DEF Ordered
        <3>2. p[1] \in Nat
            BY <1>2
        <3> QED
            BY <1>1, <1>2, <1>4, <3>1, <3>2
    <2> QED
        BY <1>1, <1>2, <2>1, <2>2, <2>3 DEF Ordered
<1>6. ASSUME Reading(s) PROVE PageEnds(r, V)
    <2>1. PageEnds(s, W) /\ s.start <= now
        BY <1>6 DEF Keeps
    <2>2. r.start = s.start
        BY DEF SameWalk
    <2> QED
        BY <1>1, <1>2, <1>3, <2>1, <2>2 DEF PageEnds
<1>7. ASSUME Reading(s) \/ Over(s), NEW i \in Unaccounted(r, after, have)
      PROVE  StillOffered(r, V, after, i)
    <2>1. /\ i \in ItemsOf(s.job) /\ after[i] > 0 /\ after[i] >= s.from
          /\ s.seeded => after[i] < s.start
          /\ i \notin have /\ i \notin s.lost /\ i \notin s.excused /\ i \notin r.excused
        BY DEF Unaccounted, SameWalk
    <2>2. CASE after[i] # stamp[i]
        <3>1. after[i] = now /\ s.start <= now
            BY <1>7, <2>1, <2>2
        <3>2. ~s.seeded
            BY <1>2, <2>1, <3>1
        <3>3. CASE Reading(s)
            BY <1>1, <2>1, <2>2, <3>1, <3>2, <3>3 DEF StillOffered
        <3>4. CASE Over(s)
            BY <1>1, <3>1, <3>4 DEF StillOffered, SameWalk
        <3> QED
            BY <1>7, <3>3, <3>4
    <2>3. CASE after[i] = stamp[i]
        <3>1. i \in Unaccounted(s, stamp, have)
            BY <2>1, <2>3 DEF Unaccounted
        <3>2. StillOffered(s, W, stamp, i)
            BY <1>7, <3>1 DEF Keeps, Walked
        <3>3. CASE Reading(s) /\ stamp[i] >= s.since /\ Rank(<<stamp[i], i>>, W) >= Fetched(s)
            <4>1. <<stamp[i], i>> \in W
                BY <2>1, <2>3, <3>3, FitsFacts
            <4>2. Rank(<<stamp[i], i>>, V) >= Fetched(s)
                BY <2>1, <2>3, <3>3, <4>1
            <4> QED
                BY <1>1, <2>3, <3>3, <4>2 DEF StillOffered
        <3>4. CASE s.pc = "page" /\ i \in Ids(s.page)
            BY <3>4 DEF StillOffered
        <3>5. CASE Over(s) /\ (stamp[i] >= s.start \/ (s.pc = "stopped" /\ s.job = "backfill"))
            BY <1>1, <2>3, <3>5 DEF StillOffered, SameWalk
        <3> QED
            BY <3>2, <3>3, <3>4, <3>5 DEF StillOffered
    <2> QED
        BY <2>2, <2>3
<1> QED
    BY <1>1, <1>5, <1>6, <1>7 DEF Keeps, Walked

-----------------------------------------------------------------------------
(* The inductive invariant. *)

OneSweep == \A t, u \in Tasks : Sweeping(t) /\ Sweeping(u) => t = u

(* Nothing is from the future, and an update sweep has a cursor to begin at. *)
RowsSound(rows, now, first, last) ==
    /\ ~rows["backfill"].seed_done
    /\ \A j \in Jobs : rows[j].seed_done => rows[j].cursor <= now
    /\ \A i \in Items : first[i] <= now /\ last[i] <= now /\ (first[i] = 0 => last[i] = 0)

(* A sweep and its row: nobody else has touched the row since the sweep began, and its
   cursor is behind what the sweep will save. *)
Placed(t, s, rows, now) ==
    /\ s.pc = "idle" => s = Idle
    /\ s.pc # "idle" => (s.job = "backfill" <=> t = "backfill")
    /\ s.pc \in {"reset_catalogue", "reset_chapters"} => s.job = "catalogue"
    /\ Reading(s) \/ Over(s) =>
         /\ s.start <= now
         /\ s.seeded = rows[s.job].seed_done
         /\ s.seeded => rows[s.job].cursor <= s.start
         /\ Reading(s) /\ ~s.seeded => rows[s.job].cursor <= s.since \/ rows[s.job].cursor <= s.last
         /\ s.job = "chapters" => rows["catalogue"].seed_done
         /\ s.job = "backfill" => s.from <= rows["backfill"].cursor

Kept(t) == Keeps(sweep[t], Listing(sweep[t]), Stamps(sweep[t].seeded), clock, landed)

(* What the backfill's cursor has passed over, in all its passes. *)
Behind ==
    ~flag => \A w \in Works : created[w] > 0 /\ created[w] < state["backfill"].cursor =>
                 w \in landed \cup forgotten \cup sweep["backfill"].lost \cup sweep["backfill"].excused

Inv ==
    /\ TypeOK
    /\ OneSweep
    /\ RowsSound(state, clock, created, updated)
    /\ \A t \in Tasks : Placed(t, sweep[t], state, clock) /\ Kept(t)
    /\ Behind

LEMMA FitsNow ==
    ASSUME Inv, NEW s \in Sweeps
    PROVE  Fits(s, Listing(s), Stamps(s.seeded), clock)
<1>1. Stamps(s.seeded) \in [Items -> Time] /\ clock \in Time
    BY StampsType DEF Inv, TypeOK
<1>2. \A i \in Items : Stamps(s.seeded)[i] <= clock
    BY DEF Inv, RowsSound, Stamps
<1> QED
    BY <1>1, <1>2 DEF Fits, Listing

(* What a sweep keeps to it keeps to when more has landed. *)
LEMMA KeepsMore ==
    ASSUME NEW s, NEW W, NEW stamp, NEW now, NEW have, Keeps(s, W, stamp, now, have),
           NEW has, have \subseteq has
    PROVE  Keeps(s, W, stamp, now, has)
<1>1. Unaccounted(s, stamp, has) \subseteq Unaccounted(s, stamp, have)
    BY DEF Unaccounted
<1> QED
    BY <1>1 DEF Keeps, Walked

(* A task that moves while nobody else sweeps. *)
LEMMA Moved ==
    ASSUME Inv, TypeOK', NEW t \in Tasks, NEW r, Moves(t, r),
           \A u \in Tasks \ {t} : ~Sweeping(u),
           UNCHANGED upstream, landed \subseteq landed',
           RowsSound(state', clock, created, updated), Placed(t, r, state', clock),
           Keeps(r, Listing(r), Stamps(r.seeded), clock, landed'),
           Behind'
    PROVE  Inv'
<1>1. sweep'[t] = r /\ \A u \in Tasks \ {t} : sweep'[u] = sweep[u] /\ sweep[u].pc = "idle"
    BY DEF Inv, TypeOK, Moves, Sweeping
<1>2. clock' = clock /\ created' = created /\ updated' = updated
    BY DEF upstream
<1>3. OneSweep'
    BY <1>1 DEF OneSweep, Sweeping
<1>4. RowsSound(state', clock', created', updated')
    BY <1>2
<1>5. ASSUME NEW u \in Tasks PROVE Placed(u, sweep'[u], state', clock')
    <2>1. CASE u = t
        BY <1>1, <1>2, <2>1
    <2>2. CASE u # t
        BY <1>1, <2>2 DEF Inv, Placed, Reading, Over
    <2> QED
        BY <2>1, <2>2
<1>6. ASSUME NEW u \in Tasks PROVE Kept(u)'
    <2>1. Kept(u)' <=> Keeps(sweep'[u], Listing(sweep'[u]), Stamps(sweep'[u].seeded), clock, landed')
        BY <1>2 DEF Kept, Listing, Stamps
    <2>2. CASE u = t
        BY <1>1, <2>1, <2>2
    <2>3. CASE u # t
        BY <1>1, <2>1, <2>3 DEF Keeps, Reading, Over
    <2> QED
        BY <2>2, <2>3
<1> QED
    BY <1>3, <1>4, <1>5, <1>6 DEF Inv

(* The backfill's cursor stays where it is, and nothing it has passed is forgotten. *)
LEMMA BehindStays ==
    ASSUME Inv, UNCHANGED <<created, flag>>, landed \subseteq landed', forgotten \subseteq forgotten',
           state'["backfill"].cursor = state["backfill"].cursor,
           sweep["backfill"].lost \cup sweep["backfill"].excused
              \subseteq forgotten' \cup sweep'["backfill"].lost \cup sweep'["backfill"].excused
    PROVE  Behind'
    BY DEF Inv, Behind

(* A sweep begins: the first of the properties that the lock is for. *)
LEMMA BeginInv ==
    ASSUME Inv, Begin \/ ResetCatalogue \/ ResetChapters
    PROVE  Inv'
<1>1. TypeOK /\ TypeOK'
    BY BeginTypes DEF Inv
<1>2. /\ RowsSound(state, clock, created, updated) /\ MaxTime \in Nat
      /\ \A j \in Jobs : state[j].cursor \in Nat /\ state[j].seed_done \in BOOLEAN
      /\ clock \in Nat
    BY <1>1, MirrorAssumption DEF Inv, TypeOK, Rows, Time
<1>3. ASSUME NEW job \in Jobs
      PROVE  LET r == NewSweep(job)
             IN  /\ r \in Sweeps
                 /\ r.pc = "list" /\ r.job = job /\ r.seeded = (job # "backfill" /\ state[job].seed_done)
                 /\ r.from = state[job].cursor /\ r.since = state[job].cursor /\ r.start = clock
                 /\ r.offset = 0 /\ r.last = 0 /\ r.lost = {} /\ r.excused = {}
    BY <1>1, NewSweepType DEF NewSweep, Idle
<1>4. ASSUME NEW job \in Jobs
      PROVE  /\ Keeps(NewSweep(job), Listing(NewSweep(job)), Stamps(NewSweep(job).seeded), clock, landed')
             /\ (job = "chapters" => state["catalogue"].seed_done)
                => \A t \in Tasks : (job = "backfill" <=> t = "backfill")
                      => Placed(t, NewSweep(job), state, clock)
    <2> DEFINE r == NewSweep(job)
    <2>1. Fits(r, Listing(r), Stamps(r.seeded), clock)
        BY <1>3, FitsNow
    <2>2. Keeps(r, Listing(r), Stamps(r.seeded), clock, landed')
        BY <1>3, <2>1, KeepsBegin
    <2>3. ASSUME job = "chapters" => state["catalogue"].seed_done,
                 NEW t \in Tasks, job = "backfill" <=> t = "backfill"
          PROVE  Placed(t, r, state, clock)
        BY <1>2, <1>3, <2>3 DEF Placed, RowsSound, Reading, Over
    <2> QED
        BY <2>2, <2>3
<1>5. ASSUME NEW t \in Tasks, NEW job \in Jobs, job = "backfill" <=> t = "backfill",
             job = "chapters" => state["catalogue"].seed_done,
             Moves(t, NewSweep(job)), LockFree,
             sweep[t] = Idle, UNCHANGED <<upstream, landed, state, flag, forgotten>>
      PROVE  Inv'
    <2> DEFINE r == NewSweep(job)
    <2>1. \A u \in Tasks : ~Sweeping(u)
        BY <1>5 DEF LockFree
    <2>2. /\ Keeps(r, Listing(r), Stamps(r.seeded), clock, landed')
          /\ Placed(t, r, state, clock)
        BY <1>4, <1>5
    <2>3. sweep'[t] = r /\ \A u \in Tasks \ {t} : sweep'[u] = sweep[u]
        BY <1>1, <1>5 DEF Moves, TypeOK
    <2>4. sweep["backfill"].lost \cup sweep["backfill"].excused
              \subseteq sweep'["backfill"].lost \cup sweep'["backfill"].excused
        <3>1. CASE t = "backfill"
            BY <1>5, <3>1 DEF Idle
        <3>2. CASE t # "backfill"
            BY <2>3, <3>2 DEF Tasks
        <3> QED
            BY <3>1, <3>2
    <2>5. Behind'
        BY <1>5, <2>4, BehindStays DEF upstream
    <2> HIDE DEF r
    <2> QED
        BY <1>1, <1>2, <1>5, <2>1, <2>2, <2>5, Moved DEF r
<1>6. CASE SyncCycle
    BY <1>5, <1>6 DEF SyncCycle, Tasks, Jobs
<1>7. CASE ChapterCycle
    BY <1>5, <1>7 DEF ChapterCycle, Tasks, Jobs
<1>8. CASE BackfillPass
    BY <1>5, <1>8 DEF BackfillPass, Tasks, Jobs
<1>9. ASSUME NEW r \in Sweeps, r.pc \in {"reset_catalogue", "reset_chapters"}, r.job = "catalogue",
             Moves("admin", r), \A u \in Tasks \ {"admin"} : ~Sweeping(u),
             RowsSound(state', clock, created, updated),
             state'["backfill"] = state["backfill"],
             UNCHANGED <<upstream, landed, flag, forgotten>>
      PROVE  Inv'
    <2>1. Placed("admin", r, state', clock)
        BY <1>9 DEF Placed, Reading, Over
    <2>2. Keeps(r, Listing(r), Stamps(r.seeded), clock, landed')
        BY <1>9 DEF Keeps, Reading, Over
    <2>3. sweep'["backfill"] = sweep["backfill"]
        BY <1>1, <1>9 DEF Moves, TypeOK, Tasks
    <2>4. Behind'
        BY <1>9, <2>3, BehindStays DEF upstream
    <2> QED
        BY <1>1, <1>9, <2>1, <2>2, <2>4, Moved DEF Tasks
<1>10. CASE Resync
    <2> DEFINE r == [Idle EXCEPT !.pc = "reset_catalogue"]
    <2>1. r \in Sweeps /\ r.pc = "reset_catalogue" /\ r.job = "catalogue"
        BY IdleType DEF Sweeps, Idle
    <2>2. Moves("admin", r) /\ UNCHANGED <<upstream, landed, state, flag, forgotten>>
          /\ \A u \in Tasks \ {"admin"} : ~Sweeping(u)
        BY <1>10 DEF Resync, LockFree
    <2> HIDE DEF r
    <2>3. RowsSound(state', clock, created, updated) /\ state'["backfill"] = state["backfill"]
        BY <1>2, <2>2
    <2> QED
        BY <1>9, <2>1, <2>2, <2>3
<1>11. ASSUME sweep["admin"].pc \in {"reset_catalogue", "reset_chapters"}
       PROVE  /\ \A u \in Tasks \ {"admin"} : ~Sweeping(u)
              /\ sweep["admin"].job = "catalogue"
              /\ sweep["admin"] \in Sweeps
    BY <1>11 DEF Inv, TypeOK, OneSweep, Sweeping, Placed, Tasks
<1>12. ASSUME NEW j \in {"catalogue", "chapters"}, state' = [state EXCEPT ![j] = NoRow]
       PROVE  /\ RowsSound(state', clock, created, updated)
              /\ \A k \in Jobs \ {j} : state'[k] = state[k]
    BY <1>1, <1>2, <1>12 DEF RowsSound, NoRow, TypeOK, Jobs
<1>13. CASE ResetCatalogue
    <2> DEFINE r == [sweep["admin"] EXCEPT !.pc = "reset_chapters"]
    <2>1. sweep["admin"].pc = "reset_catalogue" /\ Moves("admin", r)
          /\ state' = [state EXCEPT !["catalogue"] = NoRow]
          /\ UNCHANGED <<upstream, landed, flag, forgotten>>
        BY <1>13 DEF ResetCatalogue
    <2>2. r \in Sweeps /\ r.pc = "reset_chapters" /\ r.job = "catalogue"
        BY <1>11, <2>1 DEF Sweeps
    <2> HIDE DEF r
    <2> QED
        BY <1>9, <1>11, <1>12, <2>1, <2>2 DEF Jobs
<1>14. CASE ResetChapters
    <2> DEFINE r == NewSweep("catalogue")
    <2>1. sweep["admin"].pc = "reset_chapters" /\ Moves("admin", r)
          /\ state' = [state EXCEPT !["chapters"] = NoRow]
          /\ UNCHANGED <<upstream, landed, flag, forgotten>>
        BY <1>14 DEF ResetChapters
    <2>2. /\ r \in Sweeps /\ r.job = "catalogue" /\ r.pc = "list"
          /\ Keeps(r, Listing(r), Stamps(r.seeded), clock, landed')
          /\ Placed("admin", r, state, clock)
        BY <1>3, <1>4 DEF Jobs, Tasks
    <2> HIDE DEF r
    <2>3. state'["catalogue"] = state["catalogue"] /\ state'["backfill"] = state["backfill"]
          /\ RowsSound(state', clock, created, updated)
        BY <1>12, <2>1 DEF Jobs
    <2>4. Placed("admin", r, state', clock)
        BY <2>2, <2>3 DEF Placed
    <2>5. sweep'["backfill"] = sweep["backfill"]
        BY <1>1, <2>1 DEF Moves, TypeOK, Tasks
    <2>6. Behind'
        BY <2>1, <2>3, <2>5, BehindStays DEF upstream
    <2> QED
        BY <1>1, <1>11, <2>1, <2>2, <2>3, <2>4, <2>6, Moved DEF Tasks
<1> QED
    BY <1>6, <1>7, <1>8, <1>10, <1>13, <1>14 DEF Begin

(* The one who sweeps. *)
LEMMA Sweeper ==
    ASSUME Inv, NEW t \in Tasks, Reading(sweep[t]) \/ Over(sweep[t])
    PROVE  /\ \A u \in Tasks \ {t} : ~Sweeping(u)
           /\ sweep[t] \in Sweeps /\ sweep[t].job \in Jobs
           /\ Fits(sweep[t], Listing(sweep[t]), Stamps(sweep[t].seeded), clock)
           /\ Keeps(sweep[t], Listing(sweep[t]), Stamps(sweep[t].seeded), clock, landed)
           /\ Placed(t, sweep[t], state, clock)
           /\ sweep[t].job = "backfill" <=> t = "backfill"
           /\ sweep[t].start <= clock
           /\ sweep[t].seeded = state[sweep[t].job].seed_done
           /\ RowsSound(state, clock, created, updated)
<1>1. sweep[t] \in Sweeps /\ sweep[t].pc # "idle"
    BY DEF Inv, TypeOK, Reading, Over
<1>2. \A u \in Tasks \ {t} : ~Sweeping(u)
    BY <1>1 DEF Inv, OneSweep, Sweeping
<1>3. sweep[t].job \in Jobs
    BY <1>1 DEF Sweeps
<1>4. Keeps(sweep[t], Listing(sweep[t]), Stamps(sweep[t].seeded), clock, landed)
      /\ Placed(t, sweep[t], state, clock) /\ RowsSound(state, clock, created, updated)
    BY DEF Inv, Kept
<1> QED
    BY <1>1, <1>2, <1>3, <1>4, FitsNow DEF Placed

LEMMA SweeperNumbers ==
    ASSUME Inv, NEW t \in Tasks, Reading(sweep[t]) \/ Over(sweep[t])
    PROVE  /\ sweep[t].start \in Nat /\ sweep[t].from \in Nat
           /\ \A i \in ItemsOf(sweep[t].job) : Stamps(sweep[t].seeded)[i] \in Nat
<1> DEFINE s == sweep[t]
           W == Listing(s)
           stamp == Stamps(s.seeded)
<1>1. Fits(s, W, stamp, clock)
    BY Sweeper
<1> HIDE DEF s, W, stamp
<1>2. s.start \in Nat /\ s.from \in Nat /\ \A i \in ItemsOf(s.job) : stamp[i] \in Nat
    BY <1>1, FitsFacts
<1> QED
    BY <1>2 DEF s, stamp

(* A sweep reads a page, or offers its records, and leaves the rows as they are. *)
LEMMA StaysPlaced ==
    ASSUME Inv, NEW t \in Tasks, Reading(sweep[t]), NEW r, SameWalk(r, sweep[t]),
           Reading(r) \/ Over(r), r.since = sweep[t].since, r.last = sweep[t].last \/ r.last >= sweep[t].last,
           r.last \in Nat
    PROVE  Placed(t, r, state, clock)
<1>1. Placed(t, sweep[t], state, clock) /\ sweep[t].pc # "idle" /\ sweep[t].last \in Nat
      /\ sweep[t].job \in Jobs
    <2>1. sweep[t] \in Sweeps
        BY Sweeper
    <2> QED
        BY <2>1, Sweeper, MirrorAssumption DEF Reading, Sweeps, Time
<1>2. \A j \in Jobs : state[j].cursor \in Nat
    BY MirrorAssumption DEF Inv, TypeOK, Rows
<1>3. r.pc \notin {"idle", "reset_catalogue", "reset_chapters"}
    BY DEF Reading, Over
<1>4. r.job = sweep[t].job /\ r.seeded = sweep[t].seeded /\ r.from = sweep[t].from /\ r.start = sweep[t].start
    BY DEF SameWalk
<1>5. ~r.seeded => state[r.job].cursor <= r.since \/ state[r.job].cursor <= r.last
    BY <1>1, <1>2, <1>4 DEF Placed
<1> QED
    BY <1>1, <1>3, <1>4, <1>5 DEF Placed

(* A step of a sweep that leaves the rows alone. *)
LEMMA Walks ==
    ASSUME Inv, TypeOK', NEW t \in Tasks, Reading(sweep[t]),
           NEW r, Moves(t, r), SameWalk(r, sweep[t]), Reading(r) \/ Over(r),
           r.since = sweep[t].since, r.last = sweep[t].last \/ r.last >= sweep[t].last, r.last \in Nat,
           sweep[t].lost \subseteq r.lost, sweep[t].excused \subseteq r.excused,
           Keeps(r, Listing(sweep[t]), Stamps(sweep[t].seeded), clock, landed'),
           landed \subseteq landed', UNCHANGED <<upstream, state, flag, forgotten>>
    PROVE  Inv'
<1>1. Placed(t, r, state, clock)
    BY StaysPlaced
<1>2. Listing(r) = Listing(sweep[t]) /\ Stamps(r.seeded) = Stamps(sweep[t].seeded)
    BY DEF Listing, SameWalk
<1>3. sweep'[t] = r /\ \A u \in Tasks \ {t} : sweep'[u] = sweep[u]
    BY DEF Inv, TypeOK, Moves
<1>4. sweep["backfill"].lost \cup sweep["backfill"].excused
              \subseteq sweep'["backfill"].lost \cup sweep'["backfill"].excused
    BY <1>3 DEF Tasks
<1>5. Behind'
    BY <1>4, BehindStays DEF upstream
<1> QED
    BY <1>1, <1>2, <1>5, Moved, Sweeper

(* A sweep reads on. *)
LEMMA ReadInv ==
    ASSUME Inv, NEW t \in Tasks, ListPage(t) \/ EmptyPage(t) \/ (t = "backfill" /\ PageKeepsFailing)
    PROVE  Inv'
<1> DEFINE s == sweep[t]
           W == Listing(s)
           stamp == Stamps(s.seeded)
           P == PageAt(W, s.offset)
<1>1. TypeOK'
    BY ReadTypes DEF Inv
<1>2. s.pc = "list"
    BY DEF ListPage, EmptyPage, PageKeepsFailing
<1>3. Reading(s)
    BY <1>2 DEF Reading
<1>4. s \in Sweeps /\ Fits(s, W, stamp, clock) /\ Keeps(s, W, stamp, clock, landed)
    BY <1>3, Sweeper
<1>5. s.last \in Nat /\ s.offset \in Nat
    BY <1>4, FitsFacts
<1>6. UNCHANGED <<upstream, landed, state, flag, forgotten>>
    BY DEF ListPage, EmptyPage, PageKeepsFailing
<1>7. ASSUME NEW r, Moves(t, r), SameWalk(r, s), Reading(r) \/ Over(r), r.since = s.since, r.last = s.last,
             s.lost \subseteq r.lost, s.excused \subseteq r.excused, Keeps(r, W, stamp, clock, landed)
      PROVE  Inv'
    BY <1>1, <1>3, <1>5, <1>6, <1>7, Walks
<1>8. CASE ListPage(t)
    <2>1. CASE P = {}
        <3> DEFINE r == [s EXCEPT !.pc = "done"]
        <3>1. Moves(t, r)
            BY <1>8, <2>1 DEF ListPage
        <3>2. /\ r.pc = "done" /\ r.lost = s.lost /\ r.excused = s.excused /\ r.since = s.since
              /\ r.last = s.last /\ SameWalk(r, s)
            BY <1>4 DEF Sweeps, SameWalk
        <3> HIDE DEF r, s, W, stamp
        <3>3. Keeps(r, W, stamp, clock, landed)
            BY <1>2, <1>4, <2>1, <3>2, KeepsEnd
        <3>4. Over(r)
            BY <3>2 DEF Over
        <3> QED
            BY <1>7, <3>1, <3>2, <3>3, <3>4
    <2>2. CASE P # {}
        <3>1. PICK bad \in SUBSET P :
                Moves(t, [s EXCEPT !.pc = "page", !.page = P \ bad,
                                   !.raw = Cardinality(P),
                                   !.total = Cardinality(W),
                                   !.empties = 0,
                                   !.lost = @ \cup Ids(bad)])
            BY <1>8, <2>2 DEF ListPage
        <3> DEFINE r == [s EXCEPT !.pc = "page", !.page = P \ bad,
                                  !.raw = Cardinality(P),
                                  !.total = Cardinality(W),
                                  !.empties = 0,
                                  !.lost = @ \cup Ids(bad)]
        <3> HIDE DEF P
        <3>2. /\ r.pc = "page" /\ r.page = P \ bad /\ r.raw = Cardinality(P)
              /\ r.total = Cardinality(W) /\ r.lost = s.lost \cup Ids(bad) /\ r.excused = s.excused
              /\ r.since = s.since /\ r.last = s.last /\ r.offset = s.offset /\ SameWalk(r, s)
            BY <1>4 DEF Sweeps, SameWalk
        <3>3. P = PageAt(W, s.offset) /\ Moves(t, r)
            BY <3>1 DEF P
        <3> HIDE DEF r, s, W, stamp
        <3>4. Keeps(r, W, stamp, clock, landed)
            BY <1>2, <1>4, <3>2, <3>3, KeepsListPage
        <3>5. Reading(r)
            BY <3>2 DEF Reading
        <3> QED
            BY <1>7, <3>2, <3>3, <3>4, <3>5
    <2> QED
        BY <2>1, <2>2
<1>9. CASE EmptyPage(t)
    <2>1. CASE s.empties < Retries
        <3> DEFINE r == [s EXCEPT !.empties = @ + 1]
        <3>1. Moves(t, r)
            BY <1>9, <2>1 DEF EmptyPage
        <3>2. /\ r.pc = "list" /\ r.lost = s.lost /\ r.excused = s.excused /\ r.since = s.since
              /\ r.last = s.last /\ SameWalk(r, s) /\ Fetched(r) = Fetched(s)
            BY <1>2, <1>4 DEF Sweeps, SameWalk, Fetched
        <3> HIDE DEF r, s, W, stamp
        <3>3. Keeps(r, W, stamp, clock, landed)
            BY <1>2, <1>3, <1>4, <3>2, KeepsOn
        <3>4. Reading(r)
            BY <3>2 DEF Reading
        <3> QED
            BY <1>7, <3>1, <3>2, <3>3, <3>4
    <2>2. CASE ~(s.empties < Retries)
        <3> DEFINE r == [s EXCEPT !.pc = IF s.job = "backfill" THEN "slide" ELSE "done",
                                  !.truncated = s.job = "backfill",
                                  !.excused = @ \cup Ids(Unread(s))]
        <3>1. Moves(t, r)
            BY <1>9, <2>2 DEF EmptyPage
        <3>2. /\ r.pc \in {"slide", "done"} /\ r.lost = s.lost /\ r.excused = s.excused \cup Ids(Unread(s))
              /\ r.since = s.since /\ r.last = s.last /\ r.offset = s.offset /\ SameWalk(r, s)
            BY <1>4 DEF Sweeps, SameWalk
        <3>3. Ids(Unread(s)) = Ids({p \in W : Rank(p, W) >= s.offset})
            BY DEF Unread
        <3> HIDE DEF r, s, W, stamp
        <3>4. r.pc = "slide" => Fetched(r) = Fetched(s)
            BY <1>2, <3>2 DEF Fetched
        <3>5. Reading(r) \/ Over(r)
            BY <3>2 DEF Reading, Over
        <3>6. CASE r.pc = "slide"
            <4>1. Keeps(r, W, stamp, clock, landed)
                BY <1>2, <1>3, <1>4, <3>2, <3>4, <3>6, KeepsOn
            <4> QED
                BY <1>7, <3>1, <3>2, <3>5, <4>1
        <3>7. CASE r.pc = "done"
            <4>1. Keeps(r, W, stamp, clock, landed)
                BY <1>2, <1>4, <3>2, <3>3, <3>7, KeepsGivenUp DEF Over
            <4> QED
                BY <1>7, <3>1, <3>2, <3>5, <4>1
        <3> QED
            BY <3>2, <3>6, <3>7
    <2> QED
        BY <2>1, <2>2
<1>10. CASE t = "backfill" /\ PageKeepsFailing
    <2> DEFINE r == [s EXCEPT !.pc = "slide"]
    <2>1. Moves(t, r)
        BY <1>10 DEF PageKeepsFailing
    <2>2. /\ r.pc = "slide" /\ r.lost = s.lost /\ r.excused = s.excused /\ r.since = s.since
          /\ r.last = s.last /\ SameWalk(r, s) /\ Fetched(r) = Fetched(s)
        BY <1>2, <1>4 DEF Sweeps, SameWalk, Fetched
    <2> HIDE DEF r, s, W, stamp
    <2>3. Keeps(r, W, stamp, clock, landed)
        BY <1>2, <1>3, <1>4, <2>2, KeepsOn
    <2>4. Reading(r)
        BY <2>2 DEF Reading
    <2> QED
        BY <1>7, <2>1, <2>2, <2>3, <2>4
<1> QED
    BY <1>8, <1>9, <1>10

(* A record of the page is done with. *)
LEMMA OfferInv ==
    ASSUME Inv, NEW t \in Tasks, Offer(t)
    PROVE  Inv'
<1> DEFINE s == sweep[t]
           W == Listing(s)
           stamp == Stamps(s.seeded)
           p == First(s.page)
<1>1. TypeOK /\ TypeOK'
    BY OfferTypes DEF Inv
<1>2. s.pc = "page" /\ s.page # {}
    BY DEF Offer, Land, Fail, Skip, Unrelated
<1>3. Reading(s)
    BY <1>2 DEF Reading
<1>4. s \in Sweeps /\ Fits(s, W, stamp, clock) /\ Keeps(s, W, stamp, clock, landed)
    BY <1>3, Sweeper
<1>5. /\ p \in s.page /\ \A q \in s.page \ {p} : Before(p, q)
      /\ p[2] \in Items
    BY <1>1, <1>2, <1>4, PageType
<1>6. s.last \in Nat /\ p[1] \in Nat /\ p[1] >= s.last
    <2>1. s.last \in Nat /\ s.page \subseteq Nat \X Nat
        BY <1>4, FitsFacts
    <2>2. p[1] >= s.last
        BY <1>2, <1>3, <1>4, <1>5 DEF Keeps, Ordered
    <2> QED
        BY <1>5, <2>1, <2>2
<1> HIDE DEF p
<1>7. ASSUME NEW moves \in BOOLEAN
      PROVE  LET d == Done(s, p, moves)
                 e == [Done(s, p, moves) EXCEPT !.lost = @ \cup {p[2]}]
             IN  /\ \A r \in {d, e} :
                       /\ r.pc = "page" /\ r.page = s.page \ {p} /\ r.last \in {s.last, p[1]}
                       /\ r.since = s.since /\ r.offset = s.offset /\ r.raw = s.raw /\ r.total = s.total
                       /\ r.excused = s.excused /\ SameWalk(r, s)
                 /\ d.lost = s.lost /\ e.lost = s.lost \cup {p[2]}
    <2> DEFINE d == Done(s, p, moves)
               e == [d EXCEPT !.lost = @ \cup {p[2]}]
    <2>1. /\ d.pc = "page" /\ d.page = s.page \ {p} /\ d.last \in {s.last, p[1]}
          /\ d.since = s.since /\ d.offset = s.offset /\ d.raw = s.raw /\ d.total = s.total
          /\ d.excused = s.excused /\ SameWalk(d, s) /\ d.lost = s.lost
        BY <1>2, <1>4 DEF Done, Sweeps, SameWalk
    <2>2. d \in Sweeps
        BY <1>1, <1>4, <1>5, DoneType
    <2> HIDE DEF d, s
    <2>3. /\ e.pc = d.pc /\ e.page = d.page /\ e.last = d.last /\ e.since = d.since
          /\ e.offset = d.offset /\ e.raw = d.raw /\ e.total = d.total /\ e.excused = d.excused
          /\ SameWalk(e, d) /\ e.lost = d.lost \cup {p[2]}
        BY <2>2 DEF Sweeps, SameWalk
    <2> HIDE DEF e
    <2>4. SameWalk(e, s)
        BY <2>1, <2>3 DEF SameWalk
    <2> QED
        BY <2>1, <2>3, <2>4 DEF d, e
<1>8. ASSUME NEW r, Moves(t, r),
             r.pc = "page", r.page = s.page \ {p}, r.last \in {s.last, p[1]},
             r.since = s.since, r.offset = s.offset, r.raw = s.raw, r.total = s.total,
             r.excused = s.excused, SameWalk(r, s), s.lost \subseteq r.lost,
             landed \subseteq landed', p[2] \in r.lost \cup landed',
             UNCHANGED <<upstream, state, flag, forgotten>>
      PROVE  Inv'
    <2>1. Keeps(r, W, stamp, clock, landed')
        <3> HIDE DEF s, W, stamp
        <3> QED
            BY <1>2, <1>4, <1>5, <1>8, KeepsOffer
    <2>2. Reading(r)
        BY <1>8 DEF Reading
    <2>3. r.last \in Nat /\ r.last >= s.last
        BY <1>6, <1>8
    <2> QED
        BY <1>1, <1>3, <1>8, <2>1, <2>2, <2>3, Walks
<1>9. CASE Land(t)
    <2> DEFINE r == Done(s, p, TRUE)
    <2>1. Moves(t, r) /\ landed' = landed \cup {p[2]} /\ UNCHANGED <<upstream, state, flag, forgotten>>
        BY <1>9 DEF Land, p
    <2> HIDE DEF s, W, stamp
    <2> QED
        BY <1>7, <1>8, <2>1
<1>10. ASSUME NEW moves \in BOOLEAN,
              Moves(t, [Done(s, p, moves) EXCEPT !.lost = @ \cup {p[2]}]),
              UNCHANGED <<upstream, landed, state, flag, forgotten>>
       PROVE  Inv'
    <2> DEFINE r == [Done(s, p, moves) EXCEPT !.lost = @ \cup {p[2]}]
    <2>1. /\ r.pc = "page" /\ r.page = s.page \ {p} /\ r.last \in {s.last, p[1]}
          /\ r.since = s.since /\ r.offset = s.offset /\ r.raw = s.raw /\ r.total = s.total
          /\ r.excused = s.excused /\ SameWalk(r, s)
          /\ s.lost \subseteq r.lost /\ p[2] \in r.lost
        BY <1>7
    <2>2. Moves(t, r)
        BY <1>10
    <2> HIDE DEF r, s, W, stamp
    <2> QED
        BY <1>8, <1>10, <2>1, <2>2
<1>11. CASE Fail(t)
    <2>1. (s.job # "chapters") \in BOOLEAN
        OBVIOUS
    <2>2. Moves(t, [Done(s, p, s.job # "chapters") EXCEPT !.lost = @ \cup {p[2]}])
          /\ UNCHANGED <<upstream, landed, state, flag, forgotten>>
        BY <1>11 DEF Fail, p
    <2> QED
        BY <1>10, <2>1, <2>2
<1>12. CASE Skip(t)
    <2>1. Moves(t, [Done(s, p, FALSE) EXCEPT !.lost = @ \cup {p[2]}])
          /\ UNCHANGED <<upstream, landed, state, flag, forgotten>>
        BY <1>12 DEF Skip, p
    <2> QED
        BY <1>10, <2>1
<1>13. CASE Unrelated(t)
    <2>1. Moves(t, [Done(s, p, TRUE) EXCEPT !.lost = @ \cup {p[2]}])
          /\ UNCHANGED <<upstream, landed, state, flag, forgotten>>
        BY <1>13 DEF Unrelated, p
    <2> QED
        BY <1>10, <2>1
<1> QED
    BY <1>9, <1>11, <1>12, <1>13 DEF Offer

(* What the backfill's cursor passes when it is saved was read, or is excused. *)
LEMMA BehindMoves ==
    ASSUME Inv, Reading(sweep["backfill"]), sweep["backfill"].pc = "page" => sweep["backfill"].page = {},
           NEW cursor \in Nat,
           state'["backfill"].cursor \in {state["backfill"].cursor, cursor},
           UNCHANGED <<created, flag, landed, forgotten>>,
           sweep["backfill"].lost \subseteq sweep'["backfill"].lost,
           sweep["backfill"].excused \subseteq sweep'["backfill"].excused,
           \A w \in Listing(sweep["backfill"]) :
               w[1] < cursor => \/ w[1] < sweep["backfill"].last
                               \/ w[2] \in landed \cup sweep'["backfill"].excused
    PROVE  Behind'
<1> DEFINE s == sweep["backfill"]
           W == Listing(s)
<1>1. /\ s \in Sweeps /\ s.job = "backfill" /\ Fits(s, W, Stamps(s.seeded), clock)
      /\ Keeps(s, W, Stamps(s.seeded), clock, landed)
      /\ Placed("backfill", s, state, clock) /\ ~s.seeded
    BY Sweeper DEF Tasks, RowsSound
<1>2. Stamps(s.seeded) = created /\ ItemsOf(s.job) = Works
    BY <1>1 DEF Stamps, ItemsOf
<1>3. Fits(s, W, created, clock) /\ Keeps(s, W, created, clock, landed) /\ Reading(s) /\ ~Over(s)
    BY <1>1, <1>2 DEF Reading, Over
<1>4. s.pc # "idle" /\ s.from <= state["backfill"].cursor
    BY <1>1, <1>3 DEF Placed, Reading
<1>5. /\ s.from \in Nat /\ s.last \in Nat /\ Fetched(s) \in Nat /\ state["backfill"].cursor \in Nat
      /\ \A w \in Works : created[w] \in Nat
    <2>1. state["backfill"].cursor \in Nat
        BY MirrorAssumption DEF Inv, TypeOK, Rows, Jobs
    <2> QED
        <3>1. \A i \in ItemsOf(s.job) : created[i] \in Nat
            BY <1>3, FitsFacts
        <3>2. s.from \in Nat /\ s.last \in Nat /\ Fetched(s) \in Nat
            BY <1>3, FitsFacts
        <3> QED
            BY <1>2, <2>1, <3>1, <3>2
<1>6. Ahead(W, s.last, Fetched(s))
    BY <1>3 DEF Keeps, Ordered
<1>7. ASSUME ~flag', NEW w \in Works, created'[w] > 0, created'[w] < state'["backfill"].cursor,
             w \notin landed', w \notin forgotten',
             w \notin sweep'["backfill"].lost, w \notin sweep'["backfill"].excused
      PROVE  FALSE
    <2>1. created[w] > 0 /\ created[w] \in Nat /\ w \notin landed /\ w \notin forgotten
          /\ w \notin s.lost /\ w \notin s.excused /\ ~flag
        BY <1>5, <1>7
    <2>2. ~(created[w] < state["backfill"].cursor)
        BY <2>1 DEF Inv, Behind
    <2>3. created[w] >= s.from /\ created[w] < cursor
        BY <1>4, <1>5, <1>7, <2>1, <2>2
    <2>4. w \in Unaccounted(s, created, landed)
        BY <1>1, <1>2, <2>1, <2>3 DEF Unaccounted
    <2> DEFINE q == <<created[w], w>>
    <2>5. created[w] >= s.since /\ Rank(q, W) >= Fetched(s)
        BY <1>3, <2>4 DEF Keeps, Walked, StillOffered, Ids
    <2>6. q \in W /\ q[1] = created[w] /\ q[2] = w /\ Rank(q, W) \in Nat
        BY <1>2, <1>3, <2>1, <2>5, FitsFacts
    <2> HIDE DEF q
    <2>7. ~(q[1] < s.last)
        BY <1>5, <1>6, <2>5, <2>6 DEF Ahead
    <2> QED
        BY <1>7, <2>1, <2>3, <2>6, <2>7
<1> QED
    BY <1>7 DEF Behind

(* A checkpoint is never behind the cursor it replaces. *)
LEMMA CheckpointMovesOn ==
    ASSUME Inv, NEW t \in Tasks, Reading(sweep[t]),
           NEW cursor \in 0 .. MaxTime + 1, UNCHANGED state \/ Checkpoint(sweep[t], cursor),
           cursor # 0 => cursor >= sweep[t].since /\ cursor >= sweep[t].last
    PROVE  /\ \A j \in Jobs : /\ state'[j].seed_done = state[j].seed_done
                               /\ state'[j].cursor >= state[j].cursor
                               /\ state[j].cursor \in Nat /\ state'[j].cursor \in Nat
           /\ state' = state \/ (~sweep[t].seeded /\ cursor # 0 /\ state'[sweep[t].job].cursor = cursor)
           /\ \A j \in Jobs \ {sweep[t].job} : state'[j] = state[j]
<1> DEFINE s == sweep[t]
<1>1. s \in Sweeps /\ s.job \in Jobs /\ Placed(t, s, state, clock) /\ s.since \in Nat /\ s.last \in Nat
    <2>1. s.since \in Nat /\ s.last \in Nat
        BY Sweeper, FitsFacts
    <2> QED
        BY <2>1, Sweeper
<1>2. \A j \in Jobs : state[j].cursor \in Nat
    BY MirrorAssumption DEF Inv, TypeOK, Rows
<1>3. CASE state' = state
    BY <1>2, <1>3
<1>4. CASE Checkpoint(s, cursor)
    <2>1. /\ \A j \in Jobs : state'[j].seed_done = state[j].seed_done
          /\ \A j \in Jobs \ {s.job} : state'[j] = state[j]
          /\ \/ state' = state
             \/ ~s.seeded /\ cursor # 0 /\ state'[s.job].cursor = cursor
        BY <1>1, <1>4, CheckpointType DEF Inv
    <2>2. CASE state' = state
        BY <1>2, <2>2
    <2>3. CASE ~s.seeded /\ cursor # 0 /\ state'[s.job].cursor = cursor
        <3>1. s.pc # "idle" /\ Reading(s)
            BY DEF Reading
        <3>2. state[s.job].cursor <= s.since \/ state[s.job].cursor <= s.last
            BY <1>1, <2>3, <3>1 DEF Placed
        <3>3. cursor \in Nat
            BY MirrorAssumption
        <3>4. state'[s.job].cursor >= state[s.job].cursor
            BY <1>1, <1>2, <2>3, <3>2, <3>3
        <3> QED
            BY <1>1, <1>2, <2>1, <2>3, <3>3, <3>4
    <2> QED
        BY <2>1, <2>2, <2>3
<1> QED
    BY <1>3, <1>4

(* A sweep that has done with a page, or slides, and saves how far it has come. *)
LEMMA Turns ==
    ASSUME Inv, TypeOK', NEW t \in Tasks, Reading(sweep[t]), sweep[t].pc = "page" => sweep[t].page = {},
           NEW r, Moves(t, r), SameWalk(r, sweep[t]), Reading(r) \/ Over(r),
           r.lost = sweep[t].lost, sweep[t].excused \subseteq r.excused,
           r.since \in Nat, r.last \in Nat,
           Keeps(r, Listing(r), Stamps(r.seeded), clock, landed),
           NEW cursor \in 0 .. MaxTime + 1, UNCHANGED state \/ Checkpoint(sweep[t], cursor),
           cursor # 0 => cursor >= sweep[t].since /\ cursor >= sweep[t].last,
           Reading(r) => /\ cursor <= r.since \/ cursor <= r.last
                         /\ sweep[t].since <= r.since
                         /\ sweep[t].last <= r.since \/ sweep[t].last <= r.last,
           \A w \in Listing(sweep[t]) :
               w[1] < cursor => w[1] < sweep[t].last \/ w[2] \in landed \cup r.excused,
           UNCHANGED <<upstream, landed, flag, forgotten>>
    PROVE  Inv'
<1> DEFINE s == sweep[t]
<1>1. /\ s \in Sweeps /\ s.job \in Jobs /\ Placed(t, s, state, clock) /\ s.since \in Nat /\ s.last \in Nat
      /\ RowsSound(state, clock, created, updated) /\ s.pc # "idle"
      /\ \A u \in Tasks \ {t} : ~Sweeping(u)
      /\ s.job = "backfill" <=> t = "backfill"
      /\ s.start \in Nat /\ s.from \in Nat
    <2>1. s.since \in Nat /\ s.last \in Nat /\ s.start \in Nat /\ s.from \in Nat
        BY Sweeper, FitsFacts
    <2> QED
        BY <2>1, Sweeper DEF Reading
<1>2. /\ \A j \in Jobs : /\ state'[j].seed_done = state[j].seed_done
                          /\ state'[j].cursor >= state[j].cursor
                          /\ state[j].cursor \in Nat /\ state'[j].cursor \in Nat
      /\ state' = state \/ (~s.seeded /\ cursor # 0 /\ state'[s.job].cursor = cursor)
      /\ \A j \in Jobs \ {s.job} : state'[j] = state[j]
    BY CheckpointMovesOn
<1>3. s.seeded = state[s.job].seed_done /\ s.start <= clock
      /\ (s.seeded => state[s.job].cursor <= s.start)
      /\ (~s.seeded => state[s.job].cursor <= s.since \/ state[s.job].cursor <= s.last)
      /\ (s.job = "chapters" => state["catalogue"].seed_done)
      /\ (s.job = "backfill" => s.from <= state["backfill"].cursor)
    BY <1>1 DEF Placed
<1>4. RowsSound(state', clock, created, updated)
    <2>1. ASSUME NEW j \in Jobs, state'[j].seed_done PROVE state'[j].cursor <= clock
        BY <1>1, <1>2, <1>3, <2>1 DEF RowsSound
    <2>2. ~state'["backfill"].seed_done
        BY <1>1, <1>2 DEF RowsSound, Jobs
    <2> QED
        BY <1>1, <2>1, <2>2 DEF RowsSound
<1>5. Placed(t, r, state', clock)
    <2>1. r.job = s.job /\ r.seeded = s.seeded /\ r.from = s.from /\ r.start = s.start
        BY DEF SameWalk
    <2>2. r.pc \notin {"idle", "reset_catalogue", "reset_chapters"}
        BY DEF Reading, Over
    <2>3. cursor \in Nat
        BY MirrorAssumption
    <2>4. r.seeded => state'[r.job].cursor <= r.start
        BY <1>2, <1>3, <2>1
    <2>5. Reading(r) /\ ~r.seeded => state'[r.job].cursor <= r.since \/ state'[r.job].cursor <= r.last
        <3>1. ASSUME Reading(r), ~r.seeded, state' = state
              PROVE  state'[r.job].cursor <= r.since \/ state'[r.job].cursor <= r.last
            BY <1>1, <1>2, <1>3, <2>1, <3>1
        <3> QED
            BY <1>2, <2>1, <3>1
    <2>6. r.seeded = state'[r.job].seed_done
        BY <1>1, <1>2, <1>3, <2>1
    <2>7. r.job = "chapters" => state'["catalogue"].seed_done
        BY <1>2, <1>3, <2>1 DEF Jobs
    <2>8. r.job = "backfill" => r.from <= state'["backfill"].cursor
        BY <1>1, <1>2, <1>3, <2>1 DEF Jobs
    <2>9. r.job = "backfill" <=> t = "backfill"
        BY <1>1, <2>1
    <2>10. r.start <= clock
        BY <1>3, <2>1
    <2> QED
        BY <2>2, <2>4, <2>5, <2>6, <2>7, <2>8, <2>9, <2>10 DEF Placed
<1>6. sweep'[t] = r /\ \A u \in Tasks \ {t} : sweep'[u] = sweep[u]
    BY DEF Inv, TypeOK, Moves
<1>7. Behind'
    <2>1. CASE t = "backfill"
        <3>1. state'["backfill"].cursor \in {state["backfill"].cursor, cursor}
            BY <1>1, <1>2, <2>1
        <3>2. cursor \in Nat
            BY MirrorAssumption
        <3> QED
            BY <1>6, <2>1, <3>1, <3>2, BehindMoves DEF upstream
    <2>2. CASE t # "backfill"
        <3>1. state'["backfill"] = state["backfill"] /\ sweep'["backfill"] = sweep["backfill"]
            BY <1>1, <1>2, <1>6, <2>2 DEF Jobs, Tasks
        <3> QED
            BY <3>1, BehindStays DEF upstream
    <2> QED
        BY <2>1, <2>2
<1> QED
    BY <1>1, <1>4, <1>5, <1>7, Moved

LEMMA PageDoneInv ==
    ASSUME Inv, NEW t \in Tasks, PageDone(t)
    PROVE  Inv'
<1> DEFINE s == sweep[t]
           W == Listing(s)
           stamp == Stamps(s.seeded)
           offset == s.offset + s.raw
           over == IF s.job = "chapters" THEN s.raw < Page ELSE offset >= s.total
<1>1. TypeOK'
    BY TurnTypes DEF Inv
<1>2. s.pc = "page" /\ s.page = {} /\ Reading(s)
    BY DEF PageDone, Reading
<1>3. s \in Sweeps /\ Fits(s, W, stamp, clock) /\ Keeps(s, W, stamp, clock, landed)
    BY <1>2, Sweeper
<1>4. s.last \in Nat /\ s.since \in Nat /\ s.last \in 0 .. MaxTime + 1 /\ offset \in Nat
    BY <1>3, FitsFacts, MirrorAssumption DEF Sweeps, Time
<1>5. s.last # 0 => s.last >= s.since /\ s.last >= s.last
    BY <1>2, <1>3, <1>4 DEF Keeps, Ordered
<1>6. UNCHANGED state \/ Checkpoint(s, s.last)
    BY DEF PageDone
<1>7. UNCHANGED <<upstream, landed, flag, forgotten>>
    BY DEF PageDone
<1>8. PICK spent \in BOOLEAN :
        Moves(t, [s EXCEPT !.offset = offset, !.spent = spent, !.raw = 0, !.total = 0,
                           !.pc = CASE over -> "done"
                                    [] ~over /\ (offset >= Cap \/ spent) -> "slide"
                                    [] OTHER -> "list"])
    BY DEF PageDone
<1> DEFINE pc == CASE over -> "done"
                   [] ~over /\ (offset >= Cap \/ spent) -> "slide"
                   [] OTHER -> "list"
           r == [s EXCEPT !.offset = offset, !.spent = spent, !.raw = 0, !.total = 0, !.pc = pc]
<1>9. pc \in {"done", "slide", "list"} /\ (pc = "done" => over)
    OBVIOUS
<1>10. over => s.raw < Page \/ s.offset + s.raw >= s.total
    OBVIOUS
<1>11. Moves(t, r)
    BY <1>8
<1> HIDE DEF pc, over
<1>12. /\ r.pc = pc /\ r.offset = offset /\ r.raw = 0 /\ r.lost = s.lost /\ r.excused = s.excused
       /\ r.since = s.since /\ r.last = s.last /\ SameWalk(r, s)
    BY <1>3 DEF Sweeps, SameWalk
<1>13. Listing(r) = W /\ Stamps(r.seeded) = stamp
    BY <1>12 DEF Listing, SameWalk
<1>14. Fetched(s) = offset
    BY <1>2 DEF Fetched
<1> HIDE DEF r, offset, s, W, stamp
<1>15. Reading(r) \/ Over(r)
    BY <1>9, <1>12 DEF Reading, Over
<1>16. Keeps(r, W, stamp, clock, landed)
    <2>1. CASE r.pc = "done"
        BY <1>2, <1>3, <1>9, <1>10, <1>12, <2>1, KeepsOver
    <2>2. CASE r.pc \in {"list", "slide"}
        <3>1. Fetched(r) = Fetched(s)
            BY <1>12, <1>14, <2>2 DEF Fetched
        <3> QED
            BY <1>2, <1>3, <1>12, <2>2, <3>1, KeepsOn
    <2> QED
        BY <1>9, <1>12, <2>1, <2>2
<1>17. s = sweep[t] /\ W = Listing(sweep[t])
    BY DEF s, W
<1> QED
    BY <1>1, <1>2, <1>4, <1>5, <1>6, <1>7, <1>11, <1>12, <1>13, <1>15, <1>16, <1>17, Turns

LEMMA SlideInv ==
    ASSUME Inv, NEW t \in Tasks, Slide(t)
    PROVE  Inv'
<1> DEFINE s == sweep[t]
           W == Listing(s)
           stamp == Stamps(s.seeded)
           next == IF s.last = s.since THEN s.last + 1 ELSE s.last
           tied == {p \in Listing(s) : s.last = s.since /\ p[1] = s.last}
           late == s.excused \cup (Ids(tied) \ landed)
<1>1. TypeOK /\ TypeOK'
    BY TurnTypes DEF Inv
<1>2. s.pc = "slide" /\ Reading(s)
    BY DEF Slide, Reading
<1>3. s \in Sweeps /\ Fits(s, W, stamp, clock) /\ Keeps(s, W, stamp, clock, landed)
    BY <1>2, Sweeper
<1>4. s.last \in Nat /\ s.since \in Nat /\ next \in 0 .. MaxTime + 1 /\ next \in Nat
    BY <1>3, FitsFacts, MirrorAssumption DEF Sweeps, Time
<1>5. s.last > 0 => s.last >= s.since
    BY <1>2, <1>3 DEF Keeps, Ordered
<1>6. UNCHANGED <<upstream, landed, flag, forgotten>>
    BY DEF Slide
<1>7. sweep'[t] \in Sweeps
    BY <1>1 DEF TypeOK
<1>8. CASE s.last = 0
    <2> DEFINE r == [s EXCEPT !.pc = "stopped", !.excused = @ \cup Ids(Unread(s))]
    <2>1. Moves(t, r) /\ UNCHANGED state
        BY <1>8 DEF Slide
    <2>2. /\ r.pc = "stopped" /\ r.lost = s.lost /\ r.excused = s.excused \cup Ids(Unread(s))
          /\ r.since = s.since /\ r.last = s.last /\ SameWalk(r, s)
        BY <1>3 DEF Sweeps, SameWalk
    <2>3. Ids(Unread(s)) = Ids({p \in W : Rank(p, W) >= s.offset})
        BY DEF Unread
    <2>4. Over(r) /\ ~Reading(r)
        BY <2>2 DEF Over, Reading
    <2>5. s = sweep[t]
        OBVIOUS
    <2> HIDE DEF r, s, W, stamp
    <2>6. Keeps(r, W, stamp, clock, landed)
        BY <1>2, <1>3, <2>2, <2>3, <2>4, KeepsGivenUp
    <2> QED
        BY <1>1, <1>2, <1>4, <1>6, <2>1, <2>2, <2>4, <2>5, <2>6, Walks DEF W, stamp
<1>9. CASE s.last # 0
    <2> DEFINE after == [s EXCEPT !.since = next, !.offset = 0, !.last = 0, !.empties = 0,
                                  !.excused = late]
    <2>1. PICK spent \in BOOLEAN :
            /\ spent => s.job = "backfill"
            /\ Moves(t, [after EXCEPT !.pc = IF spent THEN "stopped" ELSE "list"])
        BY <1>9 DEF Slide
    <2>2. Checkpoint(s, next)
        BY <1>9 DEF Slide
    <2> DEFINE pc == IF spent THEN "stopped" ELSE "list"
               r == [after EXCEPT !.pc = pc]
    <2>3. Moves(t, r) /\ pc \in {"list", "stopped"} /\ (pc = "stopped" => s.job = "backfill")
        BY <2>1
    <2> HIDE DEF pc, next, late
    <2>4. /\ r.pc = pc /\ r.offset = 0 /\ r.last = 0 /\ r.since = next /\ r.lost = s.lost
          /\ r.excused = late /\ SameWalk(r, s)
        BY <1>3 DEF Sweeps, SameWalk
    <2>5. r \in Sweeps
        <3>1. sweep'[t] = r
            BY <1>1, <2>3 DEF Moves, TypeOK
        <3> QED
            BY <1>7, <3>1
    <2>6. late = s.excused \cup (Ids({p \in W : s.last = s.since /\ p[1] = s.last}) \ landed)
        BY DEF late
    <2>7. next = IF s.last = s.since THEN s.last + 1 ELSE s.last
        BY DEF next
    <2>8. s = sweep[t] /\ W = Listing(sweep[t])
        OBVIOUS
    <2>9. Stamps(r.seeded) = stamp
        BY <2>4 DEF SameWalk
    <2>10. Fits(r, Listing(r), stamp, clock)
        BY <2>5, <2>9, FitsNow
    <2> HIDE DEF r, s, W, stamp
    <2>11. Keeps(r, Listing(r), stamp, clock, landed)
        <3>1. r.pc = "list" \/ (r.pc = "stopped" /\ r.job = "backfill")
            BY <2>3, <2>4 DEF SameWalk
        <3> QED
            BY <1>2, <1>3, <2>4, <2>6, <2>7, <2>10, <3>1, KeepsSlide
    <2>12. Reading(r) \/ Over(r)
        BY <2>3, <2>4 DEF Reading, Over
    <2>13. \A w \in W : w[1] < next => w[1] < s.last \/ w[2] \in landed \cup r.excused
        <3>1. \A w \in W : w[1] \in Nat
            BY <1>3, FitsFacts
        <3>2. \A w \in W : s.last = s.since /\ w[1] = s.last => w[2] \in landed \cup late
            BY <2>6 DEF Ids
        <3> QED
            BY <1>4, <2>4, <2>7, <3>1, <3>2
    <2>14. next >= s.since /\ next >= s.last
        BY <1>4, <1>5, <1>9, <2>7
    <2>15. next <= r.since /\ s.since <= r.since /\ s.last <= r.since /\ r.since \in Nat /\ r.last \in Nat
        BY <1>4, <2>4, <2>14
    <2>16. s.excused \subseteq r.excused
        BY <2>4, <2>6
    <2> QED
        BY <1>1, <1>2, <1>4, <1>6, <2>2, <2>3, <2>4, <2>16, <2>8, <2>9, <2>11, <2>12, <2>13, <2>14, <2>15, Turns
<1> QED
    BY <1>8, <1>9

(* A sweep ends, well or not. *)
LEMMA FinishSyncInv ==
    ASSUME Inv, NEW t \in Tasks, FinishSync(t)
    PROVE  Inv'
<1> DEFINE s == sweep[t]
<1>1. TypeOK /\ TypeOK'
    BY EndTypes DEF Inv
<1>2. Over(s) /\ s.job # "backfill" /\ Moves(t, Idle) /\ UNCHANGED <<upstream, landed, flag, forgotten>>
    BY DEF FinishSync
<1>3. /\ s.job \in Jobs /\ t # "backfill" /\ s.start <= clock
      /\ RowsSound(state, clock, created, updated) /\ \A u \in Tasks \ {t} : ~Sweeping(u)
    BY <1>2, Sweeper
<1>4. /\ \A j \in Jobs \ {s.job} : state'[j] = state[j]
      /\ state'[s.job].cursor = s.start \/ state'[s.job] = state[s.job]
    <2>1. state \in [Jobs -> Rows]
        BY <1>1 DEF TypeOK
    <2>2. CASE state' = [state EXCEPT ![s.job].cursor = s.start]
        <3>1. state'[s.job] = [state[s.job] EXCEPT !.cursor = s.start]
              /\ \A j \in Jobs \ {s.job} : state'[j] = state[j]
            BY <1>3, <2>1, <2>2
        <3>2. state[s.job] \in Rows
            BY <1>3, <2>1
        <3> QED
            BY <3>1, <3>2 DEF Rows
    <2>3. CASE state' = [state EXCEPT ![s.job] = [cursor |-> s.start, seed_done |-> TRUE]]
        BY <1>3, <2>1, <2>3
    <2>4. CASE UNCHANGED state
        BY <2>4
    <2> QED
        BY <2>2, <2>3, <2>4 DEF FinishSync
<1>5. RowsSound(state', clock, created, updated)
    <2>1. ASSUME NEW j \in Jobs, state'[j].seed_done PROVE state'[j].cursor <= clock
        BY <1>3, <1>4, <2>1 DEF RowsSound
    <2>2. ~state'["backfill"].seed_done
        BY <1>2, <1>3, <1>4 DEF RowsSound, Jobs
    <2> QED
        BY <1>3, <2>1, <2>2 DEF RowsSound
<1>6. Placed(t, Idle, state', clock) /\ Keeps(Idle, Listing(Idle), Stamps(Idle.seeded), clock, landed')
    BY DEF Idle, Placed, Keeps, Reading, Over
<1>7. sweep'["backfill"] = sweep["backfill"] /\ state'["backfill"] = state["backfill"]
    BY <1>1, <1>2, <1>3, <1>4 DEF Moves, TypeOK, Tasks, Jobs
<1>8. Behind'
    BY <1>2, <1>7, BehindStays DEF upstream
<1> QED
    BY <1>1, <1>2, <1>3, <1>5, <1>6, <1>8, Moved

LEMMA FinishBackfillInv ==
    ASSUME Inv, FinishBackfill
    PROVE  Inv'
<1> DEFINE s == sweep["backfill"]
<1>1. TypeOK /\ TypeOK'
    BY EndTypes DEF Inv, Tasks
<1>2. Over(s) /\ Moves("backfill", Idle) /\ UNCHANGED <<upstream, landed>>
    BY DEF FinishBackfill
<1>3. RowsSound(state, clock, created, updated) /\ \A u \in Tasks \ {"backfill"} : ~Sweeping(u)
    BY <1>2, Sweeper DEF Tasks
<1>4. state' = state \/ state' = [state EXCEPT !["backfill"] = NoRow]
    BY DEF FinishBackfill
<1>5. RowsSound(state', clock, created, updated)
    BY <1>1, <1>3, <1>4 DEF RowsSound, NoRow, Jobs, TypeOK
<1>6. Placed("backfill", Idle, state', clock)
      /\ Keeps(Idle, Listing(Idle), Stamps(Idle.seeded), clock, landed')
    BY DEF Idle, Placed, Keeps, Reading, Over
<1>7. Behind'
    <2>1. CASE flag'
        BY <2>1 DEF Behind
    <2>2. CASE state' = [state EXCEPT !["backfill"] = NoRow]
        <3>1. state'["backfill"].cursor = 0
            BY <1>1, <2>2 DEF TypeOK, NoRow, Jobs
        <3>2. \A w \in Works : created'[w] \in Nat
            BY <1>1, MirrorAssumption DEF TypeOK, Items, Time
        <3> QED
            BY <3>1, <3>2 DEF Behind
    <2>3. CASE /\ forgotten' = forgotten \cup s.excused \cup (IF Dirty(s) THEN s.lost ELSE {})
               /\ UNCHANGED <<state, flag>>
        <3>1. s.lost \cup s.excused \subseteq forgotten' /\ forgotten \subseteq forgotten'
            BY <2>3 DEF Dirty
        <3> QED
            BY <1>2, <2>3, <3>1, BehindStays DEF upstream
    <2> QED
        BY <2>1, <2>2, <2>3 DEF FinishBackfill
<1> QED
    BY <1>1, <1>2, <1>3, <1>5, <1>6, <1>7, Moved DEF Tasks

LEMMA StopInv ==
    ASSUME Inv, NEW t \in Tasks, Stop(t)
    PROVE  Inv'
<1> DEFINE s == sweep[t]
<1>1. TypeOK /\ TypeOK'
    BY EndTypes DEF Inv
<1>2. s # Idle /\ Moves(t, Idle) /\ UNCHANGED <<upstream, landed, state, flag>>
    BY DEF Stop
<1>3. s.pc # "idle" /\ (s.job = "backfill" <=> t = "backfill")
    BY <1>2 DEF Inv, Placed
<1>4. RowsSound(state, clock, created, updated) /\ \A u \in Tasks \ {t} : ~Sweeping(u)
    BY <1>3 DEF Inv, OneSweep, Sweeping
<1>5. Placed(t, Idle, state', clock) /\ Keeps(Idle, Listing(Idle), Stamps(Idle.seeded), clock, landed')
    BY DEF Idle, Placed, Keeps, Reading, Over
<1>6. Behind'
    <2>1. CASE t = "backfill"
        <3>1. forgotten' = forgotten \cup s.lost \cup s.excused
            BY <1>3, <2>1 DEF Stop
        <3> QED
            BY <1>2, <2>1, <3>1, BehindStays DEF upstream
    <2>2. CASE t # "backfill"
        <3>1. forgotten' = forgotten
            BY <1>3, <2>2 DEF Stop
        <3>2. sweep'["backfill"] = sweep["backfill"]
            BY <1>1, <1>2, <2>2 DEF Moves, TypeOK, Tasks
        <3> QED
            BY <1>2, <3>1, <3>2, BehindStays DEF upstream
    <2> QED
        BY <2>1, <2>2
<1> QED
    BY <1>1, <1>2, <1>4, <1>5, <1>6, Moved

(* What MangaDex's doings may change of a sweep: what it is excused for. *)
Excuses(r, s) ==
    /\ SameWalk(r, s) /\ r.pc = s.pc /\ r.page = s.page /\ r.last = s.last /\ r.since = s.since
    /\ r.offset = s.offset /\ r.raw = s.raw /\ r.total = s.total /\ r.lost = s.lost
    /\ s.excused \subseteq r.excused
    /\ ~Reading(s) => r = s

Later(seeded) == IF seeded THEN updated' ELSE created'

(* MangaDex publishes or updates, or time passes. *)
LEMMA UpstreamInv ==
    ASSUME Inv, TypeOK', clock <= clock', UNCHANGED <<landed, state, flag>>, forgotten \subseteq forgotten',
           RowsSound(state, clock', created', updated'),
           \A t \in Tasks : Excuses(sweep'[t], sweep[t]),
           \A t \in Tasks :
              LET s == sweep[t]
                  r == sweep'[t]
                  W == Listing(s)
                  V == Window(s.job, Later(s.seeded), s.since)
                  stamp == Stamps(s.seeded)
                  after == Later(s.seeded)
              IN  /\ \A q \in V : q[1] < clock => q \in W
                  /\ \A i \in ItemsOf(s.job) : after[i] # stamp[i] =>
                        /\ after[i] = clock
                        /\ \/ s.seeded \/ ~Reading(s) \/ i \in r.excused
                           \/ clock >= s.since /\ Rank(<<clock, i>>, V) >= Fetched(s)
                  /\ \A i \in ItemsOf(s.job) :
                        /\ Reading(s) /\ after[i] = stamp[i] /\ <<stamp[i], i>> \in W
                        /\ Rank(<<stamp[i], i>>, W) >= Fetched(s)
                        => i \in r.excused \/ Rank(<<stamp[i], i>>, V) >= Fetched(s),
           \A w \in Works : created'[w] # created[w] =>
              ~(created'[w] < state["backfill"].cursor) \/ w \in forgotten'
    PROVE  Inv'
<1>1. TypeOK /\ clock \in Nat /\ clock' \in Nat
    BY MirrorAssumption DEF Inv, TypeOK, Time
<1>2. OneSweep'
    BY DEF Inv, OneSweep, Sweeping, Excuses
<1>3. RowsSound(state', clock', created', updated')
    OBVIOUS
<1>4. ASSUME NEW t \in Tasks
      PROVE  Placed(t, sweep'[t], state', clock') /\ Kept(t)'
    <2> DEFINE s == sweep[t]
               r == sweep'[t]
               W == Listing(s)
               V == Window(s.job, Later(s.seeded), s.since)
               stamp == Stamps(s.seeded)
               after == Later(s.seeded)
    <2>1. Excuses(r, s) /\ s \in Sweeps /\ r \in Sweeps /\ Placed(t, s, state, clock)
          /\ Keeps(s, W, stamp, clock, landed)
        BY <1>1 DEF Inv, TypeOK, Kept
    <2>2. s.start \in Nat
        BY <2>1, MirrorAssumption DEF Sweeps, Time
    <2>3. /\ r.pc = s.pc /\ r.job = s.job /\ r.seeded = s.seeded /\ r.from = s.from /\ r.start = s.start
          /\ r.last = s.last /\ r.since = s.since
          /\ Reading(r) <=> Reading(s)
          /\ Over(r) <=> Over(s)
          /\ (s.pc = "idle" => r = s)
        BY <2>1 DEF Excuses, SameWalk, Reading, Over
    <2>4. Placed(t, r, state, clock')
        <3>1. Reading(s) \/ Over(s) => s.start <= clock'
            BY <1>1, <2>1, <2>2 DEF Placed
        <3> QED
            BY <2>1, <2>3, <3>1 DEF Placed
    <2>5. Fits(s, W, stamp, clock)
        BY <2>1, FitsNow
    <2>6. Fits(r, V, after, clock')
        <3>1. after \in [Items -> Time] /\ clock' \in Time
            BY DEF TypeOK, Later
        <3>2. \A i \in Items : after[i] <= clock'
            BY DEF RowsSound, Later
        <3> QED
            BY <2>1, <2>3, <3>1, <3>2 DEF Fits
    <2>7. Reading(s) \/ Over(s) => s.start <= clock
        BY <2>1 DEF Placed
    <2>8. /\ \A q \in V : q[1] < clock => q \in W
          /\ \A i \in ItemsOf(s.job) : after[i] # stamp[i] =>
                /\ after[i] = clock
                /\ \/ s.seeded \/ ~Reading(s) \/ i \in r.excused
                   \/ clock >= s.since /\ Rank(<<clock, i>>, V) >= Fetched(s)
          /\ \A i \in ItemsOf(s.job) :
                /\ Reading(s) /\ after[i] = stamp[i] /\ <<stamp[i], i>> \in W
                /\ Rank(<<stamp[i], i>>, W) >= Fetched(s)
                => i \in r.excused \/ Rank(<<stamp[i], i>>, V) >= Fetched(s)
        OBVIOUS
    <2>9. Kept(t)' <=> Keeps(r, V, after, clock', landed)
        BY <2>3 DEF Kept, Listing, Stamps, Later
    <2> HIDE DEF s, r, W, V, stamp, after
    <2>10. Keeps(r, V, after, clock', landed)
        BY <2>1, <2>5, <2>6, <2>7, <2>8, KeepsUpstream DEF Excuses
    <2> QED
        BY <2>4, <2>9, <2>10 DEF r
<1>5. Behind'
    <2>1. sweep'["backfill"].lost = sweep["backfill"].lost
          /\ sweep["backfill"].excused \subseteq sweep'["backfill"].excused
        BY DEF Excuses, Tasks
    <2> QED
        BY <2>1 DEF Inv, Behind
<1> QED
    BY <1>2, <1>3, <1>4, <1>5 DEF Inv

LEMMA TickInv == Inv /\ Tick => Inv'
<1> SUFFICES ASSUME Inv, Tick PROVE Inv'
    OBVIOUS
<1>1. TypeOK /\ TypeOK' /\ clock \in Nat
    BY UpstreamTypes, MirrorAssumption DEF Inv, TypeOK, Time
<1>2. clock' = clock + 1 /\ UNCHANGED <<created, updated, landed, state, flag, sweep, forgotten>>
    BY DEF Tick
<1>3. RowsSound(state, clock', created', updated')
    <2>1. /\ \A j \in Jobs : state[j].cursor \in Nat
          /\ \A i \in Items : created[i] \in Nat /\ updated[i] \in Nat
        BY <1>1, MirrorAssumption DEF TypeOK, Rows, Time
    <2> QED
        BY <1>1, <1>2, <2>1 DEF Inv, RowsSound
<1>4. \A t \in Tasks : Excuses(sweep'[t], sweep[t])
    BY <1>2 DEF Excuses, SameWalk
<1>5. \A b \in BOOLEAN : Later(b) = Stamps(b)
    BY <1>2 DEF Later, Stamps
<1>6. \A t \in Tasks : Later(sweep[t].seeded) = Stamps(sweep[t].seeded)
    BY <1>1, <1>5 DEF TypeOK, Sweeps
<1>7. \A t \in Tasks : Window(sweep[t].job, Later(sweep[t].seeded), sweep[t].since) = Listing(sweep[t])
    BY <1>6 DEF Listing
<1> QED
    BY <1>1, <1>2, <1>3, <1>4, <1>6, <1>7, UpstreamInv

(* A record is published: it is the last of its listing but for its own second. *)
LEMMA PublishInv ==
    ASSUME Inv, NEW i \in Items, Publish(i)
    PROVE  Inv'
<1>1. TypeOK /\ TypeOK' /\ clock \in Nat /\ clock' = clock
      /\ UNCHANGED <<landed, state, flag>>
    <2>1. TypeOK /\ TypeOK'
        BY UpstreamTypes DEF Inv
    <2> QED
        BY <2>1, MirrorAssumption DEF TypeOK, Time, Publish
<1>2. /\ created' = [created EXCEPT ![i] = clock] /\ updated' = [updated EXCEPT ![i] = clock]
      /\ created[i] = 0 /\ updated[i] = 0
    BY DEF Inv, RowsSound, Publish
<1>3. RowsSound(state, clock', created', updated')
    <2>1. ASSUME NEW j \in Items
          PROVE  created'[j] <= clock /\ updated'[j] <= clock /\ (created'[j] = 0 => updated'[j] = 0)
        BY <1>1, <1>2 DEF TypeOK, Inv, RowsSound
    <2> QED
        BY <1>1, <2>1 DEF Inv, RowsSound
<1>4. ASSUME NEW t \in Tasks
      PROVE  LET s == sweep[t]
                 missed == clock < s.since \/ Rank(<<clock, i>>, Listing(s)) < Fetched(s)
             IN  /\ sweep'[t] = IF Reading(s) /\ i \in ItemsOf(s.job) /\ missed
                                THEN [s EXCEPT !.excused = @ \cup {i}] ELSE s
                 /\ Excuses(sweep'[t], s)
                 /\ Reading(s) /\ i \in ItemsOf(s.job) /\ missed => i \in sweep'[t].excused
    <2> DEFINE s == sweep[t]
               missed == clock < s.since \/ Rank(<<clock, i>>, Listing(s)) < Fetched(s)
               e == [s EXCEPT !.excused = @ \cup {i}]
    <2>1. sweep'[t] = IF Reading(s) /\ i \in ItemsOf(s.job) /\ missed THEN e ELSE s
        BY DEF Publish
    <2>2. s \in Sweeps
        BY <1>1 DEF TypeOK
    <2> HIDE DEF s, missed
    <2>3. e.excused = s.excused \cup {i} /\ (Reading(s) => Excuses(e, s)) /\ Excuses(s, s)
        BY <2>2 DEF Sweeps, Excuses, SameWalk
    <2> HIDE DEF e
    <2>4. Excuses(sweep'[t], s) /\ (Reading(s) /\ i \in ItemsOf(s.job) /\ missed => i \in sweep'[t].excused)
        BY <2>1, <2>3
    <2> QED
        BY <2>1, <2>4 DEF e, missed, s
<1>5. ASSUME NEW w \in Works, created'[w] # created[w], created'[w] < state["backfill"].cursor
      PROVE  w \in forgotten'
    BY <1>1, <1>2, <1>5 DEF Publish, TypeOK, Items
<1>6. forgotten \subseteq forgotten'
    BY DEF Publish
<1>7. ASSUME NEW t \in Tasks
      PROVE  LET s == sweep[t]
                 r == sweep'[t]
                 W == Listing(s)
                 V == Window(s.job, Later(s.seeded), s.since)
                 stamp == Stamps(s.seeded)
                 after == Later(s.seeded)
             IN  /\ \A q \in V : q[1] < clock => q \in W
                 /\ \A j \in ItemsOf(s.job) : after[j] # stamp[j] =>
                       /\ after[j] = clock
                       /\ \/ s.seeded \/ ~Reading(s) \/ j \in r.excused
                          \/ clock >= s.since /\ Rank(<<clock, j>>, V) >= Fetched(s)
                 /\ \A j \in ItemsOf(s.job) :
                       /\ Reading(s) /\ after[j] = stamp[j] /\ <<stamp[j], j>> \in W
                       /\ Rank(<<stamp[j], j>>, W) >= Fetched(s)
                       => j \in r.excused \/ Rank(<<stamp[j], j>>, V) >= Fetched(s)
    <2> DEFINE s == sweep[t]
               r == sweep'[t]
               W == Listing(s)
               V == Window(s.job, Later(s.seeded), s.since)
               stamp == Stamps(s.seeded)
               after == Later(s.seeded)
    <2>1. s \in Sweeps /\ s.job \in Jobs /\ s.since \in Nat /\ Fetched(s) \in Nat
          /\ stamp \in [Items -> Time] /\ after \in [Items -> Time]
        <3>1. s \in Sweeps
            BY <1>1 DEF TypeOK
        <3>2. Fits(s, W, stamp, clock)
            BY <3>1, FitsNow
        <3>3. after \in [Items -> Time]
            BY <1>1 DEF TypeOK, Later
        <3>4. s.since \in Nat /\ Fetched(s) \in Nat
            BY <3>2, FitsFacts
        <3> QED
            BY <3>1, <3>2, <3>3, <3>4 DEF Fits, Sweeps
    <2>2. after = [stamp EXCEPT ![i] = clock] /\ stamp[i] = 0
        BY <1>2 DEF Later, Stamps
    <2>3. W = Window(s.job, stamp, s.since)
        BY DEF Listing
    <2> HIDE DEF s, stamp, after, W, V
    <2>4. V = Window(s.job, after, s.since)
        BY DEF V, after
    <2>5. \A j \in Items : j # i => after[j] = stamp[j]
        BY <2>1, <2>2
    <2>6. after[i] = clock
        BY <2>1, <2>2
    <2>7. /\ Listed(W) /\ Listed(V)
          /\ \A q \in W : q[2] \in ItemsOf(s.job) /\ q[2] \in Items /\ q = <<stamp[q[2]], q[2]>>
                          /\ q[1] > 0 /\ q[1] >= s.since
          /\ \A q \in V : q[2] \in ItemsOf(s.job) /\ q[2] \in Items /\ q = <<after[q[2]], q[2]>>
                          /\ q[1] > 0 /\ q[1] >= s.since
          /\ \A j \in ItemsOf(s.job) : stamp[j] > 0 /\ stamp[j] >= s.since => <<stamp[j], j>> \in W
          /\ \A j \in ItemsOf(s.job) : after[j] > 0 /\ after[j] >= s.since => <<after[j], j>> \in V
          /\ ItemsOf(s.job) \subseteq Items
        BY <2>1, <2>3, <2>4, WindowType
    <2>8. ASSUME NEW q \in V, q[1] < clock PROVE q \in W
        <3>1. q[2] # i
            BY <1>1, <2>6, <2>7, <2>8
        <3> QED
            BY <2>5, <2>7, <3>1
    <2>9. W \subseteq V
        <3>1. ASSUME NEW q \in W PROVE q \in V
            <4>1. q[2] # i
                BY <2>2, <2>7
            <4> QED
                BY <2>5, <2>7, <4>1
        <3> QED
            BY <3>1
    <2>10. \A p : Rank(p, W) <= Rank(p, V) /\ Rank(p, W) \in Nat /\ Rank(p, V) \in Nat
        BY <2>7, <2>9, RankOfMore, RankType
    <2>11. Reading(s) /\ i \in ItemsOf(s.job) /\ i \notin r.excused
           => ~(clock < s.since) /\ ~(Rank(<<clock, i>>, W) < Fetched(s))
        BY <1>4 DEF s, W
    <2>12. ASSUME NEW j \in ItemsOf(s.job), after[j] # stamp[j], Reading(s), j \notin r.excused
           PROVE  clock >= s.since /\ Rank(<<clock, j>>, V) >= Fetched(s)
        <3>1. j = i
            BY <2>5, <2>7, <2>12
        <3>2. clock >= s.since
            BY <1>1, <2>1, <2>11, <2>12, <3>1
        <3>3. Rank(<<clock, j>>, V) >= Fetched(s)
            BY <2>1, <2>10, <2>11, <2>12, <3>1
        <3> QED
            BY <3>2, <3>3
    <2>13. \A j \in ItemsOf(s.job) : after[j] # stamp[j] => after[j] = clock
        BY <2>5, <2>6, <2>7
    <2>14. \A p : Rank(p, W) >= Fetched(s) => Rank(p, V) >= Fetched(s)
        BY <2>1, <2>10
    <2> QED
        BY <2>8, <2>12, <2>13, <2>14 DEF s, stamp, after, W, V
<1>8. \A t \in Tasks : Excuses(sweep'[t], sweep[t])
    BY <1>4
<1>9. clock <= clock'
    BY <1>1
<1>10. \A w \in Works : created'[w] # created[w] =>
          ~(created'[w] < state["backfill"].cursor) \/ w \in forgotten'
    BY <1>5
<1> QED
    BY <1>1, <1>3, <1>6, <1>7, <1>8, <1>9, <1>10, UpstreamInv

(* A record is updated: an update window loses it where it was and has it at its end,
   and what it takes across a sweep's offset is excused. *)
LEMMA UpdateInv ==
    ASSUME Inv, NEW i \in Items, Update(i)
    PROVE  Inv'
<1>1. TypeOK /\ TypeOK' /\ clock \in Nat /\ clock' = clock
      /\ UNCHANGED <<created, landed, state, flag, forgotten>>
    <2>1. TypeOK /\ TypeOK'
        BY UpstreamTypes DEF Inv
    <2>2. clock \in Nat
        BY <2>1, MirrorAssumption DEF TypeOK, Time
    <2>3. clock' = clock /\ UNCHANGED <<created, landed, state, flag, forgotten>>
        BY DEF Update
    <2> QED
        BY <2>1, <2>2, <2>3
<1>2. updated' = [updated EXCEPT ![i] = clock] /\ created[i] # 0
    <2>1. created[i] \in Nat
        BY <1>1, MirrorAssumption DEF TypeOK, Time
    <2> QED
        BY <2>1 DEF Update
<1>3. RowsSound(state, clock', created', updated')
    <2>1. ASSUME NEW j \in Items
          PROVE  created'[j] <= clock /\ updated'[j] <= clock /\ (created'[j] = 0 => updated'[j] = 0)
        BY <1>1, <1>2 DEF TypeOK, Inv, RowsSound
    <2> QED
        BY <1>1, <2>1 DEF Inv, RowsSound
<1>4. ASSUME NEW t \in Tasks
      PROVE  LET s == sweep[t]
                 W == Listing(s)
                 V == Window(s.job, updated', s.since)
             IN  /\ Excuses(sweep'[t], s)
                 /\ Reading(s) /\ s.seeded => \A p \in W \cap V :
                       Rank(p, W) >= Fetched(s) /\ Rank(p, V) < Fetched(s) => p[2] \in sweep'[t].excused
    <2> DEFINE s == sweep[t]
               W == Listing(s)
               V == Window(s.job, updated', s.since)
               slipped == {p \in W \cap V : /\ Rank(p, W) >= Fetched(s)
                                            /\ Rank(p, V) < Fetched(s)}
               e == [s EXCEPT !.excused = @ \cup Ids(slipped)]
    <2>1. sweep'[t] = IF Reading(s) /\ s.seeded THEN e ELSE s
        BY DEF Update
    <2>2. s \in Sweeps
        BY <1>1 DEF TypeOK
    <2>3. \A p \in W \cap V :
             Rank(p, W) >= Fetched(s) /\ Rank(p, V) < Fetched(s) => p[2] \in Ids(slipped)
        BY DEF Ids
    <2> HIDE DEF s, W, V, slipped
    <2>4. e.excused = s.excused \cup Ids(slipped) /\ (Reading(s) => Excuses(e, s)) /\ Excuses(s, s)
        BY <2>2 DEF Sweeps, Excuses, SameWalk
    <2> HIDE DEF e
    <2>5. Excuses(sweep'[t], s)
        BY <2>1, <2>4
    <2>6. Reading(s) /\ s.seeded => \A p \in W \cap V :
             Rank(p, W) >= Fetched(s) /\ Rank(p, V) < Fetched(s) => p[2] \in sweep'[t].excused
        BY <2>1, <2>3, <2>4
    <2> QED
        BY <2>5, <2>6 DEF s, W, V
<1>5. ASSUME NEW t \in Tasks
      PROVE  LET s == sweep[t]
                 r == sweep'[t]
                 W == Listing(s)
                 V == Window(s.job, Later(s.seeded), s.since)
                 stamp == Stamps(s.seeded)
                 after == Later(s.seeded)
             IN  /\ \A q \in V : q[1] < clock => q \in W
                 /\ \A j \in ItemsOf(s.job) : after[j] # stamp[j] =>
                       /\ after[j] = clock
                       /\ \/ s.seeded \/ ~Reading(s) \/ j \in r.excused
                          \/ clock >= s.since /\ Rank(<<clock, j>>, V) >= Fetched(s)
                 /\ \A j \in ItemsOf(s.job) :
                       /\ Reading(s) /\ after[j] = stamp[j] /\ <<stamp[j], j>> \in W
                       /\ Rank(<<stamp[j], j>>, W) >= Fetched(s)
                       => j \in r.excused \/ Rank(<<stamp[j], j>>, V) >= Fetched(s)
    <2> DEFINE s == sweep[t]
               r == sweep'[t]
               W == Listing(s)
               V == Window(s.job, Later(s.seeded), s.since)
               stamp == Stamps(s.seeded)
               after == Later(s.seeded)
    <2>1. CASE ~s.seeded
        <3>1. after = stamp
            BY <1>1, <2>1 DEF Later, Stamps
        <3>2. V = W
            BY <3>1 DEF Listing
        <3> QED
            BY <3>1, <3>2
    <2>2. CASE s.seeded
        <3>1. stamp = updated /\ after = updated' /\ V = Window(s.job, updated', s.since)
            BY <2>2 DEF Later, Stamps
        <3>2. s \in Sweeps /\ s.job \in Jobs /\ s.since \in Nat /\ Fetched(s) \in Nat
              /\ stamp \in [Items -> Time] /\ after \in [Items -> Time]
            <4>1. s \in Sweeps
                BY <1>1 DEF TypeOK
            <4>2. Fits(s, W, stamp, clock)
                BY <4>1, FitsNow
            <4>3. after \in [Items -> Time]
                BY <1>1, <3>1 DEF TypeOK
            <4>4. s.since \in Nat /\ Fetched(s) \in Nat
                BY <4>2, FitsFacts
            <4> QED
                BY <4>1, <4>2, <4>3, <4>4 DEF Fits, Sweeps
        <3>3. W = Window(s.job, stamp, s.since)
            BY DEF Listing
        <3>4. Reading(s) => \A p \in W \cap V :
                 Rank(p, W) >= Fetched(s) /\ Rank(p, V) < Fetched(s) => p[2] \in r.excused
            BY <1>4, <2>2, <3>1
        <3>5. after = [stamp EXCEPT ![i] = clock]
            BY <1>2, <3>1
        <3>6. V = Window(s.job, after, s.since)
            OBVIOUS
        <3> HIDE DEF s, r, stamp, after, W, V
        <3>7. \A j \in Items : (j # i => after[j] = stamp[j]) /\ (j = i => after[j] = clock)
            BY <3>2, <3>5
        <3>8. /\ Listed(W) /\ Listed(V) /\ ItemsOf(s.job) \subseteq Items
              /\ \A q \in V : q[2] \in ItemsOf(s.job) /\ q = <<after[q[2]], q[2]>>
                              /\ q[1] > 0 /\ q[1] >= s.since
              /\ \A j \in ItemsOf(s.job) : stamp[j] > 0 /\ stamp[j] >= s.since => <<stamp[j], j>> \in W
              /\ \A j \in ItemsOf(s.job) : after[j] > 0 /\ after[j] >= s.since => <<after[j], j>> \in V
              /\ \A q \in W : q[1] > 0 /\ q[1] >= s.since /\ q = <<stamp[q[2]], q[2]>>
            BY <3>2, <3>3, <3>6, WindowType
        <3>9. ASSUME NEW q \in V, q[1] < clock PROVE q \in W
            <4>1. q[2] # i /\ q[2] \in Items
                BY <1>1, <3>7, <3>8, <3>9
            <4> QED
                BY <3>7, <3>8, <4>1
        <3>10. \A j \in ItemsOf(s.job) : after[j] # stamp[j] => after[j] = clock
            BY <3>7, <3>8
        <3>11. ASSUME NEW j \in ItemsOf(s.job), Reading(s), after[j] = stamp[j], <<stamp[j], j>> \in W,
                      Rank(<<stamp[j], j>>, W) >= Fetched(s), j \notin r.excused
               PROVE  Rank(<<stamp[j], j>>, V) >= Fetched(s)
            <4> DEFINE p == <<stamp[j], j>>
            <4>1. p[1] = stamp[j] /\ p[2] = j
                OBVIOUS
            <4>2. p \in V
                BY <3>8, <3>11, <4>1
            <4>3. Rank(p, V) \in Nat
                BY <3>8, RankType
            <4> HIDE DEF p
            <4>4. ~(Rank(p, V) < Fetched(s))
                BY <3>4, <3>11, <4>1, <4>2 DEF p
            <4>5. Rank(p, V) >= Fetched(s)
                BY <3>2, <4>3, <4>4
            <4> QED
                BY <4>5 DEF p
        <3>12. s.seeded
            BY <2>2 DEF s
        <3> QED
            BY <3>9, <3>10, <3>11, <3>12 DEF s, r, stamp, after, W, V
    <2> QED
        BY <2>1, <2>2
<1>6. \A t \in Tasks : Excuses(sweep'[t], sweep[t])
    BY <1>4
<1>7. clock <= clock' /\ forgotten \subseteq forgotten'
    BY <1>1
<1> QED
    BY <1>1, <1>3, <1>5, <1>6, <1>7, UpstreamInv

LEMMA InvInit == Init => Inv
<1> SUFFICES ASSUME Init PROVE Inv
    OBVIOUS
<1>1. TypeOK
    <2>1. NoRow \in Rows /\ 0 \in Time /\ 1 \in Time
        BY MirrorAssumption DEF NoRow, Rows, Time
    <2> QED
        BY <2>1, IdleType DEF Init, TypeOK
<1>2. \A t \in Tasks : sweep[t] = Idle
    BY DEF Init
<1>3. OneSweep
    BY <1>2 DEF OneSweep, Sweeping, Idle
<1>4. RowsSound(state, clock, created, updated)
    BY DEF Init, RowsSound, NoRow, Jobs
<1>5. ASSUME NEW t \in Tasks PROVE Placed(t, sweep[t], state, clock) /\ Kept(t)
    BY <1>2 DEF Idle, Placed, Kept, Keeps, Reading, Over
<1>6. Behind
    BY DEF Init, Behind, NoRow, Jobs, Items
<1> QED
    BY <1>1, <1>3, <1>4, <1>5, <1>6 DEF Inv

LEMMA InvStep == Inv /\ [Next]_vars => Inv'
<1> SUFFICES ASSUME Inv, [Next]_vars PROVE Inv'
    OBVIOUS
<1>1. CASE UNCHANGED vars
    BY <1>1 DEF Inv, TypeOK, OneSweep, Sweeping, RowsSound, Placed, Kept, Listing, Stamps, Behind, vars, upstream
<1>2. CASE Next
    <2>1. "backfill" \in Tasks
        BY DEF Tasks
    <2> QED
        BY <1>2, <2>1, TickInv, PublishInv, UpdateInv, BeginInv, ReadInv, OfferInv, PageDoneInv, SlideInv,
           FinishSyncInv, FinishBackfillInv, StopInv, Zenon DEF Next, Sweep
<1> QED
    BY <1>1, <1>2

(* What a step makes of the rows: their cursors move on, or one of them is taken away,
   or a seed that has lost nothing latches. *)
LEMMA RowsChange ==
    ASSUME Inv, [Next]_vars
    PROVE  \/ \A j \in Jobs : state'[j].seed_done = state[j].seed_done /\ state'[j].cursor >= state[j].cursor
           \/ \E k \in Jobs : state'[k] = NoRow /\ \A j \in Jobs \ {k} : state'[j] = state[j]
           \/ \E t \in Tasks :
                 LET s == sweep[t]
                 IN  /\ Over(s) /\ ~s.seeded /\ s.lost = {}
                     /\ state'[s.job].seed_done /\ ~state[s.job].seed_done
                     /\ \A j \in Jobs \ {s.job} : state'[j] = state[j]
<1> DEFINE Goal ==
           \/ \A j \in Jobs : state'[j].seed_done = state[j].seed_done /\ state'[j].cursor >= state[j].cursor
           \/ \E k \in Jobs : state'[k] = NoRow /\ \A j \in Jobs \ {k} : state'[j] = state[j]
           \/ \E t \in Tasks :
                 LET s == sweep[t]
                 IN  /\ Over(s) /\ ~s.seeded /\ s.lost = {}
                     /\ state'[s.job].seed_done /\ ~state[s.job].seed_done
                     /\ \A j \in Jobs \ {s.job} : state'[j] = state[j]
<1>1. state \in [Jobs -> Rows] /\ \A j \in Jobs : state[j].cursor \in Nat
    BY MirrorAssumption DEF Inv, TypeOK, Rows
<1>2. ASSUME UNCHANGED state PROVE Goal
    BY <1>1, <1>2
<1>3. ASSUME NEW k \in Jobs, state' = [state EXCEPT ![k] = NoRow] PROVE Goal
    BY <1>1, <1>3
<1>4. ASSUME NEW t \in Tasks, PageDone(t) PROVE Goal
    <2> DEFINE s == sweep[t]
    <2>1. s.pc = "page" /\ Reading(s) /\ (UNCHANGED state \/ Checkpoint(s, s.last))
        BY <1>4 DEF PageDone, Reading
    <2>2. s.last \in 0 .. MaxTime + 1 /\ s.last \in Nat
        BY MirrorAssumption DEF Inv, TypeOK, Sweeps, Time
    <2>3. s.last # 0 => s.last >= s.since /\ s.last >= s.last
        BY <2>1, <2>2, Sweeper DEF Keeps, Ordered
    <2> QED
        BY <2>1, <2>2, <2>3, CheckpointMovesOn
<1>5. ASSUME NEW t \in Tasks, Slide(t) PROVE Goal
    <2> DEFINE s == sweep[t]
               next == IF s.last = s.since THEN s.last + 1 ELSE s.last
    <2>1. s.pc = "slide" /\ Reading(s) /\ (UNCHANGED state \/ (s.last # 0 /\ Checkpoint(s, next)))
        BY <1>5 DEF Slide, Reading
    <2>2. s.last \in Nat /\ s.since \in Nat /\ next \in 0 .. MaxTime + 1
        BY MirrorAssumption DEF Inv, TypeOK, Sweeps, Time
    <2>3. s.last # 0 => next >= s.since /\ next >= s.last
        BY <2>1, <2>2, Sweeper DEF Keeps, Ordered
    <2> HIDE DEF next
    <2> QED
        BY <1>2, <2>1, <2>2, <2>3, CheckpointMovesOn
<1>6. ASSUME NEW t \in Tasks, FinishSync(t) PROVE Goal
    <2> DEFINE s == sweep[t]
    <2>1. Over(s) /\ s.job # "backfill"
        BY <1>6 DEF FinishSync
    <2>2. /\ s.job \in Jobs /\ s.seeded = state[s.job].seed_done /\ Placed(t, s, state, clock)
          /\ s \in Sweeps
        BY <2>1, Sweeper
    <2>3. state[s.job] \in Rows
        BY <1>1, <2>2
    <2>4. CASE s.seeded /\ state' = [state EXCEPT ![s.job].cursor = s.start]
        <3>1. state[s.job].cursor <= s.start /\ s.start \in Nat
            BY <2>1, <2>2, <2>4, MirrorAssumption DEF Placed, Sweeps, Time
        <3>2. state'[s.job] = [state[s.job] EXCEPT !.cursor = s.start]
              /\ \A j \in Jobs \ {s.job} : state'[j] = state[j]
            BY <1>1, <2>2, <2>4
        <3>3. state'[s.job].cursor = s.start /\ state'[s.job].seed_done = state[s.job].seed_done
            BY <2>3, <3>2 DEF Rows
        <3>4. \A j \in Jobs : state'[j].seed_done = state[j].seed_done /\ state'[j].cursor >= state[j].cursor
            <4>1. ASSUME NEW j \in Jobs, j # s.job PROVE state'[j] = state[j] /\ state[j].cursor \in Nat
                BY <1>1, <3>2, <4>1
            <4>2. state'[s.job].cursor >= state[s.job].cursor
                BY <3>1, <3>3
            <4> QED
                BY <3>3, <4>1, <4>2
        <3> QED
            BY <3>4
    <2>5. CASE ~s.seeded /\ SeedMayLatch(s)
               /\ state' = [state EXCEPT ![s.job] = [cursor |-> s.start, seed_done |-> TRUE]]
        BY <1>1, <2>1, <2>2, <2>5 DEF SeedMayLatch
    <2> QED
        BY <1>2, <1>6, <2>4, <2>5 DEF FinishSync
<1>7. FinishBackfill => Goal
    BY <1>2, <1>3 DEF FinishBackfill, Jobs
<1>8. ASSUME \/ UNCHANGED vars \/ Tick \/ Begin \/ PageKeepsFailing
             \/ \E i \in Items : Publish(i) \/ Update(i)
             \/ \E t \in Tasks : ListPage(t) \/ EmptyPage(t) \/ Offer(t) \/ Stop(t)
      PROVE  UNCHANGED state
    BY <1>8 DEF vars, Tick, Begin, SyncCycle, ChapterCycle, Resync, BackfillPass, PageKeepsFailing,
       Publish, Update, ListPage, EmptyPage, Offer, Land, Fail, Skip, Unrelated, Stop
<1>9. ResetCatalogue \/ ResetChapters => Goal
    BY <1>3 DEF ResetCatalogue, ResetChapters, Jobs
<1> HIDE DEF Goal
<1>10. Goal
    BY <1>2, <1>4, <1>5, <1>6, <1>7, <1>8, <1>9, Zenon DEF Next, Sweep
<1> QED
    BY <1>10 DEF Goal

LEMMA InvAlways == Spec => []Inv
    BY InvInit, InvStep, PTL DEF Spec

-----------------------------------------------------------------------------
(* The theorems. *)

(* Type correctness of the mirror: cursors, offsets and stamps stay in range. *)
THEOREM MirrorTypes == Spec => []TypeOK
<1>1. Inv => TypeOK
    BY DEF Inv
<1> QED
    BY <1>1, InvAlways, PTL

(* The firehose is never read while the catalogue is not seeded (run_chapter_cycle):
   the gate is read when the sweep begins, and the lock keeps a resync out until it
   has ended. *)
THEOREM NoChaptersBeforeTheCatalogue == Spec => []ChaptersAfterCatalogue
<1>1. Inv => ChaptersAfterCatalogue
    <2> SUFFICES ASSUME Inv, NEW t \in Tasks, Sweeping(t), sweep[t].job = "chapters"
                 PROVE  state["catalogue"].seed_done
        BY DEF ChaptersAfterCatalogue
    <2>1. sweep[t] \in Sweeps /\ Placed(t, sweep[t], state, clock) /\ sweep[t].pc # "idle"
        BY DEF Inv, TypeOK, Sweeping
    <2>2. Reading(sweep[t]) \/ Over(sweep[t])
        BY <2>1 DEF Placed, Sweeps, Reading, Over
    <2> QED
        BY <2>1, <2>2 DEF Placed
<1> QED
    BY <1>1, InvAlways, PTL

(* A sweep that ends has landed or counted all it walked over (sync_catalogue,
   sync_chapters, backfill_missing_catalogue), but for what the listing moved past it
   or was given up with a logged second or window. *)
THEOREM SweepsAccount == Spec => SweepAccounts
<1>1. ASSUME Inv, NEW t \in Tasks, Ends(t), sweep[t].pc = "done" \/ t # "backfill",
             NEW i \in ItemsOf(sweep[t].job),
             Stamps(sweep[t].seeded)[i] > 0, Stamps(sweep[t].seeded)[i] >= sweep[t].from,
             Stamps(sweep[t].seeded)[i] < sweep[t].start
      PROVE  i \in landed \cup sweep[t].lost \cup sweep[t].excused
    <2> DEFINE s == sweep[t]
               stamp == Stamps(s.seeded)
    <2>1. Over(s)
        BY <1>1 DEF Ends
    <2>2. Keeps(s, Listing(s), stamp, clock, landed) /\ Fits(s, Listing(s), stamp, clock)
          /\ (s.job = "backfill" <=> t = "backfill")
        BY <1>1, <2>1, Sweeper
    <2>3. stamp[i] \in Nat /\ s.start \in Nat
        BY <1>1, <2>1, SweeperNumbers
    <2>4. ~StillOffered(s, Listing(s), stamp, i)
        BY <1>1, <2>1, <2>2, <2>3 DEF StillOffered, Over, Reading
    <2>5. i \notin Unaccounted(s, stamp, landed)
        BY <2>1, <2>2, <2>4 DEF Keeps, Walked
    <2> QED
        BY <1>1, <2>5 DEF Unaccounted
<1>2. Inv => [\A t \in Tasks : Ends(t) /\ (sweep[t].pc = "done" \/ t # "backfill") =>
                \A i \in ItemsOf(sweep[t].job) :
                   LET at == Stamps(sweep[t].seeded)[i]
                   IN  at > 0 /\ at >= sweep[t].from /\ at < sweep[t].start
                       => i \in landed \cup sweep[t].lost \cup sweep[t].excused]_vars
    BY <1>1
<1> QED
    BY <1>2, InvAlways, PTL DEF SweepAccounts

(* No sweep undoes a cursor that a later one has saved (set_seed_progress,
   set_sync_cursor, mark_seed_done). *)
THEOREM CursorsMoveOn == Spec => CursorMovesOn
<1>1. Inv /\ [Next]_vars => [\A j \in Jobs :
                                /\ state'[j] # NoRow
                                /\ state'[j].seed_done = state[j].seed_done
                                => state'[j].cursor >= state[j].cursor]_vars
    <2> SUFFICES ASSUME Inv, [Next]_vars, NEW j \in Jobs,
                        state'[j] # NoRow, state'[j].seed_done = state[j].seed_done
                 PROVE  state'[j].cursor >= state[j].cursor
        OBVIOUS
    <2>1. state[j].cursor \in Nat
        BY MirrorAssumption DEF Inv, TypeOK, Rows
    <2> QED
        BY <2>1, RowsChange
<1> QED
    BY <1>1, InvAlways, PTL DEF Spec, CursorMovesOn

(* A seed that latches has landed what its last cycle walked over
   (chapter_seed_may_latch, catalogue_seed_may_latch). *)
THEOREM LatchedSeedsLanded == Spec => LatchedSeedLanded
<1>1. ASSUME Inv, [Next]_vars, NEW t \in Tasks, Ends(t),
             state'[sweep[t].job].seed_done, ~state[sweep[t].job].seed_done,
             NEW i \in ItemsOf(sweep[t].job),
             created[i] > 0, created[i] >= sweep[t].from, created[i] < sweep[t].start
      PROVE  i \in landed \cup sweep[t].excused
    <2> DEFINE s == sweep[t]
    <2>1. Over(s)
        BY <1>1 DEF Ends
    <2>2. /\ Keeps(s, Listing(s), Stamps(s.seeded), clock, landed) /\ Fits(s, Listing(s), Stamps(s.seeded), clock)
          /\ (s.job = "backfill" <=> t = "backfill") /\ s.job \in Jobs
          /\ s.seeded = state[s.job].seed_done /\ \A u \in Tasks \ {t} : ~Sweeping(u)
        BY <1>1, <2>1, Sweeper
    <2>3. state[s.job] \in Rows /\ ~NoRow.seed_done
        BY <1>1, <2>2 DEF Inv, TypeOK, NoRow
    <2>4. PICK u \in Tasks : /\ Over(sweep[u]) /\ ~sweep[u].seeded /\ sweep[u].lost = {}
                             /\ state'[sweep[u].job].seed_done /\ ~state[sweep[u].job].seed_done
                             /\ \A j \in Jobs \ {sweep[u].job} : state'[j] = state[j]
        BY <1>1, <2>2, <2>3, RowsChange
    <2>5. u = t
        BY <2>2, <2>4 DEF Over, Sweeping
    <2>6. s.lost = {} /\ ~s.seeded /\ Stamps(s.seeded) = created
        BY <2>4, <2>5 DEF Stamps
    <2>7. s.job # "backfill"
        <3>1. ~state'["backfill"].seed_done
            BY <1>1, InvStep DEF Inv, RowsSound
        <3> QED
            BY <1>1, <3>1
    <2>8. created[i] \in Nat /\ s.start \in Nat
        <3>1. s.start \in Nat /\ \A j \in ItemsOf(s.job) : Stamps(s.seeded)[j] \in Nat
            BY <1>1, <2>1, SweeperNumbers
        <3> QED
            BY <1>1, <2>6, <3>1
    <2>9. ~StillOffered(s, Listing(s), created, i)
        BY <1>1, <2>1, <2>7, <2>8 DEF StillOffered, Over, Reading
    <2>10. i \notin Unaccounted(s, created, landed)
        BY <2>1, <2>2, <2>6, <2>9 DEF Keeps, Walked
    <2> QED
        BY <1>1, <2>6, <2>10 DEF Unaccounted
<1>2. Inv /\ [Next]_vars =>
        [\A t \in Tasks : Ends(t) /\ state'[sweep[t].job].seed_done
                          /\ ~state[sweep[t].job].seed_done =>
            \A i \in ItemsOf(sweep[t].job) :
               created[i] > 0 /\ created[i] >= sweep[t].from /\ created[i] < sweep[t].start
               => i \in landed \cup sweep[t].excused]_vars
    BY <1>1
<1> QED
    BY <1>2, InvAlways, PTL DEF Spec, LatchedSeedLanded

(* When the backfill's flag is set, all that was published before its last pass is in
   the catalogue, or was forgotten by a pass that died or gave up (run_backfill_pass). *)
THEOREM MarkersAfterCleanWalks == Spec => MarkerAfterCleanWalk
<1>1. ASSUME Inv, [Next]_vars, flag', ~flag
      PROVE  sweep["backfill"].pc = "done" /\ sweep["backfill"].lost = {}
    <2>1. CASE FinishBackfill
        BY <1>1, <2>1 DEF FinishBackfill, Clean
    <2>2. ASSUME ~FinishBackfill PROVE flag' = flag
        BY <1>1, <2>2 DEF Next, vars, Tick, Begin, SyncCycle, ChapterCycle, Resync, BackfillPass, PageKeepsFailing,
           Publish, Update, Sweep, ListPage, EmptyPage, Offer, Land, Fail, Skip, Unrelated, Stop,
           ResetCatalogue, ResetChapters, PageDone, Slide, FinishSync
    <2> QED
        BY <1>1, <2>1, <2>2
<1>2. ASSUME Inv, [Next]_vars, flag', ~flag, NEW w \in Works,
             created[w] > 0, created[w] < sweep["backfill"].start
      PROVE  w \in landed \cup forgotten \cup sweep["backfill"].excused
    <2> DEFINE s == sweep["backfill"]
    <2>1. s.pc = "done" /\ s.lost = {} /\ Over(s)
        BY <1>1, <1>2 DEF Over
    <2>2. /\ Keeps(s, Listing(s), Stamps(s.seeded), clock, landed) /\ Fits(s, Listing(s), Stamps(s.seeded), clock)
          /\ s.job = "backfill" /\ ~s.seeded /\ Placed("backfill", s, state, clock)
        BY <1>2, <2>1, Sweeper DEF Tasks, RowsSound
    <2>3. Stamps(s.seeded) = created /\ ItemsOf(s.job) = Works
        BY <2>2 DEF Stamps, ItemsOf
    <2>4. s.start \in Nat /\ s.from \in Nat /\ created[w] \in Nat
        <3>1. s.start \in Nat /\ s.from \in Nat /\ \A j \in ItemsOf(s.job) : created[j] \in Nat
            <4>1. s.start \in Nat /\ s.from \in Nat /\ \A j \in ItemsOf(s.job) : Stamps(s.seeded)[j] \in Nat
                BY <1>2, <2>1, SweeperNumbers DEF Tasks
            <4> QED
                BY <2>3, <4>1
        <3> QED
            BY <1>2, <2>3, <3>1
    <2>5. CASE created[w] >= s.from
        <3>1. ~StillOffered(s, Listing(s), created, w)
            BY <1>2, <2>1, <2>4 DEF StillOffered, Reading
        <3>2. w \notin Unaccounted(s, created, landed)
            BY <2>1, <2>2, <2>3, <3>1 DEF Keeps, Walked
        <3> QED
            BY <1>2, <2>1, <2>2, <2>3, <2>5, <3>2 DEF Unaccounted
    <2>6. CASE created[w] < s.from
        <3>1. s.from <= state["backfill"].cursor /\ state["backfill"].cursor \in Nat
            BY <1>2, <2>1, <2>2, MirrorAssumption DEF Placed, Inv, TypeOK, Rows, Jobs
        <3>2. created[w] < state["backfill"].cursor
            BY <2>4, <2>6, <3>1
        <3> QED
            BY <1>2, <2>1, <3>2 DEF Inv, Behind
    <2> QED
        BY <2>4, <2>5, <2>6
<1>3. Inv /\ [Next]_vars =>
        [flag' /\ ~flag =>
          \A w \in Works :
             created[w] > 0 /\ created[w] < sweep["backfill"].start
             => w \in landed \cup forgotten \cup sweep["backfill"].excused]_vars
    BY <1>2
<1> QED
    BY <1>3, InvAlways, PTL DEF Spec, MarkerAfterCleanWalk
==============================================================================
