--------------------------- MODULE ScanLoops_proofs ---------------------------
(***************************************************************************)
(* The sharding of ScanLoops, for any number of sources, slots and rows:   *)
(* a reconcile that read the ids gives every row an owner, and no row ever *)
(* has two.  Then its bookkeeping: what waits for a permit is what is in   *)
(* the semaphore's queue, once, under the loop it belongs to by now.       *)
(***************************************************************************)
EXTENDS ScanLoops, FiniteSetTheorems, SequenceTheorems, WellFoundedInduction, TLAPS

(* The elements of a finite set of ids that i follows, and those that follow it. *)
Below(S, i) == {j \in S : j < i}
After(S, i) == {j \in S : i < j}

Least(S, i) == \A j \in S : i <= j
Greatest(S, i) == \A j \in S : j <= i

-----------------------------------------------------------------------------
(* Order on a finite set of ids: strict inclusion of the sets Below, or After,
   is well founded, which gives a least and a greatest element. *)

Smallest(S, F, i) == \A j \in S : F[j] \subseteq F[i] => F[j] = F[i]

(* A family of subsets of a finite set has a member that no other is below. *)
LEMMA HasMinimal ==
    ASSUME NEW S, IsFiniteSet(S), S # {}, NEW F \in [S -> SUBSET S]
    PROVE  \E i \in S : Smallest(S, F, i)
<1>. DEFINE T == {F[i] : i \in S}
<1>1. IsWellFoundedOn(StrictSubsetOrdering(S), SUBSET S)
  BY FS_StrictSubsetOrderingWellFounded, FS_FiniteSubsetsOfFinite
<1>2. T \subseteq SUBSET S /\ T # {}
  OBVIOUS
<1>3. \E X \in T : \A Y \in T : ~(<<Y, X>> \in StrictSubsetOrdering(S))
  <2>. HIDE DEF T
  <2>. QED BY <1>1, <1>2, WFMin
<1>4. PICK i \in S : \A j \in S : ~(<<F[j], F[i]>> \in StrictSubsetOrdering(S))
  BY <1>3
<1>5. \A j \in S : F[j] \in SUBSET S /\ F[i] \in SUBSET S
  OBVIOUS
<1>. QED BY <1>4, <1>5 DEF StrictSubsetOrdering, Smallest

LEMMA HasLeast ==
    ASSUME NEW S \in SUBSET Nat, IsFiniteSet(S), S # {}
    PROVE  \E i \in S : Least(S, i)
<1>. DEFINE F == [i \in S |-> Below(S, i)]
<1>1. \A i, j, k \in S : i \in Nat /\ j \in Nat /\ k \in Nat
  OBVIOUS
<1>2. F \in [S -> SUBSET S]
  BY DEF Below
<1>3. PICK i \in S : Smallest(S, F, i)
  <2>. HIDE DEF F
  <2>. QED BY <1>2, HasMinimal
<1>4. ASSUME NEW j \in S, j < i PROVE FALSE
  <2>1. \A k \in Below(S, j) : k \in Below(S, i)
    BY <1>1, <1>4 DEF Below
  <2>2. j \in Below(S, i) /\ j \notin Below(S, j)
    BY <1>1, <1>4 DEF Below
  <2>. QED BY <2>1, <2>2, <1>3 DEF Smallest
<1>. QED BY <1>1, <1>4 DEF Least

LEMMA HasGreatest ==
    ASSUME NEW S \in SUBSET Nat, IsFiniteSet(S), S # {}
    PROVE  \E i \in S : Greatest(S, i)
<1>. DEFINE F == [i \in S |-> After(S, i)]
<1>1. \A i, j, k \in S : i \in Nat /\ j \in Nat /\ k \in Nat
  OBVIOUS
<1>2. F \in [S -> SUBSET S]
  BY DEF After
<1>3. PICK i \in S : Smallest(S, F, i)
  <2>. HIDE DEF F
  <2>. QED BY <1>2, HasMinimal
<1>4. ASSUME NEW j \in S, i < j PROVE FALSE
  <2>1. \A k \in After(S, j) : k \in After(S, i)
    BY <1>1, <1>4 DEF After
  <2>2. j \in After(S, i) /\ j \notin After(S, j)
    BY <1>1, <1>4 DEF After
  <2>. QED BY <2>1, <2>2, <1>3 DEF Smallest
<1>. QED BY <1>1, <1>4 DEF Greatest

-----------------------------------------------------------------------------
(* distinct_scan_source_ids and sweeper_cutoff: the assigned ids are a prefix
   of the ids, all of them when they leave a slot free, and the cutoff is the
   last one otherwise. *)

LEMMA AssignedIsPrefix ==
    ASSUME NEW ids \in SUBSET Nat, IsFiniteSet(ids),
           NEW i \in ids, NEW j \in Assigned(ids), i < j
    PROVE  i \in Assigned(ids)
<1>1. j \in ids /\ Cardinality(Below(ids, j)) < Slots
  BY DEF Assigned, Below
<1>2. IsFiniteSet(Below(ids, j)) /\ Below(ids, i) \subseteq Below(ids, j)
  <2>1. \A k \in ids : k \in Nat
    OBVIOUS
  <2>2. \A k \in ids : k < i => k < j
    BY <1>1, <2>1
  <2>3. Below(ids, j) \subseteq ids
    BY DEF Below
  <2>. QED BY <2>2, <2>3, FS_Subset DEF Below
<1>3. Cardinality(Below(ids, i)) <= Cardinality(Below(ids, j)) /\ IsFiniteSet(Below(ids, i))
  BY <1>2, FS_Subset
<1>4. Cardinality(Below(ids, i)) \in Nat /\ Cardinality(Below(ids, j)) \in Nat
  BY <1>2, <1>3, FS_CardinalityType
<1>5. Cardinality(Below(ids, i)) < Slots
  BY <1>1, <1>3, <1>4, ScanLoopsAssumption
<1>. QED BY <1>5 DEF Assigned, Below

LEMMA FreeSlotMeansAll ==
    ASSUME NEW ids \in SUBSET Nat, IsFiniteSet(ids), Cardinality(Assigned(ids)) < Slots
    PROVE  Assigned(ids) = ids
<1>. DEFINE rest == ids \ Assigned(ids)
<1>1. /\ IsFiniteSet(Assigned(ids)) /\ Assigned(ids) \subseteq ids
      /\ IsFiniteSet(rest) /\ rest \in SUBSET Nat
  BY FS_Subset DEF Assigned
<1>2. SUFFICES ASSUME rest # {} PROVE FALSE
  BY <1>1
<1>3. PICK i \in rest : Least(rest, i)
  <2>. HIDE DEF rest
  <2>. QED BY <1>1, <1>2, HasLeast
<1>4. Below(ids, i) \subseteq Assigned(ids)
  <2>1. ASSUME NEW j \in ids, j < i PROVE j \in Assigned(ids)
    <3>1. j \in Nat /\ i \in Nat /\ ~(i <= j)
      BY <2>1
    <3>. QED BY <1>3, <3>1 DEF Least
  <2>. QED BY <2>1 DEF Below
<1>5. Cardinality(Below(ids, i)) <= Cardinality(Assigned(ids)) /\ IsFiniteSet(Below(ids, i))
  BY <1>1, <1>4, FS_Subset
<1>6. Cardinality(Below(ids, i)) \in Nat /\ Cardinality(Assigned(ids)) \in Nat
  BY <1>1, <1>5, FS_CardinalityType
<1>7. Cardinality(Below(ids, i)) < Slots
  BY <1>5, <1>6, ScanLoopsAssumption
<1>. QED BY <1>3, <1>7 DEF Assigned, Below

LEMMA CutoffFacts ==
    ASSUME NEW ids \in SUBSET (Nat \ {0}), IsFiniteSet(ids)
    PROVE  \/ Cutoff(Assigned(ids)) = 0 /\ Assigned(ids) = ids
           \/ /\ Cutoff(Assigned(ids)) \in Assigned(ids)
              /\ \A j \in Assigned(ids) : j <= Cutoff(Assigned(ids))
<1>1. IsFiniteSet(Assigned(ids)) /\ Assigned(ids) \in SUBSET Nat
  BY FS_Subset DEF Assigned
<1>2. CASE Cardinality(Assigned(ids)) < Slots
  BY <1>2, FreeSlotMeansAll DEF Cutoff
<1>3. CASE ~(Cardinality(Assigned(ids)) < Slots)
  <2>1. Assigned(ids) # {}
    BY <1>3, FS_EmptySet, ScanLoopsAssumption
  <2>2. \E i \in Assigned(ids) : Greatest(Assigned(ids), i)
    BY <1>1, <2>1, HasGreatest
  <2>. QED BY <1>3, <2>2 DEF Cutoff, Greatest
<1>. QED BY <1>2, <1>3

(* The three partitions of sweeper_cutoff: every source_id there is has exactly
   one owner among the loops of a reconcile. *)
LEMMA Partition ==
    ASSUME NEW ids \in SUBSET (Nat \ {0}), IsFiniteSet(ids), NEW id \in ids \cup {Null}
    PROVE  \E k \in Assigned(ids) \cup {Sweeper} : Selects(k, Cutoff(Assigned(ids)), id)
<1>1. CASE id \in Assigned(ids) \cup {Null}
  BY <1>1 DEF Selects, Sweeper, Null, Assigned
<1>2. CASE id \notin Assigned(ids) \cup {Null}
  <2>1. Cutoff(Assigned(ids)) \in Assigned(ids)
    BY <1>2, CutoffFacts
  <2>2. \A j \in ids : j \in Nat \ {0}
    OBVIOUS
  <2>3. id \in ids /\ id # Cutoff(Assigned(ids)) /\ Cutoff(Assigned(ids)) \in ids
    BY <1>2, <2>1 DEF Assigned
  <2>4. ~(id < Cutoff(Assigned(ids)))
    BY <1>2, <2>1, <2>3, AssignedIsPrefix
  <2>5. id \in Nat \ {0} /\ Cutoff(Assigned(ids)) \in Nat \ {0}
    BY <2>2, <2>3
  <2>6. id > Cutoff(Assigned(ids)) /\ Cutoff(Assigned(ids)) # 0
    BY <2>3, <2>4, <2>5
  <2>. QED BY <2>6 DEF Selects, Sweeper
<1>. QED BY <1>1, <1>2

-----------------------------------------------------------------------------
(* What OneOwner rests on: the source loops lie at or below the cutoff. *)
Sharded ==
    /\ rows \subseteq Row
    /\ sourceId \in [Row -> Nat]
    /\ children \subseteq Nat
    /\ above \in Nat
    /\ above # 0 => \A k \in children : k <= above

LEMMA ShardedIsOneOwner == Sharded => OneOwner
  BY DEF Sharded, OneOwner, Owns, Selects, Sweeper, Null

LEMMA IdsFacts ==
    ASSUME Sharded
    PROVE  Ids \in SUBSET (Nat \ {0}) /\ IsFiniteSet(Ids)
<1>1. Ids \in SUBSET (Nat \ {0})
  BY DEF Sharded, Ids, Null
<1>2. IsFiniteSet({sourceId[r] : r \in rows})
  <2>1. IsFiniteSet(rows)
    BY ScanLoopsAssumption, FS_Subset DEF Sharded
  <2>2. [r \in rows |-> sourceId[r]] \in Surjection(rows, {sourceId[r] : r \in rows})
    BY DEF Surjection
  <2>. QED BY <2>1, <2>2, FS_Surjection
<1>3. IsFiniteSet(Ids)
  BY <1>2, FS_Subset DEF Ids
<1>. QED BY <1>1, <1>3

(* The loops of a reconcile, with ids as they are or with none. *)
LEMMA AdjustShards ==
    ASSUME NEW ids \in SUBSET (Nat \ {0}), IsFiniteSet(ids), Adjust(Assigned(ids))
    PROVE  children' \subseteq Nat /\ above' \in Nat
           /\ (above' # 0 => \A k \in children' : k <= above')
<1>1. children' = Assigned(ids) \cup {Sweeper} /\ above' = Cutoff(Assigned(ids))
  BY DEF Adjust
<1>2. Assigned(ids) \subseteq Nat
  BY DEF Assigned
<1>. QED BY <1>1, <1>2, CutoffFacts DEF Sweeper

LEMMA InitShards == Init => Sharded
<1>. SUFFICES ASSUME Init PROVE Sharded
  OBVIOUS
<1>1. \A r \in Row : sourceId[r] \in Nat
  BY ScanLoopsAssumption DEF Init, Null
<1>2. sourceId \in [Row -> Nat]
  BY <1>1 DEF Init
<1>. QED BY <1>2 DEF Init, Sharded, Sweeper

(* Only the supervisor changes its map; the rest changes rows and their ids. *)
LEMMA StepShards == Sharded /\ [Next]_vars => Sharded'
<1>. SUFFICES ASSUME Sharded, [Next]_vars PROVE Sharded'
  OBVIOUS
<1>. USE DEF Sharded
<1>1. CASE Reconcile
  BY <1>1, IdsFacts, AdjustShards DEF Reconcile, dbVars
<1>2. CASE ReconcileBlind
  <2>1. Assigned({}) = {} /\ IsFiniteSet({})
    BY FS_EmptySet DEF Assigned
  <2>. QED BY <1>2, <2>1, AdjustShards DEF ReconcileBlind, dbVars
<1>3. CASE Shutdown
  BY <1>3 DEF Shutdown, dbVars
<1>4. CASE Heal
  BY <1>4, ScanLoopsAssumption DEF Heal, Null
<1>5. CASE HealFails \/ Loops \/ (\E l \in Loop : Panic(l) \/ \E r \in Row : ScanLocked(l, r)) \/ Library
  <2>1. children' = children /\ above' = above
    BY <1>5 DEF HealFails, Loops, LoopStep, Tick, Stop, Panic, Admit, StartScan, EndScan,
                ScanLocked, Library, Enroll, Purge, FallDue, PutOff, supVars
  <2>2. CASE HealFails
    BY <2>1, <2>2 DEF HealFails, dbVars
  <2>3. CASE Loops \/ \E l \in Loop : Panic(l) \/ \E r \in Row : ScanLocked(l, r)
    <3>1. sourceId' = sourceId /\ (rows' = rows \/ \E r \in Row : rows' = rows \cup {r})
      BY <2>3 DEF Loops, LoopStep, Tick, Stop, Panic, Admit, StartScan, EndScan, Rescheduled,
                  ScanLocked, dbVars
    <3>. QED BY <2>1, <3>1
  <2>4. CASE Library
    <3>1. rows' \subseteq Row
      BY <2>4 DEF Library, Enroll, Purge, FallDue, PutOff
    <3>2. sourceId' = sourceId \/ \E r \in Row : sourceId' = [sourceId EXCEPT ![r] = Null]
      BY <2>4 DEF Library, Enroll, Purge, FallDue, PutOff
    <3>. QED BY <2>1, <3>1, <3>2 DEF Null
  <2>. QED BY <1>5, <2>2, <2>3, <2>4
<1>6. CASE UNCHANGED vars
  BY <1>6 DEF vars, dbVars, supVars
<1>. QED BY <1>1, <1>2, <1>3, <1>4, <1>5, <1>6 DEF Next, Ordinary, Fault, Supervisor

LEMMA SpecShards == Spec => []Sharded
  BY InitShards, StepShards, PTL DEF Spec

(* No row is ever the business of two loops of the supervisor's map, for any
   number of sources and slots (SourceSel: "disjoint"). *)
THEOREM NoTwoOwners == Spec => []OneOwner
  BY SpecShards, ShardedIsOneOwner, PTL

(* A reconcile that read the ids leaves no row without a loop: the orphan proof
   of sweeper_cutoff ("exhaustive"). *)
THEOREM NoOrphans == Spec => ReconcileCovers
<1>1. ASSUME Sharded, Sharded', Reconcile
      PROVE  \A r \in rows : \E k \in children' : Owns(k, r)'
  <2>. SUFFICES ASSUME NEW r \in rows PROVE \E k \in children' : Owns(k, r)'
    OBVIOUS
  <2>1. sourceId' = sourceId /\ children' = Assigned(Ids) \cup {Sweeper}
        /\ above' = Cutoff(Assigned(Ids))
    BY <1>1 DEF Reconcile, Adjust, dbVars
  <2>2. sourceId[r] \in Ids \cup {Null}
    BY DEF Ids
  <2>3. \E k \in Assigned(Ids) \cup {Sweeper} : Selects(k, Cutoff(Assigned(Ids)), sourceId[r])
    BY <1>1, <2>2, IdsFacts, Partition
  <2>. QED BY <2>1, <2>3 DEF Owns
<1>2. Sharded /\ Sharded' /\ [Next]_vars
        => [Reconcile => \A r \in rows : \E k \in children' : Owns(k, r)']_vars
  BY <1>1
<1>. QED BY <1>2, SpecShards, PTL DEF Spec, ReconcileCovers

-----------------------------------------------------------------------------
(* What Kept keeps. *)

(* Rank numbers the positions from one up, in their order. *)
LEMMA RankNumbers ==
    ASSUME NEW m \in Nat, NEW I \in SUBSET (1 .. m)
    PROVE  /\ Cardinality(I) \in Nat
           /\ \A i \in I : Rank(I, i) \in 1 .. Cardinality(I)
           /\ \A i, j \in I : Rank(I, i) = Rank(I, j) => i = j
           /\ \A n \in 1 .. Cardinality(I) : \E i \in I : Rank(I, i) = n
<1>. DEFINE upto(i) == {j \in I : j <= i}
            rank == [i \in I |-> Rank(I, i)]
<1>1. IsFiniteSet(I) /\ Cardinality(I) \in Nat
  <2>1. IsFiniteSet(1 .. m)
    BY FS_Interval
  <2>2. IsFiniteSet(I)
    BY <2>1, FS_Subset
  <2>. QED BY <2>2, FS_CardinalityType
<1>2. \A i \in I : i \in Nat
  OBVIOUS
<1>3. ASSUME NEW i \in I
      PROVE  /\ upto(i) \subseteq I /\ IsFiniteSet(upto(i)) /\ Rank(I, i) = Cardinality(upto(i))
             /\ Cardinality(upto(i)) \in Nat /\ i \in upto(i)
  BY <1>1, <1>2, FS_Subset, FS_CardinalityType DEF Rank
<1>. HIDE DEF upto
<1>4. ASSUME NEW i \in I PROVE Rank(I, i) \in 1 .. Cardinality(I)
  <2>1. Cardinality(upto(i)) <= Cardinality(I)
    BY <1>1, <1>3, FS_Subset
  <2>2. Cardinality(upto(i)) # 0
    BY <1>3, FS_EmptySet
  <2>. QED BY <1>1, <1>3, <2>1, <2>2
<1>5. ASSUME NEW i \in I, NEW j \in I, i < j PROVE Rank(I, i) # Rank(I, j)
  <2>1. upto(i) \subseteq upto(j) /\ j \notin upto(i)
    <3>1. i \in Nat /\ j \in Nat /\ ~(j <= i)
      BY <1>2, <1>5
    <3>2. \A k \in Nat : k <= i => k <= j
      BY <1>5, <3>1
    <3>. QED BY <1>2, <3>1, <3>2 DEF upto
  <2>2. upto(i) # upto(j)
    BY <2>1, <1>3
  <2>. QED BY <1>3, <2>1, <2>2, FS_Subset
<1>6. \A i, j \in I : Rank(I, i) = Rank(I, j) => i = j
  BY <1>2, <1>5
<1>7. rank \in Injection(I, 1 .. Cardinality(I))
  BY <1>4, <1>6 DEF Injection, IsInjective
<1>8. rank \in Surjection(I, 1 .. Cardinality(I))
  <2>1. IsFiniteSet(1 .. Cardinality(I)) /\ Cardinality(1 .. Cardinality(I)) = Cardinality(I)
    BY <1>1, FS_Interval
  <2>. HIDE DEF rank
  <2>. QED BY <1>7, <2>1, FS_Injection
<1>9. \A n \in 1 .. Cardinality(I) : \E i \in I : Rank(I, i) = n
  BY <1>8 DEF Surjection
<1>. QED BY <1>1, <1>4, <1>6, <1>9

Distinct(q) == \A i, j \in DOMAIN q : q[i] = q[j] => i = j

LEMMA KeptFacts ==
    ASSUME NEW S, NEW q \in Seq(S), NEW I \in SUBSET (DOMAIN q), NEW T, \A i \in I : q[i] \in T
    PROVE  /\ Kept(q, I) \in Seq(T)
           /\ \A x : (\E n \in DOMAIN Kept(q, I) : Kept(q, I)[n] = x) <=> \E i \in I : q[i] = x
           /\ Distinct(q) => Distinct(Kept(q, I))
<1>. DEFINE at == [n \in 1 .. Cardinality(I) |-> CHOOSE i \in I : Rank(I, i) = n]
<1>1. Len(q) \in Nat /\ DOMAIN q = 1 .. Len(q)
  OBVIOUS
<1>2. /\ Cardinality(I) \in Nat
      /\ \A i \in I : Rank(I, i) \in 1 .. Cardinality(I)
      /\ \A i, j \in I : Rank(I, i) = Rank(I, j) => i = j
      /\ \A n \in 1 .. Cardinality(I) : \E i \in I : Rank(I, i) = n
  BY <1>1, RankNumbers
<1>3. \A n \in 1 .. Cardinality(I) : at[n] \in I /\ Rank(I, at[n]) = n
  BY <1>2
<1>4. /\ DOMAIN Kept(q, I) = 1 .. Cardinality(I)
      /\ \A n \in 1 .. Cardinality(I) : Kept(q, I)[n] = q[at[n]]
      /\ Kept(q, I) = [n \in 1 .. Cardinality(I) |-> q[at[n]]]
  BY DEF Kept
<1>. HIDE DEF at
<1>5. Kept(q, I) \in Seq(T)
  BY <1>2, <1>3, <1>4, IsASeq
<1>6. ASSUME NEW i \in I PROVE at[Rank(I, i)] = i /\ Rank(I, i) \in DOMAIN Kept(q, I)
  BY <1>2, <1>3, <1>4
<1>7. \A x : (\E n \in DOMAIN Kept(q, I) : Kept(q, I)[n] = x) <=> \E i \in I : q[i] = x
  BY <1>3, <1>4, <1>6
<1>8. ASSUME Distinct(q), NEW m \in DOMAIN Kept(q, I), NEW n \in DOMAIN Kept(q, I),
             Kept(q, I)[m] = Kept(q, I)[n]
      PROVE  m = n
  <2>1. at[m] = at[n]
    BY <1>3, <1>4, <1>8 DEF Distinct
  <2>. QED BY <1>3, <1>4, <2>1
<1>9. Distinct(q) => Distinct(Kept(q, I))
  BY <1>8 DEF Distinct
<1>. QED BY <1>5, <1>7, <1>9

LEMMA WithoutFacts ==
    ASSUME NEW S, NEW q \in Seq(S), NEW r
    PROVE  Without(q, r) \in Seq(S \ {r})
<1>. DEFINE I == {i \in DOMAIN q : q[i] # r}
<1>1. \A i \in I : q[i] \in S \ {r}
  OBVIOUS
<1>2. Kept(q, I) \in Seq(S \ {r})
  BY <1>1, KeptFacts
<1>. QED BY <1>2 DEF Without

-----------------------------------------------------------------------------
(* What the loops are at, and what waits for a permit. *)

Stages == {"none", "queued", "waiting", "scanning"}

(* An entry that waits stands in the queue, and no entry stands there twice: a
   second one would be granted a permit that no scan gives back. *)
WorkOK ==
    /\ work \in [Loop -> [Row -> Stages]]
    /\ queue \in Seq(Loop \X Row)
    /\ \A l \in Loop, r \in Row :
         work[l][r] = "waiting" <=> \E i \in DOMAIN queue : queue[i] = <<l, r>>
    /\ Distinct(queue)

LEMMA KeyFacts ==
    /\ Key \subseteq Nat /\ IsFiniteSet(Key) /\ 0 \in Key /\ Old \notin Key
    /\ \A r \in Row : Home[r] \in Key
<1>1. Key \subseteq Nat /\ 0 \in Key /\ \A r \in Row : Home[r] \in Key
  BY ScanLoopsAssumption DEF Key, Sweeper
<1>2. IsFiniteSet({Home[r] : r \in Row})
  <2>1. [r \in Row |-> Home[r]] \in Surjection(Row, {Home[r] : r \in Row})
    BY DEF Surjection
  <2>. QED BY <2>1, ScanLoopsAssumption, FS_Surjection
<1>3. IsFiniteSet(Key)
  BY <1>2, FS_Singleton, FS_Union DEF Key
<1>. QED BY <1>1, <1>3, ScanLoopsAssumption

LEMMA EntryFacts ==
    ASSUME WorkOK, NEW i \in DOMAIN queue
    PROVE  queue[i] \in Loop \X Row /\ queue[i] = <<queue[i][1], queue[i][2]>>
           /\ queue[i][1] \in Loop /\ queue[i][2] \in Row
<1>1. queue[i] \in Loop \X Row
  BY DEF WorkOK
<1>. QED BY <1>1

(* A loop that leaves the map takes its entries with it, and they are the only
   ones of a retired loop: one with work is never joined by another. *)
LEMMA RetireKeeps ==
    ASSUME WorkOK, NEW keys \in SUBSET Key, Retire(keys)
    PROVE  WorkOK'
<1>. DEFINE busy == {k \in keys : work[k] # NoWork}
<1>1. /\ Cardinality(busy) <= 1 /\ (busy # {} => work[Old] = NoWork)
      /\ work' = [l \in Loop |->
               IF l \in busy THEN NoWork
               ELSE IF l = Old /\ busy # {} THEN work[CHOOSE k \in busy : TRUE] ELSE work[l]]
      /\ queue' = [i \in DOMAIN queue |->
               IF queue[i][1] \in busy THEN <<Old, queue[i][2]>> ELSE queue[i]]
  BY DEF Retire
<1>2. IsFiniteSet(busy) /\ busy \subseteq Key
  BY KeyFacts, FS_Subset
<1>3. Cardinality(busy) \in Nat
  BY <1>2, FS_CardinalityType
<1>4. busy = {} \/ \E k : busy = {k}
  <2>. HIDE DEF busy
  <2>1. Cardinality(busy) = 0 \/ Cardinality(busy) = 1
    BY <1>1, <1>3
  <2>. QED BY <1>2, <2>1, FS_EmptySet, FS_Singleton
<1>5. work \in [Loop -> [Row -> Stages]] /\ queue \in Seq(Loop \X Row) /\ DOMAIN queue = 1 .. Len(queue)
  BY DEF WorkOK
<1>6. CASE busy = {}
  <2>1. work' = work
    BY <1>1, <1>5, <1>6
  <2>2. queue' = queue
    BY <1>1, <1>5, <1>6
  <2>. QED BY <2>1, <2>2 DEF WorkOK
<1>7. ASSUME NEW k, busy = {k} PROVE WorkOK'
  <2>1. k \in Key /\ k \in Loop /\ Old \in Loop /\ k # Old /\ work[Old] = NoWork
    BY <1>1, <1>2, <1>7, KeyFacts DEF Loop
  <2>2. /\ work' = [l \in Loop |-> IF l = k THEN NoWork ELSE IF l = Old THEN work[k] ELSE work[l]]
        /\ queue' = [i \in DOMAIN queue |->
                        IF queue[i][1] = k THEN <<Old, queue[i][2]>> ELSE queue[i]]
    BY <1>1, <1>7
  <2>3. work' \in [Loop -> [Row -> Stages]]
    BY <1>5, <2>1, <2>2 DEF NoWork, Stages
  <2>4. /\ DOMAIN queue' = DOMAIN queue
        /\ \A i \in DOMAIN queue :
             queue'[i] = IF queue[i][1] = k THEN <<Old, queue[i][2]>> ELSE queue[i]
    BY <2>2
  <2>5. \A i \in DOMAIN queue : queue'[i] \in Loop \X Row
    BY <2>1, <2>4, EntryFacts
  <2>6. queue' \in Seq(Loop \X Row)
    <3>1. queue' = [i \in 1 .. Len(queue) |-> queue'[i]] /\ Len(queue) \in Nat
      BY <1>5, <2>2
    <3>. QED BY <1>5, <2>5, <3>1, IsASeq
  <2>7. \A i \in DOMAIN queue : queue[i][1] # Old
    <3>1. ASSUME NEW i \in DOMAIN queue, queue[i][1] = Old PROVE FALSE
      <4>1. queue[i] = <<Old, queue[i][2]>> /\ queue[i][2] \in Row
        BY <3>1, EntryFacts
      <4>2. work[Old][queue[i][2]] = "waiting"
        BY <2>1, <4>1 DEF WorkOK
      <4>. QED BY <2>1, <4>1, <4>2 DEF NoWork
    <3>. QED BY <3>1
  <2>8. ASSUME NEW l \in Loop, NEW r \in Row
        PROVE  work'[l][r] = "waiting" <=> \E i \in DOMAIN queue : queue'[i] = <<l, r>>
    <3>1. CASE l = k
      <4>1. work'[k][r] = "none"
        BY <2>1, <2>2 DEF NoWork
      <4>2. ASSUME NEW i \in DOMAIN queue, queue'[i] = <<k, r>> PROVE FALSE
        <5>1. CASE queue[i][1] = k
          <6>1. queue'[i] = <<Old, queue[i][2]>>
            BY <2>4, <5>1
          <6>. QED BY <2>1, <4>2, <6>1
        <5>2. CASE queue[i][1] # k
          BY <2>4, <4>2, <5>2
        <5>. QED BY <5>1, <5>2
      <4>. QED BY <3>1, <4>1, <4>2
    <3>2. CASE l = Old
      <4>1. \A i \in DOMAIN queue : queue'[i] = <<Old, r>> <=> queue[i] = <<k, r>>
        BY <2>4, <2>7, EntryFacts
      <4>. QED BY <2>1, <2>2, <3>2, <4>1 DEF WorkOK
    <3>3. CASE l # k /\ l # Old
      <4>1. \A i \in DOMAIN queue : queue'[i] = <<l, r>> <=> queue[i] = <<l, r>>
        BY <2>4, <3>3
      <4>. QED BY <2>2, <3>3, <4>1 DEF WorkOK
    <3>. QED BY <3>1, <3>2, <3>3
  <2>9. ASSUME NEW i \in DOMAIN queue, NEW j \in DOMAIN queue, queue'[i] = queue'[j] PROVE i = j
    <3>1. queue[i] = queue[j]
      BY <2>4, <2>7, <2>9, EntryFacts
    <3>. QED BY <3>1 DEF WorkOK, Distinct
  <2>10. \A l \in Loop, r \in Row :
           work'[l][r] = "waiting" <=> \E i \in DOMAIN queue' : queue'[i] = <<l, r>>
    BY <2>4, <2>8
  <2>11. Distinct(queue')
    BY <2>4, <2>9 DEF Distinct
  <2>. QED BY <2>3, <2>6, <2>10, <2>11 DEF WorkOK
<1>. QED BY <1>4, <1>6, <1>7

LEMMA MoveFacts ==
    ASSUME WorkOK, NEW l \in Loop, NEW r \in Row, NEW stage \in Stages, Move(l, r, stage)
    PROVE  /\ work' \in [Loop -> [Row -> Stages]]
           /\ \A k \in Loop, s \in Row :
                work'[k][s] = IF k = l /\ s = r THEN stage ELSE work[k][s]
  BY DEF Move, WorkOK

(* The steps of the loops. *)
LEMMA TickKeeps == ASSUME WorkOK, NEW k \in Key, Tick(k) PROVE WorkOK'
<1>1. k \in Loop /\ queue' = queue /\ work[k] = NoWork
  BY DEF Tick, Loop
<1>2. work' = [work EXCEPT ![k] = [r \in Row |-> IF r \in Batch(k) THEN "queued" ELSE "none"]]
  BY DEF Tick
<1>3. work' \in [Loop -> [Row -> Stages]]
  BY <1>1, <1>2 DEF WorkOK, Stages
<1>4. \A l \in Loop, r \in Row : work'[l][r] = "waiting" <=> work[l][r] = "waiting"
  BY <1>1, <1>2 DEF WorkOK, NoWork
<1>. QED BY <1>1, <1>3, <1>4 DEF WorkOK

LEMMA StopKeeps == Stop /\ WorkOK => WorkOK'
<1>. SUFFICES ASSUME Stop, WorkOK PROVE WorkOK'
  OBVIOUS
<1>1. Old \in Loop /\ queue' = queue
  BY DEF Stop, Loop
<1>2. work' = [work EXCEPT ![Old] = [r \in Row |-> IF work[Old][r] = "queued" THEN "none" ELSE work[Old][r]]]
  BY <1>1 DEF Stop, WorkOK
<1>3. work' \in [Loop -> [Row -> Stages]]
  BY <1>1, <1>2 DEF WorkOK, Stages
<1>4. \A l \in Loop, r \in Row : work'[l][r] = "waiting" <=> work[l][r] = "waiting"
  BY <1>1, <1>2 DEF WorkOK
<1>. QED BY <1>1, <1>3, <1>4 DEF WorkOK

LEMMA AdmitKeeps == ASSUME WorkOK, NEW l \in Loop, NEW r \in Row, Admit(l, r) PROVE WorkOK'
<1>. DEFINE e == <<l, r>>
            n == Len(queue)
<1>1. /\ work[l][r] = "queued" /\ Move(l, r, "waiting") /\ queue' = Append(queue, e)
      /\ queue \in Seq(Loop \X Row) /\ e \in Loop \X Row
  BY DEF Admit, At, WorkOK
<1>2. /\ work' \in [Loop -> [Row -> Stages]]
      /\ \A k \in Loop, s \in Row :
           work'[k][s] = IF k = l /\ s = r THEN "waiting" ELSE work[k][s]
  BY <1>1, MoveFacts DEF Stages
<1>3. \A i \in DOMAIN queue : queue[i] # e
  BY <1>1 DEF WorkOK
<1>4. /\ queue' \in Seq(Loop \X Row) /\ n \in Nat /\ DOMAIN queue = 1 .. n
      /\ DOMAIN queue' = 1 .. (n + 1)
      /\ queue'[n + 1] = e /\ \A i \in 1 .. n : queue'[i] = queue[i]
  <2>. HIDE DEF e
  <2>. QED BY <1>1, AppendProperties
<1>. HIDE DEF n
<1>5. ASSUME NEW k \in Loop, NEW s \in Row
      PROVE  (\E i \in DOMAIN queue' : queue'[i] = <<k, s>>)
               <=> (k = l /\ s = r) \/ \E i \in DOMAIN queue : queue[i] = <<k, s>>
  <2>1. (\E i \in DOMAIN queue' : queue'[i] = <<k, s>>)
          <=> e = <<k, s>> \/ \E i \in DOMAIN queue : queue[i] = <<k, s>>
    <3>. HIDE DEF e
    <3>1. ASSUME NEW i \in DOMAIN queue', queue'[i] = <<k, s>>
          PROVE  e = <<k, s>> \/ \E j \in DOMAIN queue : queue[j] = <<k, s>>
      <4>1. i = n + 1 \/ i \in 1 .. n
        BY <1>4
      <4>. QED BY <1>4, <3>1, <4>1
    <3>2. n + 1 \in DOMAIN queue' /\ \A i \in DOMAIN queue : i \in DOMAIN queue'
      BY <1>4
    <3>. QED BY <1>4, <3>1, <3>2
  <2>. QED BY <2>1
<1>6. Distinct(queue')
  <2>. HIDE DEF e
  <2>. QED BY <1>3, <1>4 DEF WorkOK, Distinct
<1>7. ASSUME NEW k \in Loop, NEW s \in Row
      PROVE  work'[k][s] = "waiting" <=> \E i \in DOMAIN queue' : queue'[i] = <<k, s>>
  <2>1. work[k][s] = "waiting" <=> \E i \in DOMAIN queue : queue[i] = <<k, s>>
    BY DEF WorkOK
  <2>. QED BY <1>2, <1>5, <2>1
<1>. QED BY <1>2, <1>4, <1>6, <1>7 DEF WorkOK

LEMMA StartKeeps == ASSUME WorkOK, NEW l \in Loop, NEW r \in Row, StartScan(l, r) PROVE WorkOK'
<1>. DEFINE e == <<l, r>>
            n == Len(queue)
<1>1. /\ queue # <<>> /\ Head(queue) = e /\ Move(l, r, "scanning") /\ queue' = Tail(queue)
      /\ queue \in Seq(Loop \X Row)
  BY DEF StartScan, WorkOK
<1>2. /\ work' \in [Loop -> [Row -> Stages]]
      /\ \A k \in Loop, s \in Row :
           work'[k][s] = IF k = l /\ s = r THEN "scanning" ELSE work[k][s]
  BY <1>1, MoveFacts DEF Stages
<1>3. /\ n \in Nat \ {0} /\ DOMAIN queue = 1 .. n /\ queue[1] = e
      /\ queue' \in Seq(Loop \X Row) /\ DOMAIN queue' = 1 .. (n - 1)
      /\ \A i \in 1 .. (n - 1) : queue'[i] = queue[i + 1]
  <2>. HIDE DEF e
  <2>. QED BY <1>1, HeadTailProperties
<1>. HIDE DEF n
<1>4. ASSUME NEW x
      PROVE  (\E i \in DOMAIN queue' : queue'[i] = x)
               <=> x # e /\ \E i \in DOMAIN queue : queue[i] = x
  <2>. HIDE DEF e
  <2>1. ASSUME NEW i \in DOMAIN queue', queue'[i] = x
        PROVE  x # e /\ \E j \in DOMAIN queue : queue[j] = x
    <3>1. i + 1 \in DOMAIN queue /\ queue[i + 1] = x /\ 1 \in DOMAIN queue /\ i + 1 # 1
      BY <1>3, <2>1
    <3>. QED BY <1>3, <3>1 DEF WorkOK, Distinct
  <2>2. ASSUME x # e, NEW i \in DOMAIN queue, queue[i] = x
        PROVE  \E j \in DOMAIN queue' : queue'[j] = x
    <3>1. i # 1
      BY <1>3, <2>2
    <3>2. i - 1 \in DOMAIN queue' /\ queue'[i - 1] = x
      BY <1>3, <2>2, <3>1
    <3>. QED BY <3>2
  <2>. QED BY <2>1, <2>2
<1>5. ASSUME NEW k \in Loop, NEW s \in Row
      PROVE  work'[k][s] = "waiting" <=> \E i \in DOMAIN queue' : queue'[i] = <<k, s>>
  <2>1. e = <<k, s>> <=> k = l /\ s = r
    OBVIOUS
  <2>2. (\E i \in DOMAIN queue' : queue'[i] = <<k, s>>)
          <=> <<k, s>> # e /\ \E i \in DOMAIN queue : queue[i] = <<k, s>>
    <3>. HIDE DEF e
    <3>. QED BY <1>4
  <2>3. work[k][s] = "waiting" <=> \E i \in DOMAIN queue : queue[i] = <<k, s>>
    BY DEF WorkOK
  <2>. HIDE DEF e
  <2>. QED BY <1>2, <2>1, <2>2, <2>3
<1>6. Distinct(queue')
  <2>1. ASSUME NEW i \in DOMAIN queue', NEW j \in DOMAIN queue', queue'[i] = queue'[j] PROVE i = j
    <3>1. i + 1 \in DOMAIN queue /\ j + 1 \in DOMAIN queue /\ queue[i + 1] = queue[j + 1]
      BY <1>3, <2>1
    <3>2. i + 1 = j + 1
      BY <3>1 DEF WorkOK, Distinct
    <3>. QED BY <1>3, <3>2
  <2>. QED BY <2>1 DEF Distinct
<1>. QED BY <1>2, <1>3, <1>5, <1>6 DEF WorkOK

LEMMA EndKeeps ==
    ASSUME WorkOK, NEW l \in Loop, NEW r \in Row, EndScan(l, r) \/ ScanLocked(l, r)
    PROVE  WorkOK'
<1>1. work[l][r] = "scanning" /\ Move(l, r, "none") /\ queue' = queue
  BY DEF EndScan, ScanLocked, At
<1>2. /\ work' \in [Loop -> [Row -> Stages]]
      /\ \A k \in Loop, s \in Row :
           work'[k][s] = IF k = l /\ s = r THEN "none" ELSE work[k][s]
  BY <1>1, MoveFacts DEF Stages
<1>3. \A k \in Loop, s \in Row : work'[k][s] = "waiting" <=> work[k][s] = "waiting"
  BY <1>1, <1>2
<1>. QED BY <1>1, <1>2, <1>3 DEF WorkOK

(* A panic takes the loop's entries out of the queue, wherever they stand in it. *)
LEMMA PanicKeeps == ASSUME WorkOK, NEW l \in Loop, Panic(l) PROVE WorkOK'
<1>. DEFINE I == {i \in DOMAIN queue : queue[i][1] # l}
<1>1. work' = [work EXCEPT ![l] = NoWork] /\ queue' = Kept(queue, I) /\ queue \in Seq(Loop \X Row)
  BY DEF Panic, WorkOK
<1>2. work' \in [Loop -> [Row -> Stages]]
  BY <1>1 DEF WorkOK, NoWork, Stages
<1>3. \A i \in I : queue[i] \in Loop \X Row
  BY <1>1
<1>4. /\ queue' \in Seq(Loop \X Row) /\ Distinct(queue')
      /\ \A x : (\E n \in DOMAIN queue' : queue'[n] = x) <=> \E i \in I : queue[i] = x
  <2>1. I \subseteq DOMAIN queue /\ Distinct(queue)
    BY DEF WorkOK
  <2>. HIDE DEF I
  <2>2. /\ Kept(queue, I) \in Seq(Loop \X Row)
        /\ Distinct(queue) => Distinct(Kept(queue, I))
        /\ \A x : (\E n \in DOMAIN Kept(queue, I) : Kept(queue, I)[n] = x) <=> \E i \in I : queue[i] = x
    <3>. DEFINE Entry == Loop \X Row
    <3>1. queue \in Seq(Entry) /\ I \in SUBSET (DOMAIN queue) /\ \A i \in I : queue[i] \in Entry
      BY <1>1, <1>3, <2>1
    <3>. HIDE DEF Entry
    <3>2. /\ Kept(queue, I) \in Seq(Entry)
          /\ Distinct(queue) => Distinct(Kept(queue, I))
          /\ \A x : (\E n \in DOMAIN Kept(queue, I) : Kept(queue, I)[n] = x) <=> \E i \in I : queue[i] = x
      BY <3>1, KeptFacts
    <3>. QED BY <3>2 DEF Entry
  <2>. QED BY <1>1, <2>1, <2>2
<1>5. ASSUME NEW k \in Loop, NEW s \in Row
      PROVE  work'[k][s] = "waiting" <=> \E i \in DOMAIN queue' : queue'[i] = <<k, s>>
  <2>1. (\E i \in DOMAIN queue' : queue'[i] = <<k, s>>) <=> \E i \in I : queue[i] = <<k, s>>
    BY <1>4
  <2>2. (\E i \in I : queue[i] = <<k, s>>) <=> k # l /\ \E i \in DOMAIN queue : queue[i] = <<k, s>>
    OBVIOUS
  <2>3. work'[k][s] = IF k = l THEN "none" ELSE work[k][s]
    BY <1>1 DEF WorkOK, NoWork
  <2>. QED BY <2>1, <2>2, <2>3 DEF WorkOK
<1>. QED BY <1>2, <1>4, <1>5 DEF WorkOK

-----------------------------------------------------------------------------
(* The rows and the supervisor's map. *)

DbOK ==
    /\ rows \subseteq Row
    /\ sourceId \in [Row -> Key]
    /\ mapped \subseteq Row
    /\ due \in Seq(rows)

SupOK ==
    /\ children \subseteq Key
    /\ above \in Key
    /\ sup \in {"wait", "assign", "down"}

Typed == DbOK /\ SupOK /\ WorkOK

LEMMA TypedIsTypeOK == Typed => TypeOK
  BY DEF Typed, DbOK, SupOK, WorkOK, Stages, TypeOK

LEMMA TypedInit == Init => Typed
<1>. SUFFICES ASSUME Init PROVE Typed
  OBVIOUS
<1>1. DbOK
  <2>1. \A r \in Row : sourceId[r] \in Key
    BY KeyFacts DEF Init, Null
  <2>. QED BY <2>1 DEF Init, DbOK
<1>2. SupOK
  BY KeyFacts DEF Init, SupOK, Sweeper
<1>3. WorkOK
  <2>1. work \in [Loop -> [Row -> Stages]] /\ \A l \in Loop, r \in Row : work[l][r] = "none"
    BY DEF Init, NoWork, Stages
  <2>2. queue = <<>> /\ queue \in Seq(Loop \X Row) /\ DOMAIN queue = {}
    BY DEF Init
  <2>. QED BY <2>1, <2>2 DEF WorkOK, Distinct
<1>. QED BY <1>1, <1>2, <1>3 DEF Typed

LEMMA DueWithout ==
    ASSUME DbOK, NEW r, NEW T, rows \ {r} \subseteq T
    PROVE  Without(due, r) \in Seq(T)
<1>1. Without(due, r) \in Seq(rows \ {r})
  BY WithoutFacts DEF DbOK
<1>. QED BY <1>1, SeqMonotonic

(* What enrols, purges and reschedules rows. *)
LEMMA LibraryTypes == ASSUME DbOK, Library PROVE DbOK'
<1>1. ASSUME NEW r \in Row, Enroll(r) PROVE DbOK'
  <2>1. due' \in Seq(rows \cup {r})
    <3>1. due \in Seq(rows \cup {r})
      BY SeqMonotonic DEF DbOK
    <3>2. Append(due, r) \in Seq(rows \cup {r})
      BY <3>1
    <3>. QED BY <1>1, <3>1, <3>2 DEF Enroll
  <2>. QED BY <1>1, <2>1 DEF Enroll, DbOK
<1>2. ASSUME NEW r \in Row, Purge(r) PROVE DbOK'
  <2>1. Without(due, r) \in Seq(rows \ {r})
    BY DueWithout
  <2>. QED BY <1>2, <2>1, KeyFacts DEF Purge, DbOK, Null
<1>3. ASSUME NEW r \in Row, FallDue(r) PROVE DbOK'
  <2>1. Append(due, r) \in Seq(rows)
    BY <1>3 DEF FallDue, DbOK
  <2>. QED BY <1>3, <2>1 DEF FallDue, DbOK
<1>4. ASSUME NEW r \in Row, PutOff(r) PROVE DbOK'
  <2>1. Without(due, r) \in Seq(rows)
    BY DueWithout
  <2>. QED BY <1>4, <2>1 DEF PutOff, DbOK
<1>. QED BY <1>1, <1>2, <1>3, <1>4 DEF Library

LEMMA RescheduledTypes == ASSUME DbOK, NEW r \in Row, Rescheduled(r) PROVE DbOK'
<1>1. Without(due, r) \in Seq(rows \cup {r})
  BY DueWithout
<1>. QED BY <1>1 DEF Rescheduled, DbOK

LEMMA HealTypes == Heal /\ DbOK => DbOK'
  BY KeyFacts DEF Heal, DbOK

(* A reconcile keeps the map within the keys there may be. *)
LEMMA AdjustTypes ==
    ASSUME DbOK, SupOK, WorkOK, NEW ids \in SUBSET Key, 0 \notin ids, Adjust(Assigned(ids))
    PROVE  children' \subseteq Key /\ above' \in Key /\ WorkOK'
<1>1. children' = Assigned(ids) \cup {Sweeper} /\ above' = Cutoff(Assigned(ids))
  BY DEF Adjust
<1>2. Assigned(ids) \subseteq Key /\ Sweeper \in Key
  BY KeyFacts DEF Assigned, Sweeper
<1>3. IsFiniteSet(ids) /\ ids \in SUBSET (Nat \ {0})
  BY KeyFacts, FS_Subset
<1>4. Cutoff(Assigned(ids)) \in Key
  BY <1>2, <1>3, CutoffFacts, KeyFacts
<1>5. PICK keys \in SUBSET children : Retire(keys)
  BY DEF Adjust
<1>6. keys \in SUBSET Key
  BY DEF SupOK
<1>. QED BY <1>1, <1>2, <1>4, <1>5, <1>6, RetireKeeps

LEMMA TypedNext == Typed /\ [Next]_vars => Typed'
<1>. SUFFICES ASSUME Typed, [Next]_vars PROVE Typed'
  OBVIOUS
<1>. USE DEF Typed
<1>0. /\ (UNCHANGED dbVars => DbOK')
      /\ (UNCHANGED supVars => SupOK')
      /\ (UNCHANGED <<work, queue>> => WorkOK')
  BY DEF dbVars, supVars, DbOK, SupOK, WorkOK
<1>1. ASSUME Heal PROVE Typed'
  <2>1. DbOK' /\ UNCHANGED <<work, queue>>
    BY <1>1, HealTypes DEF Heal
  <2>. QED BY <1>0, <1>1, <2>1 DEF Heal, SupOK
<1>2. ASSUME HealFails PROVE Typed'
  BY <1>0, <1>2 DEF HealFails, SupOK
<1>3. ASSUME Reconcile PROVE Typed'
  <2>1. Ids \in SUBSET Key /\ 0 \notin Ids
    BY DEF Ids, DbOK, Null
  <2>2. Adjust(Assigned(Ids)) /\ UNCHANGED dbVars /\ sup' = "wait"
    BY <1>3 DEF Reconcile
  <2>. QED BY <1>0, <2>1, <2>2, AdjustTypes DEF SupOK
<1>4. ASSUME ReconcileBlind PROVE Typed'
  <2>1. Assigned({}) = {}
    BY DEF Assigned
  <2>2. Adjust(Assigned({})) /\ UNCHANGED dbVars /\ sup' = "wait"
    BY <1>4, <2>1 DEF ReconcileBlind
  <2>. QED BY <1>0, <2>2, AdjustTypes DEF SupOK
<1>5. ASSUME Shutdown PROVE Typed'
  <2>1. WorkOK'
    BY <1>5, RetireKeeps DEF Shutdown, SupOK
  <2>. QED BY <1>0, <1>5, <2>1 DEF Shutdown, SupOK
<1>6. ASSUME NEW k \in Key, Tick(k) PROVE Typed'
  BY <1>0, <1>6, TickKeeps DEF Tick
<1>7. ASSUME Stop PROVE Typed'
  BY <1>0, <1>7, StopKeeps DEF Stop
<1>8. ASSUME NEW l \in Loop, NEW r \in Row, Admit(l, r) PROVE Typed'
  BY <1>0, <1>8, AdmitKeeps DEF Admit
<1>9. ASSUME NEW l \in Loop, NEW r \in Row, StartScan(l, r) PROVE Typed'
  BY <1>0, <1>9, StartKeeps DEF StartScan
<1>10. ASSUME NEW l \in Loop, NEW r \in Row, EndScan(l, r) PROVE Typed'
  BY <1>0, <1>10, EndKeeps, RescheduledTypes DEF EndScan
<1>11. ASSUME NEW l \in Loop, NEW r \in Row, ScanLocked(l, r) PROVE Typed'
  BY <1>0, <1>11, EndKeeps DEF ScanLocked
<1>12. ASSUME NEW l \in Loop, Panic(l) PROVE Typed'
  BY <1>0, <1>12, PanicKeeps DEF Panic
<1>13. ASSUME Library PROVE Typed'
  <2>1. UNCHANGED <<work, queue, supVars>>
    BY <1>13 DEF Library, Enroll, Purge, FallDue, PutOff
  <2>. QED BY <1>0, <1>13, <2>1, LibraryTypes
<1>14. ASSUME UNCHANGED vars PROVE Typed'
  BY <1>0, <1>14 DEF vars
<1>. QED
  BY <1>1, <1>2, <1>3, <1>4, <1>5, <1>6, <1>7, <1>8, <1>9, <1>10, <1>11, <1>12, <1>13, <1>14,
     Zenon DEF Next, Ordinary, Fault, Supervisor, Loops, LoopStep

(* TypeOK: what waits for a permit of the shared semaphore and what stands in its
   queue are the same, for any number of loops and rows, although a loop may panic,
   and may leave the map in the middle of its batch. *)
THEOREM LoopsTyped == Spec => []TypeOK
  BY TypedInit, TypedNext, TypedIsTypeOK, PTL DEF Spec
================================================================================
