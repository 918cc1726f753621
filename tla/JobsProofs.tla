----------------------------- MODULE JobsProofs -----------------------------
(***************************************************************************)
(* For every finite set of jobs, and any pools, sizes and limits: slots    *)
(* are accounted for, unfinished jobs are kept, drain names what it waited *)
(* for, and results are bounded.                                           *)
(***************************************************************************)
EXTENDS Jobs, FiniteSetTheorems, WellFoundedInduction, TLAPS

USE FiniteJobs, NoPoolIsNoPool, PoolsOfJobs, SlotsOfPools, Limits

\* A job's status follows from where its thread is.
StatusFollowsThread ==
  \A j \in Jobs :
    /\ pc[j] \in {"new", "refused", "admitted"} => status[j] = "none"
    /\ pc[j] \in {"listed", "registered", "acquiring"} =>
         status[j] = IF Pooled(j) THEN "queued" ELSE "running"
    /\ pc[j] = "running" => status[j] = "running"
    /\ pc[j] \in {"settled", "told", "ended"} => status[j] \in {"done", "error"}

\* A job that is active is in the registry, and drain sees its thread as soon
\* as that is registered.
ActiveIsRegistered ==
  \A j \in Jobs : Active(j) =>
    /\ j \in registry
    /\ pc[j] \in {"registered", "acquiring", "running"} => j \in threads

\* drain waits for threads that were alive, and names those still active.
Awaited ==
  /\ pending \subseteq {j \in Jobs : Alive(j) \/ pc[j] = "ended"}
  /\ DrainNamesWhatItAwaited

\* An event carries a result only of a job that had one.
ResultCameFirst == \A j \in Jobs : terminal[j] = "full" => result[j] # "none"

ResultAtSettling == \A j \in Jobs : pc[j] = "settled" /\ status[j] = "done" => result[j] # "none"

IInv ==
  /\ TypeOK
  /\ SlotsAccounted
  /\ StatusFollowsThread
  /\ ActiveIsRegistered
  /\ Awaited
  /\ ResultCameFirst
  /\ ResultAtSettling
-----------------------------------------------------------------------------
LEMMA HoldingIsFinite ==
  ASSUME NEW pool \in Pools
  PROVE  IsFiniteSet(Holding(pool)) /\ Cardinality(Holding(pool)) \in Nat
  BY FS_Subset, FS_CardinalityType DEF Holding

\* A step of one job that neither takes nor gives back a slot.
LEMMA SlotsUntouched ==
  ASSUME IInv, free' = free, NEW j \in Jobs, NEW place,
         pc' = [pc EXCEPT ![j] = place],
         pc[j] \in {"running", "settled", "told"} <=> place \in {"running", "settled", "told"}
  PROVE  SlotsAccounted'
<1>1. \A pool \in Pools : Holding(pool)' = Holding(pool)
  BY DEF Holding, IInv, TypeOK
<1> QED
  BY <1>1 DEF IInv, SlotsAccounted

\* Eviction and trimming pick finished jobs only.
LEMMA EvictedKeepsActive ==
  ASSUME NEW reg, NEW st, NEW j \in reg, st[j] \notin {"done", "error"}
  PROVE  j \in Evicted(reg, st)
  BY DEF Evicted, Finished

LEMMA SubmittedType ==
  ASSUME IInv
  PROVE  Cardinality({k \in Jobs : submitted[k] > 0}) \in Nat
  BY FS_Subset, FS_CardinalityType

LEMMA InitIInv == Init => IInv
<1> SUFFICES ASSUME Init PROVE IInv
  OBVIOUS
<1>1. \A pool \in Pools : Holding(pool) = {}
  BY DEF Init, Holding
<1>2. SlotsAccounted
  BY <1>1, FS_EmptySet DEF SlotsAccounted, Init
<1> QED
  BY <1>2 DEF Init, IInv, TypeOK, StatusFollowsThread, ActiveIsRegistered, Active, Awaited,
              DrainNamesWhatItAwaited, ResultCameFirst, ResultAtSettling
-----------------------------------------------------------------------------
LEMMA EntryIInv ==
  ASSUME IInv, NEW j \in Jobs, Admit(j) \/ Refuse(j)
  PROVE  IInv'
<1>1. PICK place \in {"admitted", "refused"} : Move(j, "new", place)
  BY DEF Admit, Refuse
<1>2. UNCHANGED <<status, result, terminal, registry, submitted, threads, free, draining, drain, pending, left>>
  BY DEF Admit, Refuse
<1>3. SlotsAccounted'
  BY <1>1, <1>2, SlotsUntouched DEF Move
<1> QED
  BY <1>1, <1>2, <1>3 DEF Move, IInv, TypeOK, StatusFollowsThread, ActiveIsRegistered, Active, Pooled,
     Awaited, Alive, DrainNamesWhatItAwaited, ResultCameFirst, ResultAtSettling

LEMMA ListIInv ==
  ASSUME IInv, NEW j \in Jobs, List(j)
  PROVE  IInv'
<1> DEFINE st == [status EXCEPT ![j] = IF Pooled(j) THEN "queued" ELSE "running"]
           reg == Evicted(registry \cup {j}, st)
<1>1. /\ pc[j] = "admitted" /\ pc' = [pc EXCEPT ![j] = "listed"]
      /\ status' = st /\ registry' = reg
      /\ UNCHANGED <<threads, free, draining, drain, pending, left>>
  BY DEF List, Move
<1>2. SlotsAccounted'
  BY <1>1, SlotsUntouched
<1>3. reg \subseteq registry \cup {j}
  BY DEF Evicted
<1>4. /\ result' \in [Jobs -> {"none", "held", "dropped"}]
      /\ \A k \in Jobs : result'[k] # "none" <=> result[k] # "none"
  BY DEF List, IInv, TypeOK, Forgets
<1>5. /\ terminal' \in [Jobs -> {"none", "full", "bare"}]
      /\ \A k \in Jobs : terminal'[k] = "full" => terminal[k] = "full"
  BY DEF List, IInv, TypeOK
<1>6. submitted' \in [Jobs -> Nat]
  BY SubmittedType DEF List, IInv, TypeOK
<1>7. TypeOK'
  BY <1>1, <1>3, <1>4, <1>5, <1>6 DEF IInv, TypeOK
<1>8. StatusFollowsThread'
  BY <1>1 DEF IInv, TypeOK, StatusFollowsThread, Pooled
<1>9. ActiveIsRegistered'
  <2> SUFFICES ASSUME NEW k \in Jobs, Active(k)'
               PROVE  /\ k \in registry'
                      /\ pc'[k] \in {"registered", "acquiring", "running"} => k \in threads'
    BY DEF ActiveIsRegistered
  <2>1. k \in registry \cup {j}
    BY <1>1 DEF Active, IInv, TypeOK, ActiveIsRegistered
  <2>2. st[k] \notin {"done", "error"}
    BY <1>1 DEF Active
  <2>3. k \in registry'
    BY <2>1, <2>2, <1>1, EvictedKeepsActive
  <2> QED
    BY <2>3, <1>1 DEF Active, IInv, TypeOK, ActiveIsRegistered
<1>10. Awaited'
  BY <1>1 DEF IInv, TypeOK, Awaited, Alive, Active, DrainNamesWhatItAwaited
<1>11. ResultCameFirst' /\ ResultAtSettling'
  BY <1>1, <1>4, <1>5 DEF IInv, TypeOK, ResultCameFirst, ResultAtSettling
<1> QED
  BY <1>2, <1>7, <1>8, <1>9, <1>10, <1>11 DEF IInv

LEMMA StartIInv ==
  ASSUME IInv, NEW j \in Jobs, Register(j) \/ StartThread(j)
  PROVE  IInv'
<1>1. PICK from \in {"listed", "registered"}, to \in {"registered", "acquiring"} : Move(j, from, to)
  BY DEF Register, StartThread
<1>2. UNCHANGED <<status, result, terminal, registry, submitted, free, draining, drain, pending, left>>
  BY DEF Register, StartThread
<1>3. threads' \in {(threads \cup {j}) \cap registry, threads}
  BY DEF Register, StartThread
<1>4. SlotsAccounted'
  BY <1>1, <1>2, SlotsUntouched DEF Move
<1>5. TypeOK' /\ StatusFollowsThread'
  BY <1>2, <1>3 DEF Register, StartThread, Move, IInv, TypeOK, StatusFollowsThread, Pooled
<1>6. ActiveIsRegistered'
  BY <1>2 DEF Register, StartThread, Move, IInv, TypeOK, ActiveIsRegistered, Active
<1>7. Awaited' /\ ResultCameFirst' /\ ResultAtSettling'
  BY <1>1, <1>2 DEF Move, IInv, TypeOK, Awaited, Alive, Active, DrainNamesWhatItAwaited, ResultCameFirst,
     ResultAtSettling
<1> QED
  BY <1>4, <1>5, <1>6, <1>7 DEF IInv

LEMMA AcquireIInv ==
  ASSUME IInv, NEW j \in Jobs, Acquire(j)
  PROVE  IInv'
<1>1. /\ pc[j] = "acquiring" /\ pc' = [pc EXCEPT ![j] = "running"]
      /\ status' = [status EXCEPT ![j] = "running"]
      /\ UNCHANGED <<result, terminal, registry, submitted, threads, draining, drain, pending, left>>
  BY DEF Acquire, Move
<1>2. free' \in [Pools -> Nat]
  BY DEF Acquire, IInv, TypeOK, Pooled
<1>3. SlotsAccounted'
  <2> SUFFICES ASSUME NEW pool \in Pools
               PROVE  free'[pool] + Cardinality(Holding(pool)') = Slots[pool]
    BY DEF SlotsAccounted
  <2>1. free[pool] + Cardinality(Holding(pool)) = Slots[pool] /\ free[pool] \in Nat
    BY DEF IInv, TypeOK, SlotsAccounted
  <2>2. CASE PoolOf[j] = pool
    <3>1. Holding(pool)' = Holding(pool) \cup {j} /\ j \notin Holding(pool)
      BY <1>1, <2>2 DEF Holding, IInv, TypeOK
    <3>2. Cardinality(Holding(pool)') = Cardinality(Holding(pool)) + 1
      BY <3>1, HoldingIsFinite, FS_AddElement
    <3>3. free'[pool] = free[pool] - 1
      BY <2>2 DEF Acquire, Pooled, IInv, TypeOK
    <3> QED
      BY <2>1, <3>2, <3>3, HoldingIsFinite
  <2>3. CASE PoolOf[j] # pool
    <3>1. Holding(pool)' = Holding(pool)
      BY <1>1, <2>3 DEF Holding, IInv, TypeOK
    <3>2. free'[pool] = free[pool]
      BY <2>3 DEF Acquire, Pooled, IInv, TypeOK
    <3> QED
      BY <2>1, <3>1, <3>2
  <2> QED
    BY <2>2, <2>3
<1>4. TypeOK' /\ StatusFollowsThread' /\ ActiveIsRegistered'
  BY <1>1, <1>2 DEF IInv, TypeOK, StatusFollowsThread, ActiveIsRegistered, Active, Pooled
<1>5. Awaited' /\ ResultCameFirst' /\ ResultAtSettling'
  BY <1>1 DEF IInv, TypeOK, StatusFollowsThread, Awaited, Alive, Active, Pooled, DrainNamesWhatItAwaited, ResultCameFirst,
     ResultAtSettling
<1> QED
  BY <1>3, <1>4, <1>5 DEF IInv

LEMMA SettleIInv ==
  ASSUME IInv, NEW j \in Jobs, Settle(j)
  PROVE  IInv'
<1>1. /\ pc[j] = "running" /\ pc' = [pc EXCEPT ![j] = "settled"]
      /\ UNCHANGED <<terminal, registry, submitted, threads, free, draining, drain, pending, left>>
  BY DEF Settle, Move
<1>2. SlotsAccounted'
  BY <1>1, SlotsUntouched
<1>3. CASE status' = [status EXCEPT ![j] = "done"] /\ result' = [result EXCEPT ![j] = "held"]
  BY <1>1, <1>2, <1>3 DEF IInv, TypeOK, StatusFollowsThread, ActiveIsRegistered, Active, Pooled,
     Awaited, Alive, DrainNamesWhatItAwaited, ResultCameFirst, ResultAtSettling
<1>4. CASE status' = [status EXCEPT ![j] = "error"] /\ result' = result
  BY <1>1, <1>2, <1>4 DEF IInv, TypeOK, StatusFollowsThread, ActiveIsRegistered, Active, Pooled,
     Awaited, Alive, DrainNamesWhatItAwaited, ResultCameFirst, ResultAtSettling
<1> QED
  BY <1>3, <1>4 DEF Settle

LEMMA TellIInv ==
  ASSUME IInv, NEW j \in Jobs, Tell(j)
  PROVE  IInv'
<1>1. /\ pc[j] = "settled" /\ pc' = [pc EXCEPT ![j] = "told"]
      /\ terminal' = [terminal EXCEPT ![j] = IF status[j] = "done" THEN "full" ELSE "bare"]
      /\ UNCHANGED <<status, result, registry, submitted, threads, free, draining, drain, pending, left>>
  BY DEF Tell, Move
<1>2. SlotsAccounted'
  BY <1>1, SlotsUntouched
<1> QED
  BY <1>1, <1>2 DEF IInv, TypeOK, StatusFollowsThread, ActiveIsRegistered, Active, Pooled,
     Awaited, Alive, DrainNamesWhatItAwaited, ResultCameFirst, ResultAtSettling

LEMMA ReleaseIInv ==
  ASSUME IInv, NEW j \in Jobs, Release(j)
  PROVE  IInv'
<1>1. /\ pc[j] = "told" /\ pc' = [pc EXCEPT ![j] = "ended"]
      /\ UNCHANGED <<status, result, terminal, registry, submitted, threads, draining, drain, pending, left>>
  BY DEF Release, Move
<1>2. free' \in [Pools -> Nat]
  BY DEF Release, IInv, TypeOK, Pooled
<1>3. SlotsAccounted'
  <2> SUFFICES ASSUME NEW pool \in Pools
               PROVE  free'[pool] + Cardinality(Holding(pool)') = Slots[pool]
    BY DEF SlotsAccounted
  <2>1. free[pool] + Cardinality(Holding(pool)) = Slots[pool] /\ free[pool] \in Nat
    BY DEF IInv, TypeOK, SlotsAccounted
  <2>2. CASE PoolOf[j] = pool
    <3>1. Holding(pool)' = Holding(pool) \ {j} /\ j \in Holding(pool)
      BY <1>1, <2>2 DEF Holding, IInv, TypeOK
    <3>2. Cardinality(Holding(pool)') = Cardinality(Holding(pool)) - 1
      BY <3>1, HoldingIsFinite, FS_RemoveElement
    <3>3. free'[pool] = free[pool] + 1
      BY <2>2 DEF Release, Pooled, IInv, TypeOK
    <3> QED
      BY <2>1, <3>2, <3>3, HoldingIsFinite
  <2>3. CASE PoolOf[j] # pool
    <3>1. Holding(pool)' = Holding(pool)
      BY <1>1, <2>3 DEF Holding, IInv, TypeOK
    <3>2. free'[pool] = free[pool]
      BY <2>3 DEF Release, Pooled, IInv, TypeOK
    <3> QED
      BY <2>1, <3>1, <3>2
  <2> QED
    BY <2>2, <2>3
<1> QED
  BY <1>1, <1>2, <1>3 DEF IInv, TypeOK, StatusFollowsThread, ActiveIsRegistered, Active, Pooled,
     Awaited, Alive, DrainNamesWhatItAwaited, ResultCameFirst, ResultAtSettling

LEMMA DrainIInv ==
  ASSUME IInv, Refusing \/ Collect \/ Answer \/ Exit
  PROVE  IInv'
<1>1. UNCHANGED <<pc, status, result, terminal, registry, submitted, threads, free>>
  BY DEF Refusing, Collect, Answer, Exit
<1>2. SlotsAccounted'
  <2>1. \A pool \in Pools : Holding(pool)' = Holding(pool)
    BY <1>1 DEF Holding
  <2> QED
    BY <1>1, <2>1 DEF IInv, SlotsAccounted
<1>3. TypeOK'
  BY <1>1 DEF Refusing, Collect, Answer, Exit, IInv, TypeOK
<1>4. StatusFollowsThread' /\ ActiveIsRegistered' /\ ResultCameFirst' /\ ResultAtSettling'
  BY <1>1 DEF IInv, StatusFollowsThread, ActiveIsRegistered, Active, Pooled, ResultCameFirst, ResultAtSettling
<1>5. Awaited'
  <2>1. CASE Refusing \/ Exit
    BY <1>1, <2>1 DEF Refusing, Exit, IInv, Awaited, Alive, Active, DrainNamesWhatItAwaited
  <2>2. CASE Collect
    BY <1>1, <2>2 DEF Collect, IInv, TypeOK, Awaited, Alive, Active, DrainNamesWhatItAwaited
  <2>3. CASE Answer
    <3>1. \A j \in pending : Active(j) => Alive(j) /\ j \in threads
      BY DEF IInv, TypeOK, Awaited, Alive, Active, StatusFollowsThread, ActiveIsRegistered
    <3> QED
      BY <1>1, <2>3, <3>1 DEF Answer, IInv, Awaited, Alive, Active, DrainNamesWhatItAwaited
  <2> QED
    BY <2>1, <2>2, <2>3
<1> QED
  BY <1>2, <1>3, <1>4, <1>5 DEF IInv

LEMMA NextIInv == IInv /\ [Next]_vars => IInv'
<1> SUFFICES ASSUME IInv, [Next]_vars PROVE IInv'
  OBVIOUS
<1>1. ASSUME NEW j \in Jobs, Submit(j) PROVE IInv'
  BY <1>1, EntryIInv, ListIInv, StartIInv DEF Submit
<1>2. ASSUME NEW j \in Jobs, Worker(j) PROVE IInv'
  BY <1>2, AcquireIInv, SettleIInv, TellIInv, ReleaseIInv DEF Worker
<1>3. CASE UNCHANGED vars
  <2>1. \A pool \in Pools : Holding(pool)' = Holding(pool)
    BY <1>3 DEF Holding, vars
  <2> QED
    BY <1>3, <2>1 DEF vars, IInv, TypeOK, SlotsAccounted, StatusFollowsThread, ActiveIsRegistered, Active, Pooled,
       Awaited, Alive, DrainNamesWhatItAwaited, ResultCameFirst, ResultAtSettling
<1> QED
  BY <1>1, <1>2, <1>3, DrainIInv DEF Next

LEMMA Invariant == Spec => []IInv
  BY InitIInv, NextIInv, PTL DEF Spec
-----------------------------------------------------------------------------
\* Whatever the outcome of a job and whoever shares its pool, the slots of a
\* pool are those free and those of jobs at work.
THEOREM SlotsNeverLeak == Spec => [](TypeOK /\ SlotsAccounted)
<1>1. IInv => TypeOK /\ SlotsAccounted
  BY DEF IInv
<1> QED
  BY <1>1, Invariant, PTL

\* Eviction never drops a job that has not finished, however full the registry.
THEOREM UnfinishedJobsAreKept == Spec => []ActiveIsKept
<1>1. IInv => ActiveIsKept
  BY DEF IInv, ActiveIsKept, ActiveIsRegistered
<1> QED
  BY <1>1, Invariant, PTL

\* drain names every job it waited for that is still at work when it answers.
THEOREM DrainNamesTheUnfinished == Spec => []DrainNamesWhatItAwaited
<1>1. IInv => DrainNamesWhatItAwaited
  BY DEF IInv, Awaited
<1> QED
  BY <1>1, Invariant, PTL
-----------------------------------------------------------------------------
\* Of any finished jobs, those not trimmed are at most KeepResults: the oldest
\* of them has all the others after it.
LEMMA UntrimmedAreFew ==
  ASSUME IInv, NEW reg \in SUBSET Jobs, NEW st,
         NEW kept \in SUBSET (Finished(reg, st) \ Trimmed(reg, st))
  PROVE  Cardinality(kept) <= KeepResults
<1> DEFINE fin == Finished(reg, st)
<1>1. IsFiniteSet(fin) /\ Cardinality(fin) \in Nat
  BY FS_Subset, FS_CardinalityType DEF Finished
<1>2. CASE kept = {}
  BY <1>2, FS_EmptySet
<1>3. CASE kept # {}
  <2> DEFINE places == {submitted[k] : k \in kept}
  <2>1. places \in SUBSET Nat /\ places # {}
    BY <1>3 DEF IInv, TypeOK, Finished
  <2>2. PICK least \in places : \A n \in places : least <= n
    <3> DEFINE less == {p \in Nat \X Nat : p[1] < p[2]}
    <3>1. IsWellFoundedOn(less, Nat)
      BY NatLessThanWellFounded DEF OpToRel
    <3>2. PICK n \in places : \A m \in places : <<m, n>> \notin less
      <4> HIDE DEF less
      <4> QED
        BY <2>1, <3>1, WFMin
    <3>3. \A a, b \in Nat : a < b => <<a, b>> \in less
      OBVIOUS
    <3> HIDE DEF less
    <3>4. \A m \in places : n <= m
      <4> SUFFICES ASSUME NEW m \in places PROVE n <= m
        OBVIOUS
      <4>1. m \in Nat /\ n \in Nat
        BY <2>1
      <4>2. ~(m < n)
        BY <3>2, <3>3, <4>1
      <4> QED
        BY <4>1, <4>2
    <3> QED
      BY <3>4
  <2>3. PICK j \in kept : submitted[j] = least
    OBVIOUS
  <2> DEFINE older == Older(reg, st, j)
  <2>4. kept \subseteq fin \ older
    BY <2>1, <2>2, <2>3 DEF Older
  <2>5. older \subseteq fin
    BY DEF Older
  <2>6. Cardinality(fin \ older) = Cardinality(fin) - Cardinality(older)
    <3>1. fin \cap older = older
      BY <2>5
    <3>2. Cardinality(fin \ older) = Cardinality(fin) - Cardinality(fin \cap older)
      BY <1>1, FS_Difference
    <3> QED
      BY <3>1, <3>2
  <2>7. IsFiniteSet(older) /\ Cardinality(older) \in Nat
    BY <1>1, <2>5, FS_Subset, FS_CardinalityType
  <2>8. KeepResults + Cardinality(older) >= Cardinality(fin)
    BY <1>1, <2>7 DEF Trimmed
  <2>9. Cardinality(kept) <= Cardinality(fin \ older)
    BY <1>1, <2>4, FS_Subset
  <2>10. Cardinality(kept) \in Nat
    BY <1>1, FS_Subset, FS_CardinalityType
  <2> QED
    BY <1>1, <2>6, <2>7, <2>8, <2>9, <2>10
<1> QED
  BY <1>2, <1>3

\* After every submit at most KeepResults finished jobs still hold a result.
THEOREM ResultsStayBounded == Spec => ResultsBounded
<1> DEFINE Holder(j) == result'[j] = "held" \/ terminal'[j] = "full"
           holders == {j \in Finished(registry', status') : Holder(j)}
<1>1. ASSUME IInv, [Next]_vars, registry' # registry
      PROVE  Cardinality(holders) <= KeepResults
  <2>1. PICK j \in Jobs : List(j)
    BY <1>1 DEF Next, vars, Submit, Worker, Admit, Refuse, Register, StartThread, Acquire, Settle, Tell, Release,
       Refusing, Collect, Answer, Exit
  <2>2. registry' \in SUBSET Jobs
    BY <1>1, NextIInv DEF IInv, TypeOK
  <2>3. holders \subseteq Finished(registry', status') \ Trimmed(registry', status')
    <3> SUFFICES ASSUME NEW k \in holders, k \in Trimmed(registry', status')
                 PROVE  FALSE
      OBVIOUS
    <3>1. k \in Jobs
      BY <2>2 DEF Finished
    <3>2. CASE Forgets(k)
      BY <1>1, <2>1, <3>1, <3>2 DEF List, IInv, TypeOK
    <3>3. CASE ~Forgets(k)
      BY <1>1, <2>1, <3>1, <3>3 DEF List, Forgets, IInv, TypeOK, ResultCameFirst
    <3> QED
      BY <3>2, <3>3
  <2> QED
    BY <1>1, <2>2, <2>3, UntrimmedAreFew
<1>2. IInv /\ [Next]_vars =>
        [registry' # registry => Cardinality(holders) <= KeepResults]_vars
  BY <1>1
<1> QED
  BY <1>2, Invariant, PTL DEF Spec, ResultsBounded
=============================================================================
