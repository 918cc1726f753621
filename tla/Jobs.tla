-------------------------------- MODULE Jobs --------------------------------
(***************************************************************************)
(* web/jobs.py, JobManager: request threads submit long operations, each   *)
(* runs on a daemon thread of its own that takes a slot of its pool, and   *)
(* shutdown drains them.  A submit is not atomic: it checks, enters the    *)
(* registry and registers its thread in three critical sections, and other *)
(* submits, workers and drain come in between.                             *)
(***************************************************************************)
EXTENDS Naturals, FiniteSets

CONSTANTS Jobs,         \* submissions, each a request thread and then a worker
          Pools,        \* the measurement and the heavy pool
          NoPool,       \* kinds that need no slot
          PoolOf,       \* _slots_for of each job's kind
          Slots,        \* size of each pool
          MaxQueued,    \* MAX_QUEUED_PER_POOL
          MaxJobs,      \* MAX_JOBS
          KeepResults   \* KEEP_RESULTS

ASSUME FiniteJobs == IsFiniteSet(Jobs)
ASSUME NoPoolIsNoPool == NoPool \notin Pools
ASSUME PoolsOfJobs == PoolOf \in [Jobs -> Pools \cup {NoPool}]
ASSUME SlotsOfPools == Slots \in [Pools -> Nat \ {0}]
ASSUME Limits == MaxQueued \in Nat /\ MaxJobs \in Nat /\ KeepResults \in Nat

VARIABLES
  pc,         \* pc[j]: where the request thread, later the worker, of j is
  status,     \* Job.status
  result,     \* Job.result: "none", "held" or "dropped"
  terminal,   \* the terminal event: "none", "full" (carries the result) or "bare"
  registry,   \* the jobs in _jobs
  submitted,  \* submitted[j]: j's place in the insertion order of _jobs; 0 before
  threads,    \* the keys of _threads
  free,       \* free slots of each pool
  draining,   \* the Event that refuses new work
  drain,      \* "off", "joining", "over" or "exited"
  pending,    \* threads drain waits for
  left        \* what drain returned

vars == <<pc, status, result, terminal, registry, submitted, threads, free, draining, drain, pending, left>>

Init ==
  /\ pc = [j \in Jobs |-> "new"]
  /\ status = [j \in Jobs |-> "none"]
  /\ result = [j \in Jobs |-> "none"]
  /\ terminal = [j \in Jobs |-> "none"]
  /\ registry = {}
  /\ submitted = [j \in Jobs |-> 0]
  /\ threads = {}
  /\ free = Slots
  /\ draining = FALSE
  /\ drain = "off"
  /\ pending = {}
  /\ left = {}

Pooled(j) == PoolOf[j] # NoPool
Active(j) == status[j] \in {"queued", "running"}

\* Thread.is_alive: started, and not at the end of its run().
Alive(j) == pc[j] \in {"acquiring", "running", "settled", "told"}

Move(j, from, to) ==
  /\ drain # "exited"
  /\ pc[j] = from
  /\ pc' = [pc EXCEPT ![j] = to]

Waiting(pool) == {j \in registry : status[j] = "queued" /\ PoolOf[j] = pool}

\* The first part of submit: refused while draining, or when the pool's queue
\* is full; otherwise the Job exists, not yet in the registry.
Admit(j) ==
  /\ ~draining
  /\ Pooled(j) => Cardinality(Waiting(PoolOf[j])) < MaxQueued
  /\ Move(j, "new", "admitted")
  /\ UNCHANGED <<status, result, terminal, registry, submitted, threads, free, draining, drain, pending, left>>

Refuse(j) ==
  /\ draining \/ (Pooled(j) /\ Cardinality(Waiting(PoolOf[j])) >= MaxQueued)
  /\ Move(j, "new", "refused")
  /\ UNCHANGED <<status, result, terminal, registry, submitted, threads, free, draining, drain, pending, left>>

\* The jobs of reg that have ended, and those of them that entered before j.
Finished(reg, st) == {j \in reg : st[j] \in {"done", "error"}}
Older(reg, st, j) == {k \in Finished(reg, st) : submitted[k] < submitted[j]}

\* Mutant of Evicted: the oldest go, finished or not.
EvictedOldest(reg, st) ==
  {j \in reg : submitted[j] = 0 \/
     MaxJobs + Cardinality({k \in reg : 0 < submitted[k] /\ submitted[k] < submitted[j]}) >= Cardinality(reg)}

\* _evict_locked: finished jobs go, oldest first, until MaxJobs are left.
Evicted(reg, st) ==
  reg \ {j \in Finished(reg, st) : MaxJobs + Cardinality(Older(reg, st, j)) < Cardinality(reg)}

\* _trim_results_locked: the finished jobs beyond the last KeepResults.
Trimmed(reg, st) ==
  {j \in Finished(reg, st) :
     KeepResults + Cardinality(Older(reg, st, j)) < Cardinality(Finished(reg, st))}

\* forget_result has something to do, again if it has run before.
Forgets(k) == result[k] # "none"

\* The second critical section: enter the registry, evict, trim.
List(j) ==
  LET st == [status EXCEPT ![j] = IF Pooled(j) THEN "queued" ELSE "running"]
      reg == Evicted(registry \cup {j}, st)
      forget == {k \in Trimmed(reg, st) : Forgets(k)}
  IN /\ Move(j, "admitted", "listed")
     /\ status' = st
     /\ registry' = reg
     /\ submitted' = [submitted EXCEPT ![j] = 1 + Cardinality({k \in Jobs : submitted[k] > 0})]
     /\ result' = [k \in Jobs |-> IF k \in forget THEN "dropped" ELSE result[k]]
     /\ terminal' = [k \in Jobs |->
          IF k \in forget /\ terminal[k] = "full" THEN "bare" ELSE terminal[k]]
     /\ UNCHANGED <<threads, free, draining, drain, pending, left>>

\* The third one: register the thread, forget those of evicted jobs.
Register(j) ==
  /\ Move(j, "listed", "registered")
  /\ threads' = (threads \cup {j}) \cap registry
  /\ UNCHANGED <<status, result, terminal, registry, submitted, free, draining, drain, pending, left>>

\* thread.start().  submit has answered; the worker goes on.
StartThread(j) ==
  /\ Move(j, "registered", "acquiring")
  /\ UNCHANGED <<status, result, terminal, registry, submitted, threads, free, draining, drain, pending, left>>

\* slots.acquire, at once or after waiting; without a pool nothing to acquire.
Acquire(j) ==
  /\ Pooled(j) => free[PoolOf[j]] > 0
  /\ Move(j, "acquiring", "running")
  /\ free' = IF Pooled(j) THEN [free EXCEPT ![PoolOf[j]] = @ - 1] ELSE free
  /\ status' = [status EXCEPT ![j] = "running"]
  /\ UNCHANGED <<result, terminal, registry, submitted, threads, draining, drain, pending, left>>

\* The target returns or raises: result and status first ...
Settle(j) ==
  /\ Move(j, "running", "settled")
  /\ \/ /\ status' = [status EXCEPT ![j] = "done"]
        /\ result' = [result EXCEPT ![j] = "held"]
     \/ /\ status' = [status EXCEPT ![j] = "error"]
        /\ UNCHANGED result
  /\ UNCHANGED <<terminal, registry, submitted, threads, free, draining, drain, pending, left>>

\* ... then the terminal event, with the result the local variable still has ...
Tell(j) ==
  /\ Move(j, "settled", "told")
  /\ terminal' = [terminal EXCEPT ![j] = IF status[j] = "done" THEN "full" ELSE "bare"]
  /\ UNCHANGED <<status, result, registry, submitted, threads, free, draining, drain, pending, left>>

\* Mutant of Release: after the try instead of in its finally.
ReleaseOnSuccess(j) ==
  /\ Move(j, "told", "ended")
  /\ free' = IF Pooled(j) /\ status[j] = "done" THEN [free EXCEPT ![PoolOf[j]] = @ + 1] ELSE free
  /\ UNCHANGED <<status, result, terminal, registry, submitted, threads, draining, drain, pending, left>>

\* ... then the finally, on every outcome.
Release(j) ==
  /\ Move(j, "told", "ended")
  /\ free' = IF Pooled(j) THEN [free EXCEPT ![PoolOf[j]] = @ + 1] ELSE free
  /\ UNCHANGED <<status, result, terminal, registry, submitted, threads, draining, drain, pending, left>>

\* JobManager.drain: refuse new work ...
Refusing ==
  /\ ~draining
  /\ draining' = TRUE
  /\ UNCHANGED <<pc, status, result, terminal, registry, submitted, threads, free, drain, pending, left>>

\* ... wait for the threads alive now ...
Collect ==
  /\ draining /\ drain = "off"
  /\ drain' = "joining"
  /\ pending' = {j \in threads : Alive(j)}
  /\ UNCHANGED <<pc, status, result, terminal, registry, submitted, threads, free, draining, left>>

\* Mutant of Answer: only jobs that run are named, not those waiting for a slot.
AnswerRunning ==
  /\ drain = "joining"
  /\ drain' = "over"
  /\ left' = {j \in threads : status[j] = "running"}
  /\ UNCHANGED <<pc, status, result, terminal, registry, submitted, threads, free, draining, pending>>

\* ... until they ended or the 25 seconds are over, and name what is alive.
Answer ==
  /\ drain = "joining"
  /\ drain' = "over"
  /\ left' = {j \in threads : Alive(j)}
  /\ UNCHANGED <<pc, status, result, terminal, registry, submitted, threads, free, draining, pending>>

\* The process exits, and its daemon threads with it.
Exit ==
  /\ drain = "over"
  /\ drain' = "exited"
  /\ UNCHANGED <<pc, status, result, terminal, registry, submitted, threads, free, draining, pending, left>>

Submit(j) == Admit(j) \/ Refuse(j) \/ List(j) \/ Register(j) \/ StartThread(j)
Worker(j) == Acquire(j) \/ Settle(j) \/ Tell(j) \/ Release(j)

Next ==
  \/ \E j \in Jobs : Submit(j) \/ Worker(j)
  \/ Refusing \/ Collect \/ Answer \/ Exit

Spec == Init /\ [][Next]_vars

\* Threads run, and an operation ends: each waits for docker and Rocket.Chat
\* with a timeout.
FairSpec == Spec /\ \A j \in Jobs : WF_vars(List(j) \/ Register(j) \/ StartThread(j) \/ Worker(j))
-----------------------------------------------------------------------------
TypeOK ==
  /\ pc \in [Jobs -> {"new", "refused", "admitted", "listed", "registered", "acquiring",
                      "running", "settled", "told", "ended"}]
  /\ status \in [Jobs -> {"none", "queued", "running", "done", "error"}]
  /\ result \in [Jobs -> {"none", "held", "dropped"}]
  /\ terminal \in [Jobs -> {"none", "full", "bare"}]
  /\ registry \subseteq Jobs
  /\ submitted \in [Jobs -> Nat]
  /\ threads \subseteq Jobs
  /\ free \in [Pools -> Nat]
  /\ draining \in BOOLEAN
  /\ drain \in {"off", "joining", "over", "exited"}
  /\ pending \subseteq Jobs
  /\ left \subseteq Jobs

Holding(pool) == {j \in Jobs : PoolOf[j] = pool /\ pc[j] \in {"running", "settled", "told"}}

\* No slot is lost or made: a leaked slot of the measurement pool would wedge
\* every later load test (jobs.py:398-400), a spare one runs two at once.
SlotsAccounted ==
  \A pool \in Pools : free[pool] + Cardinality(Holding(pool)) = Slots[pool]

\* A job that has not finished is never evicted, so its outcome can be asked
\* for, and drain can name it.
ActiveIsKept ==
  \A j \in Jobs : Active(j) =>
    /\ j \in registry
    /\ pc[j] \in {"acquiring", "running"} => j \in threads

\* When a submit has trimmed, at most KeepResults finished jobs hold a result,
\* by either of its two references: the terminal event may have come after an
\* earlier trim (jobs.py:171-189).
ResultsBounded ==
  [][registry' # registry =>
       Cardinality({j \in Finished(registry', status') : result'[j] = "held" \/ terminal'[j] = "full"})
         <= KeepResults]_vars

\* What drain returns names every job it waited for that is still at work.
DrainNamesWhatItAwaited ==
  drain = "over" => \A j \in pending : Active(j) => j \in left

\* An admitted job ends, whoever else waits for the same pool, unless the process exits.
AdmittedJobsEnd ==
  \A j \in Jobs : pc[j] = "admitted" ~> (pc[j] = "ended" \/ drain = "exited")

\* At most MAX_QUEUED_PER_POOL jobs wait for a pool (jobs.py:100-118).
QueueBounded == \A pool \in Pools : Cardinality(Waiting(pool)) <= MaxQueued

\* Every job at work after drain has answered was named (jobs.py:232-236).
DrainNamesEverything == drain = "over" => \A j \in Jobs : (Alive(j) /\ Active(j)) => j \in left

\* Releasing a result releases both references to it (jobs.py:178-180).
BothReferencesGo == \A j \in Jobs : result[j] = "dropped" => terminal[j] # "full"
=============================================================================
