----------------------------- MODULE ReproLock -----------------------------
(***************************************************************************)
(* runner.repro_lock: the exclusive, reentrant lock every mutating         *)
(* operation takes on a workspace.  Two layers: a threading.RLock per name *)
(* in each process, and under it an flock on locks/<name>.lock that says   *)
(* something to the other processes.  A thread-local counter tells the     *)
(* outermost frame, which owns the file lock, from the inner ones.         *)
(***************************************************************************)
EXTENDS Naturals

CONSTANTS Procs,      \* rc-repro processes: `serve` and the CLI runs
          Threads,    \* all their threads
          ProcOf,     \* the process of each thread
          Names,      \* lock names
          NoThread,   \* no holder
          HasFlock,   \* whether `import fcntl` succeeds on this platform
          MaxDepth    \* bound: how deep one thread nests a name

ASSUME ThreadsOfProcs == ProcOf \in [Threads -> Procs]
ASSUME NoThreadIsNoThread == NoThread \notin Threads
ASSUME PlatformAndBound == HasFlock \in BOOLEAN /\ MaxDepth \in Nat

VARIABLES
  pc,       \* pc[t]: "run", "rlock" (in tlock.acquire), "flock" (polling), "unwind" (outer finally)
  arg,      \* arg[t]: the name of the call in progress
  owner,    \* owner[p][n]: the thread holding process p's RLock for n
  count,    \* count[p][n]: the RLock's recursion count
  held,     \* held[t][n]: _HELD.names, the thread's reentrancy depth
  flock,    \* flock[n]: whose open file holds the lock file of n
  frames    \* frames[t][n]: bodies of `with repro_lock(n)` that t is inside

vars == <<pc, arg, owner, count, held, flock, frames>>

Init ==
  /\ pc = [t \in Threads |-> "run"]
  /\ arg \in [Threads -> Names]
  /\ owner = [p \in Procs |-> [n \in Names |-> NoThread]]
  /\ count = [p \in Procs |-> [n \in Names |-> 0]]
  /\ held = [t \in Threads |-> [n \in Names |-> 0]]
  /\ flock = [n \in Names |-> NoThread]
  /\ frames = [t \in Threads |-> [n \in Names |-> 0]]

\* A thread, perhaps already inside other locked bodies, enters `with repro_lock(n)`.
Call(t, n) ==
  /\ pc[t] = "run"
  /\ frames[t][n] < MaxDepth
  /\ pc' = [pc EXCEPT ![t] = "rlock"]
  /\ arg' = [arg EXCEPT ![t] = n]
  /\ UNCHANGED <<owner, count, held, flock, frames>>

\* tlock.acquire succeeds and the depth is raised.  An inner frame yields at
\* once; so does an outermost one where there is no fcntl.
AcquireThreadLock(t) ==
  LET n == arg[t]
      p == ProcOf[t]
      yields == held[t][n] > 0 \/ ~HasFlock
  IN /\ pc[t] = "rlock"
     /\ owner[p][n] \in {NoThread, t}
     /\ owner' = [owner EXCEPT ![p][n] = t]
     /\ count' = [count EXCEPT ![p][n] = @ + 1]
     /\ held' = [held EXCEPT ![t][n] = @ + 1]
     /\ pc' = [pc EXCEPT ![t] = IF yields THEN "run" ELSE "flock"]
     /\ frames' = IF yields THEN [frames EXCEPT ![t][n] = @ + 1] ELSE frames
     /\ UNCHANGED <<arg, flock>>

\* tlock.acquire(timeout=...) gives up: ConflictError, before anything was taken.
ThreadLockTimeout(t) ==
  /\ pc[t] = "rlock"
  /\ owner[ProcOf[t]][arg[t]] \notin {NoThread, t}
  /\ pc' = [pc EXCEPT ![t] = "run"]
  /\ UNCHANGED <<arg, owner, count, held, flock, frames>>

\* Mutant: LOCK_SH for LOCK_EX.
AcquireShared(t) ==
  /\ pc[t] = "flock"
  /\ flock' = [flock EXCEPT ![arg[t]] = t]
  /\ frames' = [frames EXCEPT ![t][arg[t]] = @ + 1]
  /\ pc' = [pc EXCEPT ![t] = "run"]
  /\ UNCHANGED <<arg, owner, count, held>>

\* One LOCK_EX | LOCK_NB poll succeeds.
AcquireFileLock(t) ==
  LET n == arg[t] IN
  /\ pc[t] = "flock"
  /\ flock[n] = NoThread
  /\ flock' = [flock EXCEPT ![n] = t]
  /\ frames' = [frames EXCEPT ![t][n] = @ + 1]
  /\ pc' = [pc EXCEPT ![t] = "run"]
  /\ UNCHANGED <<arg, owner, count, held>>

\* Mutant: the ConflictError is raised outside the outer try.
TimeoutKeepsThreadLock(t) ==
  /\ pc[t] = "flock"
  /\ flock[arg[t]] # NoThread
  /\ pc' = [pc EXCEPT ![t] = "run"]
  /\ UNCHANGED <<arg, owner, count, held, flock, frames>>

\* Mutant: no deadline, the poll goes on.
PollsForever(t) ==
  /\ pc[t] = "flock"
  /\ flock[arg[t]] # NoThread
  /\ UNCHANGED vars

\* The deadline passes while another process holds the file: ConflictError, and
\* the outer finally still has the thread lock to give back.
FileLockTimeout(t) ==
  /\ pc[t] = "flock"
  /\ flock[arg[t]] # NoThread
  /\ pc' = [pc EXCEPT ![t] = "unwind"]
  /\ UNCHANGED <<arg, owner, count, held, flock, frames>>

\* Mutant: every frame unlocks the file, the inner ones as well.
InnerLeaveUnlocks(t, n) ==
  /\ pc[t] = "run" /\ frames[t][n] > 0
  /\ frames' = [frames EXCEPT ![t][n] = @ - 1]
  /\ flock' = [flock EXCEPT ![n] = NoThread]
  /\ pc' = [pc EXCEPT ![t] = "unwind"]
  /\ arg' = [arg EXCEPT ![t] = n]
  /\ UNCHANGED <<owner, count, held>>

\* The body ends, normally or not.  Only the outermost frame has the file open.
LeaveBody(t, n) ==
  LET outermost == frames[t][n] = 1 IN
  /\ pc[t] = "run"
  /\ frames[t][n] > 0
  /\ frames' = [frames EXCEPT ![t][n] = @ - 1]
  /\ flock' = IF outermost /\ HasFlock THEN [flock EXCEPT ![n] = NoThread] ELSE flock
  /\ pc' = [pc EXCEPT ![t] = "unwind"]
  /\ arg' = [arg EXCEPT ![t] = n]
  /\ UNCHANGED <<owner, count, held>>

\* The outer finally: lower the depth, release one level of the RLock.
Unwind(t) ==
  LET n == arg[t]
      p == ProcOf[t]
  IN /\ pc[t] = "unwind"
     /\ held' = [held EXCEPT ![t][n] = IF @ <= 1 THEN 0 ELSE @ - 1]
     /\ count' = [count EXCEPT ![p][n] = @ - 1]
     /\ owner' = IF count[p][n] = 1 THEN [owner EXCEPT ![p][n] = NoThread] ELSE owner
     /\ pc' = [pc EXCEPT ![t] = "run"]
     /\ UNCHANGED <<arg, flock, frames>>

\* SIGKILL, an OOM, a restart: the process goes and the kernel closes its files.
\* The same name stands for the process that replaces it.
Kill(p) ==
  LET dead == {t \in Threads : ProcOf[t] = p} IN
  /\ pc' = [t \in Threads |-> IF t \in dead THEN "run" ELSE pc[t]]
  /\ held' = [t \in Threads |-> IF t \in dead THEN [n \in Names |-> 0] ELSE held[t]]
  /\ frames' = [t \in Threads |-> IF t \in dead THEN [n \in Names |-> 0] ELSE frames[t]]
  /\ owner' = [owner EXCEPT ![p] = [n \in Names |-> NoThread]]
  /\ count' = [count EXCEPT ![p] = [n \in Names |-> 0]]
  /\ flock' = [n \in Names |-> IF flock[n] \in dead THEN NoThread ELSE flock[n]]
  /\ UNCHANGED arg

Step(t) ==
  \/ AcquireThreadLock(t)
  \/ ThreadLockTimeout(t)
  \/ AcquireFileLock(t)
  \/ FileLockTimeout(t)
  \/ Unwind(t)

Next ==
  \/ \E t \in Threads : Step(t)
  \/ \E t \in Threads, n \in Names : Call(t, n) \/ LeaveBody(t, n)
  \/ \E p \in Procs : Kill(p)

Spec == Init /\ [][Next]_vars

\* A thread inside repro_lock keeps running: both waits have a timeout, and
\* leaving is straight-line code.  Callers owe nothing: bodies may never end.
FairSpec == Spec /\ \A t \in Threads : WF_vars(Step(t))
-----------------------------------------------------------------------------
TypeOK ==
  /\ pc \in [Threads -> {"run", "rlock", "flock", "unwind"}]
  /\ arg \in [Threads -> Names]
  /\ owner \in [Procs -> [Names -> Threads \cup {NoThread}]]
  /\ count \in [Procs -> [Names -> Nat]]
  /\ held \in [Threads -> [Names -> Nat]]
  /\ flock \in [Names -> Threads \cup {NoThread}]
  /\ frames \in [Threads -> [Names -> Nat]]

Holds(t, n) == frames[t][n] > 0

\* Two threads are never inside the same name's body: "two interleaving on one
\* repro corrupts it" (runner.py:549-552).  Without fcntl the promise shrinks to
\* threads of one process.
MutualExclusion ==
  \A n \in Names : \A t, u \in Threads :
    (t # u /\ Holds(t, n) /\ Holds(u, n)) => (~HasFlock /\ ProcOf[t] # ProcOf[u])

\* t is between taking and giving back one level of the thread lock.
InTransit(t, n) == pc[t] \in {"flock", "unwind"} /\ arg[t] = n

\* Nothing leaks on any path out, the two timeouts included: a lock layer is
\* held exactly as often as a frame of its owner still needs it.
NothingLeaks ==
  \A t \in Threads, n \in Names :
    /\ held[t][n] = frames[t][n] + (IF InTransit(t, n) THEN 1 ELSE 0)
    /\ held[t][n] > 0 <=> owner[ProcOf[t]][n] = t
    /\ owner[ProcOf[t]][n] = t => count[ProcOf[t]][n] = held[t][n]
    /\ flock[n] = t <=> (HasFlock /\ Holds(t, n))

\* A thread that asked for the lock is answered, by entry or by ConflictError,
\* even when the holder never finishes.
EveryCallAnswered ==
  \A t \in Threads : pc[t] # "run" ~> pc[t] = "run"

\* The two-layer lock keeps the promise of Mutex (on a platform with flock).
M == INSTANCE Mutex WITH Threads <- Threads, Names <- Names, frames <- frames
ImplementsMutex == M!Spec
=============================================================================
