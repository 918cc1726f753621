-------------------------- MODULE ReproLockProofs --------------------------
(***************************************************************************)
(* For any number of processes, threads and names: repro_lock excludes,    *)
(* leaks nothing, and implements Mutex.                                    *)
(***************************************************************************)
EXTENDS ReproLock, TLAPS

USE ThreadsOfProcs, NoThreadIsNoThread, PlatformAndBound

\* What NothingLeaks needs to be inductive: a free thread lock has no count, and
\* a thread polls for the file lock only from its outermost frame.
Bookkeeping ==
  /\ \A p \in Procs, n \in Names : owner[p][n] = NoThread => count[p][n] = 0
  /\ \A t \in Threads : pc[t] = "flock" => (HasFlock /\ frames[t][arg[t]] = 0)

IInv == TypeOK /\ NothingLeaks /\ Bookkeeping

LEMMA InitIInv == Init => IInv
  BY DEF Init, IInv, TypeOK, NothingLeaks, Bookkeeping, InTransit, Holds

LEMMA CallIInv ==
  ASSUME IInv, NEW t \in Threads, NEW n \in Names, Call(t, n)
  PROVE  IInv'
  BY DEF Call, IInv, TypeOK, NothingLeaks, Bookkeeping, InTransit, Holds

LEMMA AcquireThreadLockIInv ==
  ASSUME IInv, NEW t \in Threads, AcquireThreadLock(t)
  PROVE  IInv'
<1> DEFINE n == arg[t]
           p == ProcOf[t]
<1>1. n \in Names /\ p \in Procs
  BY DEF IInv, TypeOK
<1>2. TypeOK'
  BY <1>1 DEF AcquireThreadLock, IInv, TypeOK
<1>3. NothingLeaks'
  BY <1>1 DEF AcquireThreadLock, IInv, TypeOK, NothingLeaks, Bookkeeping, InTransit, Holds
<1>4. \A q \in Procs, m \in Names : owner'[q][m] = NoThread => count'[q][m] = 0
  <2> SUFFICES ASSUME NEW q \in Procs, NEW m \in Names
               PROVE  owner'[q][m] = NoThread => count'[q][m] = 0
    OBVIOUS
  <2>1. CASE q = p /\ m = n
    BY <2>1, <1>1 DEF AcquireThreadLock, IInv, TypeOK
  <2>2. CASE ~(q = p /\ m = n)
    <3>1. owner'[q][m] = owner[q][m] /\ count'[q][m] = count[q][m]
      BY <2>2, <1>1 DEF AcquireThreadLock, IInv, TypeOK
    <3> QED
      BY <3>1 DEF IInv, Bookkeeping
  <2> QED
    BY <2>1, <2>2
<1>5. held[t][n] = frames[t][n]
  <2>1. ~InTransit(t, n)
    BY DEF AcquireThreadLock, InTransit
  <2>2. held[t][n] = frames[t][n] + (IF InTransit(t, n) THEN 1 ELSE 0)
    BY <1>1 DEF IInv, NothingLeaks
  <2>3. frames[t][n] \in Nat
    BY <1>1 DEF IInv, TypeOK
  <2> QED
    BY <2>1, <2>2, <2>3
<1>6. \A u \in Threads : pc'[u] = "flock" => (HasFlock /\ frames'[u][arg'[u]] = 0)
  <2> SUFFICES ASSUME NEW u \in Threads, pc'[u] = "flock"
               PROVE  HasFlock /\ frames'[u][arg'[u]] = 0
    OBVIOUS
  <2>1. CASE u = t
    BY <2>1, <1>1, <1>5 DEF AcquireThreadLock, IInv, TypeOK
  <2>2. CASE u # t
    BY <2>2, <1>1 DEF AcquireThreadLock, IInv, TypeOK, Bookkeeping
  <2> QED
    BY <2>1, <2>2
<1> QED
  BY <1>2, <1>3, <1>4, <1>6 DEF IInv, Bookkeeping

LEMMA ThreadLockTimeoutIInv ==
  ASSUME IInv, NEW t \in Threads, ThreadLockTimeout(t)
  PROVE  IInv'
  BY DEF ThreadLockTimeout, IInv, TypeOK, NothingLeaks, Bookkeeping, InTransit, Holds

LEMMA AcquireFileLockIInv ==
  ASSUME IInv, NEW t \in Threads, AcquireFileLock(t)
  PROVE  IInv'
  BY DEF AcquireFileLock, IInv, TypeOK, NothingLeaks, Bookkeeping, InTransit, Holds

LEMMA FileLockTimeoutIInv ==
  ASSUME IInv, NEW t \in Threads, FileLockTimeout(t)
  PROVE  IInv'
  BY DEF FileLockTimeout, IInv, TypeOK, NothingLeaks, Bookkeeping, InTransit, Holds

LEMMA LeaveBodyIInv ==
  ASSUME IInv, NEW t \in Threads, NEW n \in Names, LeaveBody(t, n)
  PROVE  IInv'
  BY DEF LeaveBody, IInv, TypeOK, NothingLeaks, Bookkeeping, InTransit, Holds

LEMMA UnwindIInv ==
  ASSUME IInv, NEW t \in Threads, Unwind(t)
  PROVE  IInv'
  BY DEF Unwind, IInv, TypeOK, NothingLeaks, Bookkeeping, InTransit, Holds

LEMMA KillIInv ==
  ASSUME IInv, NEW p \in Procs, Kill(p)
  PROVE  IInv'
  BY DEF Kill, IInv, TypeOK, NothingLeaks, Bookkeeping, InTransit, Holds

LEMMA NextIInv == IInv /\ [Next]_vars => IInv'
<1> SUFFICES ASSUME IInv, [Next]_vars PROVE IInv'
  OBVIOUS
<1>1. CASE \E t \in Threads : Step(t)
  BY <1>1, AcquireThreadLockIInv, ThreadLockTimeoutIInv, AcquireFileLockIInv,
     FileLockTimeoutIInv, UnwindIInv DEF Step
<1>2. CASE \E t \in Threads, n \in Names : Call(t, n) \/ LeaveBody(t, n)
  BY <1>2, CallIInv, LeaveBodyIInv
<1>3. CASE \E p \in Procs : Kill(p)
  BY <1>3, KillIInv
<1>4. CASE UNCHANGED vars
  BY <1>4 DEF vars, IInv, TypeOK, NothingLeaks, Bookkeeping, InTransit, Holds
<1> QED
  BY <1>1, <1>2, <1>3, <1>4 DEF Next

\* The accounting of both lock layers survives every path, kills included.
THEOREM NoLayerLeaks == Spec => [](TypeOK /\ NothingLeaks)
<1>1. IInv => TypeOK /\ NothingLeaks
  BY DEF IInv
<1> QED
  BY <1>1, InitIInv, NextIInv, PTL DEF Spec

\* No two threads are inside the same workspace's critical section.
THEOREM LockExcludes == Spec => []MutualExclusion
<1>1. IInv => MutualExclusion
  BY DEF IInv, TypeOK, NothingLeaks, MutualExclusion, Holds, InTransit
<1> QED
  BY <1>1, InitIInv, NextIInv, PTL DEF Spec
-----------------------------------------------------------------------------
LEMMA InitRefines == Init => M!Init
  BY DEF Init, M!Init

LEMMA StepRefines ==
  ASSUME HasFlock, IInv, IInv', NEW t \in Threads, Step(t)
  PROVE  [M!Next]_frames
<1>1. CASE AcquireThreadLock(t)
  <2> DEFINE n == arg[t]
  <2>1. n \in Names /\ ProcOf[t] \in Procs
    BY DEF IInv, TypeOK
  <2>2. CASE held[t][n] = 0
    BY <1>1, <2>2, <2>1 DEF AcquireThreadLock
  <2>3. CASE held[t][n] > 0
    <3>1. frames' = [frames EXCEPT ![t][n] = @ + 1]
      BY <1>1, <2>3 DEF AcquireThreadLock
    <3>2. frames[t][n] > 0
      BY <1>1, <2>1, <2>3 DEF AcquireThreadLock, IInv, TypeOK, NothingLeaks, InTransit
    <3>3. \A u \in Threads \ {t} : ~M!Holds(u, n)
      BY <2>1, <3>2, HasFlock DEF IInv, TypeOK, NothingLeaks, Holds, M!Holds
    <3> QED
      BY <3>1, <3>3, <2>1 DEF M!Next, M!Enter
  <2> QED
    BY <2>1, <2>2, <2>3 DEF IInv, TypeOK
<1>2. CASE AcquireFileLock(t)
  <2> DEFINE n == arg[t]
  <2>1. n \in Names
    BY DEF IInv, TypeOK
  <2>2. \A u \in Threads \ {t} : ~M!Holds(u, n)
    BY <1>2, <2>1, HasFlock DEF AcquireFileLock, IInv, TypeOK, NothingLeaks, Holds, M!Holds
  <2> QED
    BY <1>2, <2>1, <2>2 DEF AcquireFileLock, M!Next, M!Enter
<1>3. CASE ThreadLockTimeout(t) \/ FileLockTimeout(t) \/ Unwind(t)
  BY <1>3 DEF ThreadLockTimeout, FileLockTimeout, Unwind
<1> QED
  BY <1>1, <1>2, <1>3 DEF Step

LEMMA NextRefines == HasFlock /\ IInv /\ IInv' /\ [Next]_vars => [M!Next]_frames
<1> SUFFICES ASSUME HasFlock, IInv, IInv', [Next]_vars PROVE [M!Next]_frames
  OBVIOUS
<1>1. CASE \E t \in Threads : Step(t)
  BY <1>1, StepRefines
<1>2. CASE \E t \in Threads, n \in Names : Call(t, n) \/ LeaveBody(t, n)
  BY <1>2 DEF Call, LeaveBody, M!Next, M!Leave, M!Holds
<1>3. CASE \E p \in Procs : Kill(p)
  <2>1. PICK p \in Procs : Kill(p)
    BY <1>3
  <2> DEFINE dead == {t \in Threads : ProcOf[t] = p}
  <2>2. M!Die(dead)
    BY <2>1 DEF Kill, M!Die
  <2>3. dead \in SUBSET Threads
    OBVIOUS
  <2> QED
    BY <2>2, <2>3 DEF M!Next
<1>4. CASE UNCHANGED vars
  BY <1>4 DEF vars
<1> QED
  BY <1>1, <1>2, <1>3, <1>4 DEF Next

\* Where fcntl exists, the two layers together are one reentrant mutex per name.
THEOREM LockImplementsMutex == HasFlock => (Spec => ImplementsMutex)
<1> SUFFICES ASSUME HasFlock PROVE Spec => M!Spec
  BY DEF ImplementsMutex
<1>1. IInv /\ IInv' /\ [Next]_vars => [M!Next]_frames
  BY NextRefines
<1> QED
  BY <1>1, InitIInv, NextIInv, InitRefines, PTL DEF Spec, M!Spec
=============================================================================
