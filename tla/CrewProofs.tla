----------------------------- MODULE CrewProofs -----------------------------
(****************************************************************************)
(* Proofs about the crews of MCCreateFlow, for any requests, processes,     *)
(* hosts, ports, names and people: the create flow, the gates, what is      *)
(* written of a workspace, owners and benchmarks.  The crews share nothing, *)
(* so each has an invariant of its own; the theorems put them together.     *)
(****************************************************************************)
EXTENDS MCCreateFlow, SequenceTheorems, TLAPS

-----------------------------------------------------------------------------
(* Two job threads of a `serve` that may be killed.                        *)

Noted(tasks) == [owner : tasks, seed : BOOLEAN, here : BOOLEAN, live : BOOLEAN]
Finishing == {"pending", "seedlock", "finish", "clear"}

\* Types, as far as the crew needs them.
KilledShape ==
  /\ pc \in [Jobs -> {"idle", "checks", "up", "wait", "configure", "seed", "leave"} \cup Finishing]
  /\ kind \in [Jobs -> {"create", "ready"}] /\ req \in [Jobs -> [seed : BOOLEAN, wait : BOOLEAN]]
  /\ knew \in [Jobs -> BOOLEAN] /\ DOMAIN seeds = Jobs
  /\ notes \subseteq Noted(Jobs)
  /\ ws \in {"absent", "written", "up"} /\ configured \in BOOLEAN
  /\ seeded \in BOOLEAN /\ recorded \in BOOLEAN

Creating(t) == kind[t] = "create" /\ pc[t] # "idle"

\* A create has the lock from its first step, and so has a `ready` that seeds.
Inside == \A t \in Jobs :
  /\ Creating(t) => lock = t /\ req[t].wait
  /\ kind[t] = "ready" => pc[t] \in {"idle", "wait", "configure"} \cup Finishing
  /\ kind[t] = "ready" /\ pc[t] = "finish" => lock = t

\* How far the workspace is, from how far a call is.
Stages == \A t \in Jobs :
  /\ pc[t] \in Finishing \cup {"seed", "leave"} => configured
  /\ Creating(t) /\ pc[t] = "wait" => ws = "up"

\* A note that whoever stands in for its owner finds: the owner is dead, or past
\* the checks at which it would take the note along.
Kept(n) == ~n.live \/ (Creating(n.owner) /\ pc[n.owner] # "checks")
Recalled ==
  ~configured =>
    /\ \A t \in Jobs : Creating(t) /\ pc[t] \in {"checks", "up"} =>
         \E n \in notes : n.owner = t /\ n.live
    /\ ws = "up" => \E n \in notes : Kept(n)

\* Of a seed that was asked for and whose call is dead.
Lost(n) == ~n.live /\ n.seed
Remembered ==
  /\ \A n \in notes : ~n.here
  /\ recorded => seeded
  /\ \A t \in Jobs : knew[t] => seeded

KilledInv == KilledShape /\ Inside /\ Stages /\ Recalled /\ Remembered

\* The invariant holds of a workspace that is not there yet.
LEMMA KilledStarts == ASSUME Killed!Init PROVE KilledInv
<1>1. KilledShape
  BY DEF Killed!Init, KilledShape
<1>2. Inside /\ Stages /\ Recalled /\ Remembered
  BY DEF Killed!Init, Inside, Stages, Recalled, Remembered, Creating, Kept, Finishing
<1> QED
  BY <1>1, <1>2 DEF KilledInv

\* Where no command runs, a call that ends leaves the notes as it says.
LEMMA EndsAlone ==
  ASSUME NEW t \in Jobs, NEW open \in SUBSET Noted(Jobs), Killed!End(t, open)
  PROVE  pc' = [pc EXCEPT ![t] = "idle"] /\ notes' = open /\ lock' = IF lock = t THEN NoTask ELSE lock
<1>1. \A n \in open : [n EXCEPT !.live = @ /\ ProcOf[n.owner] \notin {}] = n
  BY DEF Noted
<1>2. Killed!Orphaned(open, {}) = open
  BY <1>1 DEF Killed!Orphaned
<1> QED
  BY <1>2 DEF Killed!End, Killed!Goto, Killed!Unlocked

\* An aborted create takes its own note along, and no other call's.
LEMMA AbortsAlone ==
  ASSUME KilledShape, NEW t \in Jobs, Killed!Abort(t)
  PROVE  /\ pc' = [pc EXCEPT ![t] = "idle"] /\ lock' = IF lock = t THEN NoTask ELSE lock
         /\ notes' = {n \in notes : ~(n.owner = t /\ n.live)}
<1>1. notes \ Killed!Own(t) = {n \in notes : ~(n.owner = t /\ n.live)}
  BY DEF Killed!Own
<1>2. notes \ Killed!Own(t) \in SUBSET Noted(Jobs)
  BY DEF KilledShape
<1> QED
  BY <1>1, <1>2, EndsAlone DEF Killed!Abort

\* What ends with a look at the marker ends the call, or goes on to its seed.
LEMMA FinalizesAlone ==
  ASSUME KilledShape, NEW t \in Jobs, NEW open \in SUBSET Noted(Jobs), Killed!Finalized(t, open)
  PROVE  /\ notes' = open
         /\ \/ /\ kind[t] = "ready" /\ pc' = [pc EXCEPT ![t] = "idle"]
               /\ lock' = IF lock = t THEN NoTask ELSE lock
            \/ /\ kind[t] = "create" /\ lock' = lock
               /\ \E place \in {"seed", "leave"} : pc' = [pc EXCEPT ![t] = place]
BY EndsAlone DEF KilledShape, Killed!Finalized, Killed!Goto

\* The steps of a call, by what they do to its place, the notes and the lock.
Goes(t, place) == pc' = [pc EXCEPT ![t] = place]
Unlocks(t) == lock' = IF lock = t THEN NoTask ELSE lock

Begins(t, r) ==
  /\ pc[t] = "idle" /\ Goes(t, "checks") /\ lock = NoTask /\ lock' = t
  /\ kind' = [kind EXCEPT ![t] = "create"] /\ req' = [req EXCEPT ![t] = r]
  /\ notes' = notes \cup {[owner |-> t, seed |-> r.seed, here |-> FALSE, live |-> TRUE]}
  /\ DOMAIN seeds' = Jobs /\ UNCHANGED <<knew, ws, configured, seeded, recorded>>

BeginsReady(t) ==
  /\ pc[t] = "idle" /\ Goes(t, "wait") /\ kind' = [kind EXCEPT ![t] = "ready"]
  /\ knew' = [knew EXCEPT ![t] = recorded] /\ DOMAIN seeds' = Jobs
  /\ UNCHANGED <<req, lock, notes, ws, configured, seeded, recorded>>

Leaves(t) ==
  /\ Goes(t, "idle") /\ Unlocks(t)
  /\ UNCHANGED <<kind, req, knew, seeds, ws, configured, seeded, recorded>>
  /\ \/ pc[t] = "checks" /\ notes' = {n \in notes : ~(n.owner = t /\ n.live)}
     \/ kind[t] = "ready" /\ notes' = notes
     \/ pc[t] \in Finishing \cup {"seed", "leave"} /\ notes' \subseteq notes

Rises(t) ==
  /\ kind' = kind /\ req' = req /\ notes' = notes /\ lock' = lock /\ DOMAIN seeds' = Jobs
  /\ UNCHANGED <<configured, seeded, recorded>>
  /\ \/ /\ pc[t] = "checks" /\ Goes(t, "up") /\ ws' \in {ws, "written"} /\ (ws' = "up" => ws = "up")
        /\ (ws = "up" => ws' = "up") /\ knew' = [knew EXCEPT ![t] = recorded]
     \/ /\ pc[t] = "up" /\ (Goes(t, "wait") \/ (~req[t].wait /\ Goes(t, "leave"))) /\ ws' = "up" /\ knew' = knew

Walks(t) ==
  /\ UNCHANGED <<kind, req, knew, ws>> /\ DOMAIN seeds' = Jobs /\ notes' \subseteq notes
  /\ \/ /\ pc[t] = "wait" /\ Goes(t, "configure")
        /\ UNCHANGED <<notes, configured, seeded, recorded, lock>>
     \/ /\ pc[t] = "configure" /\ Goes(t, "pending") /\ configured' = TRUE
        /\ UNCHANGED <<notes, seeded, recorded, lock>>
     \/ /\ pc[t] \in Finishing \cup {"seed"} /\ configured' = configured
        /\ \E place \in Finishing \cup (IF kind[t] = "create" THEN {"seed", "leave"} ELSE {}) :
             /\ Goes(t, place)
             /\ \/ lock' = lock /\ (place = "finish" => kind[t] = "create")
                \/ lock \in {NoTask, t} /\ lock' = t
                \/ kind[t] = "ready" /\ lock = t /\ lock' = NoTask /\ place # "finish"
        /\ \/ UNCHANGED <<seeded, recorded>>
           \/ seeded' = TRUE /\ recorded' \in BOOLEAN

Spared(n, p) == n.live /\ ProcOf[n.owner] # p
Marked(n, alive) == [n EXCEPT !.live = alive]
Dies(p) ==
  /\ pc' = [t \in Jobs |-> IF ProcOf[t] = p THEN "idle" ELSE pc[t]]
  /\ lock' = IF lock \in Jobs /\ ProcOf[lock] = p THEN NoTask ELSE lock
  /\ notes' = {Marked(n, Spared(n, p)) : n \in notes}
  /\ UNCHANGED <<kind, req, knew, seeds, ws, configured, seeded, recorded>>

\* Every step of a call is one of these four.
LEMMA KilledSteps ==
  ASSUME KilledInv, NEW t \in Jobs, Killed!Step(t)
  PROVE  BeginsReady(t) \/ Leaves(t) \/ Rises(t) \/ Walks(t)
<1> USE DEF Killed!Goto, Killed!call, Killed!workspace, Goes, Unlocks
<1>1. CASE Killed!Refuse(t)
  BY <1>1, AbortsAlone DEF Killed!Refuse, KilledInv, Leaves
<1>2. CASE Killed!Accept(t)
  BY <1>2 DEF Killed!Accept, KilledInv, KilledShape, Rises
<1>3. CASE Killed!ComposeUp(t)
  BY <1>3 DEF Killed!ComposeUp, KilledInv, KilledShape, Rises
<1>4. CASE Killed!ComposeFails(t)
  BY <1>4 DEF Killed!ComposeFails
<1>5. CASE Killed!BeginReady(t)
  BY <1>5 DEF Killed!BeginReady, KilledInv, KilledShape, BeginsReady
<1>6. CASE Killed!Serving(t)
  BY <1>6 DEF Killed!Serving, KilledInv, KilledShape, Walks
<1>7. CASE Killed!NotReady(t)
  <2>1. kind[t] = "ready"
    BY <1>7 DEF Killed!NotReady, KilledInv, KilledShape, Stages, Creating
  <2>2. Killed!End(t, notes) /\ notes \in SUBSET Noted(Jobs)
    BY <1>7, <2>1 DEF Killed!NotReady, KilledInv, KilledShape
  <2> QED
    BY <1>7, <2>1, <2>2, EndsAlone DEF Killed!NotReady, Leaves
<1>8. CASE Killed!Configure(t)
  BY <1>8 DEF Killed!Configure, KilledInv, KilledShape, Walks
<1>9. CASE Killed!Pending(t)
  BY <1>9 DEF Killed!Pending, KilledInv, KilledShape, Walks, Finishing
<1>10. CASE Killed!SeedLock(t)
  BY <1>10 DEF Killed!SeedLock, KilledInv, KilledShape, Walks, Finishing
<1>11. CASE Killed!SeedLockTimeout(t)
  BY <1>11, FinalizesAlone DEF Killed!SeedLockTimeout, KilledInv, KilledShape, Walks, Leaves, Finishing
<1>12. CASE Killed!Seeded(t)
  <2>1. UNCHANGED <<kind, req, knew, notes, ws, configured>> /\ DOMAIN seeds' = Jobs
    BY <1>12 DEF Killed!Seeded, KilledInv, KilledShape
  <2>2. seeded' /\ recorded' \in BOOLEAN /\ lock' = IF kind[t] = "ready" THEN NoTask ELSE lock
    BY <1>12 DEF Killed!Seeded, KilledInv, KilledShape
  <2>3. CASE pc[t] = "finish"
    <3>1. Goes(t, "clear") /\ (kind[t] = "ready" => lock = t)
      BY <1>12, <2>3 DEF Killed!Seeded, KilledInv, Inside
    <3>2. \/ lock' = lock /\ ("clear" = "finish" => kind[t] = "create")
          \/ kind[t] = "ready" /\ lock = t /\ lock' = NoTask /\ "clear" # "finish"
      BY <2>2, <3>1
    <3> QED
      BY <2>1, <2>2, <2>3, <3>1, <3>2 DEF Walks, Finishing
  <2>4. CASE pc[t] = "seed"
    <3>1. Goes(t, "leave")
      BY <1>12, <2>4 DEF Killed!Seeded
    <3>2. kind[t] = "create"
      BY <2>4 DEF KilledInv, KilledShape, Inside, Finishing
    <3> QED
      BY <2>1, <2>2, <2>4, <3>1, <3>2 DEF Walks
  <2> QED
    BY <1>12, <2>3, <2>4 DEF Killed!Seeded, Killed!Seeding, KilledInv, KilledShape, Finishing
<1>13. CASE Killed!SeedFails(t)
  BY <1>13, FinalizesAlone, AbortsAlone DEF Killed!SeedFails, Killed!Seeding, KilledInv, KilledShape, Inside, Walks, Leaves, Finishing
<1>14. CASE Killed!Clear(t)
  BY <1>14, FinalizesAlone DEF Killed!Clear, KilledInv, KilledShape, Walks, Leaves, Finishing
<1>15. CASE Killed!Leave(t)
  BY <1>15, EndsAlone DEF Killed!Leave, KilledInv, KilledShape, Leaves
<1>16. CASE Killed!CliClear(t)
  BY <1>16 DEF Killed!CliClear, KilledInv, KilledShape, Finishing
<1> QED
  BY <1>1, <1>2, <1>3, <1>4, <1>5, <1>6, <1>7, <1>8, <1>9, <1>10, <1>11, <1>12, <1>13, <1>14, <1>15, <1>16 DEF Killed!Step

\* A create begins with its note, and the lock.
LEMMA KilledBegins ==
  ASSUME NEW t \in Jobs, NEW r \in Waiting, Killed!Begin(t, r), KilledShape
  PROVE  Begins(t, r)
<1>1. (t \in {}) = FALSE
  OBVIOUS
<1>2. notes' = notes \cup {[owner |-> t, seed |-> r.seed, here |-> FALSE, live |-> TRUE]}
  BY <1>1 DEF Killed!Begin
<1> QED
  BY <1>2 DEF Killed!Begin, Killed!Goto, Killed!workspace, Goes, Begins, KilledShape

\* A note whose owner has died stays what it is otherwise.
LEMMA Marks ==
  ASSUME NEW tasks, NEW n \in Noted(tasks), NEW alive \in BOOLEAN
  PROVE  /\ Marked(n, alive) \in Noted(tasks) /\ Marked(n, alive).live = alive
         /\ Marked(n, alive).owner = n.owner /\ Marked(n, alive).seed = n.seed
         /\ Marked(n, alive).here = n.here /\ (alive = n.live => Marked(n, alive) = n)
BY DEF Marked, Noted

\* A process that is killed leaves its notes, and the lock.
LEMMA KilledDies ==
  ASSUME NEW p, Killed!Kill(p), KilledShape
  PROVE  Dies(p)
BY CreatorsAre DEF Killed!Kill, Killed!Orphaned, Killed!call, Killed!workspace, Dies, Spared, Marked, KilledShape

\* Who begins has noted it.
LEMMA BeginsKeeps ==
  ASSUME KilledInv, NEW t \in Jobs, NEW r \in Waiting, Begins(t, r)
  PROVE  KilledInv'
<1> USE DEF Begins, Goes, Creating, Waiting
<1>0. r \in [seed : BOOLEAN, wait : BOOLEAN] /\ r.wait
  OBVIOUS
<1>1. KilledShape'
  <2>1. [owner |-> t, seed |-> r.seed, here |-> FALSE, live |-> TRUE] \in Noted(Jobs)
    BY <1>0 DEF Noted
  <2> QED
    BY <1>0, <2>1 DEF KilledInv, KilledShape
<1>2. Inside'
  BY <1>0, CreatorsAre DEF KilledInv, KilledShape, Inside
<1>3. Stages'
  BY DEF KilledInv, KilledShape, Stages, Finishing
<1>4. Recalled'
  <2>1. \A n \in notes : Kept(n) => Kept(n)'
    BY DEF Kept, KilledInv, KilledShape, Noted
  <2>2. \A u \in Jobs \ {t} : ~Creating(u)
    BY CreatorsAre DEF KilledInv, Inside
  <2>3. \E n \in notes' : n.owner = t /\ n.live
    <3>1. [owner |-> t, seed |-> r.seed, here |-> FALSE, live |-> TRUE] \in notes'
      OBVIOUS
    <3> QED
      BY <3>1
  <2> QED
    BY <2>1, <2>2, <2>3 DEF KilledInv, KilledShape, Recalled, Inside
<1>5. Remembered'
  BY DEF KilledInv, KilledShape, Remembered
<1> QED
  BY <1>1, <1>2, <1>3, <1>4, <1>5 DEF KilledInv

\* A `ready` changes nothing as it begins.
LEMMA BeginsReadyKeeps ==
  ASSUME KilledInv, NEW t \in Jobs, BeginsReady(t)
  PROVE  KilledInv'
<1> USE DEF BeginsReady, Goes, Creating
<1>1. KilledShape'
  BY DEF KilledInv, KilledShape, Noted
<1>2. Inside' /\ Stages'
  BY DEF KilledInv, KilledShape, Inside, Stages, Finishing
<1>3. Recalled'
  <2>1. \A n \in notes : Kept(n) => Kept(n)'
    BY DEF Kept, KilledInv, KilledShape, Noted
  <2> QED
    BY <2>1 DEF KilledInv, KilledShape, Recalled
<1>4. Remembered'
  BY DEF KilledInv, KilledShape, Remembered
<1> QED
  BY <1>1, <1>2, <1>3, <1>4 DEF KilledInv

\* Who leaves before it brought anything up takes its own note along, who
\* leaves later leaves a workspace that is configured.
LEMMA LeavesKeeps ==
  ASSUME KilledInv, NEW t \in Jobs, Leaves(t)
  PROVE  KilledInv'
<1> USE DEF Leaves, Goes, Unlocks, Creating
<1>1. KilledShape'
  BY DEF KilledInv, KilledShape, Noted
<1>2. Inside' /\ Stages'
  BY DEF KilledInv, KilledShape, Inside, Stages, Finishing
<1>3. Recalled'
  <2> SUFFICES ASSUME ~configured PROVE Recalled'
    BY DEF Recalled
  <2>1. \A n \in notes : (n \in notes' /\ (Kept(n) => Kept(n)')) \/ (pc[t] = "checks" /\ n.owner = t /\ n.live)
    BY DEF Kept, KilledInv, KilledShape, Stages, Noted
  <2>2. \A n \in notes : Kept(n) => n \in notes' /\ Kept(n)'
    BY <2>1 DEF Kept
  <2>3. \A n \in notes : n.owner # t => n \in notes'
    BY <2>1
  <2> QED
    BY <2>2, <2>3 DEF KilledInv, KilledShape, Recalled
<1>4. Remembered'
  BY DEF KilledInv, KilledShape, Remembered
<1> QED
  BY <1>1, <1>2, <1>3, <1>4 DEF KilledInv

\* What is brought up is noted.
LEMMA RisesKeeps ==
  ASSUME KilledInv, NEW t \in Jobs, Rises(t)
  PROVE  KilledInv'
<1> USE DEF Rises, Goes, Creating
<1>0. Creating(t)
  BY DEF KilledInv, KilledShape, Inside, Finishing
<1>1. KilledShape'
  BY DEF KilledInv, KilledShape, Noted
<1>2. Inside' /\ Stages'
  BY <1>0 DEF KilledInv, KilledShape, Inside, Stages, Finishing
<1>3. Recalled'
  <2>1. \A n \in notes : Kept(n) => Kept(n)'
    BY DEF Kept, KilledInv, KilledShape, Noted
  <2>2. CASE pc[t] = "checks"
    BY <2>1, <2>2 DEF KilledInv, KilledShape, Recalled
  <2>3. CASE pc[t] = "up"
    <3>1. ~configured => \E n \in notes : n.owner = t
      BY <1>0, <2>3 DEF KilledInv, Recalled
    <3>2. \A n \in notes : n.owner = t => Kept(n)'
      BY <1>0, <2>3 DEF Kept, KilledInv, KilledShape
    <3> QED
      BY <2>3, <3>1, <3>2 DEF KilledInv, KilledShape, Recalled
  <2> QED
    BY <2>2, <2>3
<1>4. Remembered'
  BY DEF KilledInv, KilledShape, Remembered
<1> QED
  BY <1>1, <1>2, <1>3, <1>4 DEF KilledInv

\* Nobody clears a note before the workspace is configured.
LEMMA WalksKeeps ==
  ASSUME KilledInv, NEW t \in Jobs, Walks(t)
  PROVE  KilledInv'
<1> USE DEF Walks, Goes, Creating
<1>1. KilledShape'
  BY DEF KilledInv, KilledShape, Noted, Finishing
<1>2. Inside'
  BY CreatorsAre DEF KilledInv, KilledShape, Inside, Finishing
<1>3. Stages'
  BY DEF KilledInv, KilledShape, Stages, Finishing
<1>4. Recalled'
  <2> SUFFICES ASSUME ~configured' PROVE Recalled'
    BY DEF Recalled
  <2>1. pc[t] \in Finishing \cup {"seed"} => configured /\ configured' = configured
    BY DEF KilledInv, KilledShape, Stages, Finishing
  <2>2. pc[t] = "wait" /\ notes' = notes /\ ~configured /\ Goes(t, "configure")
    BY <2>1
  <2>3. \A n \in notes : Kept(n) => Kept(n)'
    BY <2>2 DEF Kept, KilledInv, KilledShape, Noted
  <2> QED
    BY <2>2, <2>3 DEF KilledInv, KilledShape, Recalled
<1>5. Remembered'
  BY DEF KilledInv, KilledShape, Remembered
<1> QED
  BY <1>1, <1>2, <1>3, <1>4, <1>5 DEF KilledInv

\* The notes of those who died tell of what they brought up.
LEMMA DiesKeeps ==
  ASSUME KilledInv, NEW p, Dies(p)
  PROVE  KilledInv'
<1> USE DEF Dies, Creating
<1>0. \A n \in notes : n \in Noted(Jobs) /\ Spared(n, p) \in BOOLEAN
  BY DEF KilledInv, KilledShape, Spared, Noted
<1>1. KilledShape'
  <2>1. \A n \in notes : Marked(n, Spared(n, p)) \in Noted(Jobs)
    BY <1>0, Marks
  <2> QED
    BY <2>1 DEF KilledInv, KilledShape
<1>2. \A t \in Jobs : pc'[t] # "idle" => pc'[t] = pc[t] /\ ProcOf[t] # p
  BY DEF KilledInv, KilledShape
<1>3. Inside'
  BY <1>2, CreatorsAre DEF KilledInv, KilledShape, Inside
<1>4. Stages'
  BY <1>2 DEF KilledInv, KilledShape, Stages, Finishing
<1>5. Recalled'
  <2>1. \A n \in notes : Kept(n) => Kept(Marked(n, Spared(n, p)))'
    <3> SUFFICES ASSUME NEW n \in notes, Kept(n) PROVE Kept(Marked(n, Spared(n, p)))'
      OBVIOUS
    <3>1. CASE ~Spared(n, p)
      BY <1>0, <3>1, Marks DEF Kept
    <3>2. CASE Spared(n, p)
      <4>1. n.live /\ ProcOf[n.owner] # p /\ Marked(n, Spared(n, p)) = n /\ n.owner \in Jobs
        BY <1>0, <3>2, Marks DEF Spared, Noted
      <4>2. Creating(n.owner) /\ pc[n.owner] # "checks"
        BY <4>1 DEF Kept
      <4>3. pc'[n.owner] = pc[n.owner] /\ kind' = kind
        BY <4>1
      <4> QED
        BY <4>1, <4>2, <4>3 DEF Kept
    <3> QED
      BY <3>1, <3>2
  <2>2. \A t \in Jobs : Creating(t)' => Creating(t) /\ ProcOf[t] # p /\ pc'[t] = pc[t]
    BY DEF KilledInv, KilledShape
  <2>3. \A n \in notes : ProcOf[n.owner] # p => Marked(n, Spared(n, p)) = n
    BY <1>0, Marks DEF Spared, Noted
  <2> QED
    BY <2>1, <2>2, <2>3 DEF KilledInv, Recalled
<1>6. Remembered'
  <2>1. \A n \in notes' : \E m \in notes : n.here = m.here
    BY <1>0, Marks
  <2> QED
    BY <2>1 DEF KilledInv, Remembered
<1> QED
  BY <1>1, <1>3, <1>4, <1>5, <1>6 DEF KilledInv

\* The invariant is inductive.
LEMMA KilledNext ==
  ASSUME KilledInv, Killed!Next
  PROVE  KilledInv'
<1>1. ASSUME NEW t \in Jobs, Killed!Step(t) PROVE KilledInv'
  BY <1>1, KilledSteps, BeginsReadyKeeps, LeavesKeeps, RisesKeeps, WalksKeeps
<1>2. ASSUME NEW t \in Jobs, NEW r \in Waiting, Killed!Begin(t, r) PROVE KilledInv'
  BY <1>2, KilledBegins, BeginsKeeps DEF KilledInv
<1>3. ASSUME NEW p, Killed!Kill(p) PROVE KilledInv'
  BY <1>3, KilledDies, DiesKeeps DEF KilledInv
<1> QED
  BY <1>1, <1>2, <1>3 DEF Killed!Next

\* It says that a workspace that was brought up and not configured is noted.
LEMMA KilledNoted == ASSUME KilledInv PROVE Killed!ConfigurationIsNoted
BY DEF KilledInv, Recalled, Killed!ConfigurationIsNoted

\* Who seeds in `up` has the lock.
LEMMA KilledSerialised == ASSUME KilledInv PROVE Killed!SeedsAreSerialised
<1> SUFFICES ASSUME NEW t \in Jobs, NEW u \in Jobs, t # u, Killed!Seeding(t),
                    Killed!Seeding(u) \/ pc[u] \in {"checks", "up"}
             PROVE  FALSE
  BY DEF Killed!SeedsAreSerialised
<1>1. \A v \in Jobs : Killed!Seeding(v) \/ pc[v] \in {"checks", "up"} => lock = v
  BY DEF KilledInv, KilledShape, Inside, Creating, Killed!Seeding, Finishing
<1> QED
  BY <1>1

\* A `ready` that is about to clear has seeded, or there is nothing to seed.
Sought == \A t \in Jobs : 
  kind[t] = "ready" /\ pc[t] = "clear" => seeded \/ \A n \in notes : ~Lost(n)

\* `ready` comes to the clearing of the notes from a look at them, or from a seed.
LEMMA ClearsBy ==
  ASSUME KilledInv, NEW t \in Jobs, Killed!Step(t), pc[t] # "clear", pc'[t] = "clear"
  PROVE  Killed!Pending(t) \/ seeded' = TRUE
<1> USE DEF Killed!Goto
<1>1. CASE Killed!Refuse(t) \/ Killed!NotReady(t) \/ Killed!Clear(t) \/ Killed!Leave(t) \/ Killed!CliClear(t)
           \/ Killed!SeedLockTimeout(t) \/ Killed!SeedFails(t) \/ Killed!ComposeFails(t)
  <2>1. CASE Killed!Abort(t)
    BY <2>1, AbortsAlone DEF KilledInv, KilledShape
  <2>2. CASE \E open \in SUBSET Noted(Jobs) : Killed!End(t, open) \/ Killed!Finalized(t, open)
    BY <2>2, EndsAlone, FinalizesAlone DEF KilledInv, KilledShape
  <2>3. notes \in SUBSET Noted(Jobs) /\ {} \in SUBSET Noted(Jobs)
    BY DEF KilledInv, KilledShape
  <2> QED
    BY <1>1, <2>1, <2>2, <2>3 DEF Killed!Refuse, Killed!NotReady, Killed!Clear, Killed!Leave, Killed!CliClear,
       Killed!SeedLockTimeout, Killed!SeedFails, Killed!ComposeFails, Killed!Seeding
<1>2. CASE Killed!Accept(t) \/ Killed!ComposeUp(t) \/ Killed!BeginReady(t) \/ Killed!Serving(t)
           \/ Killed!Configure(t) \/ Killed!SeedLock(t)
  BY <1>2 DEF Killed!Accept, Killed!ComposeUp, Killed!BeginReady, Killed!Serving, Killed!Configure,
     Killed!SeedLock, KilledInv, KilledShape
<1> QED
  BY <1>1, <1>2 DEF Killed!Step, Killed!Seeded

\* Where all jobs are of one `serve`, which dies as one, nobody loses a seed
\* between the look at the notes and their clearing.
LEMMA SoughtKept ==
  ASSUME KilledInv, Sought, Killed!Next, OneServe
  PROVE  Sought'
<1> SUFFICES ASSUME NEW t \in Jobs, kind'[t] = "ready", pc'[t] = "clear", ~seeded'
             PROVE  \A n \in notes' : ~Lost(n)
  BY DEF Sought
<1> USE DEF Goes, Finishing
<1>1. ASSUME NEW u \in Jobs, Killed!Step(u) PROVE \A n \in notes' : ~Lost(n)
  <2>1. BeginsReady(u) \/ Leaves(u) \/ Rises(u) \/ Walks(u)
    BY <1>1, KilledSteps
  <2>2. kind[t] = "ready" /\ notes' \subseteq notes /\ ~seeded
    BY <2>1 DEF BeginsReady, Leaves, Rises, Walks, KilledInv, KilledShape
  <2>3. CASE pc[t] = "clear"
    BY <2>2, <2>3 DEF Sought
  <2>4. CASE pc[t] # "clear"
    <3>1. u = t
      BY <2>1, <2>4 DEF BeginsReady, Leaves, Rises, Walks, KilledInv, KilledShape
    <3>2. Killed!Pending(t)
      BY <1>1, <2>4, <3>1, ClearsBy
    <3>3. ASSUME NEW n \in notes, Lost(n) PROVE FALSE
      <4>1. ~n.here /\ ~knew[t]
        BY <2>2 DEF KilledInv, KilledShape, Remembered
      <4>2. \E m \in notes : Lost(m) /\ pc'[t] = IF ~m.here /\ ~knew[t] THEN "seedlock" ELSE "clear"
        BY <3>2, <3>3 DEF Killed!Pending, Killed!Goto, Lost, KilledInv, KilledShape
      <4> QED
        BY <2>2, <4>1, <4>2 DEF KilledInv, Remembered
    <3> QED
      BY <2>2, <3>3
  <2> QED
    BY <2>3, <2>4
<1>2. ASSUME NEW u \in Jobs, NEW r \in Waiting, Killed!Begin(u, r) PROVE \A n \in notes' : ~Lost(n)
  <2>1. Begins(u, r)
    BY <1>2, KilledBegins DEF KilledInv
  <2>2. kind[t] = "ready" /\ pc[t] = "clear" /\ ~seeded
    BY <2>1 DEF Begins, KilledInv, KilledShape
  <2>3. \A n \in notes' : n \in notes \/ n.live = TRUE
    BY <2>1 DEF Begins
  <2> QED
    BY <2>2, <2>3 DEF Sought, Lost
<1>3. ASSUME NEW p, Killed!Kill(p) PROVE FALSE
  <2>1. Dies(p) /\ \E u \in Jobs : ProcOf[u] = p
    BY <1>3, KilledDies DEF KilledInv, Killed!Kill
  <2> QED
    BY <2>1 DEF Dies, OneServe
<1> QED
  BY <1>1, <1>2, <1>3 DEF Killed!Next

\* So a `ready` that clears the notes of a lost seed has seeded.
LEMMA KilledFinishes ==
  ASSUME KilledInv, Sought
  PROVE  Killed!FinishesTheSeed
BY DEF KilledInv, Sought, Lost, Killed!FinishesTheSeed

-----------------------------------------------------------------------------
(* A job thread and a CLI command, every step of which may fail.           *)

\* Before a call has seeded.
Early == {"checks", "up", "wait", "configure", "pending", "clear", "seed", "cliseed"}

\* Nothing is killed, so what is left is of a command, which seeds by itself.
Fair(some) == \A n \in some :
  n \in Noted(Callers) /\ (n.here <=> n.owner \in Clis) /\ (~n.live => n.here)

\* A call seeds at one place.
Unseeded(t) ==
  /\ pc[t] \in Early => seeds[t] = 0
  /\ pc[t] = "leave" /\ t \in Clis => seeds[t] = 0
  /\ pc[t] = "seed" => t \notin Clis
  /\ pc[t] \notin {"seedlock", "finish"}

StillInv ==
  /\ DOMAIN pc = Callers /\ seeds \in [Callers -> {0, 1}]
  /\ Fair(notes)
  /\ \A t \in Callers : Unseeded(t)

\* The invariant holds where nobody has begun.
LEMMA StillStarts == ASSUME Still!Init PROVE StillInv
BY DEF Still!Init, StillInv, Fair, Unseeded, Early

Survives(n, dead) == n.live /\ ProcOf[n.owner] \notin dead

\* A process that ends leaves notes that are its own.
LEMMA StillEnds ==
  ASSUME StillInv, NEW t \in Callers, NEW open, Fair(open), Still!End(t, open)
  PROVE  pc' = [pc EXCEPT ![t] = "idle"] /\ Fair(notes')
<1> DEFINE dead == IF t \in Clis THEN {ProcOf[t]} ELSE {}
<1>1. notes' = {Marked(n, Survives(n, dead)) : n \in open}
  BY DEF Still!End, Still!Orphaned, Marked, Survives
<1>2. ASSUME NEW n \in open
      PROVE  LET m == Marked(n, Survives(n, dead)) IN
             m \in Noted(Callers) /\ (m.here <=> m.owner \in Clis) /\ (~m.live => m.here)
  <2>1. Survives(n, dead) \in BOOLEAN /\ n \in Noted(Callers) /\ n.owner \in Callers
    BY DEF Survives, Fair, Noted
  <2>2. ~Survives(n, dead) => n.here
    BY <2>1, CommandsAre DEF Survives, Fair
  <2> HIDE DEF dead
  <2>3. LET m == Marked(n, Survives(n, dead)) IN
        m \in Noted(Callers) /\ m.owner = n.owner /\ m.here = n.here /\ m.live = Survives(n, dead)
    BY <2>1, Marks
  <2> QED
    BY <2>2, <2>3 DEF Fair
<1> HIDE DEF dead
<1>3. Fair(notes')
  BY <1>1, <1>2 DEF Fair
<1> QED
  BY <1>3 DEF Still!End, Still!Goto, Fair

\* The steps by what they do to a call's place, its seeds and the notes.
Moves(t, place, count) ==
  /\ pc' = [pc EXCEPT ![t] = place] /\ seeds' = [seeds EXCEPT ![t] = count]
  /\ Fair(notes')

\* A call that moves as its place allows keeps the invariant.
LEMMA MovesKeep ==
  ASSUME StillInv, NEW t \in Callers, NEW place, NEW count, Moves(t, place, count),
         count \in {0, 1}, place \in Early => count = 0, place = "leave" /\ t \in Clis => count = 0,
         place = "seed" => t \notin Clis, place \notin {"seedlock", "finish"}
  PROVE  StillInv'
BY DEF Moves, StillInv, Unseeded

\* Who comes to the marker leaves, ends, or is a job that goes on to its seed.
LEMMA StillFinalizes ==
  ASSUME StillInv, NEW t \in Callers, pc[t] = "clear", Still!Clear(t)
  PROVE  \/ Moves(t, "idle", seeds[t]) \/ Moves(t, "leave", seeds[t])
         \/ Moves(t, "seed", seeds[t]) /\ t \notin Clis
<1>1. Fair({}) /\ seeds' = [seeds EXCEPT ![t] = seeds[t]]
  BY DEF Fair, Still!Clear, Still!call, StillInv
<1>2. CASE Still!End(t, {})
  BY <1>1, <1>2, StillEnds DEF Moves
<1>3. CASE ~Still!End(t, {})
  <2>1. /\ pc' = [pc EXCEPT ![t] = IF req[t].seed /\ t \notin Clis THEN "seed" ELSE "leave"]
        /\ notes' = {}
    BY <1>3 DEF Still!Clear, Still!Finalized, Still!Goto
  <2>2. Fair(notes')
    BY <2>1 DEF Fair
  <2> QED
    BY <1>1, <2>1, <2>2 DEF Moves
<1> QED
  BY <1>2, <1>3

\* A step of a call keeps the invariant.
LEMMA StillSteps ==
  ASSUME StillInv, NEW t \in Callers, Still!Step(t)
  PROVE  StillInv'
<1> DEFINE same == seeds[t]
<1>0. /\ same \in {0, 1}
      /\ pc[t] \in Early => same = 0
      /\ pc[t] = "leave" /\ t \in Clis => same = 0
      /\ pc[t] = "seed" => t \notin Clis
      /\ pc[t] \notin {"seedlock", "finish"}
  BY DEF StillInv, Unseeded
<1>1. UNCHANGED seeds => seeds' = [seeds EXCEPT ![t] = same]
  BY DEF StillInv
<1>2. UNCHANGED notes => Fair(notes')
  BY DEF StillInv, Fair
<1>3. Fair(notes \ Still!Own(t)) /\ Fair(notes) /\ Fair({})
  BY DEF StillInv, Fair
<1>4. ASSUME NEW open, Fair(open), Still!End(t, open), UNCHANGED seeds PROVE StillInv'
  BY <1>0, <1>1, <1>4, StillEnds, MovesKeep DEF Moves, Early
<1>5. CASE Still!Refuse(t) \/ Still!NotReady(t) \/ Still!CliClear(t) \/ Still!ComposeFails(t) \/ Still!SeedFails(t)
           \/ (Still!Leave(t) /\ t \notin Clis)
  <2>1. UNCHANGED seeds
    BY <1>5 DEF Still!Refuse, Still!NotReady, Still!CliClear, Still!ComposeFails, Still!SeedFails, Still!Leave, Still!call
  <2>2. \E open \in {notes \ Still!Own(t), notes, {}} : Still!End(t, open)
    BY <1>0, <1>5 DEF Still!Refuse, Still!NotReady, Still!CliClear, Still!ComposeFails, Still!SeedFails, Still!Leave,
       Still!Abort, Still!Seeding
  <2> QED
    BY <1>3, <1>4, <2>1, <2>2
<1>6. CASE Still!Clear(t)
  BY <1>0, <1>6, StillFinalizes, MovesKeep DEF Early, Still!Clear
<1>7. CASE Still!Accept(t) \/ Still!ComposeUp(t) \/ Still!Serving(t) \/ Still!Configure(t)
  <2>1. \E place \in {"up", "wait", "leave", "configure", "pending"} : Moves(t, place, same)
    BY <1>1, <1>2, <1>7 DEF Still!Accept, Still!ComposeUp, Still!Serving, Still!Configure, Still!Goto, Still!call, Moves
  <2> QED
    BY <1>0, <1>7, <2>1, MovesKeep DEF Early, Still!Accept, Still!ComposeUp, Still!Serving, Still!Configure
<1>8. CASE Still!BeginReady(t)
  <2>1. Moves(t, "wait", 0)
    BY <1>2, <1>8 DEF Still!BeginReady, Still!Goto, Moves
  <2> QED
    BY <2>1, MovesKeep DEF Early
<1>9. CASE Still!Pending(t)
  <2>1. \A n \in notes : ~n.live => n.here
    BY DEF StillInv, Fair
  <2>2. pc[t] = "pending" /\ Moves(t, "clear", same)
    BY <1>1, <1>2, <1>9, <2>1 DEF Still!Pending, Still!Goto, Still!call, Moves
  <2> QED
    BY <1>0, <2>2, MovesKeep DEF Early
<1>10. CASE Still!Seeded(t)
  <2>1. pc[t] \in {"seed", "cliseed"} /\ same = 0
    BY <1>0, <1>10 DEF Still!Seeded, Still!Seeding, Early
  <2>2. seeds' = [seeds EXCEPT ![t] = 1]
    BY <1>10, <2>1 DEF Still!Seeded, StillInv
  <2>3. Moves(t, IF pc[t] = "seed" THEN "leave" ELSE "cliclear", 1)
    BY <1>2, <1>10, <2>1, <2>2 DEF Still!Seeded, Still!Goto, Moves
  <2> QED
    BY <1>0, <2>1, <2>3, MovesKeep DEF Early
<1>11. CASE Still!Leave(t) /\ t \in Clis
  <2>1. \E place \in {"cliseed", "cliclear"} : Moves(t, place, 0)
    BY <1>0, <1>1, <1>2, <1>11 DEF Still!Leave, Still!Goto, Still!call, Moves
  <2> QED
    BY <2>1, MovesKeep DEF Early
<1> QED
  BY <1>0, <1>5, <1>6, <1>7, <1>8, <1>9, <1>10, <1>11 DEF Still!Step, Still!SeedLock, Still!SeedLockTimeout

\* So does its beginning.
LEMMA StillBegins ==
  ASSUME StillInv, NEW t \in Callers, NEW r \in [seed : BOOLEAN, wait : BOOLEAN], Still!Begin(t, r)
  PROVE  StillInv'
<1>1. ASSUME NEW own \in BOOLEAN, (t \in Clis) = own PROVE Fair(notes')
  <2>1. notes' = notes \cup {[owner |-> t, seed |-> r.seed, here |-> own, live |-> TRUE]}
    BY <1>1 DEF Still!Begin
  <2>2. Fair({[owner |-> t, seed |-> r.seed, here |-> own, live |-> TRUE]})
    <3> DEFINE fresh == [owner |-> t, seed |-> r.seed, here |-> own, live |-> TRUE]
    <3>1. fresh.owner = t /\ fresh.here = own /\ fresh.live = TRUE
      OBVIOUS
    <3>2. fresh \in Noted(Callers)
      BY DEF Noted
    <3>3. own <=> t \in Clis
      BY <1>1
    <3> QED
      BY <3>1, <3>2, <3>3 DEF Fair
  <2> QED
    BY <2>1, <2>2 DEF Fair, StillInv
<1>2. Fair(notes')
  <2>1. (t \in Clis) = TRUE \/ (t \in Clis) = FALSE
    OBVIOUS
  <2> QED
    BY <1>1, <2>1
<1>3. Moves(t, "checks", 0)
  BY <1>2 DEF Still!Begin, Still!Goto, Moves
<1> QED
  BY <1>3, MovesKeep DEF Early

\* The invariant is inductive.
LEMMA StillNext ==
  ASSUME StillInv, Still!Next
  PROVE  StillInv'
BY StillSteps, StillBegins DEF Still!Next, Still!Kill

\* It says that no call seeds twice.
LEMMA StillOnce == ASSUME StillInv PROVE Still!OneSeedPerCall
BY DEF StillInv, Still!OneSeedPerCall

-----------------------------------------------------------------------------
(* Benchmarks.                                                             *)

\* What is noted, or under way, was begun.
BenchRuns ==
  /\ runs \in Nat
  /\ DOMAIN benchAt = Procs /\ DOMAIN run = Procs /\ DOMAIN rec = Procs
  /\ benchNotes \subseteq 1 .. runs
  /\ \A p \in Procs : rec[p] \subseteq 1 .. runs /\ (benchAt[p] # "idle" => run[p] \in 1 .. runs)

\* Where no `down` was refused and no two met.
Undisturbed == scars = {} =>
  /\ \A p, q \in Procs : benchAt[p] # "idle" /\ benchAt[q] # "idle" => p = q
  /\ "bench" \in boxes => benchNotes # {} /\ bench # "none"
  /\ \A p \in Procs : benchAt[p] \in {"write", "up"} => run[p] \in benchNotes
  /\ \A p \in Procs :
       benchAt[p] \in {"remove_old", "remove", "remove_lost", "clear"} => "bench" \notin boxes

\* Once the name is a person's, only benchmarks from before still know it.
Older == bench = "own" =>
  /\ benchNotes \subseteq before
  /\ \A p \in Procs : rec[p] \subseteq before /\ (benchAt[p] \notin {"idle", "look"} => run[p] \in before)

BenchInv == BenchRuns /\ Undisturbed /\ Older

\* The invariant holds where nothing was run.
LEMMA BenchStarts == ASSUME Benches!Init PROVE BenchInv
BY DEF Benches!Init, BenchInv, BenchRuns, Undisturbed, Older

\* What is noted was run.
LEMMA RunsGrow ==
  ASSUME BenchRuns, Benches!Next
  PROVE  BenchRuns'
<1> USE DEF Benches!Go, Benches!At, Benches!Stop
<1>1. CASE Benches!Make \/ Benches!TearDown
  BY <1>1 DEF Benches!Make, Benches!TearDown, BenchRuns
<1>2. ASSUME NEW p \in Procs, Benches!Begin(p) PROVE BenchRuns'
  BY <1>2 DEF Benches!Begin, BenchRuns
<1>3. ASSUME NEW p \in Procs, Benches!Look(p) \/ Benches!NoteBench(p) \/ Benches!Write(p) \/ Benches!BenchUp(p)
      PROVE BenchRuns'
  BY <1>3 DEF Benches!Look, Benches!NoteBench, Benches!Write, Benches!BenchUp, BenchRuns
<1>4. ASSUME NEW p \in Procs, Benches!Work(p) \/ Benches!BenchDown(p) \/ Benches!Remove(p) \/ Benches!ClearBench(p)
      PROVE BenchRuns'
  BY <1>4 DEF Benches!Work, Benches!BenchDown, Benches!Remove, Benches!ClearBench, BenchRuns
<1>5. ASSUME NEW p \in Procs, Benches!Recover(p) \/ Benches!Repair(p) \/ Benches!Kill(p) PROVE BenchRuns'
  BY <1>5 DEF Benches!Recover, Benches!Repair, Benches!Kill, BenchRuns
<1> QED
  BY <1>1, <1>2, <1>3, <1>4, <1>5 DEF Benches!Next

\* Where no `down` was refused and no two met, containers are noted until they
\* are gone.
LEMMA UndisturbedStays ==
  ASSUME BenchRuns, Undisturbed, Benches!Next
  PROVE  Undisturbed'
<1> USE DEF Benches!Go, Benches!At, Benches!Stop, BenchRuns
<1>1. CASE Benches!Make \/ Benches!TearDown
  BY <1>1 DEF Benches!Make, Benches!TearDown, Undisturbed
<1>2. ASSUME NEW p \in Procs, Benches!Begin(p) PROVE Undisturbed'
  BY <1>2 DEF Benches!Begin, Benches!Meeting, Undisturbed
<1>3. ASSUME NEW p \in Procs, Benches!Look(p) PROVE Undisturbed'
  BY <1>3 DEF Benches!Look, Undisturbed
<1>4. ASSUME NEW p \in Procs, Benches!NoteBench(p) PROVE Undisturbed'
  BY <1>4 DEF Benches!NoteBench, Undisturbed
<1>5. ASSUME NEW p \in Procs, Benches!Write(p) \/ Benches!Work(p) PROVE Undisturbed'
  BY <1>5 DEF Benches!Write, Benches!Work, Undisturbed
<1>6. ASSUME NEW p \in Procs, Benches!BenchUp(p) PROVE Undisturbed'
  BY <1>6 DEF Benches!BenchUp, Undisturbed
<1>7. ASSUME NEW p \in Procs, Benches!BenchDown(p) PROVE Undisturbed'
  BY <1>7 DEF Benches!BenchDown, Undisturbed
<1>8. ASSUME NEW p \in Procs, Benches!Remove(p) PROVE Undisturbed'
  BY <1>8 DEF Benches!Remove, Undisturbed
<1>9. ASSUME NEW p \in Procs, Benches!ClearBench(p) PROVE Undisturbed'
  BY <1>9 DEF Benches!ClearBench, Undisturbed
<1>10. ASSUME NEW p \in Procs, Benches!Recover(p) \/ Benches!Kill(p) PROVE Undisturbed'
  BY <1>10 DEF Benches!Recover, Benches!Kill, Undisturbed
<1>11. ASSUME NEW p \in Procs, Benches!Repair(p) PROVE Undisturbed'
  BY <1>11 DEF Benches!Repair, Benches!Meeting, Undisturbed
<1> QED
  BY <1>1, <1>2, <1>3, <1>4, <1>5, <1>6, <1>7, <1>8, <1>9, <1>10, <1>11 DEF Benches!Next

\* The notes that a workspace's own benchmark finds are older than the
\* workspace.
LEMMA OlderStays ==
  ASSUME BenchRuns, Older, Benches!Next
  PROVE  Older'
<1> USE DEF Benches!Go, Benches!At, Benches!Stop, BenchRuns
<1>1. CASE Benches!Make \/ Benches!TearDown
  BY <1>1 DEF Benches!Make, Benches!TearDown, Older
<1>2. ASSUME NEW p \in Procs, Benches!Begin(p) \/ Benches!Look(p) \/ Benches!NoteBench(p) PROVE Older'
  BY <1>2 DEF Benches!Begin, Benches!Look, Benches!NoteBench, Older
<1>3. ASSUME NEW p \in Procs, Benches!Write(p) \/ Benches!BenchUp(p) \/ Benches!Work(p) \/ Benches!BenchDown(p) PROVE Older'
  BY <1>3 DEF Benches!Write, Benches!BenchUp, Benches!Work, Benches!BenchDown, Older
<1>4. ASSUME NEW p \in Procs, Benches!Remove(p) \/ Benches!ClearBench(p) \/ Benches!Recover(p) PROVE Older'
  BY <1>4 DEF Benches!Remove, Benches!ClearBench, Benches!Recover, Older
<1>5. ASSUME NEW p \in Procs, Benches!Repair(p) \/ Benches!Kill(p) PROVE Older'
  BY <1>5 DEF Benches!Repair, Benches!Kill, Older
<1> QED
  BY <1>1, <1>2, <1>3, <1>4, <1>5 DEF Benches!Next

\* Containers of a benchmark are noted.
LEMMA BenchNoted == ASSUME BenchInv PROVE Benches!BenchesAreNoted
BY DEF BenchInv, Undisturbed, Benches!BenchesAreNoted

\* Only a run that was noted before somebody made the workspace removes it.
LEMMA OwnStays == ASSUME BenchInv, Benches!Next PROVE Benches!OwnWorkspacesStay
<1> USE DEF Benches!Go, Benches!At, Benches!Stop, BenchInv, BenchRuns, Older
<1> SUFFICES ASSUME bench = "own", bench' # "own" \/ boxes' # boxes, ~Benches!TearDown
             PROVE  \E p \in Procs : benchAt'[p] # benchAt[p] /\ run[p] \in before
  BY DEF Benches!OwnWorkspacesStay
<1>1. PICK p \in Procs : Benches!Write(p) \/ Benches!BenchUp(p) \/ Benches!BenchDown(p) \/ Benches!Remove(p)
  BY DEF Benches!Next, Benches!Make, Benches!Begin, Benches!Look, Benches!NoteBench, Benches!Work,
     Benches!ClearBench, Benches!Recover, Benches!Repair, Benches!Kill
<1>2. benchAt[p] \notin {"idle", "look"} /\ benchAt'[p] # benchAt[p]
  BY <1>1 DEF Benches!Write, Benches!BenchUp, Benches!BenchDown, Benches!Remove
<1> QED
  BY <1>2

-----------------------------------------------------------------------------
(* People and their workspaces.                                            *)

Somebody == People \cup {Owners!NoOne}
IsTask(r) == /\ r = [at |-> r.at, who |-> r.who, name |-> r.name, undisturbed |-> r.undisturbed]
             /\ r.who \in Somebody

SpacesShape ==
  /\ DOMAIN spaces \subseteq NamesAre \ {<< >>}
  /\ \A n \in DOMAIN spaces : spaces[n] \in [made : Somebody, owner : Somebody]
  /\ spaces = [n \in DOMAIN spaces |-> spaces[n]]
TasksShape ==
  /\ task = [t \in Shells |-> task[t]] /\ \A t \in Shells : IsTask(task[t])

\* A workspace's name begins with the one who made it.
MakersShow == \A n \in DOMAIN spaces : spaces[n].made # Owners!NoOne => Owners!IsPrefix(spaces[n].made, n)

\* Who was let delete a workspace still may, if nobody came between.
ChecksHold == \A t \in Shells :
  task[t].at = "waiting" /\ task[t].undisturbed /\ Owners!Exists(task[t].name) =>
    Owners!may_destroy(task[t].name, task[t].who)

OwnerInv == SpacesShape /\ TasksShape /\ MakersShow /\ ChecksHold

\* What comes first is a prefix.
LEMMA Prefixed ==
  ASSUME NEW S, NEW p \in Seq(S), NEW n \in Seq(S)
  PROVE  Owners!IsPrefix(p, p \o n) /\ p \o n \in Seq(S)
BY DEF Owners!IsPrefix

\* Of two prefixes of a name one is the prefix of the other.
LEMMA PrefixesMeet ==
  ASSUME NEW S, NEW p \in Seq(S), NEW q \in Seq(S), NEW n \in Seq(S),
         Owners!IsPrefix(p, n), Owners!IsPrefix(q, n)
  PROVE  Owners!IsPrefix(p, q) \/ Owners!IsPrefix(q, p)
BY DEF Owners!IsPrefix

\* Two words behind one, or behind none.
LEMMA Joined ==
  ASSUME NEW S, NEW x \in S, NEW y \in S
  PROVE  << >> \o <<x, y>> = <<x, y>> /\ <<y>> \o <<x, y>> = <<y, x, y>>
<1>1. << >> \in Seq(S) /\ <<y>> \in Seq(S) /\ <<x, y>> \in Seq(S) /\ <<y, x, y>> \in Seq(S)
  OBVIOUS
<1>2. << >> \o <<x, y>> = <<x, y>>
  BY <1>1, ConcatEmptySeq
<1>3. \A i \in 1..3 : (<<y>> \o <<x, y>>)[i] = <<y, x, y>>[i]
  BY <1>1, ConcatProperties
<1>4. Len(<<y>> \o <<x, y>>) = 3 /\ <<y>> \o <<x, y>> \in Seq(S)
  BY <1>1, ConcatProperties
<1> QED
  BY <1>1, <1>2, <1>3, <1>4, SeqEqual

\* A name made for somebody begins with the maker's name.
LEMMA MadeNames ==
  ASSUME NEW p \in Somebody, NEW w \in Words
  PROVE  /\ Owners!derive_for(w, p) \in NamesAre
         /\ Owners!derive_for(w, p) # << >> => Owners!IsPrefix(p, Owners!derive_for(w, p))
<1>5. << >> \in NamesAre
  BY DEF NamesAre
<1>1. p \in NamesAre /\ w.parts \in NamesAre /\ Base \in NamesAre
  BY <1>5, PeopleAre DEF Somebody, Owners!NoOne
<1>2. \A n \in NamesAre : Owners!IsPrefix(<< >>, n)
  BY DEF Owners!IsPrefix, NamesAre
<1>3. ASSUME NEW n \in NamesAre
      PROVE  Owners!owner_prefix(n, p) \in NamesAre /\ Owners!IsPrefix(p, Owners!owner_prefix(n, p))
  <2>1. p \o n \in NamesAre /\ Owners!IsPrefix(p, p \o n)
    BY <1>1, Prefixed DEF NamesAre
  <2> QED
    BY <1>2, <2>1 DEF Owners!owner_prefix, Owners!IsStrictPrefix, Owners!NoOne
<1>4. p \o Base \in NamesAre /\ Owners!IsPrefix(p, p \o Base)
  BY <1>1, Prefixed DEF NamesAre
<1> QED
  BY <1>1, <1>3, <1>4, <1>5 DEF Owners!derive_for, Owners!derive_name, Owners!sanitize, Owners!NoName

\* Who acts is one of the people, or nobody.
LEMMA Actors == ASSUME NEW p \in People PROVE Owners!cli_actor(p) \in {p, Owners!NoOne} /\ Owners!cli_actor(p) \in Somebody
BY DEF Owners!cli_actor, Somebody

\* The invariant holds where there is no workspace.
LEMMA OwnersStart == ASSUME Owners!Init PROVE OwnerInv
<1>1. SpacesShape /\ MakersShow
  BY DEF Owners!Init, SpacesShape, MakersShow
<1>2. TasksShape /\ ChecksHold
  BY DEF Owners!Init, TasksShape, ChecksHold, IsTask, Owners!Idle, Somebody
<1> QED
  BY <1>1, <1>2 DEF OwnerInv

\* Who waits no longer acts on what was checked of these names.
LEMMA Disturbs ==
  ASSUME TasksShape, NEW names, Owners!Disturb(names)
  PROVE  /\ TasksShape'
         /\ \A t \in Shells : /\ task'[t].at = task[t].at /\ task'[t].name = task[t].name /\ task'[t].who = task[t].who
                              /\ task'[t].undisturbed => task[t].undisturbed /\ task[t].name \notin names
<1>1. \A t \in Shells : task'[t] = IF task[t].name \in names THEN [task[t] EXCEPT !.undisturbed = FALSE] ELSE task[t]
  BY DEF Owners!Disturb
<1>2. \A t \in Shells : IsTask(task[t])
  BY DEF TasksShape
<1>3. \A t \in Shells : IsTask(task'[t]) /\ task'[t].at = task[t].at /\ task'[t].name = task[t].name /\ task'[t].who = task[t].who
                        /\ (task'[t].undisturbed => task[t].undisturbed /\ task[t].name \notin names)
  BY <1>1, <1>2 DEF IsTask
<1>4. task' = [t \in Shells |-> task'[t]]
  BY DEF Owners!Disturb
<1> QED
  BY <1>3, <1>4 DEF TasksShape

\* A workspace is made under a name that shows its maker.
LEMMA UpKeeps ==
  ASSUME OwnerInv, NEW p \in People, NEW w \in Words, NEW rebuild \in BOOLEAN, Owners!Up(p, w, rebuild)
  PROVE  OwnerInv'
<1> DEFINE who == Owners!cli_actor(p)
<1> DEFINE n == Owners!derive_for(w, who)
<1> DEFINE new == ~Owners!Exists(n) \/ rebuild
<1>1. who \in Somebody /\ n \in NamesAre \ {<< >>} /\ Owners!IsPrefix(who, n)
  BY Actors, MadeNames DEF Owners!Up, Owners!NoName
<1>2. CASE ~new
  BY <1>2 DEF Owners!Up, OwnerInv, SpacesShape, TasksShape, MakersShow, ChecksHold, Owners!Exists, Owners!may_destroy,
     Owners!owner_of
<1>3. CASE new
  <2>1. /\ spaces' = [m \in DOMAIN spaces \cup {n} |-> IF m = n THEN [made |-> who, owner |-> Owners!NoOne] ELSE spaces[m]]
        /\ Owners!Disturb({n}) /\ UNCHANGED <<role, policy>>
    BY <1>3 DEF Owners!Up
  <2> HIDE DEF n, who, new
  <2>2. SpacesShape' /\ MakersShow'
    BY <1>1, <2>1 DEF OwnerInv, SpacesShape, MakersShow, Somebody
  <2>3. ChecksHold' /\ TasksShape'
    BY <2>1, Disturbs DEF OwnerInv, ChecksHold, Owners!Exists, Owners!may_destroy, Owners!owner_of
  <2> QED
    BY <2>2, <2>3 DEF OwnerInv
<1> QED
  BY <1>2, <1>3

\* A workspace that is handed over is no longer what was checked.
LEMMA HandOverKeeps ==
  ASSUME OwnerInv, NEW w \in Words, NEW to \in People, Owners!set_owner(w, to)
  PROVE  OwnerInv'
<1> DEFINE n == Owners!resolve_name(w, Owners!NoOne)
<1>1. spaces' = [spaces EXCEPT ![n].owner = to] /\ Owners!Disturb({n}) /\ UNCHANGED <<role, policy>>
  BY DEF Owners!set_owner
<1> HIDE DEF n
<1>2. SpacesShape' /\ MakersShow'
  BY <1>1 DEF OwnerInv, SpacesShape, MakersShow, Somebody
<1>3. ChecksHold' /\ TasksShape'
  BY <1>1, Disturbs DEF OwnerInv, ChecksHold, SpacesShape, Owners!Exists, Owners!may_destroy, Owners!owner_of
<1> QED
  BY <1>2, <1>3 DEF OwnerInv

\* Nor is anything, once roles have changed.
LEMMA RolesKeep ==
  ASSUME OwnerInv, NEW p \in People, NEW r, Owners!SetRole(p, r)
  PROVE  OwnerInv'
<1>1. SpacesShape' /\ MakersShow'
  BY DEF Owners!SetRole, OwnerInv, SpacesShape, MakersShow
<1>2. Owners!Disturb(DOMAIN spaces) /\ spaces' = spaces
  BY DEF Owners!SetRole
<1>3. /\ TasksShape'
      /\ \A t \in Shells : task'[t].name = task[t].name /\ (task'[t].undisturbed => task[t].name \notin DOMAIN spaces)
  BY <1>2, Disturbs DEF OwnerInv
<1>4. ChecksHold'
  BY <1>2, <1>3 DEF ChecksHold, Owners!Exists
<1> QED
  BY <1>1, <1>3, <1>4 DEF OwnerInv

\* A shell that waits has been let through.
LEMMA ShellsKeep ==
  ASSUME OwnerInv, NEW t \in Shells, UNCHANGED <<spaces, role, policy>>,
         NEW new, IsTask(new), task' = [task EXCEPT ![t] = new],
         new.at = "waiting" /\ new.undisturbed => Owners!may_destroy(new.name, new.who)
  PROVE  OwnerInv'
BY DEF OwnerInv, SpacesShape, TasksShape, MakersShow, ChecksHold, Owners!may_destroy, Owners!owner_of, Owners!Exists

\* Who asks has not been let through yet.
LEMMA AskKeeps ==
  ASSUME OwnerInv, NEW t \in Shells, NEW who \in Somebody, NEW n, Owners!Ask(t, who, n)
  PROVE  OwnerInv'
<1> DEFINE new == [at |-> "asked", who |-> who, name |-> n, undisturbed |-> TRUE]
<1>1. IsTask(new) /\ new.at = "asked"
  BY DEF IsTask
<1> QED
  BY <1>1, ShellsKeep DEF Owners!Ask

\* Who was checked waits, deletes or gives up.
LEMMA DeletingKeeps ==
  ASSUME OwnerInv, NEW t \in Shells, Owners!Check(t) \/ Owners!Destroy(t) \/ Owners!GiveUp(t)
  PROVE  OwnerInv'
<1>1. IsTask(task[t]) /\ IsTask(Owners!Idle) /\ Owners!Idle.at = "idle"
  BY DEF OwnerInv, TasksShape, IsTask, Owners!Idle, Somebody
<1>2. CASE Owners!Check(t)
  <2> DEFINE new == IF Owners!Allowed(t) THEN [task[t] EXCEPT !.at = "waiting", !.undisturbed = TRUE] ELSE Owners!Idle
  <2>1. task' = [task EXCEPT ![t] = new] /\ UNCHANGED <<spaces, role, policy>>
    BY <1>2 DEF Owners!Check, OwnerInv, TasksShape
  <2>2. IsTask(new) /\ (new.at = "waiting" => Owners!may_destroy(new.name, new.who))
    BY <1>1 DEF Owners!Allowed, Owners!prunable, IsTask
  <2> QED
    BY <2>1, <2>2, ShellsKeep
<1>3. CASE Owners!GiveUp(t)
  BY <1>1, <1>3, ShellsKeep DEF Owners!GiveUp
<1>4. CASE Owners!Destroy(t)
  <2> DEFINE n == task[t].name
  <2>1. spaces' = [m \in DOMAIN spaces \ {n} |-> spaces[m]] /\ UNCHANGED <<role, policy>>
    BY <1>4 DEF Owners!Destroy
  <2>2. SpacesShape' /\ MakersShow'
    BY <2>1 DEF OwnerInv, SpacesShape, MakersShow
  <2>3. \A s \in Shells : task'[s] = IF s = t THEN Owners!Idle
           ELSE IF task[s].name = n THEN [task[s] EXCEPT !.undisturbed = FALSE] ELSE task[s]
    BY <1>4 DEF Owners!Destroy
  <2>4. \A s \in Shells : /\ IsTask(task'[s])
                          /\ task'[s].at = "waiting" /\ task'[s].undisturbed => task'[s] = task[s] /\ task[s].name # n
    BY <1>1, <2>3 DEF OwnerInv, TasksShape, IsTask
  <2>5. task' = [s \in Shells |-> task'[s]]
    BY <1>4 DEF Owners!Destroy
  <2>6. ChecksHold' /\ TasksShape'
    BY <2>1, <2>4, <2>5 DEF OwnerInv, ChecksHold, TasksShape, Owners!Exists, Owners!may_destroy, Owners!owner_of
  <2> QED
    BY <2>2, <2>6 DEF OwnerInv
<1> QED
  BY <1>2, <1>3, <1>4

\* Where nothing changes it holds on.
LEMMA OwnersRest == ASSUME OwnerInv, UNCHANGED <<spaces, role, policy, task>> PROVE OwnerInv'
BY DEF OwnerInv, SpacesShape, TasksShape, MakersShow, ChecksHold, IsTask, Owners!may_destroy, Owners!owner_of, Owners!Exists

\* The invariant is inductive.
LEMMA OwnersNext ==
  ASSUME OwnerInv, Owners!Next
  PROVE  OwnerInv'
<1>1. ASSUME NEW t \in Shells, NEW p \in People, Owners!AskPrune(t, p) PROVE OwnerInv'
  BY <1>1, Actors, AskKeeps DEF Owners!AskPrune
<1>2. ASSUME NEW t \in Shells, NEW p \in People, NEW w \in Words,
             Owners!AskDown(t, p, w) \/ Owners!check_teardown_request(t, p, w) PROVE OwnerInv'
  BY <1>2, Actors, AskKeeps DEF Owners!AskDown, Owners!check_teardown_request, Somebody
<1> QED
  BY <1>1, <1>2, UpKeeps, HandOverKeeps, RolesKeep, DeletingKeeps DEF Owners!Next

\* What is deleted was checked, and is what was checked.
LEMMA DestroysTheirs == ASSUME OwnerInv, Owners!Next PROVE Owners!DestroysItsOwn
BY DEF OwnerInv, SpacesShape, ChecksHold, Owners!DestroysItsOwn, Owners!may_destroy, Owners!owner_of, Owners!Owned,
   Owners!Exists

\* Two people make no name of the same words, where no account begins as
\* another does.
LEMMA SpacesApart == ASSUME AccountsAreApart, OwnerInv PROVE Owners!Apart
<1> SUFFICES ASSUME NEW p \in People, NEW w \in Words, Owners!cli_actor(p) = p,
                    Owners!Exists(Owners!derive_for(w, p)), spaces[Owners!derive_for(w, p)].made # Owners!NoOne
             PROVE  spaces[Owners!derive_for(w, p)].made = p
  BY Actors DEF Owners!Apart
<1> DEFINE n == Owners!derive_for(w, p)
<1> DEFINE q == spaces[n].made
<1>1. n \in NamesAre \ {<< >>} /\ q \in People /\ Owners!IsPrefix(q, n)
  BY DEF OwnerInv, SpacesShape, MakersShow, Somebody, Owners!Exists
<1>2. Owners!IsPrefix(p, n)
  BY <1>1, MadeNames DEF Somebody
<1> HIDE DEF n, q
<1>3. Owners!IsPrefix(p, q) \/ Owners!IsPrefix(q, p)
  BY <1>1, <1>2, PrefixesMeet, PeopleAre DEF NamesAre
<1>4. p = q
  BY <1>1, <1>3 DEF AccountsAreApart
<1> QED
  BY <1>4 DEF q, n

\* Words find the workspace that has the name, then the one made for them, then
\* the one made for nobody.
LEMMA WordsFind == ASSUME OwnerInv PROVE Owners!Finds
<1> SUFFICES ASSUME NEW p \in People, NEW w \in Words, w # Unnamed
             PROVE  LET who == Owners!cli_actor(p)
                        exact == Owners!legal(w) /\ Owners!Exists(w.parts)
                        one == Owners!resolve_name(w, who)
                    IN /\ exact => one = w.parts
                       /\ ~exact /\ Owners!Exists(Owners!derive_for(w, who)) => one = Owners!derive_for(w, who)
                       /\ ~exact /\ ~Owners!Exists(Owners!derive_for(w, who)) /\ Owners!Exists(Owners!derive_for(w, Owners!NoOne))
                            => one = Owners!derive_for(w, Owners!NoOne)
  BY DEF Owners!Finds
<1> DEFINE who == Owners!cli_actor(p)
<1> DEFINE now == Owners!derive_for(w, who)
<1> DEFINE names == Owners!name_candidates(w, who)
<1> DEFINE found == {i \in DOMAIN names : Owners!Exists(names[i])}
<1> DEFINE first == CHOOSE i \in found : \A j \in found : i <= j
<1>1. ~Owners!Exists(<< >>)
  BY DEF OwnerInv, SpacesShape, Owners!Exists
<1>2. CASE w.parts = << >>
  BY <1>1, <1>2 DEF Owners!legal, Owners!derive_for, Owners!sanitize, Owners!NoName
<1>3. CASE w.parts # << >>
  <2>1. /\ now = Owners!owner_prefix(w.parts, who)
        /\ Owners!derive_for(w, Owners!NoOne) = w.parts
    BY <1>3 DEF Owners!derive_for, Owners!sanitize, Owners!NoName, Owners!owner_prefix
  <2>2. names = IF w.odd THEN <<now, w.parts>> ELSE <<w.parts, now, w.parts>>
    <3>1. names = (IF w.odd THEN << >> ELSE <<w.parts>>) \o <<now, w.parts>>
      BY <1>3, <2>1 DEF Owners!name_candidates, Owners!legal, Owners!sanitize, Owners!NoName
    <3>2. now \in NamesAre /\ w.parts \in NamesAre
      BY Actors, MadeNames, PeopleAre
    <3> QED
      BY <3>1, <3>2, Joined
  <2>3. Owners!resolve_name(w, who) = IF found = {} THEN << >> ELSE names[first]
    BY DEF Owners!resolve_name, Owners!NoName
  <2>4. Owners!legal(w) <=> ~w.odd
    BY <1>3 DEF Owners!legal, Owners!NoName
  <2> HIDE DEF names, now
  <2>5. ASSUME NEW i \in DOMAIN names, Owners!Exists(names[i]), \A j \in DOMAIN names : j < i => ~Owners!Exists(names[j])
        PROVE  Owners!resolve_name(w, who) = names[i]
    <3>1. DOMAIN names \subseteq 1 .. 3
      BY <2>2
    <3>2. i \in found /\ \A j \in found : i <= j
      BY <2>5, <3>1
    <3>3. first = i
      BY <3>1, <3>2
    <3> QED
      BY <2>3, <3>2, <3>3
  <2>6. CASE w.odd
    BY <1>1, <2>1, <2>2, <2>4, <2>5, <2>6 DEF now
  <2>7. CASE ~w.odd
    BY <1>1, <2>1, <2>2, <2>4, <2>5, <2>7 DEF now
  <2> QED
    BY <2>6, <2>7
<1> QED
  BY <1>2, <1>3

-----------------------------------------------------------------------------
(* The gates of a create, and what is told of them.                        *)

IsTold(r) ==
  /\ DOMAIN r = {"known", "rows", "rooms", "since", "made", "fresh"} /\ r.known = TRUE
  /\ r.rooms \in [Gates!Kinds -> Nat] /\ r.made \in Nat

\* What a create of the kind needs, without the cluster that the first may make.
Each(k) == CASE k = "docker" -> 1100 [] k = "kubernetes-monolith" -> 1600 [] k = "kubernetes-microservices" -> 2400
NewCluster(k) == Gates!Kubernetes(k) /\ Gates!plan_cluster.create

\* The host has what was said to be left.
RoomIsThere == \A k \in Gates!Kinds :
  told.since \in {"none", k} /\ told.rooms[k] > told.made =>
    (told.rooms[k] - told.made) * Each(k) + (IF NewCluster(k) THEN 600 ELSE 0) + Gates!host_reserve_mb <= box.available

\* Who came after a create of the kind makes no cluster.
ClusterIsMade == told.made # 0 => told.since # "none" /\ ~NewCluster(told.since)

GatesInv ==
  /\ box \in Gates!Box
  /\ \/ told = Gates!Unanswered
     \/ /\ IsTold(told) /\ RoomIsThere /\ ClusterIsMade
        /\ told.fresh => told.rows = Gates!run_checks

\* Some closed gate comes first.
LEMMA FirstOfEight ==
  ASSUME NEW shut, shut \subseteq 1 .. 8, shut # {}
  PROVE  LET first == CHOOSE i \in shut : \A j \in shut : i <= j
         IN first \in shut /\ \A j \in shut : first <= j
<1> SUFFICES \E i \in shut : \A j \in shut : i <= j
  OBVIOUS
<1> DEFINE Least(i) == i \in shut /\ \A j \in shut : i <= j
<1>1. \A i \in 1 .. 8 : i \in shut /\ (\A j \in 1 .. 8 : j < i => j \notin shut) => Least(i)
  OBVIOUS
<1>2. (\A i \in 1 .. 8 : ~Least(i))
      => 1 \notin shut /\ 2 \notin shut /\ 3 \notin shut /\ 4 \notin shut
  BY <1>1
<1>3. (\A i \in 1 .. 8 : ~Least(i))
      => 5 \notin shut /\ 6 \notin shut /\ 7 \notin shut /\ 8 \notin shut
  BY <1>1, <1>2
<1>4. \E i \in 1 .. 8 : Least(i)
  <2> SUFFICES ASSUME \A i \in 1 .. 8 : ~Least(i) PROVE FALSE
    OBVIOUS
  <2>1. \A i \in 1 .. 8 : i \notin shut
    BY <1>2, <1>3
  <2> QED
    BY <2>1
<1> QED
  BY <1>4

\* A gate is what it was made of.
LEMMA GateIs == ASSUME NEW n, NEW h PROVE Gates!Gate(n, h).name = n /\ Gates!Gate(n, h).holds = h
BY DEF Gates!Gate

\* What refuses a Compose create, and what was let through before it.
LEMMA RefusedByDocker ==
  ASSUME NEW r, r.kind = "docker", Gates!Refusal(r) # "no"
  PROVE  \/ Gates!Refusal(r) = "docker" /\ ~Gates!require_docker
         \/ Gates!Refusal(r) = "kernel" /\ Gates!require_docker /\ Gates!mongo_kernel_conflict(r)
         \/ Gates!Refusal(r) = "memory" /\ ~r.again /\ ~Gates!check_memory(r)
         \/ Gates!Refusal(r) = "ports" /\ ~box.ports
<1> DEFINE gates == Gates!DockerGates(r)
<1> DEFINE shut == {i \in DOMAIN gates : ~gates[i].holds}
<1> DEFINE first == CHOOSE i \in shut : \A j \in shut : i <= j
<1>1. Gates!Refusal(r) = gates[first].name /\ shut # {}
  BY DEF Gates!Refusal, Gates!Kubernetes
<1>2. DOMAIN gates = 1 .. 4
  BY DEF Gates!DockerGates
<1>3. first \in shut /\ \A j \in shut : first <= j
  BY <1>1, <1>2, FirstOfEight
<1>4. \A i \in 1 .. 4 : (i < first => gates[i].holds) /\ ~gates[first].holds
  BY <1>2, <1>3
<1>5. first \in 1 .. 4
  BY <1>2, <1>3
<1>61. gates[1].name = "docker" /\ (gates[1].holds <=> Gates!require_docker)
  BY GateIs DEF Gates!DockerGates
<1>62. gates[2].name = "kernel" /\ (gates[2].holds <=> ~Gates!mongo_kernel_conflict(r))
  BY GateIs DEF Gates!DockerGates
<1>63. gates[3].name = "memory" /\ (gates[3].holds <=> r.again \/ Gates!check_memory(r))
  BY GateIs DEF Gates!DockerGates
<1>64. gates[4].name = "ports" /\ (gates[4].holds <=> (r.again /\ ~r.force) \/ box.ports)
  BY GateIs DEF Gates!DockerGates
<1> HIDE DEF first, gates
<1>7. first = 1 \/ first = 2 \/ first = 3 \/ first = 4
  BY <1>5
<1>8. (first > 1 => gates[1].holds) /\ ~gates[first].holds
  BY <1>4, <1>5
<1>9. CASE first = 1
  BY <1>1, <1>61, <1>62, <1>63, <1>64, <1>8, <1>9
<1>10. CASE first = 2
  BY <1>1, <1>61, <1>62, <1>63, <1>64, <1>8, <1>10
<1>11. CASE first = 3
  BY <1>1, <1>61, <1>62, <1>63, <1>64, <1>8, <1>11
<1>12. CASE first = 4
  BY <1>1, <1>61, <1>62, <1>63, <1>64, <1>8, <1>12
<1> QED
  BY <1>7, <1>9, <1>10, <1>11, <1>12

\* The same of a Kubernetes one.
LEMMA RefusedByKubernetes ==
  ASSUME NEW r, Gates!Kubernetes(r.kind), Gates!Refusal(r) # "no"
  PROVE  \/ Gates!Refusal(r) = "unsupported"
         \/ Gates!Refusal(r) = "engine" /\ ~Gates!check_engine_floor(r)
         \/ Gates!Refusal(r) = "memory" /\ ~Gates!check_memory(r)
         \/ Gates!Refusal(r) = "ports" /\ ~box.ports
         \/ Gates!Refusal(r) = "plan" /\ Gates!plan_cluster = Gates!NoPlan
         \/ Gates!Refusal(r) = "cluster" /\ Gates!plan_cluster # Gates!NoPlan /\ ~Gates!Usable(Gates!plan_cluster)
         \/ /\ Gates!Refusal(r) = "storage" /\ Gates!plan_cluster # Gates!NoPlan
            /\ Gates!Usable(Gates!plan_cluster) /\ Gates!storage_blocker(Gates!plan_cluster)
         \/ /\ Gates!Refusal(r) = "helm" /\ Gates!plan_cluster # Gates!NoPlan
            /\ Gates!Usable(Gates!plan_cluster) /\ ~Gates!which("helm")
<1> DEFINE gates == Gates!KubernetesGates(r)
<1> DEFINE shut == {i \in DOMAIN gates : ~gates[i].holds}
<1> DEFINE first == CHOOSE i \in shut : \A j \in shut : i <= j
<1>1. Gates!Refusal(r) = gates[first].name /\ shut # {}
  BY DEF Gates!Refusal
<1>2. DOMAIN gates = 1 .. 8
  BY DEF Gates!KubernetesGates
<1>3. first \in shut /\ \A j \in shut : first <= j
  BY <1>1, <1>2, FirstOfEight
<1>4. \A i \in 1 .. 8 : (i < first => gates[i].holds) /\ ~gates[first].holds
  BY <1>2, <1>3
<1>5. first \in 1 .. 8
  BY <1>2, <1>3
<1>61. gates[1].name = "unsupported"
  BY GateIs DEF Gates!KubernetesGates
<1>62. gates[2].name = "engine" /\ (gates[2].holds <=> Gates!check_engine_floor(r))
  BY GateIs DEF Gates!KubernetesGates
<1>63. gates[3].name = "memory" /\ (gates[3].holds <=> Gates!check_memory(r))
  BY GateIs DEF Gates!KubernetesGates
<1>64. gates[4].name = "ports" /\ (gates[4].holds <=> r.again \/ box.ports)
  BY GateIs DEF Gates!KubernetesGates
<1>65. gates[5].name = "plan" /\ (gates[5].holds <=> Gates!plan_cluster # Gates!NoPlan)
  BY GateIs DEF Gates!KubernetesGates
<1>66. gates[6].name = "cluster" /\ (gates[6].holds <=> Gates!Usable(Gates!plan_cluster))
  BY GateIs DEF Gates!KubernetesGates
<1>67. gates[7].name = "storage" /\ (gates[7].holds <=> ~Gates!storage_blocker(Gates!plan_cluster))
  BY GateIs DEF Gates!KubernetesGates
<1>68. gates[8].name = "helm" /\ (gates[8].holds <=> Gates!which("helm"))
  BY GateIs DEF Gates!KubernetesGates
<1> HIDE DEF first, gates
<1>7. first = 1 \/ first = 2 \/ first = 3 \/ first = 4 \/ first = 5 \/ first = 6 \/ first = 7 \/ first = 8
  BY <1>5
<1>8. (first > 5 => gates[5].holds) /\ (first > 6 => gates[6].holds) /\ ~gates[first].holds
  BY <1>4, <1>5
<1> QED
  BY <1>1, <1>61, <1>62, <1>63, <1>64, <1>65, <1>66, <1>67, <1>68, <1>7, <1>8

\* Three kinds.
LEMMA KindsAre == Gates!Kinds = {"docker", "kubernetes-monolith", "kubernetes-microservices"}
BY DEF Gates!Kinds

\* What is usable is what is left of the reserve.
LEMMA ReserveIs == ASSUME box \in Gates!Box PROVE Gates!host_reserve_mb \in Nat /\ Gates!usable \in Nat /\ box.available \in Nat
                     /\ (Gates!usable > 0 => Gates!usable + Gates!host_reserve_mb = box.available)
                     /\ (Gates!host_reserve_mb + Gates!usable >= box.available)
<1>1. box.total \in Nat /\ box.available \in Nat
  BY DEF Gates!Box
<1>2. box.total \div 5 \in Nat
  BY <1>1
<1>3. Gates!host_reserve_mb \in Nat
  BY <1>2 DEF Gates!host_reserve_mb
<1> QED
  BY <1>1, <1>3 DEF Gates!usable, Gates!Less

\* What a plain create needs.
LEMMA PlainNeed ==
  ASSUME NEW r \in Gates!Request, Gates!Plain(r)
  PROVE  /\ Gates!Need(r) = Each(r.kind) + (IF NewCluster(r.kind) THEN 600 ELSE 0)
         /\ r.kind \in Gates!Kinds
<1>1. r.kind \in {"docker", "kubernetes-monolith", "kubernetes-microservices"} /\ r.monitor = FALSE /\ r.preset = "default"
  BY DEF Gates!Request, Gates!Kinds, Gates!Plain
<1>2. Gates!PRESET_MB["default"] = 0
  BY DEF Gates!PRESET_MB
<1>3. Gates!Kubernetes(r.kind) <=> r.kind # "docker"
  BY DEF Gates!Kubernetes
<1>4. Gates!kube_overhead_mb(r) = IF r.kind = "docker" THEN 0
        ELSE 500 + (IF NewCluster(r.kind) THEN 600 ELSE 0) + (IF r.kind = "kubernetes-microservices" THEN 800 ELSE 0)
  BY <1>3 DEF Gates!kube_overhead_mb, Gates!will_provision, NewCluster, Gates!KUBE_CHART_MB, Gates!CLUSTER_MB,
     Gates!MICROSERVICES_MB
<1>5. r.kind = "docker" => ~NewCluster(r.kind)
  BY <1>3 DEF NewCluster
<1>6. Gates!Need(r) = 1100 + Gates!kube_overhead_mb(r)
  BY <1>1, <1>2, <1>4 DEF Gates!Need, Gates!WORKSPACE_MB
<1> QED
  BY <1>1, <1>4, <1>5, <1>6 DEF Each, Gates!Kinds

\* What is promised fits into what is there.
LEMMA RoomsFit ==
  ASSUME box \in Gates!Box, NEW k \in Gates!Kinds
  PROVE  /\ Gates!room_by_runtime(k) \in Nat
         /\ Gates!room_by_runtime(k) > 0 =>
              Gates!room_by_runtime(k) * Each(k) + (IF Gates!Kubernetes(k) THEN 600 ELSE 0) + Gates!host_reserve_mb
                <= box.available
<1>1. k \in {"docker", "kubernetes-monolith", "kubernetes-microservices"}
  BY DEF Gates!Kinds
<1>2. Gates!runtime_cost(k).workspace_mb = Each(k)
  BY <1>1 DEF Gates!runtime_cost, Each, Gates!Kubernetes, Gates!WORKSPACE_MB, Gates!KUBE_CHART_MB, Gates!MICROSERVICES_MB
<1>3. Gates!runtime_cost(k).cluster_mb = IF Gates!Kubernetes(k) THEN 600 ELSE 0
  BY DEF Gates!runtime_cost, Gates!CLUSTER_MB
<1> DEFINE c == IF Gates!Kubernetes(k) THEN 600 ELSE 0
<1> DEFINE left == Gates!Less(Gates!usable, c)
<1>4. left \in Nat /\ (left > 0 => left + c = Gates!usable)
  BY ReserveIs DEF Gates!Less
<1>5. Gates!room_by_runtime(k) = left \div Each(k)
  BY <1>2, <1>3 DEF Gates!room_by_runtime
<1>6. Each(k) \in {1100, 1600, 2400}
  BY <1>1 DEF Each
<1>7. /\ left \div 1100 \in Nat /\ (left \div 1100) * 1100 <= left
      /\ left \div 1600 \in Nat /\ (left \div 1600) * 1600 <= left
      /\ left \div 2400 \in Nat /\ (left \div 2400) * 2400 <= left
  <2> HIDE DEF left
  <2> QED
    BY <1>4
<1>8. Gates!room_by_runtime(k) \in Nat /\ Gates!room_by_runtime(k) * Each(k) <= left
  BY <1>5, <1>6, <1>7
<1>9. Gates!room_by_runtime(k) > 0 => left > 0
  BY <1>6, <1>8, <1>4
<1> HIDE DEF left
<1>10. c \in Nat /\ Gates!room_by_runtime(k) * Each(k) \in Nat
  BY <1>6, <1>8
<1> HIDE DEF c
<1> QED
  BY <1>4, <1>8, <1>9, <1>10, ReserveIs DEF c

\* A gate of the cluster lets through where one is usable.
LEMMA Provides ==
  ASSUME box \in Gates!Box, NEW r
  PROVE  LET new == Gates!Provisioned(r) IN
         /\ new \in Gates!Box
         /\ new.available = box.available /\ new.total = box.total /\ new.docker = box.docker
         /\ new.kind = box.kind /\ new.kubectl = box.kubectl /\ new.active = box.active
         /\ new.own = IF Gates!Kubernetes(r.kind) /\ Gates!plan_cluster.context = "own" THEN "up" ELSE box.own
BY DEF Gates!Provisioned, Gates!Box

\* After a create on a cluster, no other one makes one.
LEMMA ClusterStays ==
  ASSUME box \in Gates!Box, NEW r, Gates!Kubernetes(r.kind), NEW mb \in Nat,
         box' = [Gates!Provisioned(r) EXCEPT !.available = Gates!Less(@, mb)]
  PROVE  NewCluster(r.kind)' = FALSE
<1> DEFINE new == Gates!Provisioned(r)
<1>1. /\ box'.docker = box.docker /\ box'.kind = box.kind /\ box'.kubectl = box.kubectl /\ box'.active = box.active
      /\ box'.own = IF Gates!plan_cluster.context = "own" THEN "up" ELSE box.own
  <2>1. new \in Gates!Box
    BY Provides
  <2>2. /\ box'.docker = new.docker /\ box'.kind = new.kind /\ box'.kubectl = new.kubectl /\ box'.active = new.active
        /\ box'.own = new.own
    BY <2>1 DEF Gates!Box
  <2> QED
    BY <2>2, Provides
<1>2. Gates!ClustersKnown' <=> Gates!ClustersKnown
  BY <1>1 DEF Gates!ClustersKnown, Gates!which
<1>3. CASE Gates!ClustersKnown
  <2>1. Gates!plan_cluster.context = "own"
    BY <1>3 DEF Gates!plan_cluster
  <2>2. box'.own = "up"
    BY <1>1, <2>1
  <2>3. ~Gates!plan_cluster'.create
    BY <1>2, <1>3, <2>2 DEF Gates!plan_cluster, Gates!OwnExists
  <2> QED
    BY <2>3 DEF NewCluster
<1>4. CASE ~Gates!ClustersKnown
  <2>1. ~Gates!plan_cluster'.create
    BY <1>2, <1>4 DEF Gates!plan_cluster, Gates!NoPlan
  <2> QED
    BY <2>1 DEF NewCluster
<1> QED
  BY <1>3, <1>4

\* The invariant holds before anything was asked.
LEMMA GatesStart == ASSUME Gates!Init PROVE GatesInv
BY HostsAre DEF Gates!Init, GatesInv

\* The host as far as the rooms and the rows depend on it.
LEMMA SameHost ==
  ASSUME box' = box, made' = made
  PROVE  /\ \A k : NewCluster(k)' = NewCluster(k)
         /\ Gates!host_reserve_mb' = Gates!host_reserve_mb /\ Gates!run_checks' = Gates!run_checks
<1>1. \A k : NewCluster(k)' = NewCluster(k)
  BY DEF NewCluster, Gates!plan_cluster, Gates!ClustersKnown, Gates!OwnExists, Gates!reachable, Gates!which,
     Gates!NoPlan, Gates!Kubernetes
<1>2. Gates!host_reserve_mb' = Gates!host_reserve_mb
  BY DEF Gates!host_reserve_mb
<1>3. Gates!plan_cluster' = Gates!plan_cluster
  BY DEF Gates!plan_cluster, Gates!ClustersKnown, Gates!OwnExists, Gates!reachable, Gates!which, Gates!NoPlan
<1>4. Gates!run_checks' = Gates!run_checks
  BY DEF Gates!run_checks, Gates!EngineRows, Gates!MemoryRows, Gates!PortRows, Gates!KubernetesRows, Gates!Row,
     Gates!room, Gates!usable, Gates!host_reserve_mb, Gates!missing_tools, Gates!in_use, Gates!ToolRows, Gates!ClusterRows,
     Gates!outdated_tools, Gates!tools_ready, Gates!needed, Gates!new_enough, Gates!which, Gates!Context,
     Gates!StorageRows, Gates!NoClusterRows, Gates!Sees, Gates!Looks, Gates!can_provision, Gates!ClustersKnown,
     Gates!OwnExists, Gates!reachable, Gates!plan_cluster, Gates!Less
<1> QED
  BY <1>1, <1>2, <1>4

\* What a look tells, the host has room for.
LEMMA LookKeeps == ASSUME GatesInv, Gates!Look PROVE GatesInv'
<1> DEFINE rooms == [k \in Gates!Kinds |-> Gates!room_by_runtime(k)]
<1>1. told' = [known |-> TRUE, rows |-> Gates!run_checks, rooms |-> rooms, since |-> "none", made |-> 0, fresh |-> TRUE]
      /\ box' = box /\ made' = made
  BY DEF Gates!Look
<1>2. box \in Gates!Box
  BY DEF GatesInv
<1>3. rooms \in [Gates!Kinds -> Nat]
  BY <1>2, RoomsFit
<1> HIDE DEF rooms
<1>4. IsTold(told') /\ told'.since = "none" /\ told'.made = 0 /\ told'.rooms = rooms /\ told'.rows = Gates!run_checks
  BY <1>1, <1>3 DEF IsTold
<1>5. RoomIsThere'
  <2> SUFFICES ASSUME NEW k \in Gates!Kinds, rooms[k] > 0
               PROVE  (rooms[k] - 0) * Each(k) + (IF NewCluster(k)' THEN 600 ELSE 0) + Gates!host_reserve_mb' <= box'.available
    BY <1>4 DEF RoomIsThere, Gates!Kinds, Each
  <2>1. rooms[k] = Gates!room_by_runtime(k) /\ rooms[k] \in Nat
    BY <1>3 DEF rooms
  <2>2. rooms[k] * Each(k) + (IF Gates!Kubernetes(k) THEN 600 ELSE 0) + Gates!host_reserve_mb <= box.available
    BY <1>2, <2>1, RoomsFit
  <2>3. NewCluster(k)' = NewCluster(k) /\ Gates!host_reserve_mb' = Gates!host_reserve_mb /\ (NewCluster(k) => Gates!Kubernetes(k))
    BY <1>1, SameHost DEF NewCluster
  <2>4. Each(k) \in {1100, 1600, 2400} /\ Gates!host_reserve_mb \in Nat /\ box.available \in Nat
    BY <1>2, ReserveIs DEF Each, Gates!Kinds
  <2>5. rooms[k] * Each(k) \in Nat
    BY <2>1, <2>4
  <2>6. (rooms[k] - 0) * Each(k) = rooms[k] * Each(k)
    BY <2>1
  <2> QED
    BY <1>1, <2>2, <2>3, <2>4, <2>5, <2>6
<1>6. Gates!run_checks' = Gates!run_checks
  BY <1>1, SameHost
<1>7. ClusterIsMade'
  BY <1>4 DEF ClusterIsMade
<1> QED
  BY <1>1, <1>2, <1>4, <1>5, <1>6, <1>7 DEF GatesInv

\* A host that changes has been told nothing of.
LEMMA HostChangesKeep == ASSUME GatesInv, Gates!HostChanges PROVE GatesInv'
<1>1. box' \in Gates!Box
  BY HostsAre DEF Gates!HostChanges, GatesInv, Gates!Box
<1> QED
  BY <1>1 DEF GatesInv, Gates!HostChanges

\* Where the host and what was told stay, the invariant does.
LEMMA ToldRests == ASSUME GatesInv, box' = box, told' = told, made' = made PROVE GatesInv'
<1>1. /\ \A k : NewCluster(k)' = NewCluster(k)
      /\ Gates!host_reserve_mb' = Gates!host_reserve_mb /\ Gates!run_checks' = Gates!run_checks
  BY SameHost
<1>2. RoomIsThere => RoomIsThere'
  BY <1>1 DEF RoomIsThere, Gates!Kinds, Each
<1>3. ClusterIsMade => ClusterIsMade'
  BY <1>1 DEF ClusterIsMade
<1> QED
  BY <1>1, <1>2, <1>3 DEF GatesInv, IsTold, Gates!Unanswered, Gates!Kinds

\* A refusal changes nothing.
LEMMA RefusedKeeps ==
  ASSUME GatesInv, NEW r \in Creates, Gates!Create(r), Gates!Refusal(r) # "no"
  PROVE  GatesInv'
<1>1. CASE Gates!Refusal(r) \in {"storage", "helm"}
  <2>1. box' = Gates!Provisioned(r) /\ told' = Gates!Unanswered
    BY <1>1 DEF Gates!Create
  <2>2. box' \in Gates!Box
    BY <2>1, Provides DEF GatesInv
  <2> QED
    BY <2>1, <2>2 DEF GatesInv, Gates!Unanswered
<1>2. CASE Gates!Refusal(r) \notin {"storage", "helm"}
  <2>1. box' = box /\ told' = told /\ made' = made
    BY <1>2 DEF Gates!Create
  <2> QED
    BY <2>1, ToldRests
<1> QED
  BY <1>1, <1>2

\* A create takes no more than it was counted for.
LEMMA AdmittedKeeps ==
  ASSUME GatesInv, NEW r \in Creates, Gates!Create(r), Gates!Refusal(r) = "no"
  PROVE  GatesInv'
<1>1. PICK mb \in {Gates!Need(r)} \cup (IF r.again THEN {0} ELSE {}) :
        box' = [Gates!Provisioned(r) EXCEPT !.available = Gates!Less(@, mb)]
  BY DEF Gates!Create
<1>2. told' = Gates!StillTold(r)
  BY DEF Gates!Create
<1>3. r \in Gates!Request /\ box \in Gates!Box
  BY HostsAre DEF GatesInv
<1>4. mb \in Nat
  <2>1. Gates!PRESET_MB[r.preset] \in Nat
    BY <1>3 DEF Gates!Request, Gates!PRESET_MB
  <2>2. Gates!kube_overhead_mb(r) \in Nat
    BY DEF Gates!kube_overhead_mb, Gates!KUBE_CHART_MB, Gates!CLUSTER_MB, Gates!MICROSERVICES_MB
  <2>3. Gates!Need(r) \in Nat
    BY <2>1, <2>2 DEF Gates!Need, Gates!WORKSPACE_MB, Gates!MONITORING_MB
  <2> QED
    BY <2>3
<1> DEFINE new == Gates!Provisioned(r)
<1>5. new \in Gates!Box /\ new.available = box.available /\ new.total = box.total
  BY <1>3, Provides
<1>6. box' \in Gates!Box /\ box'.available = Gates!Less(box.available, mb) /\ box'.total = box.total
  <2>1. Gates!Less(new.available, mb) \in Nat
    BY <1>4, <1>5 DEF Gates!Less, Gates!Box
  <2> QED
    BY <1>1, <1>5, <2>1 DEF Gates!Box
<1>7. CASE told # Gates!Unanswered /\ Gates!Plain(r) /\ told.since \in {"none", r.kind}
  <2>1. IsTold(told) /\ RoomIsThere
    BY <1>7 DEF GatesInv
  <2>2. told' = [told EXCEPT !.since = r.kind, !.made = @ + 1, !.fresh = FALSE]
    BY <1>2, <1>7 DEF Gates!StillTold
  <2>3. IsTold(told') /\ told'.since = r.kind /\ told'.made = told.made + 1 /\ told'.rooms = told.rooms /\ told'.fresh = FALSE
    BY <2>1, <2>2 DEF IsTold
  <2>4. mb = Gates!Need(r) /\ r.kind \in Gates!Kinds /\ Gates!Need(r) = Each(r.kind) + (IF NewCluster(r.kind) THEN 600 ELSE 0)
    BY <1>3, <1>7, PlainNeed DEF Gates!Plain
  <2>5. Gates!host_reserve_mb' = Gates!host_reserve_mb
    BY <1>6 DEF Gates!host_reserve_mb
  <2>6. NewCluster(r.kind)' = FALSE
    <3>1. CASE Gates!Kubernetes(r.kind)
      BY <1>1, <1>3, <1>4, <3>1, ClusterStays
    <3>2. CASE ~Gates!Kubernetes(r.kind)
      BY <3>2 DEF NewCluster, Gates!Kubernetes
    <3> QED
      BY <3>1, <3>2
  <2>7. ASSUME told.rooms[r.kind] > told.made + 1
        PROVE  (told.rooms[r.kind] - (told.made + 1)) * Each(r.kind) + 0 + Gates!host_reserve_mb <= box'.available
    <3> DEFINE n == told.rooms[r.kind]
    <3>1. n \in Nat /\ told.made \in Nat
      BY <2>1, <2>4 DEF IsTold
    <3>2. (n - told.made) * Each(r.kind) + (IF NewCluster(r.kind) THEN 600 ELSE 0) + Gates!host_reserve_mb <= box.available
      BY <1>7, <2>1, <2>4, <2>7, <3>1 DEF RoomIsThere
    <3>3. Each(r.kind) \in {1100, 1600, 2400}
      BY <2>4 DEF Each, Gates!Kinds
    <3>4. (n - told.made) * Each(r.kind) = (n - (told.made + 1)) * Each(r.kind) + Each(r.kind)
      BY <3>1, <3>3
    <3>5. (n - (told.made + 1)) * Each(r.kind) \in Nat
      BY <2>7, <3>1, <3>3
    <3> HIDE DEF n
    <3>6. Gates!host_reserve_mb \in Nat /\ box.available \in Nat
      BY <1>3, ReserveIs
    <3>7. mb = Each(r.kind) + (IF NewCluster(r.kind) THEN 600 ELSE 0)
      BY <2>4
    <3>8. box'.available = box.available - mb
      BY <1>4, <1>6, <3>2, <3>3, <3>4, <3>5, <3>6, <3>7 DEF Gates!Less
    <3> QED
      BY <3>2, <3>3, <3>4, <3>5, <3>6, <3>7, <3>8 DEF n
  <2>8. RoomIsThere'
    <3> SUFFICES ASSUME told.rooms[r.kind] > told.made + 1
                 PROVE  (told.rooms[r.kind] - (told.made + 1)) * Each(r.kind)
                          + (IF NewCluster(r.kind)' THEN 600 ELSE 0) + Gates!host_reserve_mb' <= box'.available
      <4>1. \A k \in Gates!Kinds : told'.since \in {"none", k} => k = r.kind
        BY <2>3, <2>4 DEF Gates!Kinds
      <4> QED
        BY <2>3, <4>1 DEF RoomIsThere, Gates!Kinds, Each
    <3> QED
      BY <2>5, <2>6, <2>7
  <2>9. ClusterIsMade'
    BY <2>3, <2>4, <2>6 DEF ClusterIsMade, Gates!Kinds, NewCluster
  <2> QED
    BY <1>6, <2>3, <2>8, <2>9 DEF GatesInv
<1>8. CASE ~(told # Gates!Unanswered /\ Gates!Plain(r) /\ told.since \in {"none", r.kind})
  BY <1>2, <1>6, <1>8 DEF Gates!StillTold, GatesInv, Gates!Unanswered
<1> QED
  BY <1>7, <1>8

\* The invariant is inductive.
LEMMA GatesNext == ASSUME GatesInv, Gates!Next PROVE GatesInv'
BY LookKeeps, HostChangesKeep, RefusedKeeps, AdmittedKeeps DEF Gates!Next

\* Nothing was refused yet.
LEMMA NothingAnswered == Gates!None.refusal = "no"
BY DEF Gates!None

\* A create that fits is refused for the engine only as the first: the next finds
\* the cluster made.
LEMMA FloorMeetsTheFirst ==
  ASSUME GatesInv, Gates!Next, told.known, answer'.refusal = "engine",
         told.since \in {"none", answer'.request.kind}
  PROVE  told.made = 0
<1>1. PICK r \in Creates : Gates!Create(r)
  BY NothingAnswered DEF Gates!Next, Gates!Look, Gates!HostChanges
<1>2. answer'.request = r /\ Gates!Refusal(r) = "engine"
  BY <1>1, NothingAnswered DEF Gates!Create
<1>3. Gates!Kubernetes(r.kind) /\ ~Gates!check_engine_floor(r)
  BY <1>2, RefusedByDocker, RefusedByKubernetes DEF Gates!Kubernetes
<1>4. NewCluster(r.kind)
  BY <1>3 DEF NewCluster, Gates!check_engine_floor, Gates!will_provision
<1>5. r.kind \in Gates!Kinds /\ ClusterIsMade
  BY HostsAre DEF GatesInv, Gates!Unanswered, Gates!Request
<1> QED
  BY <1>2, <1>4, <1>5 DEF ClusterIsMade

\* Of the creates that were told to fit, none is refused memory.
LEMMA RoomKept == ASSUME GatesInv, Gates!Next PROVE Gates!KeepsRoom
<1> SUFFICES ASSUME told.known, answer'.refusal = "memory", Gates!Plain(answer'.request),
                    told.since \in {"none", answer'.request.kind}
             PROVE  told.made >= told.rooms[answer'.request.kind]
  BY FloorMeetsTheFirst DEF Gates!KeepsRoom, Gates!WantsMemory
<1>1. PICK r \in Creates : Gates!Create(r)
  BY NothingAnswered DEF Gates!Next, Gates!Look, Gates!HostChanges
<1>2. answer'.request = r /\ Gates!Refusal(r) = "memory"
  BY <1>1, NothingAnswered DEF Gates!Create
<1>3. r \in Gates!Request /\ r.kind \in Gates!Kinds /\ IsTold(told) /\ RoomIsThere /\ box \in Gates!Box
  BY HostsAre DEF GatesInv, Gates!Unanswered, Gates!Request
<1>4. ~Gates!check_memory(r)
  <2>1. Gates!Refusal(r) = "memory" /\ Gates!Refusal(r) # "no"
    BY <1>2
  <2>2. CASE r.kind = "docker"
    BY <2>1, <2>2, RefusedByDocker
  <2>3. CASE r.kind # "docker"
    <3>1. Gates!Kubernetes(r.kind)
      BY <2>3 DEF Gates!Kubernetes
    <3> QED
      BY <2>1, <3>1, RefusedByKubernetes
  <2> QED
    BY <2>2, <2>3
<1>5. Each(r.kind) + (IF NewCluster(r.kind) THEN 600 ELSE 0) + Gates!host_reserve_mb > box.available
  <2>1. Gates!Need(r) = Each(r.kind) + (IF NewCluster(r.kind) THEN 600 ELSE 0)
    BY <1>2, <1>3, PlainNeed
  <2>2. Gates!Need(r) + Gates!host_reserve_mb > box.available
    <3>1. ~(Gates!Need(r) + Gates!host_reserve_mb <= box.available)
      BY <1>4 DEF Gates!check_memory
    <3>2. Each(r.kind) \in {1100, 1600, 2400}
      BY <1>3 DEF Each, Gates!Kinds
    <3> QED
      BY <1>3, <2>1, <3>1, <3>2, ReserveIs
  <2> QED
    BY <2>1, <2>2
<1> DEFINE n == told.rooms[r.kind]
<1>6. n \in Nat /\ told.made \in Nat
  BY <1>3 DEF IsTold
<1>7. ASSUME n > told.made PROVE FALSE
  <2>1. (n - told.made) * Each(r.kind) + (IF NewCluster(r.kind) THEN 600 ELSE 0) + Gates!host_reserve_mb <= box.available
    BY <1>2, <1>3, <1>7 DEF RoomIsThere
  <2>2. Each(r.kind) \in {1100, 1600, 2400}
    BY <1>3 DEF Each, Gates!Kinds
  <2> HIDE DEF n
  <2>3. (n - told.made) * Each(r.kind) >= Each(r.kind)
    BY <1>6, <1>7, <2>2
  <2>4. (n - told.made) * Each(r.kind) \in Nat
    BY <1>6, <1>7, <2>2
  <2> QED
    BY <1>3, <1>5, <2>1, <2>2, <2>3, <2>4, ReserveIs
<1> QED
  BY <1>2, <1>6, <1>7

\* What doctor says of a host on which a create of the kind is refused.
LEMMA DockerForetold ==
  ASSUME box \in Gates!Box, NEW r \in Gates!Request, r.kind = "docker", Gates!Refusal(r) \notin {"no", "unsupported", "engine"}
  PROVE  \E row \in Gates!run_checks : row.check \in Gates!Concerns(r.kind) /\ row.status # "ok"
<1> USE DEF Gates!Row
<1>1. CASE ~Gates!require_docker
  <2>1. CASE ~box.docker
    <3>1. [check |-> "docker", status |-> "fail"] \in Gates!run_checks
      BY <2>1 DEF Gates!run_checks, Gates!EngineRows
    <3> QED
      BY <3>1 DEF Gates!Concerns, Gates!Kubernetes
  <2>2. CASE ~(box.compose >= 2)
    <3>1. [check |-> "compose", status |-> "warn"] \in Gates!run_checks
      BY <2>2 DEF Gates!run_checks, Gates!EngineRows
    <3> QED
      BY <3>1 DEF Gates!Concerns, Gates!Kubernetes
  <2> QED
    BY <1>1, <2>1, <2>2 DEF Gates!require_docker
<1>2. CASE Gates!require_docker /\ Gates!mongo_kernel_conflict(r)
  <2>1. [check |-> "engine-kernel", status |-> "warn"] \in Gates!run_checks
    BY <1>2 DEF Gates!run_checks, Gates!EngineRows, Gates!require_docker, Gates!mongo_kernel_conflict
  <2> QED
    BY <2>1 DEF Gates!Concerns, Gates!Kubernetes
<1>3. CASE ~box.ports
  <2>1. [check |-> "ports", status |-> "fail"] \in Gates!run_checks
    BY <1>3 DEF Gates!run_checks, Gates!PortRows
  <2> QED
    BY <2>1 DEF Gates!Concerns, Gates!Kubernetes
<1>4. CASE ~Gates!check_memory(r)
  <2>1. Gates!Need(r) <= 1830 /\ Gates!Need(r) \in Nat
    <3>1. Gates!PRESET_MB[r.preset] \in {0, 450}
      BY DEF Gates!Request, Gates!PRESET_MB
    <3>2. Gates!kube_overhead_mb(r) = 0
      BY DEF Gates!kube_overhead_mb, Gates!Kubernetes
    <3> QED
      BY <3>1, <3>2 DEF Gates!Need, Gates!WORKSPACE_MB, Gates!MONITORING_MB
  <2>2. ~(Gates!Need(r) + Gates!host_reserve_mb <= box.available)
    BY <1>4 DEF Gates!check_memory
  <2>3. Gates!usable < 1830
    BY <2>1, <2>2, ReserveIs
  <2>4. ~(Gates!room >= 2)
    <3>1. Gates!usable \in Nat
      BY ReserveIs
    <3>2. Gates!room = Gates!usable \div 1100
      BY DEF Gates!room, Gates!WORKSPACE_MB
    <3> QED
      BY <2>3, <3>1, <3>2
  <2>5. [check |-> "memory", status |-> "warn"] \in Gates!run_checks
    BY <2>4 DEF Gates!run_checks, Gates!MemoryRows
  <2> QED
    BY <2>5 DEF Gates!Concerns, Gates!Kubernetes
<1> QED
  BY <1>1, <1>2, <1>3, <1>4, RefusedByDocker

\* Every refusal of a Kubernetes create has its row.
LEMMA KubernetesForetold ==
  ASSUME box \in Gates!Box, NEW r, Gates!Kubernetes(r.kind),
         Gates!Refusal(r) \notin {"no", "unsupported", "engine", "memory"}, box.own \notin {"dead", "elsewhere"}
  PROVE  \/ \E row \in Gates!run_checks : row.check \in Gates!Concerns(r.kind) /\ row.status # "ok"
         \/ \A row \in Gates!run_checks : row.check # "kubernetes-cluster"
<1> USE DEF Gates!Row
<1> SUFFICES ASSUME \E row \in Gates!run_checks : row.check = "kubernetes-cluster",
                    \A row \in Gates!run_checks : row.check \in Gates!Concerns(r.kind) => row.status = "ok"
             PROVE  FALSE
  OBVIOUS
<1>1. Gates!Concerns(r.kind) = {"ports", "kubernetes-tools", "kubernetes-cluster", "kubernetes-storage"}
  BY DEF Gates!Concerns
<1>2. Gates!needed \in {"fail", "warn"}
  BY DEF Gates!needed
<1>3. box.ports
  <2> SUFFICES ASSUME ~box.ports PROVE FALSE
    OBVIOUS
  <2>1. [check |-> "ports", status |-> "fail"] \in Gates!run_checks
    BY DEF Gates!run_checks, Gates!PortRows
  <2> QED
    BY <1>1, <2>1
<1>4. Gates!KubernetesRows = Gates!ToolRows \cup Gates!ClusterRows
  BY DEF Gates!run_checks, Gates!EngineRows, Gates!MemoryRows, Gates!PortRows, Gates!KubernetesRows
<1>5. Gates!ToolRows \cup Gates!ClusterRows \subseteq Gates!run_checks
  BY <1>4 DEF Gates!run_checks
<1>6. /\ box.kubectl = "fit" /\ box.helm = "fit" /\ box.kind \in {"absent", "fit"}
      /\ Gates!tools_ready /\ (Gates!can_provision <=> box.kind = "fit")
  <2>1. Gates!missing_tools = {}
    <3> SUFFICES ASSUME Gates!missing_tools # {} PROVE FALSE
      OBVIOUS
    <3>1. [check |-> "kubernetes-tools", status |-> "fail"] \in Gates!ToolRows
      BY DEF Gates!ToolRows
    <3> QED
      BY <1>1, <1>5, <3>1
  <2>2. Gates!outdated_tools = {}
    <3> SUFFICES ASSUME Gates!outdated_tools # {} PROVE FALSE
      OBVIOUS
    <3>1. [check |-> "kubernetes-tools", status |-> Gates!needed] \in Gates!ToolRows
      BY DEF Gates!ToolRows
    <3> QED
      BY <1>1, <1>2, <1>5, <3>1
  <2>3. box["kubectl"] = box.kubectl /\ box["helm"] = box.helm /\ box["kind"] = box.kind
    OBVIOUS
  <2> QED
    BY <2>1, <2>2, <2>3 DEF Gates!missing_tools, Gates!outdated_tools, Gates!which, Gates!new_enough, Gates!Box, Gates!Tools,
       Gates!tools_ready, Gates!can_provision
<1>7. \A status : [check |-> "kubernetes-cluster", status |-> status] \in Gates!ClusterRows => status = "ok"
  BY <1>1, <1>5
<1>8. \A status : [check |-> "kubernetes-storage", status |-> status] \in Gates!ClusterRows => status = "ok"
  BY <1>1, <1>5
<1>9. (Gates!ClustersKnown <=> box.kind = "fit" /\ box.docker)
      /\ (Gates!reachable("own") <=> box.own = "up" /\ box.docker) /\ (Gates!reachable("active") <=> box.active = "up")
  BY <1>6 DEF Gates!ClustersKnown, Gates!reachable, Gates!which
<1>10. ASSUME NEW c PROVE Gates!Looks(c) <=> ~(box.kind = "fit" /\ ~box.docker) /\ c # "none"
  BY <1>6, <1>9 DEF Gates!Looks, Gates!which
<1>11. box.own \in {"none", "up"} /\ box.active \in {"none", "dead", "up"}
  BY DEF Gates!Box
<1>12. CASE Gates!plan_cluster = Gates!NoPlan
  <2>1. ~Gates!ClustersKnown /\ ~Gates!reachable("own") /\ ~Gates!reachable("active") /\ ~Gates!plan_cluster.create
    BY <1>12 DEF Gates!plan_cluster, Gates!NoPlan
  <2>2. Gates!Context = IF box.active = "none" THEN "none" ELSE "active"
    BY <1>12 DEF Gates!Context
  <2>3. ~Gates!reachable(Gates!Context) \/ ~Gates!Looks(Gates!Context)
    BY <1>10, <2>1, <2>2
  <2>4. Gates!ClusterRows = Gates!NoClusterRows
    BY <2>3 DEF Gates!ClusterRows, Gates!Sees
  <2>5. [check |-> "kubernetes-cluster", status |-> Gates!needed] \in Gates!NoClusterRows
    BY <1>6, <1>9, <1>10, <2>1, <2>2 DEF Gates!NoClusterRows
  <2> QED
    BY <1>2, <1>7, <2>4, <2>5
<1>13. CASE Gates!plan_cluster # Gates!NoPlan
  <2>1. Gates!Context = Gates!plan_cluster.context
    BY <1>13 DEF Gates!Context
  <2>2. \/ Gates!plan_cluster.context = "own" /\ (Gates!plan_cluster.create <=> Gates!ClustersKnown /\ box.own = "none")
           /\ (Gates!ClustersKnown \/ Gates!reachable("own"))
        \/ Gates!plan_cluster.context = "active" /\ ~Gates!plan_cluster.create /\ Gates!reachable("active")
           /\ ~Gates!ClustersKnown
    BY <1>13 DEF Gates!plan_cluster, Gates!OwnExists
  <2>3. Gates!Usable(Gates!plan_cluster)
    BY <1>6, <1>9, <1>11, <2>2 DEF Gates!Usable, Gates!which
  <2>4. Gates!storage_blocker(Gates!plan_cluster)
    BY <1>3, <1>6, <1>13, <2>3, RefusedByKubernetes DEF Gates!which
  <2>5. /\ Gates!Looks(Gates!Context) /\ ~Gates!plan_cluster.create /\ box.storage # "default"
    BY <2>1, <2>4 DEF Gates!storage_blocker, Gates!Sees
  <2>6. Gates!reachable(Gates!Context)
    BY <1>9, <1>11, <2>1, <2>2, <2>5
  <2>7. [check |-> "kubernetes-storage", status |-> Gates!needed] \in Gates!ClusterRows
    BY <2>5, <2>6 DEF Gates!ClusterRows, Gates!Sees, Gates!StorageRows
  <2> QED
    BY <1>2, <1>8, <2>7
<1> QED
  BY <1>12, <1>13

\* Every refusal has its row in what was just told.
LEMMA Foretold == ASSUME GatesInv, Gates!Next PROVE Gates!Foretells
<1> SUFFICES ASSUME told.known, told.fresh, answer'.refusal # "no", answer'.refusal \notin Gates!Unasked(answer'.request.kind)
             PROVE  \/ \E row \in told.rows : row.check \in Gates!Concerns(answer'.request.kind) /\ row.status # "ok"
                    \/ Gates!Kubernetes(answer'.request.kind)
                       /\ (box.own \in {"dead", "elsewhere"} \/ \A row \in told.rows : row.check # "kubernetes-cluster")
  BY DEF Gates!Foretells
<1>1. PICK r \in Creates : Gates!Create(r)
  BY NothingAnswered DEF Gates!Next, Gates!Look, Gates!HostChanges
<1>2. answer'.request = r /\ Gates!Refusal(r) = answer'.refusal /\ r \in Gates!Request /\ box \in Gates!Box
  BY <1>1, NothingAnswered, HostsAre DEF Gates!Create, GatesInv
<1>3. told.rows = Gates!run_checks
  BY DEF GatesInv, Gates!Unanswered
<1> QED
  BY <1>2, <1>3, DockerForetold, KubernetesForetold DEF Gates!Unasked, Gates!Kubernetes

-----------------------------------------------------------------------------
(* The ports of workspaces.                                                *)

\* What the record claims is what the document publishes.
Agree(r, d) ==
  /\ r.monitoring_ports \in {{}, MonitorPorts}
  /\ r.sidecar_ports \cap MonitorPorts = {}
  /\ \A m \in d.ports : IF m.of = "monitor" THEN m.port \in r.monitoring_ports
                        ELSE m.port \in Claims!Span(r.n, r.port) \cup r.sidecar_ports
  /\ \A p \in Claims!Span(r.n, r.port) \cup r.sidecar_ports : \E m \in d.ports : m.of # "monitor" /\ m.port = p
  /\ \A p \in r.monitoring_ports : \E m \in d.ports : m.of = "monitor" /\ m.port = p

\* There are both, or neither.
Written(r, d) == \/ r = Nothing /\ d = Nothing
                 \/ r \in RecordSet /\ d \in DocSet /\ Agree(r, d)

ClaimsInv ==
  /\ DOMAIN record = NamesOf["ports"] /\ DOMAIN doc = NamesOf["ports"]
  /\ DOMAIN state = NamesOf["ports"]
  /\ \A w \in NamesOf["ports"] : Written(record[w], doc[w]) /\ (state[w] # "absent" => record[w] # Nothing)

\* The invariant holds where there is no workspace.
LEMMA ClaimsStart == ASSUME Claims!Init PROVE ClaimsInv
BY DEF Claims!Init, ClaimsInv, Written

\* Then what is published is what is claimed.
LEMMA AgreeingPorts ==
  ASSUME NEW r \in RecordSet, NEW d \in DocSet, Agree(r, d)
  PROVE  Claims!Published(d) = Claims!Claims(r)
BY DEF Agree, Claims!Published, Claims!Claims

\* There is a MongoDB for every version.
LEMMA Resolved == ASSUME NEW a \in AskSet PROVE Claims!resolve(a) \in Nat
<1> DEFINE p == Pairings[a.version]
<1>1. p.rule \in Nat /\ p.listed \subseteq Nat /\ (p.listed # {} => \E n \in p.listed : \A m \in p.listed : m <= n)
      /\ a.mongo \in Nat /\ a.offline \in BOOLEAN
  BY BlueprintsAre DEF AskSet
<1> HIDE DEF p
<1>2. p.listed # {} => (CHOOSE n \in p.listed : \A m \in p.listed : m <= n) \in Nat
  BY <1>1
<1> QED
  BY <1>1, <1>2 DEF Claims!resolve, p

\* One to five instances.
LEMMA InstancesAre == ASSUME NEW w, NEW a \in AskSet PROVE Claims!Instances(w, a) \in 1 .. 5
BY DEF AskSet, Claims!Instances, Claims!Replicas

\* A span has the port it begins with.
LEMMA Spans == ASSUME NEW n \in Nat, NEW p \in Nat PROVE p \in Claims!Span(n, p) /\ Claims!Span(n, p) \subseteq Nat
BY DEF Claims!Span

\* What `up` makes of a request.
LEMMA Made ==
  ASSUME ClaimsInv, NEW w \in NamesOf["ports"], NEW a \in AskSet, NEW n \in 1 .. 5, NEW port \in Nat
  PROVE  LET r == Claims!Metadata(w, a, n, port, Claims!_resolve_tls(w, a))
             d == Claims!build(w, a, n, port, Claims!_resolve_tls(w, a))
         IN r \in RecordSet /\ d \in DocSet /\ Agree(r, d)
<1> DEFINE tls == Claims!_resolve_tls(w, a)
<1> DEFINE side == SidePorts[Claims!Scenario(a)]
<1> DEFINE watched == IF a.monitor THEN MonitorPorts ELSE {}
<1>1. side \in SUBSET Nat /\ side \cap MonitorPorts = {} /\ watched \in SUBSET Nat /\ watched \in {{}, MonitorPorts}
  <2>1. Claims!Scenario(a) \in DOMAIN SidePorts
    BY BlueprintsAre DEF Claims!Scenario, Claims!Legacy, AskSet
  <2> QED
    BY <2>1, BlueprintsAre
<1>2. tls \in [mode : {"no", "acme", "local"}, host : Hosts]
  <2>1. Claims!Exists(w) => record[w].tls \in [mode : {"no", "acme", "local"}, host : Hosts]
    <3>1. Claims!Exists(w) => record[w] \in RecordSet
      BY DEF Claims!Exists, ClaimsInv, Written
    <3>2. \A r \in RecordSet : r.tls \in [mode : {"no", "acme", "local"}, host : Hosts]
      BY DEF RecordSet
    <3> QED
      BY <3>1, <3>2
  <2>2. Claims!NoName \in [mode : {"no", "acme", "local"}, host : Hosts]
    BY DEF Claims!NoName, Hosts
  <2>3. a.domain \in Hosts
    BY DEF AskSet
  <2> QED
    BY <2>1, <2>2, <2>3 DEF Claims!_resolve_tls, Claims!_tls_from_record
<1>3. Claims!Overrides(w, a) \in Values
  <2>1. \A k \in Claims!Keys : Claims!Exists(w) => record[w].env[k] \in {"mine", "gone", "unsaid"}
    BY DEF Claims!Exists, ClaimsInv, Written, RecordSet, Values, Plans!Keys, Claims!Keys
  <2> QED
    BY <2>1 DEF Claims!Overrides, Values, Plans!Keys, Claims!Keys
<1>4. Claims!_rc_environment(w, a, n, tls) \in Settings
  <2>1. \A k \in Claims!Keys : Claims!Overrides(w, a)[k] \in {"mine", "gone", "unsaid"}
    BY <1>3 DEF Values, Plans!Keys, Claims!Keys
  <2>2. \A k \in Claims!Keys : Claims!Given(k, a, tls) \in {"given", "public", "local", "base", "preset", "unset"}
    BY DEF Claims!Given
  <2> HIDE DEF tls
  <2>3. \A k \in Claims!Keys : Claims!Said(Claims!Overrides(w, a), k, Claims!Given(k, a, tls))
          \in {"mine", "unset", "base", "preset", "given", "public", "local"}
    BY <2>1, <2>2 DEF Claims!Said
  <2> QED
    BY <2>3 DEF Claims!_rc_environment, Settings, Plans!Keys, Claims!Keys
<1>5. Claims!resolve(a) \in Nat /\ Claims!_flavor(Claims!resolve(a)) \in {"official", "bitnami-legacy"}
  BY Resolved DEF Claims!_flavor
<1>6. a.version \in DOMAIN Pairings /\ a.bind \in STRING
  BY DEF AskSet
<1> DEFINE r == Claims!Metadata(w, a, n, port, tls)
<1> DEFINE d == Claims!build(w, a, n, port, tls)
<1>7. r \in RecordSet
  <2> HIDE DEF tls
  <2> QED
    BY <1>1, <1>2, <1>3, <1>5, <1>6 DEF Claims!Metadata, RecordSet
<1> DEFINE ports == Claims!Mapping({port}, "entry", a.bind) \cup Claims!Mapping(Claims!Span(n, port) \ {port}, "instance", a.bind)
             \cup Claims!Mapping(side, "side", a.bind) \cup Claims!Mapping(watched, "monitor", a.bind)
<1>8. Claims!Span(n, port) \subseteq Nat /\ port \in Claims!Span(n, port)
  <2>1. n \in Nat
    OBVIOUS
  <2> QED
    BY <2>1, Spans
<1>9. d.ports = ports /\ d.rc = Claims!rc_service_names(n) /\ d.env = Claims!_rc_environment(w, a, n, tls)
      /\ d.mongo = Claims!_flavor(Claims!resolve(a))
      /\ d = [rc |-> d.rc, ports |-> d.ports, env |-> d.env, mongo |-> d.mongo]
  BY DEF Claims!build
<1>10. ports \in SUBSET [port : Nat, of : {"entry", "instance", "side", "monitor"}, bind : STRING]
  <2> HIDE DEF side, watched
  <2> QED
    BY <1>1, <1>6, <1>8 DEF Claims!Mapping
<1>11. d \in DocSet
  <2>1. Claims!rc_service_names(n) \in SUBSET Nat
    BY DEF Claims!rc_service_names
  <2> HIDE DEF d, ports, tls
  <2> QED
    BY <1>4, <1>5, <1>9, <1>10, <2>1 DEF DocSet
<1>12. r.n = n /\ r.port = port /\ r.sidecar_ports = side /\ r.monitoring_ports = watched
  BY DEF Claims!Metadata
<1>13. Agree(r, d)
  <2>1. \A m \in ports : IF m.of = "monitor" THEN m.port \in watched ELSE m.port \in Claims!Span(n, port) \cup side
    <3> HIDE DEF side, watched
    <3> QED
      BY <1>8 DEF Claims!Mapping
  <2>2. \A p \in Claims!Span(n, port) \cup side : \E m \in ports : m.of # "monitor" /\ m.port = p
    <3> HIDE DEF side, watched
    <3>1. \A p \in Claims!Span(n, port) : [port |-> p, of |-> IF p = port THEN "entry" ELSE "instance", bind |-> a.bind] \in ports
      BY DEF Claims!Mapping
    <3>2. \A p \in side : [port |-> p, of |-> "side", bind |-> a.bind] \in ports
      BY DEF Claims!Mapping
    <3> HIDE DEF ports
    <3> QED
      BY <3>1, <3>2
  <2>3. \A p \in watched : \E m \in ports : m.of = "monitor" /\ m.port = p
    <3> HIDE DEF side, watched
    <3>1. \A p \in watched : [port |-> p, of |-> "monitor", bind |-> a.bind] \in ports
      BY DEF Claims!Mapping
    <3> HIDE DEF ports
    <3> QED
      BY <3>1
  <2> HIDE DEF r, d, side, watched, ports
  <2> QED
    BY <1>1, <1>9, <1>12, <2>1, <2>2, <2>3 DEF Agree
<1> QED
  BY <1>7, <1>11, <1>13

\* A record and a document that agree take the place of what is there.
LEMMA Filled ==
  ASSUME ClaimsInv, NEW w \in NamesOf["ports"],
         NEW r, NEW d, record' = [record EXCEPT ![w] = r], doc' = [doc EXCEPT ![w] = d],
         r \in RecordSet, d \in DocSet, Agree(r, d), state' \in {state, Claims!Up(w, d)}
  PROVE  ClaimsInv'
<1>1. r # Nothing
  BY BlueprintsAre
<1> QED
  BY <1>1 DEF ClaimsInv, Written, Claims!Up

\* `up` writes a record and a document that agree.
LEMMA CreateWrites ==
  ASSUME ClaimsInv, NEW w \in NamesOf["ports"], NEW a \in AsksOf["ports"], Claims!Create(w, a)
  PROVE  ClaimsInv'
<1> DEFINE n == Claims!Instances(w, a)
<1> DEFINE tls == Claims!_resolve_tls(w, a)
<1>1. a \in AskSet /\ n \in 1 .. 5
  BY InstancesAre, BlueprintsAre
<1>2. PICK port \in Claims!Ports(w, a, n) :
        /\ record' = [record EXCEPT ![w] = Claims!Metadata(w, a, n, port, tls)]
        /\ doc' = [doc EXCEPT ![w] = Claims!build(w, a, n, port, tls)]
        /\ state' = Claims!Up(w, Claims!build(w, a, n, port, tls))
  BY DEF Claims!Create
<1>3. port \in Nat
  <2>1. a.port \in Nat
    BY <1>1 DEF AskSet
  <2>2. \A p \in 1 .. MaxPort : p \in Nat
    OBVIOUS
  <2> QED
    BY <2>1, <2>2 DEF Claims!Ports
<1> DEFINE r == Claims!Metadata(w, a, n, port, tls)
<1> DEFINE d == Claims!build(w, a, n, port, tls)
<1>4. r \in RecordSet /\ d \in DocSet /\ Agree(r, d)
  BY <1>1, <1>3, Made
<1>5. state' = Claims!Up(w, d)
  BY <1>2
<1> HIDE DEF r, d
<1> QED
  BY <1>2, <1>4, <1>5, Filled DEF r, d

\* `env` leaves the ports of both.
LEMMA EnvWrites ==
  ASSUME ClaimsInv, NEW w \in NamesOf["ports"], Claims!SetEnv(w)
  PROVE  ClaimsInv'
<1>1. PICK k \in SettableOf["ports"], said \in {"mine", "gone"} : Claims!_set_env(w, k, said)
  BY DEF Claims!SetEnv
<1>2. record[w] \in RecordSet /\ doc[w] \in DocSet /\ Agree(record[w], doc[w])
  BY DEF Claims!SetEnv, Claims!Exists, ClaimsInv, Written
<1> DEFINE over == [record[w].env EXCEPT ![k] = said]
<1> DEFINE r == [record[w] EXCEPT !.env = over]
<1> DEFINE said2 == [j \in Claims!Keys |-> Claims!Said(over, j, doc[w].env[j])]
<1> DEFINE d == [doc[w] EXCEPT !.env = said2]
<1>3. record' = [record EXCEPT ![w] = r] /\ doc' = [doc EXCEPT ![w] = d]
  BY <1>1 DEF Claims!_set_env
<1>4. over \in Values
  BY <1>2 DEF RecordSet, Values
<1>5. said2 \in Settings
  <2>1. \A j \in Claims!Keys : over[j] \in {"mine", "gone", "unsaid"} /\ doc[w].env[j] \in {"mine", "unset", "base", "preset", "given", "public", "local"}
    BY <1>2, <1>4 DEF Values, DocSet, Settings, Plans!Keys, Claims!Keys
  <2> HIDE DEF over
  <2>2. \A j \in Claims!Keys : Claims!Said(over, j, doc[w].env[j]) \in {"mine", "unset", "base", "preset", "given", "public", "local"}
    BY <2>1 DEF Claims!Said
  <2> QED
    BY <2>2 DEF Settings, Plans!Keys, Claims!Keys
<1> HIDE DEF over, said2
<1>6. r \in RecordSet /\ d \in DocSet /\ Agree(r, d)
  BY <1>2, <1>4, <1>5 DEF RecordSet, DocSet, Agree
<1>7. state' \in {state, Claims!Up(w, d)}
  BY <1>1 DEF Claims!_set_env, said2, over
<1> HIDE DEF r, d
<1> QED
  BY <1>3, <1>6, <1>7, Filled

\* `monitor` adds its ports to both.
LEMMA AttachWrites ==
  ASSUME ClaimsInv, NEW w \in NamesOf["ports"], record[w] # Nothing, Claims!Attach(w)
  PROVE  ClaimsInv'
<1> DEFINE old == record[w]
<1> DEFINE bind == Claims!_detect_bind(doc[w])
<1> DEFINE more == Claims!Mapping(MonitorPorts, "monitor", bind)
<1> DEFINE r == [record[w] EXCEPT !.monitoring_ports = MonitorPorts]
<1> DEFINE d == [doc[w] EXCEPT !.ports = @ \cup more]
<1>1. record[w] \in RecordSet /\ doc[w] \in DocSet /\ Agree(record[w], doc[w])
  BY DEF ClaimsInv, Written
<1>2. record' = [record EXCEPT ![w] = r] /\ doc' = [doc EXCEPT ![w] = d] /\ state' = Claims!Up(w, d)
  BY DEF Claims!Attach, Claims!Monitored
<1>3. bind \in STRING
  <2>1. \E m \in doc[w].ports : m.bind \in STRING
    <3>1. old.port \in Claims!Span(old.n, old.port)
      BY <1>1, Spans DEF RecordSet
    <3>2. \E m \in doc[w].ports : m.port = old.port
      BY <1>1, <3>1 DEF Agree
    <3> QED
      BY <1>1, <3>2 DEF DocSet
  <2>2. bind \in {m.bind : m \in doc[w].ports}
    BY <2>1 DEF Claims!_detect_bind
  <2> QED
    BY <1>1, <2>2 DEF DocSet
<1> HIDE DEF bind
<1>4. /\ \A m \in more : m.port \in MonitorPorts /\ m.of = "monitor"
         /\ m \in [port : Nat, of : {"entry", "instance", "side", "monitor"}, bind : STRING]
      /\ \A p \in MonitorPorts : [port |-> p, of |-> "monitor", bind |-> bind] \in more
  BY <1>3, BlueprintsAre DEF Claims!Mapping
<1>5. \A p \in MonitorPorts : \E m \in more : m.of = "monitor" /\ m.port = p
  BY <1>4
<1> HIDE DEF more
<1>6. r \in RecordSet /\ d \in DocSet
  BY <1>1, <1>4, BlueprintsAre DEF RecordSet, DocSet
<1>7. /\ r.n = old.n /\ r.port = old.port /\ r.sidecar_ports = old.sidecar_ports /\ r.monitoring_ports = MonitorPorts
      /\ d.ports = doc[w].ports \cup more
  BY <1>1 DEF RecordSet, DocSet
<1> HIDE DEF r, d
<1>8. Agree(r, d)
  BY <1>1, <1>4, <1>5, <1>7 DEF Agree
<1> QED
  BY <1>2, <1>6, <1>8, Filled

\* `monitor --off` takes them out of both.
LEMMA DetachWrites ==
  ASSUME ClaimsInv, NEW w \in NamesOf["ports"], record[w] # Nothing, Claims!Detach(w)
  PROVE  ClaimsInv'
<1> DEFINE old == record[w]
<1> DEFINE r == [record[w] EXCEPT !.monitoring_ports = {}]
<1> DEFINE d == [doc[w] EXCEPT !.ports = {m \in @ : m.of # "monitor"}]
<1>1. record[w] \in RecordSet /\ doc[w] \in DocSet /\ Agree(record[w], doc[w])
  BY DEF ClaimsInv, Written
<1>2. record' = [record EXCEPT ![w] = r] /\ doc' = [doc EXCEPT ![w] = d] /\ state' = state
  BY DEF Claims!Detach, Claims!Unmonitored
<1>6. r \in RecordSet /\ d \in DocSet
  BY <1>1 DEF RecordSet, DocSet
<1>7. /\ r.n = old.n /\ r.port = old.port /\ r.sidecar_ports = old.sidecar_ports /\ r.monitoring_ports = {}
      /\ d.ports = {m \in doc[w].ports : m.of # "monitor"}
  BY <1>1 DEF RecordSet, DocSet
<1> HIDE DEF r, d
<1>8. Agree(r, d)
  BY <1>1, <1>7 DEF Agree
<1> QED
  BY <1>2, <1>6, <1>8, Filled

\* The invariant is inductive.
LEMMA ClaimsNext ==
  ASSUME ClaimsInv, Claims!Next
  PROVE  ClaimsInv'
<1> SUFFICES ASSUME NEW w \in NamesOf["ports"],
               (\E a \in AsksOf["ports"] : Claims!Create(w, a) \/ Claims!_reuse(w, a))
               \/ Claims!Start(w) \/ Claims!Stop(w) \/ Claims!Down(w) \/ Claims!SetEnv(w) \/ Claims!Attach(w) \/ Claims!Detach(w)
             PROVE  ClaimsInv'
  BY DEF Claims!Next
<1>1. CASE \E a \in AsksOf["ports"] : Claims!Create(w, a)
  BY <1>1, CreateWrites
<1>2. CASE (\E a \in AsksOf["ports"] : Claims!_reuse(w, a)) \/ Claims!Start(w) \/ Claims!Stop(w)
  BY <1>2 DEF Claims!_reuse, Claims!Start, Claims!Stop, Claims!Up, Claims!Reuses, Claims!Exists, ClaimsInv
<1>3. CASE Claims!Down(w)
  BY <1>3 DEF Claims!Down, ClaimsInv, Written
<1>4. CASE Claims!SetEnv(w)
  BY <1>4, EnvWrites
<1>5. CASE Claims!Attach(w)
  <2>1. record[w] # Nothing
    BY <1>5 DEF Claims!Attach, ClaimsInv
  <2> QED
    BY <1>5, <2>1, AttachWrites
<1>6. CASE Claims!Detach(w)
  BY <1>6, DetachWrites DEF Claims!Detach, Claims!Exists
<1> QED
  BY <1>1, <1>2, <1>3, <1>4, <1>5, <1>6

\* A preset's ports are its own among the records', and nobody's who runs.
LEMMA FixedPort ==
  ASSUME ClaimsInv, NEW w \in NamesOf["ports"], NEW v \in NamesOf["ports"], v # w, record[v] # Nothing,
         NEW wanted, NEW what \in {"sidecar_ports", "monitoring_ports"}, Claims!Claimable(w, wanted, what),
         NEW p \in wanted, p \in Claims!Published(doc[v]), record[w] = Nothing \/ p \notin Claims!Claims(record[w])
  PROVE  p \notin record[v][what] /\ state[v] # "running"
<1>1. p \notin record[v][what]
  BY DEF Claims!Claimable, Claims!Recorded, Claims!Exists
<1>2. p \notin (IF Claims!Exists(w) THEN record[w][what] ELSE {})
  BY DEF Claims!Claims, Claims!Exists
<1>3. Claims!port_free(p)
  BY <1>2 DEF Claims!Claimable
<1> QED
  BY <1>1, <1>3 DEF Claims!port_free, Claims!Listening

\* What a record claims is used.
LEMMA UsedPorts ==
  ASSUME NEW free, NEW v \in Claims!Recorded, NEW p \in Claims!Claims(record[v]), p \notin free
  PROVE  p \in Claims!used_ports(free)
<1>1. Claims!Claims(record[v]) \in {Claims!Claims(record[w]) : w \in Claims!Recorded}
  OBVIOUS
<1>2. p \in UNION {Claims!Claims(record[w]) : w \in Claims!Recorded}
  BY <1>1
<1> QED
  BY <1>2 DEF Claims!used_ports

\* No port that a command newly publishes is in the document of another
\* workspace, but a fixed one that was picked for Rocket.Chat there.
LEMMA PortsApart ==
  ASSUME ClaimsInv, Claims!Next
  PROVE  Claims!PortsStayApart
<1> SUFFICES ASSUME NEW w \in NamesOf["ports"], NEW v \in NamesOf["ports"], v # w, record[v] # Nothing,
                    NEW p, p \in Claims!New(w), p \in Claims!Published(doc[v])
             PROVE  p \in Claims!Fixed(w) /\ p \in Claims!Front(v) /\ state[v] # "running"
  BY DEF Claims!PortsStayApart, Claims!Recorded, Claims!Exists
<1>1. /\ record[v] \in RecordSet /\ doc[v] \in DocSet /\ Agree(record[v], doc[v])
      /\ Claims!Published(doc[v]) = Claims!Claims(record[v])
  <2>1. record[v] \in RecordSet /\ doc[v] \in DocSet /\ Agree(record[v], doc[v])
    BY DEF ClaimsInv, Written
  <2> QED
    BY <2>1, AgreeingPorts
<1>2. record[w] = Nothing \/ p \notin Claims!Claims(record[w])
  <2> SUFFICES ASSUME record[w] # Nothing PROVE p \notin Claims!Claims(record[w])
    OBVIOUS
  <2>1. record[w] \in RecordSet /\ doc[w] \in DocSet /\ Agree(record[w], doc[w])
    BY DEF ClaimsInv, Written
  <2>2. doc[w] # Nothing
    BY <2>1, BlueprintsAre
  <2> QED
    BY <2>1, <2>2, AgreeingPorts DEF Claims!New
<1>3. doc'[w] # Nothing /\ p \in Claims!Published(doc'[w]) /\ (doc[w] = Nothing \/ p \notin Claims!Published(doc[w]))
  BY DEF Claims!New
<1>4. p \in record[v].sidecar_ports \/ p \in record[v].monitoring_ports \/ p \in Claims!Front(v)
  BY <1>1 DEF Claims!Claims, Claims!Front
<1>5. doc'[w] # doc[w]
  BY <1>3
<1>6. record[v].monitoring_ports \subseteq MonitorPorts /\ record[v].sidecar_ports \cap MonitorPorts = {}
  BY <1>1 DEF Agree
<1>7. ASSUME NEW a \in AsksOf["ports"], Claims!Create(w, a)
      PROVE  p \in Claims!Fixed(w) /\ p \in Claims!Front(v) /\ state[v] # "running"
  <2> DEFINE n == Claims!Instances(w, a)
  <2> DEFINE tls == Claims!_resolve_tls(w, a)
  <2> DEFINE side == SidePorts[Claims!Scenario(a)]
  <2>1. PICK port \in Claims!Ports(w, a, n) :
          /\ record' = [record EXCEPT ![w] = Claims!Metadata(w, a, n, port, tls)]
          /\ doc' = [doc EXCEPT ![w] = Claims!build(w, a, n, port, tls)]
    BY <1>7 DEF Claims!Create
  <2>2. record'[w] = Claims!Metadata(w, a, n, port, tls) /\ doc'[w] = Claims!build(w, a, n, port, tls)
    BY <2>1 DEF ClaimsInv
  <2>3. p \in {port} \cup Claims!Span(n, port) \cup side \/ (a.monitor /\ p \in MonitorPorts)
    BY <1>3, <2>2 DEF Claims!build, Claims!Published, Claims!Mapping
  <2>4. port \in Claims!Span(n, port)
    <3>1. a \in AskSet /\ n \in Nat
      BY InstancesAre, BlueprintsAre
    <3>2. a.port \in Nat
      BY <3>1 DEF AskSet
    <3>3. port \in (IF a.port # 0 THEN {a.port} ELSE 1 .. MaxPort)
      BY DEF Claims!Ports
    <3>4. port \in Nat
      BY <3>2, <3>3
    <3> QED
      BY <3>1, <3>4, Spans
  <2>5. p \notin Claims!Span(n, port)
    <3> SUFFICES ASSUME p \in Claims!Span(n, port) PROVE FALSE
      OBVIOUS
    <3>1. Claims!Fits(w, a, n, port)
      BY DEF Claims!Ports
    <3>2. p \notin Claims!used_ports(Claims!own_ports(w)) \/ p \notin Claims!used_ports({})
      BY <3>1 DEF Claims!Fits
    <3>3. p \notin Claims!own_ports(w)
      BY <1>2 DEF Claims!own_ports, Claims!Exists
    <3>4. p \in Claims!Claims(record[v])
      BY <1>1
    <3>6. \A free : p \notin free => p \in Claims!used_ports(free)
      BY <3>4, UsedPorts DEF Claims!Recorded, Claims!Exists
    <3> QED
      BY <3>2, <3>3, <3>6
  <2>6. record'[w].sidecar_ports = side /\ record'[w].monitoring_ports = IF a.monitor THEN MonitorPorts ELSE {}
    BY <2>2 DEF Claims!Metadata
  <2>7. CASE p \in side
    <3>1. p \notin record[v]["sidecar_ports"] /\ state[v] # "running"
      BY <1>2, <1>7, <2>7, FixedPort DEF Claims!Create
    <3>2. p \notin MonitorPorts
      <4>1. Claims!Scenario(a) \in DOMAIN SidePorts
        BY BlueprintsAre DEF Claims!Scenario, Claims!Legacy, AskSet
      <4> QED
        BY <2>7, <4>1, BlueprintsAre
    <3> QED
      BY <1>4, <1>6, <2>6, <2>7, <3>1, <3>2 DEF Claims!Fixed
  <2>8. CASE a.monitor /\ p \in MonitorPorts
    <3>1. p \notin record[v]["monitoring_ports"] /\ state[v] # "running"
      BY <1>2, <1>7, <2>8, FixedPort DEF Claims!Create
    <3> QED
      BY <1>4, <1>6, <2>6, <2>8, <3>1 DEF Claims!Fixed
  <2> QED
    BY <2>3, <2>4, <2>5, <2>7, <2>8
<1>8. ASSUME Claims!Attach(w)
      PROVE  p \in Claims!Fixed(w) /\ p \in Claims!Front(v) /\ state[v] # "running"
  <2>1. record[w] # Nothing /\ record[w] \in RecordSet /\ doc[w] \in DocSet /\ Agree(record[w], doc[w])
    BY <1>8 DEF Claims!Attach, ClaimsInv, Written
  <2>2. doc'[w] = Claims!Monitored(doc[w]) /\ record'[w].monitoring_ports = MonitorPorts
    BY <1>8, <2>1 DEF Claims!Attach, ClaimsInv, RecordSet
  <2>3. p \in MonitorPorts
    <3>1. doc'[w].ports = doc[w].ports \cup Claims!Mapping(MonitorPorts, "monitor", Claims!_detect_bind(doc[w]))
      BY <2>1, <2>2 DEF Claims!Monitored, DocSet
    <3>2. p \notin Claims!Published(doc[w])
      BY <1>2, <2>1, AgreeingPorts
    <3> QED
      BY <1>3, <3>1, <3>2 DEF Claims!Published, Claims!Mapping
  <2>4. p \notin record[v]["monitoring_ports"] /\ state[v] # "running"
    BY <1>2, <1>8, <2>3, FixedPort DEF Claims!Attach
  <2> QED
    BY <1>4, <1>6, <2>2, <2>3, <2>4 DEF Claims!Fixed
<1>9. ASSUME Claims!SetEnv(w) \/ Claims!Detach(w) PROVE FALSE
  <2>1. record[w] # Nothing /\ doc[w] \in DocSet
    BY <1>9 DEF Claims!SetEnv, Claims!Detach, Claims!Exists, ClaimsInv, Written
  <2>2. CASE Claims!SetEnv(w)
    <3>1. PICK k \in SettableOf["ports"], said \in {"mine", "gone"} : Claims!_set_env(w, k, said)
      BY <2>2 DEF Claims!SetEnv
    <3>2. doc'[w].ports = doc[w].ports
      BY <2>1, <3>1 DEF Claims!_set_env, ClaimsInv, DocSet
    <3> QED
      BY <1>3, <2>1, <3>2, BlueprintsAre DEF Claims!Published
  <2>3. CASE Claims!Detach(w)
    <3>1. doc'[w] = Claims!Unmonitored(doc[w])
      BY <2>3 DEF Claims!Detach, ClaimsInv
    <3>2. doc'[w].ports \subseteq doc[w].ports
      BY <2>1, <3>1 DEF Claims!Unmonitored, DocSet
    <3> QED
      BY <1>3, <2>1, <3>2, BlueprintsAre DEF Claims!Published
  <2> QED
    BY <1>9, <2>2, <2>3
<1>10. PICK x \in NamesOf["ports"] :
         (\E a \in AsksOf["ports"] : Claims!Create(x, a) \/ Claims!_reuse(x, a))
         \/ Claims!Start(x) \/ Claims!Stop(x) \/ Claims!Down(x) \/ Claims!SetEnv(x) \/ Claims!Attach(x) \/ Claims!Detach(x)
  BY DEF Claims!Next
<1>11. (\E a \in AsksOf["ports"] : Claims!Create(x, a)) \/ Claims!SetEnv(x) \/ Claims!Attach(x) \/ Claims!Detach(x)
  BY <1>3, <1>5, <1>10 DEF Claims!_reuse, Claims!Start, Claims!Stop, Claims!Down, ClaimsInv
<1>12. x = w
  BY <1>5, <1>11 DEF Claims!Create, Claims!SetEnv, Claims!_set_env, Claims!Attach, Claims!Detach, ClaimsInv
<1> QED
  BY <1>7, <1>8, <1>9, <1>11, <1>12

-----------------------------------------------------------------------------
(* The name and the environment of a workspace.                            *)

TlsSet == [mode : {"no", "acme", "local"}, host : Hosts]

\* The document says what the record does.
Planned(r, d) ==
  /\ r \in RecordSet /\ {"rc", "env", "ports"} \subseteq DOMAIN d
  /\ d.rc = Plans!rc_service_names(r.n)
  /\ r.env["METRICS"] = "unsaid"
  /\ \A k \in Plans!Keys : \/ k = "TRANSPORTER" /\ r.n > 1
                           \/ d.env[k] = Plans!Said(r.env, k, d.env[k])

PlansInv ==
  /\ DOMAIN record = NamesOf["plans"] /\ DOMAIN doc = NamesOf["plans"]
  /\ DOMAIN route = NamesOf["plans"] /\ state \in [NamesOf["plans"] -> Plans!States]
  /\ \A w \in NamesOf["plans"] :
       /\ record[w] # Nothing => Planned(record[w], doc[w])
       /\ state[w] # "absent" => record[w] # Nothing

\* The invariant holds where there is no workspace.
LEMMA PlansStart == ASSUME Plans!Init PROVE PlansInv
BY DEF Plans!Init, PlansInv, Plans!States

\* What is said of a variable, said again, is the same.
LEMMA SaidTwice ==
  ASSUME NEW over \in Values, NEW k \in Plans!Keys, NEW otherwise
  PROVE  LET said == Plans!Said(over, k, otherwise) IN said = Plans!Said(over, k, said)
BY DEF Plans!Said, Values

\* A route leads to the instances it was made for.
LEMMA Routed ==
  ASSUME NEW n \in Nat, NEW tls \in TlsSet
  PROVE  /\ Plans!Route(n, tls).to = Plans!rc_service_names(n)
         /\ Plans!Route(n, tls).host = tls.host
         /\ Plans!Route(n, tls) # Nothing
<1> SUFFICES ASSUME NEW here \in BOOLEAN, (tls.mode = "local") = here
             PROVE  [host |-> tls.host, to |-> Plans!rc_service_names(n), local |-> here] \in RouteSet
  BY BlueprintsAre DEF Plans!Route
<1>1. tls.host \in Hosts
  BY DEF TlsSet
<1>2. Plans!rc_service_names(n) \subseteq Nat
  BY DEF Plans!rc_service_names
<1> QED
  BY <1>1, <1>2 DEF RouteSet

\* A request that names no name gets the one that is there.
LEMMA PlansResolveTls ==
  ASSUME PlansInv, NEW w \in NamesOf["plans"], NEW a \in AskSet
  PROVE  /\ Plans!_resolve_tls(w, a) \in TlsSet
         /\ ~Plans!Named(a) /\ record[w] # Nothing => Plans!_resolve_tls(w, a) = record[w].tls
<1>1. Plans!Exists(w) => record[w].tls \in TlsSet
  <2>1. Plans!Exists(w) => record[w] \in RecordSet
    BY DEF Plans!Exists, PlansInv, Planned
  <2>2. \A r \in RecordSet : r.tls \in TlsSet
    BY DEF RecordSet, TlsSet
  <2> QED
    BY <2>1, <2>2
<1>2. Plans!NoName \in TlsSet
  BY DEF Plans!NoName, TlsSet, Hosts
<1>3. a.domain \in Hosts
  BY DEF AskSet
<1>4. Plans!Named(a) => Plans!_resolve_tls(w, a) \in TlsSet
  BY <1>3 DEF Plans!_resolve_tls, TlsSet
<1> QED
  BY <1>1, <1>2, <1>4 DEF Plans!_resolve_tls, Plans!_tls_from_record, Plans!Exists

\* One to five instances.
LEMMA PlansInstances == ASSUME NEW w, NEW a \in AskSet PROVE Plans!Instances(w, a) \in 1 .. 5
BY DEF AskSet, Plans!Instances, Plans!Replicas

\* What was set stays, where it is not set anew.
LEMMA PlansOverrides ==
  ASSUME PlansInv, NobodySetsMetrics, NEW w \in NamesOf["plans"], NEW a \in AsksOf["plans"]
  PROVE  /\ Plans!Overrides(w, a) \in Values /\ Plans!Overrides(w, a)["METRICS"] = "unsaid"
         /\ \A k \in Plans!Keys \ a.env : record[w] # Nothing => Plans!Overrides(w, a)[k] = record[w].env[k]
<1>1. Plans!Exists(w) => record[w].env \in Values /\ record[w].env["METRICS"] = "unsaid"
  BY DEF Plans!Exists, PlansInv, Planned, RecordSet
<1>2. "METRICS" \notin a.env
  BY DEF NobodySetsMetrics
<1>3. "METRICS" \in Plans!Keys
  BY DEF Plans!Keys
<1> QED
  BY <1>1, <1>2, <1>3 DEF Plans!Overrides, Values, Plans!Exists

\* `up` of a workspace that is there, or not, writes what was set before.
LEMMA PlansMade ==
  ASSUME NobodySetsMetrics, PlansInv, NEW w \in NamesOf["plans"], NEW a \in AsksOf["plans"], Plans!Create(w, a)
  PROVE  /\ Planned(record'[w], doc'[w])
         /\ Plans!NameIsBack(w, a) \/ record[w] = Nothing
         /\ Plans!EnvironmentIsBack(w, a) \/ record[w] = Nothing
<1> DEFINE n == Plans!Instances(w, a)
<1> DEFINE tls == Plans!_resolve_tls(w, a)
<1>a. a \in AskSet
  BY BlueprintsAre
<1>n. n \in Nat
  BY <1>a, PlansInstances
<1>t. tls \in TlsSet /\ (~Plans!Named(a) /\ record[w] # Nothing => tls = record[w].tls)
  BY <1>a, PlansResolveTls
<1>1. PICK port \in Nat :
                  /\ record'[w] = Plans!Metadata(w, a, n, port, tls)
                  /\ doc'[w] = Plans!build(w, a, n, port, tls)
  <2>1. PICK port \in Plans!Ports(w, a, n) : /\ record'[w] = Plans!Metadata(w, a, n, port, tls)
                                             /\ doc'[w] = Plans!build(w, a, n, port, tls)
    BY DEF Plans!Create, PlansInv
  <2>2. a.port \in Nat
    BY <1>a DEF AskSet
  <2>3. port \in (IF a.port # 0 THEN {a.port} ELSE 1 .. MaxPort)
    BY DEF Plans!Ports
  <2> HIDE DEF n, tls
  <2> QED
    BY <2>1, <2>2, <2>3
<1>2. /\ {"rc", "env", "ports"} \subseteq DOMAIN doc'[w]
      /\ record'[w].n = n /\ record'[w].tls = tls /\ record'[w].env = Plans!Overrides(w, a)
      /\ record'[w].monitoring_ports = (IF a.monitor THEN MonitorPorts ELSE {})
      /\ doc'[w].rc = Plans!rc_service_names(n) /\ doc'[w].env = Plans!_rc_environment(w, a, n, tls)
  BY <1>1 DEF Plans!Metadata, Plans!build
<1>3. ASSUME NEW k \in Plans!Keys
      PROVE  \/ k = "TRANSPORTER" /\ record'[w].n > 1
             \/ k = "METRICS" /\ record'[w].monitoring_ports # {}
             \/ doc'[w].env[k] = Plans!Said(record'[w].env, k, doc'[w].env[k])
  <2> DEFINE otherwise == Plans!Given(k, a, tls)
  <2>1. CASE ~(k = "TRANSPORTER" /\ n > 1) /\ ~(k = "METRICS" /\ a.monitor)
    <3>1. doc'[w].env[k] = Plans!Said(Plans!Overrides(w, a), k, otherwise)
      BY <1>2, <2>1 DEF Plans!_rc_environment
    <3> HIDE DEF otherwise
    <3> QED
      BY <1>2, <3>1, PlansOverrides, SaidTwice
  <2> QED
    BY <1>2, <2>1, BlueprintsAre
<1>r. record'[w] \in RecordSet
  <2>1. Plans!resolve(a) \in Nat
    BY <1>a, Resolved DEF Plans!resolve, Claims!resolve
  <2>2. Plans!Scenario(a) \in DOMAIN SidePorts
    BY <1>a, BlueprintsAre DEF Plans!Scenario, Plans!Legacy, AskSet
  <2>3. SidePorts[Plans!Scenario(a)] \in SUBSET Nat /\ (IF a.monitor THEN MonitorPorts ELSE {}) \in SUBSET Nat
    BY <2>2, BlueprintsAre
  <2>4. a.version \in DOMAIN Pairings
    BY <1>a DEF AskSet
  <2>5. Plans!Overrides(w, a) \in Values
    BY PlansOverrides
  <2> HIDE DEF n, tls
  <2> QED
    BY <1>1, <1>n, <1>t, <2>1, <2>3, <2>4, <2>5 DEF Plans!Metadata, RecordSet, TlsSet
<1>4. Planned(record'[w], doc'[w])
  <2>1. Plans!Said(record'[w].env, "METRICS", doc'[w].env["METRICS"]) = doc'[w].env["METRICS"]
    BY <1>2, PlansOverrides DEF Plans!Said
  <2> QED
    BY <1>2, <1>3, <1>r, <2>1, PlansOverrides DEF Planned
<1>5. Plans!NameIsBack(w, a) \/ record[w] = Nothing
  <2>1. tls.mode # "no" => route'[w] = Plans!Route(n, tls)
    BY DEF Plans!Create, PlansInv
  <2> HIDE DEF n, tls
  <2> QED
    BY <1>2, <1>n, <1>t, <2>1, Routed DEF Plans!NameIsBack
<1>6. Plans!EnvironmentIsBack(w, a) \/ record[w] = Nothing
  <2> SUFFICES ASSUME record[w] # Nothing, NEW k \in Plans!Keys, k \notin a.env
               PROVE  /\ record'[w].env[k] = record[w].env[k]
                      /\ \/ k = "TRANSPORTER" /\ record'[w].n > 1
                         \/ k = "METRICS" /\ record'[w].monitoring_ports # {}
                         \/ doc'[w].env[k] = Plans!Said(record[w].env, k, doc'[w].env[k])
    BY DEF Plans!EnvironmentIsBack
  <2>1. record'[w].env[k] = record[w].env[k]
    BY <1>2, PlansOverrides
  <2>2. Plans!Said(record'[w].env, k, doc'[w].env[k]) = Plans!Said(record[w].env, k, doc'[w].env[k])
    BY <2>1 DEF Plans!Said
  <2> QED
    BY <1>3, <2>1, <2>2
<1> QED
  BY <1>4, <1>5, <1>6

\* A workspace that is brought up as it is has what is in its record.
LEMMA PlansReuse ==
  ASSUME PlansInv, NEW w \in NamesOf["plans"], NEW a \in AskSet, Plans!_reuse(w, a)
  PROVE  Plans!NameIsBack(w, a) /\ Plans!EnvironmentIsBack(w, a)
<1>1. record[w] # Nothing /\ Planned(record[w], doc[w])
  BY DEF Plans!_reuse, Plans!Reuses, Plans!Exists, PlansInv
<1>2. record' = record /\ doc' = doc
  BY DEF Plans!_reuse
<1>3. Plans!NameIsBack(w, a)
  <2> SUFFICES ASSUME record[w].tls.mode # "no", state'[w] = "running"
               PROVE  route'[w] # Nothing /\ route'[w].to = doc[w].rc /\ route'[w].host = record[w].tls.host
    BY <1>2 DEF Plans!NameIsBack
  <2>1. route'[w] = Plans!Route(record[w].n, record[w].tls)
    BY DEF Plans!_reuse, Plans!_restore_route, PlansInv
  <2>2. record[w].tls \in TlsSet /\ record[w].n \in Nat /\ doc[w].rc = Plans!rc_service_names(record[w].n)
    BY <1>1 DEF Planned, RecordSet, TlsSet
  <2> QED
    BY <2>1, <2>2, Routed
<1>4. Plans!EnvironmentIsBack(w, a)
  <2> SUFFICES ASSUME NEW k \in Plans!Keys
               PROVE  \/ k = "TRANSPORTER" /\ record[w].n > 1
                      \/ k = "METRICS" /\ record[w].monitoring_ports # {}
                      \/ doc[w].env[k] = Plans!Said(record[w].env, k, doc[w].env[k])
    BY <1>2 DEF Plans!EnvironmentIsBack
  <2> QED
    BY <1>1 DEF Planned
<1> QED
  BY <1>3, <1>4

\* The invariant is inductive.
LEMMA PlansNext ==
  ASSUME NobodySetsMetrics, PlansInv, Plans!Next
  PROVE  PlansInv'
<1>1. PICK w \in NamesOf["plans"] :
        (\E a \in AsksOf["plans"] : Plans!Create(w, a) \/ Plans!_reuse(w, a))
        \/ Plans!Start(w) \/ Plans!Stop(w) \/ Plans!Down(w) \/ Plans!SetEnv(w) \/ Plans!Attach(w) \/ Plans!Detach(w)
  BY DEF Plans!Next
<1>2. ASSUME NEW a \in AsksOf["plans"], Plans!Create(w, a) PROVE PlansInv'
  <2>1. /\ \A v \in NamesOf["plans"] \ {w} : record'[v] = record[v] /\ doc'[v] = doc[v] /\ state'[v] = state[v]
        /\ DOMAIN record' = NamesOf["plans"] /\ DOMAIN doc' = NamesOf["plans"]
    BY <1>2 DEF Plans!Create, Plans!Up, PlansInv
  <2>2. DOMAIN route' = NamesOf["plans"] /\ state' \in [NamesOf["plans"] -> Plans!States]
    BY <1>2 DEF Plans!Create, Plans!Up, PlansInv, Plans!States
  <2>3. Planned(record'[w], doc'[w])
    BY <1>2, PlansMade
  <2>4. record'[w] # Nothing
    BY <2>3, BlueprintsAre DEF Planned
  <2> QED
    BY <2>1, <2>2, <2>3, <2>4 DEF PlansInv
<1>3. ASSUME NEW a \in AsksOf["plans"], Plans!_reuse(w, a) PROVE PlansInv'
  <2>1. record' = record /\ doc' = doc /\ record[w] # Nothing
    BY <1>3 DEF Plans!_reuse, Plans!Reuses, Plans!Exists
  <2>2. DOMAIN route' = NamesOf["plans"]
    BY <1>3 DEF Plans!_reuse, Plans!_restore_route, PlansInv
  <2>3. /\ \A v \in NamesOf["plans"] \ {w} : state'[v] = state[v]
        /\ state' \in [NamesOf["plans"] -> Plans!States]
    BY <1>3 DEF Plans!_reuse, PlansInv, Plans!States
  <2> QED
    BY <2>1, <2>2, <2>3 DEF PlansInv
<1>4. CASE Plans!Start(w) \/ Plans!Stop(w)
  <2>1. /\ record' = record /\ doc' = doc /\ route' = route /\ state[w] # "absent"
        /\ \A v \in NamesOf["plans"] \ {w} : state'[v] = state[v]
        /\ state' \in [NamesOf["plans"] -> Plans!States]
    BY <1>4 DEF Plans!Start, Plans!Stop, Plans!Up, PlansInv, Plans!States
  <2> QED
    BY <2>1 DEF PlansInv
<1>5. CASE Plans!Down(w)
  <2>1. \A v \in NamesOf["plans"] \ {w} : record'[v] = record[v] /\ doc'[v] = doc[v] /\ state'[v] = state[v]
    BY <1>5 DEF Plans!Down, PlansInv
  <2>3. record'[w] = Nothing \/ (record'[w] = record[w] /\ doc'[w] = doc[w])
    BY <1>5 DEF Plans!Down, PlansInv
  <2>4. state'[w] = "absent"
    BY <1>5 DEF Plans!Down, PlansInv
  <2>2. /\ DOMAIN record' = NamesOf["plans"] /\ DOMAIN doc' = NamesOf["plans"]
        /\ DOMAIN route' = NamesOf["plans"] /\ state' \in [NamesOf["plans"] -> Plans!States]
    BY <1>5 DEF Plans!Down, PlansInv, Plans!States
  <2> QED
    BY <2>1, <2>2, <2>3, <2>4 DEF PlansInv
<1>6. CASE Plans!SetEnv(w)
  <2>1. PICK k \in SettableOf["plans"], said \in {"mine", "gone"} : Plans!_set_env(w, k, said)
    BY <1>6 DEF Plans!SetEnv
  <2> DEFINE over == [record[w].env EXCEPT ![k] = said]
  <2>2. record[w] # Nothing /\ Planned(record[w], doc[w]) /\ k # "METRICS"
    BY <1>6 DEF Plans!SetEnv, Plans!Exists, PlansInv, NobodySetsMetrics
  <2>3. record'[w] = [record[w] EXCEPT !.env = over]
    BY <2>1 DEF Plans!_set_env, PlansInv
  <2>4. doc'[w] = [doc[w] EXCEPT !.env = [j \in Plans!Keys |-> Plans!Said(over, j, doc[w].env[j])]]
    BY <2>1 DEF Plans!_set_env, PlansInv
  <2>5. over \in Values /\ over["METRICS"] = "unsaid"
    <3>1. record[w].env \in Values
      BY <2>2 DEF Planned, RecordSet
    <3>2. "METRICS" \in Plans!Keys
      BY DEF Plans!Keys
    <3>3. over \in Values
      BY <3>1 DEF Values
    <3>4. over["METRICS"] = record[w].env["METRICS"]
      BY <2>2, <3>1, <3>2 DEF Values
    <3> QED
      BY <2>2, <3>3, <3>4 DEF Planned
  <2>6. Planned(record'[w], doc'[w])
    <3> HIDE DEF over
    <3>1. /\ record'[w] \in RecordSet /\ DOMAIN doc'[w] = DOMAIN doc[w]
          /\ record'[w].env = over /\ record'[w].n = record[w].n
          /\ doc'[w].rc = doc[w].rc /\ \A j \in Plans!Keys : doc'[w].env[j] = Plans!Said(over, j, doc[w].env[j])
      BY <2>2, <2>3, <2>4, <2>5 DEF Planned, RecordSet
    <3> QED
      BY <2>2, <2>5, <3>1, SaidTwice DEF Planned
  <2>7. /\ \A v \in NamesOf["plans"] \ {w} : record'[v] = record[v] /\ doc'[v] = doc[v] /\ state'[v] = state[v]
        /\ DOMAIN record' = NamesOf["plans"] /\ DOMAIN doc' = NamesOf["plans"]
        /\ route' = route /\ state' \in [NamesOf["plans"] -> Plans!States]
    BY <2>1 DEF Plans!_set_env, Plans!Up, PlansInv, Plans!States
  <2>8. record'[w] # Nothing
    BY <2>6, BlueprintsAre DEF Planned
  <2> QED
    BY <2>6, <2>7, <2>8 DEF PlansInv
<1>7. CASE Plans!Attach(w) \/ Plans!Detach(w)
  <2>1. record[w] # Nothing /\ Planned(record[w], doc[w])
    BY <1>7 DEF Plans!Attach, Plans!Detach, Plans!Exists, PlansInv
  <2>2. PICK ports \in SUBSET Nat : record'[w] = [record[w] EXCEPT !.monitoring_ports = ports]
    BY <1>7, BlueprintsAre DEF Plans!Attach, Plans!Detach, PlansInv
  <2>3. PICK mapped : doc'[w] = [doc[w] EXCEPT !.ports = mapped]
    BY <1>7 DEF Plans!Attach, Plans!Detach, Plans!Monitored, Plans!Unmonitored, PlansInv
  <2>4. Planned(record'[w], doc'[w])
    BY <2>1, <2>2, <2>3 DEF Planned, RecordSet
  <2>5. /\ \A v \in NamesOf["plans"] \ {w} : record'[v] = record[v] /\ doc'[v] = doc[v] /\ state'[v] = state[v]
        /\ DOMAIN record' = NamesOf["plans"] /\ DOMAIN doc' = NamesOf["plans"]
        /\ route' = route /\ state' \in [NamesOf["plans"] -> Plans!States]
    BY <1>7 DEF Plans!Attach, Plans!Detach, Plans!Up, PlansInv, Plans!States
  <2>6. record'[w] # Nothing
    BY <2>4, BlueprintsAre DEF Planned
  <2> QED
    BY <2>4, <2>5, <2>6 DEF PlansInv
<1> QED
  BY <1>1, <1>2, <1>3, <1>4, <1>5, <1>6, <1>7

\* `up` gives back the name and the environment.
LEMMA PlansBack ==
  ASSUME NobodySetsMetrics, PlansInv, Plans!Next
  PROVE  Plans!GivesBack
<1> SUFFICES ASSUME NEW w \in NamesOf["plans"], record[w] # Nothing, NEW a \in AsksOf["plans"],
                    Plans!Create(w, a) \/ Plans!_reuse(w, a)
             PROVE  Plans!NameIsBack(w, a) /\ Plans!EnvironmentIsBack(w, a)
  BY DEF Plans!GivesBack, Plans!Recorded, Plans!Exists
<1>1. a \in AskSet
  BY BlueprintsAre
<1> QED
  BY <1>1, PlansMade, PlansReuse

-----------------------------------------------------------------------------
(* The theorems.                                                           *)

\* A crew at work is the only one, and its behaviour is its own module's.
LEMMA OneCrewWorks ==
  ASSUME [MCNext]_crewVars
  PROVE  /\ crew' = crew
         /\ \/ UNCHANGED crewVars
            \/ crew = "killed" /\ Killed!Next
            \/ crew = "still" /\ Still!Next
            \/ crew = "alone" /\ Alone!Next
            \/ crew = "gates" /\ Gates!Next
            \/ crew = "ports" /\ Claims!Next
            \/ crew = "plans" /\ Plans!Next
            \/ crew = "owners" /\ Owners!Next
            \/ crew = "bench" /\ Benches!Next
BY DEF MCNext, KilledCrew, StillCrew, AloneCrew, GatesCrew, PortsCrew, PlansCrew, OwnersCrew, BenchCrew, crewVars

\* What the two threads of `serve` keep, they keep for good.
LEMMA KilledAlways == MCSpec => [](crew = "killed" => KilledInv)
<1>1. MCInit => (crew = "killed" => KilledInv)
  BY KilledStarts DEF MCInit
<1>2. (crew = "killed" => KilledInv) /\ [MCNext]_crewVars => (crew = "killed" => KilledInv)'
  <2> SUFFICES ASSUME crew = "killed", KilledInv, [MCNext]_crewVars PROVE KilledInv'
    BY OneCrewWorks
  <2>1. CASE Killed!Next
    BY <2>1, KilledNext
  <2>2. CASE UNCHANGED crewVars
    BY <2>2 DEF crewVars, KilledInv, KilledShape, Inside, Stages, Recalled, Remembered, Creating, Kept
  <2> QED
    BY <2>1, <2>2, OneCrewWorks
<1> QED
  BY <1>1, <1>2, PTL DEF MCSpec

\* So do the job and the command.
LEMMA StillAlways == MCSpec => [](crew = "still" => StillInv)
<1>1. MCInit => (crew = "still" => StillInv)
  BY StillStarts DEF MCInit
<1>2. (crew = "still" => StillInv) /\ [MCNext]_crewVars => (crew = "still" => StillInv)'
  <2> SUFFICES ASSUME crew = "still", StillInv, [MCNext]_crewVars PROVE StillInv'
    BY OneCrewWorks
  <2>1. CASE Still!Next
    BY <2>1, StillNext
  <2>2. CASE UNCHANGED crewVars
    BY <2>2 DEF crewVars, StillInv, Fair, Unseeded
  <2> QED
    BY <2>1, <2>2, OneCrewWorks
<1> QED
  BY <1>1, <1>2, PTL DEF MCSpec

\* And the benchmarks.
LEMMA BenchAlways == MCSpec => [](crew = "bench" => BenchInv)
<1>1. MCInit => (crew = "bench" => BenchInv)
  BY BenchStarts DEF MCInit
<1>2. (crew = "bench" => BenchInv) /\ [MCNext]_crewVars => (crew = "bench" => BenchInv)'
  <2> SUFFICES ASSUME crew = "bench", BenchInv, [MCNext]_crewVars PROVE BenchInv'
    BY OneCrewWorks
  <2>1. CASE Benches!Next
    BY <2>1, RunsGrow, UndisturbedStays, OlderStays DEF BenchInv
  <2>2. CASE UNCHANGED crewVars
    BY <2>2 DEF crewVars, BenchInv, BenchRuns, Undisturbed, Older
  <2> QED
    BY <2>1, <2>2, OneCrewWorks
<1> QED
  BY <1>1, <1>2, PTL DEF MCSpec

\* A workspace that was brought up and not configured, and containers that a
\* benchmark has made, are in the journal (services/journal.py).
THEOREM WorkStaysNoted == MCSpec => []WorkIsNoted
<1>1. (crew = "killed" => KilledInv) /\ (crew = "bench" => BenchInv) => WorkIsNoted
  BY KilledNoted, BenchNoted DEF WorkIsNoted
<1> QED
  BY <1>1, KilledAlways, BenchAlways, PTL

\* No two calls seed at once, and none of those that are not killed seeds twice
\* (lifecycle.create_repro, seed.py).
THEOREM SeedsStayApart == MCSpec => []SeedsComeOneByOne
<1>1. (crew = "killed" => KilledInv) /\ (crew = "still" => StillInv) => SeedsComeOneByOne
  BY KilledSerialised, StillOnce DEF SeedsComeOneByOne
<1> QED
  BY <1>1, KilledAlways, StillAlways, PTL

\* A `ready` that clears what is left of a lost create has done its seed, where
\* all jobs are of one `serve` (lifecycle.finish_provisioning).
THEOREM LostSeedsAreFinished == ASSUME OneServe PROVE MCSpec => ReadyFinishesTheSeed
<1>1. MCInit => (crew = "killed" => Sought)
  BY DEF MCInit, Killed!Init, Sought
<1>2. /\ crew = "killed" => KilledInv
      /\ crew = "killed" => Sought
      /\ [MCNext]_crewVars
      => (crew = "killed" => Sought)'
  <2> SUFFICES ASSUME crew = "killed", KilledInv, Sought, [MCNext]_crewVars PROVE Sought'
    BY OneCrewWorks
  <2>1. CASE Killed!Next
    BY <2>1, SoughtKept
  <2>2. CASE UNCHANGED crewVars
    BY <2>2 DEF crewVars, Sought
  <2> QED
    BY <2>1, <2>2, OneCrewWorks
<1>3. (crew = "killed" => KilledInv) /\ (crew = "killed" => Sought)
        => [crew = "killed" => Killed!FinishesTheSeed]_crewVars
  BY KilledFinishes
<1> QED
  BY <1>1, <1>2, <1>3, KilledAlways, PTL DEF MCSpec, ReadyFinishesTheSeed

\* A create that was told to fit is not refused memory, and what is refused for
\* what was looked at had its row (services/capacity.py, services/doctor.py).
THEOREM GatesAreForetold == MCSpec => AdmissionIsForetold
<1>1. MCInit => (crew = "gates" => GatesInv)
  BY GatesStart DEF MCInit
<1>2. (crew = "gates" => GatesInv) /\ [MCNext]_crewVars => (crew = "gates" => GatesInv)'
  <2> SUFFICES ASSUME crew = "gates", GatesInv, [MCNext]_crewVars PROVE GatesInv'
    BY OneCrewWorks
  <2>1. CASE Gates!Next
    BY <2>1, GatesNext
  <2>2. CASE UNCHANGED crewVars
    <3>1. UNCHANGED <<box, made, told, answer>>
      BY <2>2 DEF crewVars
    <3> QED
      BY <3>1, ToldRests
  <2> QED
    BY <2>1, <2>2, OneCrewWorks
<1>3. (crew = "gates" => GatesInv) /\ [MCNext]_crewVars
        => [crew = "gates" => Gates!KeepsRoom /\ Gates!Foretells]_crewVars
  BY RoomKept, Foretold, OneCrewWorks
<1> QED
  BY <1>1, <1>2, <1>3, PTL DEF MCSpec, AdmissionIsForetold

\* No command publishes a port that another workspace has in its document, but
\* a fixed one that was picked for a Rocket.Chat that does not run (runner.py).
THEOREM PortsStayTheirs == MCSpec => PortsNeverMeet
<1>1. MCInit => (crew = "ports" => ClaimsInv)
  BY ClaimsStart DEF MCInit
<1>2. (crew = "ports" => ClaimsInv) /\ [MCNext]_crewVars => (crew = "ports" => ClaimsInv)'
  <2> SUFFICES ASSUME crew = "ports", ClaimsInv, [MCNext]_crewVars PROVE ClaimsInv'
    BY OneCrewWorks
  <2>1. CASE Claims!Next
    BY <2>1, ClaimsNext
  <2>2. CASE UNCHANGED crewVars
    BY <2>2 DEF crewVars, ClaimsInv
  <2> QED
    BY <2>1, <2>2, OneCrewWorks
<1>3. (crew = "ports" => ClaimsInv) /\ [MCNext]_crewVars
        => [crew = "ports" => Claims!PortsStayApart]_crewVars
  BY PortsApart, OneCrewWorks
<1> QED
  BY <1>1, <1>2, <1>3, PTL DEF MCSpec, PortsNeverMeet

\* An `up` of a workspace that is there gives back its name, with a route to the
\* instances it has, and its environment, where nobody sets the variable of the
\* metrics (lifecycle.create_repro, compose.py).
THEOREM NamesAndEnvironmentsComeBack == ASSUME NobodySetsMetrics PROVE MCSpec => UpGivesBack
<1>1. MCInit => (crew = "plans" => PlansInv)
  BY PlansStart DEF MCInit
<1>2. (crew = "plans" => PlansInv) /\ [MCNext]_crewVars => (crew = "plans" => PlansInv)'
  <2> SUFFICES ASSUME crew = "plans", PlansInv, [MCNext]_crewVars PROVE PlansInv'
    BY OneCrewWorks
  <2>1. CASE Plans!Next
    BY <2>1, PlansNext
  <2>2. CASE UNCHANGED crewVars
    BY <2>2 DEF crewVars, PlansInv
  <2> QED
    BY <2>1, <2>2, OneCrewWorks
<1>3. (crew = "plans" => PlansInv) /\ [MCNext]_crewVars
        => [crew = "plans" => Plans!GivesBack]_crewVars
  BY PlansBack, OneCrewWorks
<1> QED
  BY <1>1, <1>2, <1>3, PTL DEF MCSpec, UpGivesBack

\* Words find the workspaces of the one who says them and nobody else's, where no
\* account begins as another does; nobody deletes what is another's
\* (services/users.py, lifecycle.py); and a benchmark removes no workspace that
\* was made after it was noted (services/perf.py).
THEOREM WorkspacesStayTheirs == ASSUME AccountsAreApart PROVE MCSpec => OwnersKeepTheirs
<1> DEFINE Inv == crew = "owners" => OwnerInv
<1> DEFINE Found == crew = "owners" => Owners!NamesFindTheirs
<1>1. MCInit => Inv
  BY OwnersStart DEF MCInit
<1>2. Inv /\ [MCNext]_crewVars => Inv'
  <2> SUFFICES ASSUME crew = "owners", OwnerInv, [MCNext]_crewVars PROVE OwnerInv'
    BY OneCrewWorks
  <2>1. CASE Owners!Next
    BY <2>1, OwnersNext
  <2>2. CASE UNCHANGED crewVars
    <3>1. UNCHANGED <<spaces, role, policy, task>>
      BY <2>2 DEF crewVars
    <3> QED
      BY <3>1, OwnersRest
  <2> QED
    BY <2>1, <2>2, OneCrewWorks
<1>3. Inv => Found
  BY SpacesApart, WordsFind DEF Owners!NamesFindTheirs
<1>4. Inv /\ Found' /\ (crew = "bench" => BenchInv) /\ [MCNext]_crewVars
        => [/\ crew = "owners" => Owners!NamesFindTheirs' /\ Owners!DestroysItsOwn
            /\ crew = "bench" => Benches!OwnWorkspacesStay]_crewVars
  BY DestroysTheirs, OwnStays, OneCrewWorks
<1> QED
  BY <1>1, <1>2, <1>3, <1>4, BenchAlways, PTL DEF MCSpec, OwnersKeepTheirs

=============================================================================
