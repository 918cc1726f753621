----------------------------- MODULE CreateFlow -----------------------------
(****************************************************************************)
(* What is left of a create that did not finish.  `up` (CLI) and the GUI's  *)
(* create record a CREATE_UNFINISHED note, bring containers up, wait,       *)
(* configure and seed; `ready` finishes what a killed create left, from its *)
(* note.  One workspace; services/lifecycle.py, cli.py up and ready, and    *)
(* the advisory notes of services/journal.py.  Rebuilds (--force, --fresh)  *)
(* and teardown are left out.                                               *)
(****************************************************************************)
EXTENDS Naturals, FiniteSets

CONSTANTS Tasks,     \* CLI commands, and job threads of `serve`
          Clis,      \* the CLI commands among them: seed_here is True
          Procs,     \* processes
          ProcOf,    \* the process of each task
          NoTask,    \* nobody holds the lock
          Readies,   \* tasks that may run `ready`
          Offered,   \* the requests made, of Requests below
          Failures,  \* what may fail: "check", "compose", "ready", "seed", "readback"
          MayDie     \* whether processes may be killed

\* What a request asks for.  A seed, and a preset with a post_ready, force the wait.
Requests == {r \in [seed : BOOLEAN, wait : BOOLEAN] : r.seed => r.wait}

VARIABLES
  pc,          \* pc[t]: where the create or `ready` of t is
  kind,        \* kind[t]: "create" or "ready"
  req,         \* req[t]: the CreateReq
  knew,        \* knew[t]: t's copy of the metadata has extra["seed"]
  seeds,       \* seeds[t]: seeds run by the current call
  lock,        \* who is inside repro_lock(name)
  notes,       \* open CREATE_UNFINISHED notes; live while their process runs
  ws,          \* "absent", "written" (has a repro.json) or "up"
  configured,  \* post_ready has run
  seeded,      \* a seed has landed
  recorded,    \* the metadata on disk has extra["seed"]
  awaited,     \* a create that waits got past its checks
  asked        \* a create that seeds got past its checks

call == <<kind, req, knew, seeds>>
workspace == <<ws, configured, seeded, recorded, awaited, asked>>
vars == <<pc, call, lock, notes, workspace>>

Init ==
  /\ pc = [t \in Tasks |-> "idle"]
  /\ kind = [t \in Tasks |-> "create"]
  /\ req = [t \in Tasks |-> [seed |-> FALSE, wait |-> FALSE]]
  /\ knew = [t \in Tasks |-> FALSE]
  /\ seeds = [t \in Tasks |-> 0]
  /\ lock = NoTask
  /\ notes = {}
  /\ ws = "absent"
  /\ configured = FALSE /\ seeded = FALSE /\ recorded = FALSE
  /\ awaited = FALSE /\ asked = FALSE

Own(t) == {n \in notes : n.owner = t /\ n.live}

\* The notes in `open`, after the processes `dead` have gone.
Orphaned(open, dead) == {[n EXCEPT !.live = @ /\ ProcOf[n.owner] \notin dead] : n \in open}

Goto(t, place) == pc' = [pc EXCEPT ![t] = place]
Unlocked(t) == lock' = IF lock = t THEN NoTask ELSE lock

\* t's call ends, leaving the notes `open`; the process of a CLI command exits.
End(t, open) ==
  /\ Goto(t, "idle")
  /\ Unlocked(t)
  /\ notes' = Orphaned(open, IF t \in Clis THEN {ProcOf[t]} ELSE {})

\* create_repro takes the lock and records the note.
Begin(t, r) ==
  /\ pc[t] = "idle" /\ lock = NoTask
  /\ Goto(t, "checks")
  /\ kind' = [kind EXCEPT ![t] = "create"]
  /\ req' = [req EXCEPT ![t] = r]
  /\ seeds' = [seeds EXCEPT ![t] = 0]
  /\ lock' = t
  /\ notes' = notes \cup {[owner |-> t, seed |-> r.seed, here |-> t \in Clis, live |-> TRUE]}
  /\ UNCHANGED <<knew, workspace>>

\* `except BaseException`: whatever was raised, this create's note goes.
Abort(t) == End(t, notes \ Own(t))

\* A bad version, a taken port, no capacity: nothing was created.
Refuse(t) ==
  /\ "check" \in Failures /\ pc[t] = "checks"
  /\ Abort(t)
  /\ UNCHANGED <<call, workspace>>

\* The checks passed: a new workspace is written, an existing one is reused.
Accept(t) ==
  /\ pc[t] = "checks"
  /\ Goto(t, "up")
  /\ ws' = IF ws = "absent" THEN "written" ELSE ws
  /\ knew' = [knew EXCEPT ![t] = recorded]
  /\ awaited' = (awaited \/ req[t].wait)
  /\ asked' = (asked \/ req[t].seed)
  /\ UNCHANGED <<kind, req, seeds, lock, notes, configured, seeded, recorded>>

\* `docker compose up -d`: the containers are detached from here on.
ComposeUp(t) ==
  /\ pc[t] = "up"
  /\ Goto(t, IF req[t].wait THEN "wait" ELSE "leave")
  /\ ws' = "up"
  /\ UNCHANGED <<call, lock, notes, configured, seeded, recorded, awaited, asked>>

\* It failed; the workspace is kept for inspection, with some containers up or none.
ComposeFails(t) ==
  /\ "compose" \in Failures /\ pc[t] = "up"
  /\ Abort(t)
  /\ ws' \in {ws, "up"}
  /\ UNCHANGED <<call, configured, seeded, recorded, awaited, asked>>

\* `ready` reads the metadata and waits, with no lock.
BeginReady(t) ==
  /\ pc[t] = "idle" /\ t \in Readies /\ ws # "absent"
  /\ Goto(t, "wait")
  /\ kind' = [kind EXCEPT ![t] = "ready"]
  /\ knew' = [knew EXCEPT ![t] = recorded]
  /\ seeds' = [seeds EXCEPT ![t] = 0]
  /\ UNCHANGED <<req, lock, notes, workspace>>

\* Mutant of Serving: the create counts as finished once Rocket.Chat answers.
ServingIsFinished(t) ==
  /\ pc[t] = "wait" /\ ws = "up"
  /\ Goto(t, "configure")
  /\ notes' = {}
  /\ UNCHANGED <<call, lock, workspace>>

\* wait_serving: Rocket.Chat answers, or NotReadyError.
Serving(t) ==
  /\ pc[t] = "wait" /\ ws = "up"
  /\ Goto(t, "configure")
  /\ UNCHANGED <<call, lock, notes, workspace>>

NotReady(t) ==
  /\ pc[t] = "wait"
  /\ "ready" \in Failures \/ ws # "up"
  /\ IF kind[t] = "create" THEN Abort(t) ELSE End(t, notes)
  /\ UNCHANGED <<call, workspace>>

Configure(t) ==
  /\ pc[t] = "configure"
  /\ Goto(t, "pending")
  /\ configured' = TRUE
  /\ UNCHANGED <<call, lock, notes, ws, seeded, recorded, awaited, asked>>

\* Mutant of Pending: `ready` looks at no note.
PendingIgnored(t) ==
  /\ pc[t] = "pending"
  /\ Goto(t, "clear")
  /\ UNCHANGED <<call, lock, notes, workspace>>

\* pending_seed: the first abandoned note that asks for a seed.  One that says
\* its CLI would seed by itself counts for none.
Pending(t) ==
  LET lost == {n \in notes : ~n.live /\ n.seed}
      finish(n) == ~n.here /\ ~knew[t]
  IN /\ pc[t] = "pending"
     /\ \/ lost = {} /\ Goto(t, "clear")
        \/ \E n \in lost : Goto(t, IF finish(n) THEN "seedlock" ELSE "clear")
     /\ UNCHANGED <<call, lock, notes, workspace>>

\* After wait_and_finalize: `ready` is over; a GUI create seeds, a CLI one returns.
Finalized(t, open) ==
  IF kind[t] = "ready" THEN End(t, open)
  ELSE /\ Goto(t, IF req[t].seed /\ t \notin Clis THEN "seed" ELSE "leave")
       /\ lock' = lock /\ notes' = open

\* Mutant of SeedLock: the pending seed takes no lock.
SeedUnlocked(t) ==
  /\ pc[t] = "seedlock"
  /\ Goto(t, "finish")
  /\ UNCHANGED <<call, lock, notes, workspace>>

\* run_seed_inline of a pending seed: it waits for the lock unless t has it, and
\* when the wait times out the note stays.
SeedLock(t) ==
  /\ pc[t] = "seedlock" /\ lock \in {NoTask, t}
  /\ Goto(t, "finish")
  /\ lock' = t
  /\ UNCHANGED <<call, notes, workspace>>

SeedLockTimeout(t) ==
  /\ pc[t] = "seedlock" /\ lock \notin {NoTask, t}
  /\ Finalized(t, notes)
  /\ UNCHANGED <<call, workspace>>

\* "finish" a lost seed, "seed" in a GUI create, "cliseed" after create_repro.
Seeding(t) == pc[t] \in {"finish", "seed", "cliseed"}

\* A seed lands; check_seed records it, unless it could not be read back.
Seeded(t) ==
  /\ Seeding(t)
  /\ Goto(t, CASE pc[t] = "finish" -> "clear" [] pc[t] = "seed" -> "leave" [] pc[t] = "cliseed" -> "cliclear")
  /\ lock' = IF kind[t] = "ready" THEN NoTask ELSE lock
  /\ seeded' = TRUE
  /\ recorded' \in (IF "readback" \in Failures THEN {recorded, TRUE} ELSE {TRUE})
  /\ seeds' = [seeds EXCEPT ![t] = @ + 1]
  /\ UNCHANGED <<kind, req, knew, notes, ws, configured, awaited, asked>>

\* A ReproError from a pending seed keeps the note, another exception ends the
\* call; _run_seed exits and keeps the note.
SeedFails(t) ==
  /\ "seed" \in Failures /\ Seeding(t)
  /\ CASE pc[t] = "finish" -> Finalized(t, notes) \/ Abort(t)
       [] pc[t] = "seed" -> Abort(t)
       [] pc[t] = "cliseed" -> End(t, notes)
  /\ UNCHANGED <<call, workspace>>

\* clear_kind in wait_and_finalize: every note of the workspace, whose ever.
Clear(t) ==
  /\ pc[t] = "clear"
  /\ Finalized(t, {})
  /\ UNCHANGED <<call, workspace>>

\* create_repro returns; `up` goes on with its seed, outside the lock.
Leave(t) ==
  /\ pc[t] = "leave"
  /\ IF t \in Clis
     THEN Goto(t, IF req[t].seed THEN "cliseed" ELSE "cliclear") /\ Unlocked(t) /\ UNCHANGED notes
     ELSE End(t, {})
  /\ UNCHANGED <<call, workspace>>

CliClear(t) ==
  /\ pc[t] = "cliclear"
  /\ End(t, {})
  /\ UNCHANGED <<call, workspace>>

\* SIGKILL: the notes stay, the flock goes with its process.
Kill(p) ==
  LET dead == {t \in Tasks : ProcOf[t] = p} IN
  /\ MayDie
  /\ \E t \in dead : pc[t] # "idle"
  /\ pc' = [t \in Tasks |-> IF t \in dead THEN "idle" ELSE pc[t]]
  /\ lock' = IF lock \in dead THEN NoTask ELSE lock
  /\ notes' = Orphaned(notes, {p})
  /\ UNCHANGED <<call, workspace>>

Step(t) ==
  \/ Refuse(t) \/ Accept(t) \/ ComposeUp(t) \/ ComposeFails(t)
  \/ BeginReady(t) \/ Serving(t) \/ NotReady(t) \/ Configure(t)
  \/ Pending(t) \/ SeedLock(t) \/ SeedLockTimeout(t) \/ Seeded(t) \/ SeedFails(t)
  \/ Clear(t) \/ Leave(t) \/ CliClear(t)

Next ==
  \/ \E t \in Tasks : Step(t) \/ \E r \in Offered : Begin(t, r)
  \/ \E p \in Procs : Kill(p)

Spec == Init /\ [][Next]_vars
-----------------------------------------------------------------------------
Places == {"idle", "checks", "up", "wait", "configure", "pending", "seedlock", "finish",
           "seed", "cliseed", "clear", "leave", "cliclear"}

TypeOK ==
  /\ pc \in [Tasks -> Places]
  /\ kind \in [Tasks -> {"create", "ready"}]
  /\ req \in [Tasks -> Requests]
  /\ knew \in [Tasks -> BOOLEAN]
  /\ seeds \in [Tasks -> 0..2]
  /\ lock \in Tasks \cup {NoTask}
  /\ notes \subseteq [owner : Tasks, seed : BOOLEAN, here : BOOLEAN, live : BOOLEAN]
  /\ ws \in {"absent", "written", "up"}
  /\ {configured, seeded, recorded, awaited, asked} \subseteq BOOLEAN

Creating(t) == pc[t] # "idle"

\* A workspace whose create stopped early has a note that says so: its
\* containers came up by themselves and `list` shows them running
\* (lifecycle.py:1120-1130).
ConfigurationIsNoted ==
  (ws = "up" /\ awaited /\ ~configured /\ \A t \in Tasks : ~Creating(t)) => notes # {}

\* The same of the seed it was asked for (lifecycle.py:1165-1169).
SeedIsNoted ==
  (ws = "up" /\ asked /\ ~seeded /\ \A t \in Tasks : ~Creating(t)) => \E n \in notes : n.seed

\* `ready` does not delete the record of a lost seed before a seed has landed
\* (lifecycle.py:1135-1143).
FinishesTheSeed == \A t \in Tasks :
  (kind[t] = "ready" /\ pc[t] = "clear" /\ pc'[t] = "idle" /\ notes' = {}
   /\ \E n \in notes : ~n.live /\ n.seed)
    => seeded
ReadyFinishesTheSeed == [][FinishesTheSeed]_vars

\* No seed writes while another one does, or while a create brings the
\* workspace up (lifecycle.py:2271-2281).
SeedsAreSerialised ==
  \A t, u \in Tasks : t # u => ~(Seeding(t) /\ (Seeding(u) \/ pc[u] \in {"checks", "up"}))

\* One call puts at most one seed into the workspace: seeding twice collides
\* with names it had just created (lifecycle.py:1623-1626).
OneSeedPerCall == \A t \in Tasks : seeds[t] <= 1
=============================================================================
