---------------------------- MODULE SideEffects ----------------------------
(****************************************************************************)
(* Temporary changes to one workspace and the notes that outlive a killed   *)
(* process.  A load test, a capacity search, a seed or an import changes    *)
(* settings, caps and the Mongo profiler and puts them back in a `finally`; *)
(* services/journal.py keeps a note of each change on disk, and `serve`     *)
(* undoes the notes of dead processes when it starts.                       *)
(*                                                                          *)
(* An operation is a sequence of steps, in the order of its code; each      *)
(* process has the rest of its sequence in todo.  A kill may fall between   *)
(* any two steps.                                                           *)
(****************************************************************************)
EXTENDS Naturals, FiniteSets, Sequences

CONSTANTS Serves,    \* pids that run `rc-repro serve`
          Clis,      \* pids that run one CLI command at a time
          Ops,       \* Ops[p]: the operations that p runs
          HasProc,   \* whether the platform has /proc
          Flaky,     \* <<operation, effect>>: the calls that may fail; "none" is recovery
          MayDie,    \* whether processes may be killed
          MaxRuns,   \* bound: operations started, over all processes
          MaxInc     \* bound: processes that get the same pid

ASSUME PidsAreDistinct == Serves \cap Clis = {}
ASSUME Bounds == MaxRuns \in Nat /\ MaxInc \in Nat /\ {HasProc, MayDie} \subseteq BOOLEAN

Procs == Serves \cup Clis
Operations == {"loadtest", "loadtest_constrain", "loadtest_diag", "capacity", "seed", "import"}
ASSUME OpsAreOperations == \A p \in Procs : Ops[p] \subseteq Operations

Effects == {"caps", "limiter", "metrics", "profiler", "email_2fa"}

\* Effects put back to the value found before, which the note carries; the
\* others are settings with one normal value.
CarriesPrior == {"caps", "profiler"}

\* Mutant of Turn: the setting is changed before it is noted.
SetThenNote(e) == << <<"read", e>>, <<"set", e>>, <<"note", e>> >>

\* A setting with one normal value: read, noted if it must change, set.
Turn(e) == << <<"read", e>>, <<"note", e>>, <<"set", e>> >>

\* What there was before is known only once it is changed.
Change(e) == << <<"apply", e>>, <<"note", e>> >>

PutBack(e) == << <<"undo", e>>, <<"clear", e>> >>

\* seed.seed: both settings are read first, and email-2FA is noted last.
SeedOpening ==
  << <<"read", "email_2fa">>, <<"read", "limiter">>,
     <<"set", "email_2fa">>, <<"note", "limiter">>, <<"set", "limiter">>,
     <<"note", "email_2fa">> >>

\* configimport.apply.
ImportOpening == Turn("limiter")

\* The changes before the work.
Opening(o) ==
  CASE o = "loadtest" -> Turn("limiter")
    [] o = "loadtest_constrain" -> Change("caps") \o Turn("limiter")
    [] o = "loadtest_diag" -> Turn("limiter") \o Turn("metrics") \o Change("profiler")
    [] o = "capacity" -> Change("caps") \o Turn("limiter") \o Turn("metrics")
    [] o = "seed" -> SeedOpening
    [] o = "import" -> ImportOpening

\* The `finally`, which an exception in the work or in applying caps also reaches.
Closing(o) ==
  CASE o \in {"loadtest", "import"} -> PutBack("limiter")
    [] o = "loadtest_constrain" -> PutBack("limiter") \o PutBack("caps")
    [] o = "loadtest_diag" -> PutBack("limiter") \o PutBack("metrics") \o PutBack("profiler")
    [] o = "capacity" -> PutBack("limiter") \o PutBack("metrics") \o PutBack("caps")
    [] o = "seed" -> PutBack("limiter") \o PutBack("email_2fa")

Steps(o) == Opening(o) \o << <<"work", "none">> >> \o Closing(o)

VARIABLES
  alive,   \* alive[p]: a process with pid p runs
  inc,     \* inc[p]: its start time, as /proc reports it
  op,      \* op[p]: the operation p runs, or "none"
  run,     \* run[p]: a number that names that run
  todo,    \* todo[p]: the steps it has left
  seen,    \* seen[p][e]: what p read of effect e before changing it
  did,     \* did[p][e]: p's finally has e to undo
  holds,   \* holds[p]: effects whose note id p has
  val,     \* val[e]: what the workspace is set to
  unheard, \* history: changes in force whose call reported failure and whose
           \* note was then dropped
  notes,   \* the journal directory
  runs,    \* runs started so far
  rec,     \* rec[p]: abandoned notes p's recovery still has to handle
  mended   \* mended[p]: notes p repaired and is about to clear

local == <<op, run, todo, seen, did, holds>>
vars == <<alive, inc, local, val, unheard, notes, runs, rec, mended>>

Init ==
  /\ alive = [p \in Procs |-> FALSE]
  /\ inc = [p \in Procs |-> 0]
  /\ op = [p \in Procs |-> "none"]
  /\ run = [p \in Procs |-> 0]
  /\ todo = [p \in Procs |-> <<>>]
  /\ seen = [p \in Procs |-> [e \in Effects |-> "unknown"]]
  /\ did = [p \in Procs |-> [e \in Effects |-> FALSE]]
  /\ holds = [p \in Procs |-> {}]
  /\ val = [e \in Effects |-> "normal"]
  /\ unheard = {}
  /\ notes = {}
  /\ runs = 0
  /\ rec = [p \in Procs |-> {}]
  /\ mended = [p \in Procs |-> {}]

\* What a call of p to Rocket.Chat, docker or mongosh about e may report.
Answer(p, e) == IF <<op[p], e>> \in Flaky THEN BOOLEAN ELSE {TRUE}

\* A call that reported failure may have been carried out, its answer lost.
Took(ok) == IF ok THEN {TRUE} ELSE BOOLEAN

At(p, kind, e) == todo[p] # <<>> /\ Head(todo[p]) = <<kind, e>>
Proceed(p) == todo' = [todo EXCEPT ![p] = Tail(@)]
SkipTwo(p) == todo' = [todo EXCEPT ![p] = Tail(Tail(@))]

Recovering(p) == rec[p] # {} \/ mended[p] # {}

\* Operations under repro_lock.  Of the settings that an import applies, the dump's
\* own value of the limiter is left out.
Writers == {"seed", "import"}

\* An operation starts: a CLI command, or a job of a serve that has recovered.
Start(p, o) ==
  /\ alive[p] /\ op[p] = "none" /\ ~Recovering(p)
  /\ runs < MaxRuns
  /\ o \in Writers => \A q \in Procs : op[q] \notin Writers
  /\ runs' = runs + 1
  /\ op' = [op EXCEPT ![p] = o]
  /\ run' = [run EXCEPT ![p] = runs + 1]
  /\ todo' = [todo EXCEPT ![p] = Steps(o)]
  /\ UNCHANGED <<alive, inc, seen, did, holds, val, unheard, notes, rec, mended>>

\* rcapi.get_setting: the value, or None when it could not be read.
Read(p, e) ==
  /\ At(p, "read", e)
  /\ \E ok \in Answer(p, e) :
       seen' = [seen EXCEPT ![p][e] = IF ok THEN val[e] ELSE "unknown"]
  /\ Proceed(p)
  /\ UNCHANGED <<alive, inc, op, run, did, holds, val, unheard, notes, runs, rec, mended>>

\* A performance run takes an unreadable setting for one it must change; a seed or
\* an import touches only what it observed.
MustChange(p, e) == IF op[p] \in Writers THEN seen[p][e] = "normal" ELSE seen[p][e] # "test"

\* journal.record.  Caps, profiler and email-2FA are noted once changed, the
\* other settings when they are about to be.
Noted(p, e) == IF e \in CarriesPrior \cup {"email_2fa"} THEN did[p][e] ELSE MustChange(p, e)

Note(p, e) ==
  LET n == [run |-> run[p], kind |-> e, owner |-> p, started |-> inc[p], prior |-> seen[p][e]]
  IN /\ At(p, "note", e)
     /\ notes' = IF Noted(p, e) THEN notes \cup {n} ELSE notes
     /\ holds' = IF Noted(p, e) THEN [holds EXCEPT ![p] = @ \cup {e}] ELSE holds
     /\ Proceed(p)
     /\ UNCHANGED <<alive, inc, op, run, seen, did, val, unheard, runs, rec, mended>>

\* Mutant of Own: cleared by kind instead of by id.
OfKind(p, e) == {n \in notes : n.kind = e}

\* p's own note of e; journal.clear unlinks it.
Own(p, e) == {n \in notes : e \in holds[p] /\ n.run = run[p] /\ n.kind = e}

\* A seed and a CLI load test drop the limiter's note when it was not turned off.
DropsNote(p) == op[p] = "seed" \/ (p \in Clis /\ op[p] \notin {"capacity", "import"})

\* rcapi.set_setting to the test value.  The limiter is restored whatever this
\* call reported, the other two only if it reported success.
Set(p, e) ==
  /\ At(p, "set", e)
  /\ \E ok \in Answer(p, e) : \E took \in Took(ok) :
       LET tried == MustChange(p, e)
           dropped == tried /\ ~ok /\ e = "limiter" /\ DropsNote(p)
       IN /\ val' = IF tried /\ took THEN [val EXCEPT ![e] = "test"] ELSE val
          /\ unheard' = CASE ~(tried /\ took) -> unheard
                          [] tried /\ took /\ ~dropped -> unheard \ {e}
                          [] dropped /\ took ->
                               IF val[e] = "test" THEN unheard ELSE unheard \cup {e}
          /\ did' = [did EXCEPT ![p][e] = tried /\ (ok \/ e = "limiter")]
          /\ notes' = IF dropped THEN notes \ Own(p, e) ELSE notes
          /\ holds' = IF dropped THEN [holds EXCEPT ![p] = @ \ {e}] ELSE holds
  /\ Proceed(p)
  /\ UNCHANGED <<alive, inc, op, run, seen, runs, rec, mended>>

\* constrain.apply, mongoprof.start: change e and keep what was there.  A failed
\* apply raises, having tried to roll itself back; a failed start is done without.
Apply(p, e) ==
  /\ At(p, "apply", e)
  /\ \/ /\ seen' = [seen EXCEPT ![p][e] = val[e]]
        /\ did' = [did EXCEPT ![p][e] = TRUE]
        /\ val' = [val EXCEPT ![e] = "test"]
        /\ Proceed(p)
     \/ /\ FALSE \in Answer(p, e)
        /\ IF e = "caps" THEN todo' = [todo EXCEPT ![p] = Closing(op[p])] ELSE Proceed(p)
        /\ val' \in {val, [val EXCEPT ![e] = "test"]}
        /\ UNCHANGED <<seen, did>>
  /\ UNCHANGED <<alive, inc, op, run, holds, unheard, notes, runs, rec, mended>>

\* k6.run or the seed's writes end, by returning or by raising.
Work(p) ==
  /\ At(p, "work", "none")
  /\ Proceed(p)
  /\ UNCHANGED <<alive, inc, op, run, seen, did, holds, val, unheard, notes, runs, rec, mended>>

\* Whether the code looks at what the undoing call reported before it clears.
Checked(p, e) == e = "caps" \/ op[p] \in Writers

Undo(p, e) ==
  /\ At(p, "undo", e)
  /\ IF did[p][e]
     THEN \E ok \in Answer(p, e) : \E took \in Took(ok) :
            /\ val' = IF took THEN [val EXCEPT ![e] = IF e \in CarriesPrior THEN seen[p][e] ELSE "normal"]
                      ELSE val
            /\ unheard' = IF took THEN unheard \ {e} ELSE unheard
            /\ IF ok \/ ~Checked(p, e) THEN Proceed(p) ELSE SkipTwo(p)
     ELSE UNCHANGED <<val, unheard>> /\ SkipTwo(p)
  /\ UNCHANGED <<alive, inc, op, run, seen, did, holds, notes, runs, rec, mended>>

Clear(p, e) ==
  /\ At(p, "clear", e)
  /\ notes' = notes \ Own(p, e)
  /\ holds' = [holds EXCEPT ![p] = @ \ {e}]
  /\ did' = [did EXCEPT ![p][e] = FALSE]
  /\ Proceed(p)
  /\ UNCHANGED <<alive, inc, op, run, seen, val, unheard, runs, rec, mended>>

\* p has no operation any more, and its local variables are gone.
Idle(p) ==
  /\ op' = [op EXCEPT ![p] = "none"]
  /\ run' = [run EXCEPT ![p] = 0]
  /\ todo' = [todo EXCEPT ![p] = <<>>]
  /\ seen' = [seen EXCEPT ![p] = [e \in Effects |-> "unknown"]]
  /\ did' = [did EXCEPT ![p] = [e \in Effects |-> FALSE]]
  /\ holds' = [holds EXCEPT ![p] = {}]

Finish(p) ==
  /\ op[p] # "none" /\ todo[p] = <<>>
  /\ Idle(p)
  /\ UNCHANGED <<alive, inc, val, unheard, notes, runs, rec, mended>>

\* SIGKILL, OOM, a drain that ran out: no finally runs.
Kill(p) ==
  /\ MayDie /\ alive[p]
  /\ alive' = [alive EXCEPT ![p] = FALSE]
  /\ Idle(p)
  /\ rec' = [rec EXCEPT ![p] = {}]
  /\ mended' = [mended EXCEPT ![p] = {}]
  /\ UNCHANGED <<inc, val, unheard, notes, runs>>

\* Mutant of OwnerAlive: the pid without its start time.
PidAlive(n) == HasProc /\ alive'[n.owner]

\* Entry.owner_alive.  Without /proc, proc_started answers None for every pid.
OwnerAlive(n) == HasProc /\ alive'[n.owner] /\ inc'[n.owner] = n.started

\* A process gets the pid p.  A `serve` begins with journal.recover, over the
\* notes that are abandoned at that moment.
Boot(p) ==
  /\ ~alive[p]
  /\ inc[p] < MaxInc
  /\ alive' = [alive EXCEPT ![p] = TRUE]
  /\ inc' = [inc EXCEPT ![p] = @ + 1]
  /\ rec' = [rec EXCEPT ![p] = IF p \in Serves THEN {n \in notes : ~OwnerAlive(n)} ELSE {}]
  /\ UNCHANGED <<local, val, unheard, notes, runs, mended>>

\* journal._repair of one note.  It reports what the call reported, except that
\* mongoprof.stop returns None whatever happened, and bool(None) keeps the note.
Repair(p, n) ==
  /\ n \in rec[p] /\ mended[p] = {}
  /\ rec' = [rec EXCEPT ![p] = @ \ {n}]
  /\ \E ok \in Answer(p, n.kind) : \E took \in Took(ok) :
       /\ val' = IF took THEN [val EXCEPT ![n.kind] = IF n.kind \in CarriesPrior THEN n.prior ELSE "normal"]
                 ELSE val
       /\ unheard' = IF took THEN unheard \ {n.kind} ELSE unheard
       /\ mended' = IF ok /\ n.kind # "profiler" THEN [mended EXCEPT ![p] = {n}] ELSE mended
  /\ UNCHANGED <<alive, inc, local, notes, runs>>

Forget(p) ==
  /\ mended[p] # {}
  /\ notes' = notes \ mended[p]
  /\ mended' = [mended EXCEPT ![p] = {}]
  /\ UNCHANGED <<alive, inc, local, val, unheard, runs, rec>>

OpStep(p) ==
  \/ \E e \in Effects : Read(p, e) \/ Note(p, e) \/ Set(p, e) \/ Apply(p, e) \/ Undo(p, e) \/ Clear(p, e)
  \/ Work(p)
  \/ Finish(p)

RecoverStep(p) == (\E n \in rec[p] : Repair(p, n)) \/ Forget(p)

Next ==
  \E p \in Procs :
    \/ \E o \in Ops[p] : Start(p, o)
    \/ OpStep(p)
    \/ RecoverStep(p)
    \/ Kill(p)
    \/ Boot(p)

Spec == Init /\ [][Next]_vars
-----------------------------------------------------------------------------
Values == {"normal", "test"}
NoteSet == [run : 1..MaxRuns, kind : Effects, owner : Procs, started : 1..MaxInc,
            prior : Values \cup {"unknown"}]

TypeOK ==
  /\ alive \in [Procs -> BOOLEAN]
  /\ inc \in [Procs -> 0..MaxInc]
  /\ \A p \in Procs : op[p] \in Ops[p] \cup {"none"}
  /\ run \in [Procs -> 0..MaxRuns]
  /\ seen \in [Procs -> [Effects -> Values \cup {"unknown"}]]
  /\ did \in [Procs -> [Effects -> BOOLEAN]]
  /\ holds \in [Procs -> SUBSET Effects]
  /\ val \in [Effects -> Values]
  /\ unheard \subseteq Effects
  /\ notes \subseteq NoteSet
  /\ runs \in 0..MaxRuns
  /\ rec \in [Procs -> SUBSET NoteSet]
  /\ mended \in [Procs -> SUBSET NoteSet]

Recorded(e) == val[e] = "test" /\ e \notin unheard => \E n \in notes : n.kind = e

\* Whoever is killed and wherever: while the API rate limiter is off or the
\* metrics endpoint open, a note on disk says so (journal.py:15-18).  The exception
\* is a limiter that was turned off by a call that reported failure: a seed and a
\* CLI load test drop its note all the same (seed.py:491-493, cli.py:2721-2724).
SettingsAreRecorded == Recorded("limiter") /\ Recorded("metrics")

Running(n) == alive[n.owner] /\ inc[n.owner] = n.started

\* A serve that has finished recovering leaves no note of an earlier process
\* with its pid, when the calls that undo it work (journal.py:46-47).  The note
\* of a profiler is the exception: see Repair.
PredecessorsAreCleared ==
  \A p \in Serves : alive[p] /\ ~Recovering(p) =>
    \A n \in notes :
      (n.owner = p /\ n.kind # "profiler" /\ <<"none", n.kind>> \notin Flaky) => n.started = inc[p]

\* Recovery does not turn the limiter back on under a load test that relies on
\* its being off (journal.py:21-22).
RecoverySparesLoadTests ==
  [][\A p \in Procs, q \in Procs :
       (RecoverStep(p) /\ At(q, "work", "none") /\ val["limiter"] = "test")
         => val'["limiter"] = "test"]_vars

\* Nobody but its writer removes the note of a process that still runs, and a
\* writer only in its own finally: recovery leaves live work alone
\* (journal.py:20-25, app.py:501-503).
LiveNotesAreKept ==
  \A n \in notes \ notes' :
    Running(n) => n \in Own(n.owner, n.kind) /\ todo'[n.owner] # todo[n.owner]

\* The note that carries the prior caps goes only once they are back: a restore
\* that failed leaves it for recovery (perf.py:253-257).
CapsNoteOutlivesFailedRestore ==
  \A n \in notes \ notes' : n.kind = "caps" => val["caps"] = n.prior

\* No note goes before its time.
NotesGoInTime == [][LiveNotesAreKept /\ CapsNoteOutlivesFailedRestore]_vars

=============================================================================
