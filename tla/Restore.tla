------------------------------ MODULE Restore ------------------------------
(****************************************************************************)
(* Backup, restore, upgrade and rollback of one Docker Compose workspace:   *)
(* services/backup.py and services/upgrade.py, with the two operations that *)
(* write or stop the same things (`env --set`, start and stop) and the      *)
(* recovery that `serve` runs, without a lock, when it starts.  The lock is *)
(* Mutex.tla with one name.                                                 *)
(*                                                                          *)
(* Every process runs one operation.  A restore is also part of a rollback, *)
(* and a backup and a rollback are parts of an upgrade.  `scars` collects   *)
(* the known ways in which a workspace is left in disorder, and every       *)
(* property names those it does not survive.  The Kubernetes branches,      *)
(* `restore --new`, --live, --force and --no-rollback are left out.         *)
(****************************************************************************)
EXTENDS Naturals, FiniteSets

CONSTANTS Procs,      \* processes
          Clis,       \* those that are CLI commands; the others are `serve`
          Nobody,
          Ops,        \* Ops[p]: the operations p may run
          MaxVersion, \* bound: Rocket.Chat versions are 1 .. MaxVersion
          Flaky,      \* the calls that may fail
          MayDie,     \* whether processes may be killed at work
          MaxServes   \* bound: starts of `serve`

ASSUME NobodyIsNoProcess == Nobody \notin Procs /\ Clis \subseteq Procs
ASSUME RestoreBounds == MaxVersion \in Nat \ {0} /\ MaxServes \in Nat /\ MayDie \in BOOLEAN

Operations == {"backup", "restore", "upgrade", "rollback", "set_env", "start", "stop"}
Versions == 1 .. MaxVersion

\* What a database, or the dump of one, holds: everything of one moment, that
\* and collections that were there before, writes of a running Rocket.Chat in
\* it, a part, or nothing.
Contents == {"whole", "merged", "mixed", "partial", "empty"}

Bundles == [id : Procs, version : Versions, schema : Versions, content : Contents]
NoBundle == [id |-> Nobody, version |-> 1, schema |-> 1, content |-> "empty"]
Records == [version : Versions, env : Procs \cup {Nobody}, backup : Bundles \cup {NoBundle}]
Composes == [version : Versions, env : Procs \cup {Nobody}]

\* The two files of a new workspace, and the locals of a new process.
NewWorkspace == [version |-> 1, env |-> Nobody, backup |-> NoBundle]
NewDeployment == [version |-> 1, env |-> Nobody]
NoJob == [op |-> "backup", part |-> "own", to |-> 1, bundle |-> NoBundle,
          mem |-> NewWorkspace, prev |-> NewDeployment, ok |-> TRUE]

Notes == [kind : {"stopped", "dropped"}, owner : Procs, restoring : BOOLEAN]

VARIABLES
  pc,       \* pc[p]: where p is
  job,      \* job[p]: what p runs, and its local variables
  lock,     \* who is inside repro_lock(name)
  record,   \* repro.json
  compose,  \* docker-compose.yml
  box,      \* the Rocket.Chat container: its image, and who stopped it
  db,       \* the database in the MongoDB container
  bundles,  \* the bundles on disk
  notes,    \* the journal directory
  rec,      \* notes that the recovery of `serve` has read and not handled
  mended,   \* notes it has repaired and is about to clear
  serves,   \* starts of `serve`
  scars     \* history: which known damage has been done

files == <<record, compose>>
held == <<lock, job>>
recovery == <<rec, mended, serves>>
vars == <<pc, job, lock, files, box, db, bundles, notes, recovery, scars>>

Init ==
  /\ pc = [p \in Procs |-> "idle"]
  /\ record = NewWorkspace
  /\ compose = NewDeployment
  /\ job = [p \in Procs |-> NoJob]
  /\ lock = Nobody
  /\ box = [up |-> TRUE, image |-> 1, stopper |-> "nobody"]
  /\ db = [schema |-> 1, content |-> "whole"]
  /\ bundles = {} /\ notes = {} /\ rec = {} /\ mended = {} /\ scars = {}
  /\ serves = 0

Answer(call) == IF call \in Flaky THEN BOOLEAN ELSE {TRUE}
Goto(p, place) == pc' = [pc EXCEPT ![p] = place]

Running(image) == [up |-> TRUE, image |-> image, stopper |-> "nobody"]
StoppedBy(who) == [box EXCEPT !.up = FALSE, !.stopper = who]

\* p is inside _restore_locked; p undoes its own upgrade.
Restoring(p) == job[p].op \in {"restore", "rollback"} \/ job[p].part = "undo"
Undoing(p) == job[p].op = "upgrade" /\ job[p].part = "undo"

\* p's command ends, and what it knew is gone.
Finish(p, how) ==
  /\ Goto(p, how)
  /\ lock' = IF lock = p THEN Nobody ELSE lock
  /\ job' = [job EXCEPT ![p] = NoJob]

\* An exception leaves it.  A rollback has changed the files by then.
Fail(p) ==
  /\ Finish(p, "failed")
  /\ scars' = IF job[p].op = "rollback" \/ Undoing(p) THEN scars \cup {"broken"} ELSE scars

\* The checks in front of the lock.  A rollback reads the metadata here.
Begin(p, o, b, to) ==
  /\ pc[p] = "idle" /\ o \in Ops[p]
  /\ IF o \in {"restore", "rollback"} THEN b \in bundles ELSE b = NoBundle
  /\ IF o = "upgrade" THEN box.up ELSE to = b.version
  /\ job' = [job EXCEPT ![p] = [@ EXCEPT !.op = o, !.bundle = b, !.to = to, !.mem = record]]
  /\ Goto(p, "lock")
  /\ UNCHANGED <<lock, files, box, db, bundles, notes, recovery, scars>>

FirstStep(o) ==
  CASE o = "backup" -> "note"
    [] o = "restore" -> "check"
    [] o = "upgrade" -> "plan"
    [] o \in {"rollback", "set_env"} -> "write"
    [] o \in {"start", "stop"} -> "set_state"

\* Mutant of Free: a click does not wait for what is at work.
FreeToClick(p) == lock = Nobody \/ job[p].op \in {"start", "stop"}

Free(p) == lock = Nobody

\* Whatever the operation needs of the metadata it reads inside, but for a rollback.
Acquire(p) ==
  /\ pc[p] = "lock" /\ Free(p)
  /\ lock' = p
  /\ job' = [job EXCEPT ![p].mem = IF job[p].op = "rollback" THEN @ ELSE record]
  /\ Goto(p, FirstStep(job[p].op))
  /\ UNCHANGED <<files, box, db, bundles, notes, recovery, scars>>

LockTimeout(p) ==
  /\ pc[p] = "lock" /\ ~Free(p)
  /\ Finish(p, "failed")
  /\ UNCHANGED <<files, box, db, bundles, notes, recovery, scars>>

-----------------------------------------------------------------------------
(* _Quiesced, and the dump or the load inside it.                            *)

StopNote(p) == [kind |-> "stopped", owner |-> p, restoring |-> Restoring(p)]
DropNote(p) == [kind |-> "dropped", owner |-> p, restoring |-> TRUE]

\* compatibility(): data of a newer version needs --force, which a rollback passes.
Check(p) ==
  /\ pc[p] = "check"
  /\ IF job[p].op = "restore" /\ job[p].bundle.version > record.version
       THEN Fail(p)
       ELSE Goto(p, "note") /\ UNCHANGED <<held, scars>>
  /\ UNCHANGED <<files, box, db, bundles, notes, recovery>>

\* `stop` stops MongoDB too; _require_mongo_tools finds that out.
MongoUp == box.stopper # "user"

NoMongo(p) ==
  /\ pc[p] = "note" /\ ~MongoUp
  /\ Fail(p)
  /\ UNCHANGED <<files, box, db, bundles, notes, recovery>>

NoteStopped(p) ==
  /\ pc[p] = "note" /\ MongoUp
  /\ notes' = notes \cup {StopNote(p)}
  /\ Goto(p, "quiesce")
  /\ UNCHANGED <<job, lock, files, box, db, bundles, recovery, scars>>

\* stop_services; its return code is not looked at.
Quiesce(p) ==
  /\ pc[p] = "quiesce"
  /\ \E ok \in Answer("stop") :
       /\ box' = IF ok THEN StoppedBy("quiesce") ELSE box
       /\ scars' = IF ok \/ ~box.up THEN scars ELSE scars \cup {"unstopped"}
  /\ Goto(p, IF Restoring(p) THEN "note_drop" ELSE "dump")
  /\ UNCHANGED <<job, lock, files, db, bundles, notes, recovery>>

Dump(p) ==
  /\ pc[p] = "dump"
  /\ \E ok \in Answer("dump") :
       job' = [job EXCEPT ![p] = [@ EXCEPT !.ok = ok,
                 !.bundle = IF ~ok THEN NoBundle ELSE
                   [id |-> p, version |-> record.version, schema |-> db.schema,
                    content |-> IF box.up /\ db.content = "whole" THEN "mixed" ELSE db.content]]]
  /\ Goto(p, "start")
  /\ UNCHANGED <<lock, files, box, db, bundles, notes, recovery, scars>>

NoteDropped(p) ==
  /\ pc[p] = "note_drop"
  /\ notes' = notes \cup {DropNote(p)}
  /\ Goto(p, "drop")
  /\ UNCHANGED <<job, lock, files, box, db, bundles, recovery, scars>>

\* _drop_database; a failure is only warned about.
Drop(p) ==
  /\ pc[p] = "drop"
  /\ \E ok \in Answer("drop") : db' = IF ok THEN [db EXCEPT !.content = "empty"] ELSE db
  /\ Goto(p, "load")
  /\ UNCHANGED <<job, lock, files, box, bundles, notes, recovery, scars>>

\* What a complete mongorestore of b leaves.
Loaded(b) ==
  [schema |-> b.schema,
   content |-> IF b.content # "whole" THEN b.content
               ELSE IF box.up THEN "mixed"
               ELSE IF db.content = "empty" THEN "whole" ELSE "merged"]

Load(p) ==
  /\ pc[p] = "load"
  /\ \E ok \in Answer("load") :
       /\ job' = [job EXCEPT ![p].ok = ok]
       /\ IF ok THEN db' = Loaded(job[p].bundle)
                ELSE \E c \in {db.content, "partial"} : db' = [db EXCEPT !.content = c]
  /\ Goto(p, "clear_drop")
  /\ UNCHANGED <<lock, files, box, bundles, notes, recovery, scars>>

\* Mutant of Settled: the note goes when mongorestore has run, not when it worked.
SettledAnyway(p) == notes \ {DropNote(p)}

Settled(p) == IF job[p].ok THEN notes \ {DropNote(p)} ELSE notes

ClearDropped(p) ==
  /\ pc[p] = "clear_drop"
  /\ notes' = Settled(p)
  /\ Goto(p, "start")
  /\ UNCHANGED <<job, lock, files, box, db, bundles, recovery, scars>>

\* Mutant of AfterStart: the return code of the start is not looked at.
AfterStartAnyway(ok) == "clear"

\* A failed start keeps the note.
AfterStart(ok) == IF ok THEN "clear" ELSE "left"

StartAgain(p) ==
  /\ pc[p] = "start"
  /\ \E ok \in Answer("start") :
       /\ box' = IF ok THEN Running(box.image) ELSE box
       /\ Goto(p, AfterStart(ok))
  /\ UNCHANGED <<job, lock, files, db, bundles, notes, recovery, scars>>

ClearStopped(p) ==
  /\ pc[p] = "clear"
  /\ notes' = notes \ {StopNote(p)}
  /\ Goto(p, "left")
  /\ UNCHANGED <<job, lock, files, box, db, bundles, recovery, scars>>

\* mongodump or mongorestore failed, and only now is that an error.
DataFailed(p) ==
  /\ pc[p] = "left" /\ ~job[p].ok
  /\ Fail(p)
  /\ UNCHANGED <<files, box, db, bundles, notes, recovery>>

Pack(p) ==
  /\ pc[p] = "left" /\ job[p].ok /\ ~Restoring(p)
  /\ bundles' = bundles \cup {job[p].bundle}
  /\ IF job[p].op = "upgrade" THEN Goto(p, "halt") /\ UNCHANGED held ELSE Finish(p, "ended")
  /\ UNCHANGED <<files, box, db, notes, recovery, scars>>

Restored(p) ==
  /\ pc[p] = "left" /\ job[p].ok /\ Restoring(p)
  /\ Goto(p, "serve")
  /\ UNCHANGED <<job, lock, files, box, db, bundles, notes, recovery, scars>>

-----------------------------------------------------------------------------
(* upgrade.py, and the writes it shares with envvars.py.                     *)

\* plan(): the workspace runs, and the version asked for is a newer one.
Upgradable(p) == box.up /\ job[p].to > record.version

Plan(p, backup) ==
  /\ pc[p] = "plan"
  /\ IF Upgradable(p)
       THEN /\ job' = [job EXCEPT ![p].prev = compose]
            /\ Goto(p, IF backup THEN "note" ELSE "halt")
            /\ UNCHANGED <<lock, scars>>
       ELSE Fail(p)
  /\ UNCHANGED <<files, box, db, bundles, notes, recovery>>

\* The upgrade's own stop_services: no note, and no look at the return code.
Halt(p) ==
  /\ pc[p] = "halt"
  /\ \E ok \in Answer("stop") : box' = IF ok THEN StoppedBy("upgrade") ELSE box
  /\ Goto(p, "write")
  /\ UNCHANGED <<job, lock, files, db, bundles, notes, recovery, scars>>

\* Mutant of NewCompose: undoing an upgrade puts the old image tag back nowhere.
ComposeNotUndone(p) ==
  IF Undoing(p) THEN compose
  ELSE IF job[p].op = "set_env" THEN [compose EXCEPT !.env = p]
  ELSE [compose EXCEPT !.version = job[p].to]

\* The two files as p is about to write them.
NewCompose(p) ==
  IF Undoing(p) THEN job[p].prev
  ELSE IF job[p].op = "set_env" THEN [compose EXCEPT !.env = p]
  ELSE [compose EXCEPT !.version = job[p].to]

NewRecord(p) ==
  LET mem == job[p].mem
      b == job[p].bundle
  IN CASE Undoing(p) -> [record EXCEPT !.version = mem.version]
       [] job[p].op = "upgrade" /\ ~Undoing(p) ->
            [mem EXCEPT !.version = job[p].to, !.backup = IF b = NoBundle THEN @ ELSE b]
       [] job[p].op = "rollback" -> [mem EXCEPT !.version = job[p].to]
       [] job[p].op = "set_env" -> [mem EXCEPT !.env = p]

\* runner.write: two files, each replaced in one step.
WriteCompose(p) ==
  /\ pc[p] = "write"
  /\ compose' = NewCompose(p)
  /\ Goto(p, "record")
  /\ UNCHANGED <<job, lock, record, box, db, bundles, notes, recovery, scars>>

WriteRecord(p) ==
  /\ pc[p] = "record"
  /\ record' = NewRecord(p)
  /\ scars' = IF job[p].op = "rollback" /\ job[p].mem.env # record.env
                THEN scars \cup {"stale"} ELSE scars
  /\ Goto(p, "up")
  /\ UNCHANGED <<job, lock, compose, box, db, bundles, notes, recovery>>

\* `env --set --no-restart`.
NoRestart(p) ==
  /\ pc[p] = "up" /\ job[p].op = "set_env"
  /\ Finish(p, "ended")
  /\ UNCHANGED <<files, box, db, bundles, notes, recovery, scars>>

\* The upgrade failed.  With a bundle it is undone.
Recoil(p) ==
  IF job[p].bundle = NoBundle
    THEN Finish(p, "failed") /\ scars' = scars \cup {"broken"}
    ELSE /\ job' = [job EXCEPT ![p].part = "undo"]
         /\ Goto(p, "write")
         /\ UNCHANGED <<lock, scars>>

\* Mutant of UpDone: an explicit rollback stops at the old image.
UpDoneEarly(p) ==
  CASE Undoing(p) -> Goto(p, "check") /\ UNCHANGED held
    [] job[p].op = "upgrade" /\ ~Undoing(p) -> Goto(p, "serve") /\ UNCHANGED held
    [] OTHER -> Finish(p, "ended")

\* `docker compose up` was done, or is not looked at: what comes next.
UpDone(p) ==
  CASE Restoring(p) -> Goto(p, "check") /\ UNCHANGED held
    [] job[p].op = "upgrade" /\ ~Undoing(p) -> Goto(p, "serve") /\ UNCHANGED held
    [] OTHER -> Finish(p, "ended")

\* `docker compose up` creates the containers of docker-compose.yml.
Up(p) ==
  /\ pc[p] = "up"
  /\ box' = Running(compose.version)
  /\ UpDone(p)
  /\ UNCHANGED <<files, db, bundles, notes, recovery, scars>>

\* It failed.  Undoing an upgrade ignores that; everybody else gives up.
UpFails(p) ==
  /\ pc[p] = "up" /\ (IF Undoing(p) THEN "up_again" ELSE "up") \in Flaky
  /\ CASE Undoing(p) -> UpDone(p) /\ UNCHANGED scars
       [] job[p].op = "upgrade" /\ ~Undoing(p) -> Recoil(p)
       [] OTHER -> Fail(p)
  /\ UNCHANGED <<files, box, db, bundles, notes, recovery>>

\* wait_and_finalize: Rocket.Chat runs and has migrated the database.
Served(p) ==
  /\ pc[p] = "serve" /\ box.up /\ db.schema = box.image
  /\ Finish(p, "ended")
  /\ UNCHANGED <<files, box, db, bundles, notes, recovery, scars>>

NotServed(p) ==
  /\ pc[p] = "serve"
  /\ "wait" \in Flaky \/ ~box.up \/ db.schema > box.image
  /\ IF job[p].op = "upgrade" /\ ~Undoing(p) THEN Recoil(p) ELSE Fail(p)
  /\ UNCHANGED <<files, box, db, bundles, notes, recovery>>

SetState(p) ==
  /\ pc[p] = "set_state"
  /\ \E ok \in Answer(job[p].op) :
       /\ box' = IF ~ok THEN box
                 ELSE IF job[p].op = "start" THEN Running(box.image) ELSE StoppedBy("user")
       /\ Finish(p, IF ok THEN "ended" ELSE "failed")
  /\ UNCHANGED <<files, db, bundles, notes, recovery, scars>>

-----------------------------------------------------------------------------
(* What is not in a command: migrations, deaths, recovery.                   *)

\* Rocket.Chat migrates the database when it boots.
Migrate ==
  /\ box.up /\ db.schema < box.image
  /\ db' = [db EXCEPT !.schema = box.image]
  /\ UNCHANGED <<pc, job, lock, files, box, bundles, notes, recovery, scars>>

Over == {"ended", "failed"}

\* p's process is gone, killed or at the end of its command.
Gone(p) == pc[p] = "dead" \/ (p \in Clis /\ pc[p] \in Over)

\* p has written docker-compose.yml, and neither finished nor undone what it is for.
HalfWay(p) ==
  /\ job[p].op \in {"upgrade", "rollback"}
  /\ pc[p] \in {"record", "up", "serve"} \/ (Restoring(p) /\ pc[p] \notin {"lock", "write"} \cup Over)
                                          \/ (Undoing(p) /\ pc[p] = "write")

\* p is killed, or a `serve` whose job is over is restarted.
Die(p) ==
  /\ MayDie /\ pc[p] \notin {"idle", "dead"} /\ ~Gone(p)
  /\ Finish(p, "dead")
  /\ scars' = scars \cup (IF pc[p] = "record" THEN {"cut"} ELSE {})
                    \cup (IF HalfWay(p) THEN {"broken"} ELSE {})
  /\ UNCHANGED <<files, box, db, bundles, notes, recovery>>

Abandoned == {n \in notes : Gone(n.owner)}

\* `serve` starts and reads the notes.  Those of dropped databases are only reported.
Recover ==
  /\ serves < MaxServes
  /\ serves' = serves + 1
  /\ rec' = {n \in Abandoned : n.kind = "stopped"}
  /\ mended' = {}
  /\ UNCHANGED <<pc, job, lock, files, box, db, bundles, notes, scars>>

Quiet == {"dump", "note_drop", "drop", "load", "clear_drop"}

\* _repair: starts Rocket.Chat, whoever is at work.
Repair(n) ==
  /\ rec' = rec \ {n}
  /\ \E ok \in Answer("start") :
       /\ mended' = IF ok THEN mended \cup {n} ELSE mended
       /\ box' = IF ok THEN Running(box.image) ELSE box
       /\ scars' = IF ok /\ ~box.up /\ \E p \in Procs : pc[p] \in Quiet
                     THEN scars \cup {"woken"} ELSE scars
  /\ UNCHANGED <<pc, job, lock, files, db, bundles, notes, serves>>

Mend(n) ==
  /\ mended' = mended \ {n}
  /\ notes' = notes \ {n}
  /\ UNCHANGED <<pc, job, lock, files, box, db, bundles, rec, serves, scars>>

Quiescing(p) ==
  \/ NoMongo(p) \/ NoteStopped(p) \/ Quiesce(p) \/ Dump(p) \/ NoteDropped(p) \/ Drop(p) \/ Load(p)
  \/ ClearDropped(p) \/ StartAgain(p) \/ ClearStopped(p) \/ DataFailed(p)

Upgrading(p) ==
  \/ \E backup \in BOOLEAN : Plan(p, backup)
  \/ Halt(p) \/ WriteCompose(p) \/ WriteRecord(p) \/ NoRestart(p)
  \/ Up(p) \/ UpFails(p) \/ Served(p) \/ NotServed(p)

Work(p) ==
  \/ \E o \in Operations, b \in bundles \cup {NoBundle}, to \in Versions : Begin(p, o, b, to)
  \/ Acquire(p) \/ LockTimeout(p) \/ Check(p) \/ SetState(p)
  \/ Quiescing(p) \/ Pack(p) \/ Restored(p) \/ Upgrading(p)

Next ==
  \/ \E p \in Procs : Work(p) \/ Die(p)
  \/ Migrate \/ Recover
  \/ \E n \in rec : Repair(n)
  \/ \E n \in mended : Mend(n)

Spec == Init /\ [][Next]_vars
-----------------------------------------------------------------------------
(* Properties.                                                               *)

Outside == {"idle", "lock", "dead"} \cup Over
Inside == {"plan", "check", "note", "quiesce", "start", "clear", "left", "halt", "write", "record",
           "up", "serve", "set_state"} \cup Quiet
Locals == [op : Operations, part : {"own", "undo"}, to : Versions, bundle : Bundles \cup {NoBundle},
           mem : Records, prev : Composes, ok : BOOLEAN]

\* Every variable has its type, and only the holder of the lock is past it.
TypeOK ==
  /\ pc \in [Procs -> Outside \cup Inside]
  /\ job \in [Procs -> Locals]
  /\ lock \in Procs \cup {Nobody}
  /\ \A p \in Procs : lock = p <=> pc[p] \in Inside
  /\ record \in Records /\ compose \in Composes
  /\ box \in [up : BOOLEAN, image : Versions, stopper : {"nobody", "user", "quiesce", "upgrade"}]
  /\ db \in [schema : Versions, content : Contents]
  /\ bundles \subseteq Bundles
  /\ notes \subseteq Notes /\ rec \subseteq Notes /\ mended \subseteq Notes
  /\ serves \in 0 .. MaxServes
  /\ scars \subseteq {"cut", "stale", "broken", "woken", "unstopped"}

\* A Rocket.Chat that a backup or a restore has stopped has a note that says
\* so, whatever failed, whoever was killed and whatever recovery did meanwhile
\* (the comments of _Quiesced, services/backup.py).
StoppedIsNoted ==
  ~box.up /\ box.stopper = "quiesce" => \E n \in notes : n.kind = "stopped"

\* A database that lost its data to a restore is noted until a restore has
\* loaded one (the comment on DATABASE_DROPPED, services/journal.py).
LostDataIsNoted ==
  db.content \in {"partial", "empty"} => \E n \in notes : n.kind = "dropped"

\* No command starts Rocket.Chat under a dump or a load of another one.  What
\* does is a stop that failed, and recovery.
DumpsAreQuiet ==
  \A p \in Procs : pc[p] \in Quiet /\ box.up => scars \cap {"woken", "unstopped"} # {}

\* The compose file and the metadata tell the same version and the same
\* environment, except after a kill between the two writes, and for the
\* environment after a rollback that had waited for the lock with metadata it
\* had read before.
FilesAgree ==
  "cut" \notin scars =>
    /\ compose.version = record.version
    /\ "stale" \in scars \/ compose.env = record.env

\* The container that runs is of the version in the metadata, and no database
\* is newer than it, unless an upgrade or a rollback was killed on its way or
\* could not be undone.
RunsWhatIsRecorded ==
  box.up /\ scars \cap {"cut", "broken"} = {} =>
    box.image = record.version /\ db.schema <= record.version

\* Between operations the record tells the truth, of the compose file and of
\* what runs (services/upgrade.py:308-329, envvars.py:199-254).
RecordTellsTheTruth == lock = Nobody => FilesAgree /\ RunsWhatIsRecorded

\* What a rollback to b, asked for or automatic, leaves when it reports success.
\* After a kill between the two writes the compose file that a later upgrade
\* keeps for its undoing is not that of the version it comes from.
RolledBackTo(b) ==
  /\ "cut" \notin scars => {box.image, record.version, compose.version, db.schema} = {b.version}
  /\ b.content = "whole" /\ scars \cap {"woken", "unstopped"} = {}
       => db.content \in {"whole", "merged"}

\* A rollback that reports success has put image, metadata, compose file and
\* data back to those of the bundle (the docstring of _rollback,
\* services/upgrade.py).
RollbackRestores ==
  [][\A p \in Procs : \A b \in {job[p].bundle} :
       pc[p] \notin Over /\ pc'[p] = "ended" /\ job[p].op \in {"rollback", "upgrade"} /\ Restoring(p)
         => RolledBackTo(b)']_vars

=============================================================================
