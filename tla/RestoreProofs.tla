--------------------------- MODULE RestoreProofs ---------------------------
(****************************************************************************)
(* Proofs about Restore: its type invariant with the exclusion of its       *)
(* operations, that nothing starts under a dump, that a stopped Rocket.Chat *)
(* has a note, that a lost database has one, that the record tells the      *)
(* truth, and that a rollback puts back what it says.                       *)
(*                                                                          *)
(* JobsFit says what an operation is at each place, which types need.       *)
(* StopInv adds that recovery handles only notes of processes that are      *)
(* gone, so it never clears the note of one at work.  LossInv follows lost  *)
(* data into the bundles that are made of it and back into the database.    *)
(* Knowing, Filing, Truthful and Keeping say of the operation at work what  *)
(* it knows of the record and how the two files, the container and the data *)
(* stand to that.                                                           *)
(****************************************************************************)
EXTENDS Restore, TLAPS

USE NobodyIsNoProcess, RestoreBounds

LEMMA ConstantTypes ==
  /\ NoJob \in Locals
  /\ NewWorkspace \in Records
  /\ NewDeployment \in Composes
  /\ NoBundle \notin Bundles
BY DEF NoJob, Locals, NewWorkspace, NewDeployment, Records, Composes, Versions, Operations, NoBundle, Bundles

LEMMA Places == Inside \cap Outside = {} /\ Over \subseteq Outside /\ Quiet \subseteq Inside
  BY DEF Inside, Outside, Over, Quiet

LEMMA Ends == {"ended", "failed"} \subseteq Over
  BY DEF Over

\* What p, inside, may do with where it is, the lock and its locals.
Control(p) ==
  /\ pc' \in [Procs -> Outside \cup Inside]
  /\ job' \in [Procs -> Locals]
  /\ lock' \in Procs \cup {Nobody}
  /\ \A q \in Procs : lock' = q <=> pc'[q] \in Inside

LEMMA FinishControl ==
  ASSUME TypeOK, NEW p \in Procs, NEW how \in Over \cup {"dead"}, Finish(p, how)
  PROVE  Control(p)
<1>1. how \in Outside /\ how \notin Inside
  BY Places DEF Outside
<1> QED
  BY <1>1, ConstantTypes DEF TypeOK, Control, Finish, Goto

LEMMA GotoControl ==
  ASSUME TypeOK, NEW p \in Procs, pc[p] \in Inside, NEW place \in Inside, Goto(p, place), lock' = lock,
         job' \in [Procs -> Locals]
  PROVE  Control(p)
BY DEF TypeOK, Control, Goto

LEMMA InitType == Init => TypeOK
<1> SUFFICES ASSUME Init PROVE TypeOK
  OBVIOUS
<1>1. \A p \in Procs : pc[p] \notin Inside /\ pc[p] \in Outside
  BY DEF Init, Inside, Outside, Quiet
<1>2. box \in [up : BOOLEAN, image : Versions, stopper : {"nobody", "user", "quiesce", "upgrade"}]
  BY DEF Init, Versions
<1>3. db \in [schema : Versions, content : Contents]
  BY DEF Init, Versions, Contents
<1> QED
  BY <1>1, <1>2, <1>3, ConstantTypes DEF Init, TypeOK

\* The rest of the state.
Data ==
  /\ record' \in Records /\ compose' \in Composes
  /\ box' \in [up : BOOLEAN, image : Versions, stopper : {"nobody", "user", "quiesce", "upgrade"}]
  /\ db' \in [schema : Versions, content : Contents]
  /\ bundles' \subseteq Bundles
  /\ notes' \subseteq Notes /\ rec' \subseteq Notes /\ mended' \subseteq Notes
  /\ serves' \in 0 .. MaxServes
  /\ scars' \subseteq {"cut", "stale", "broken", "woken", "unstopped"}

LEMMA TypeFromParts ==
  ASSUME NEW p \in Procs, Control(p), Data
  PROVE  TypeOK'
BY DEF Control, Data, TypeOK

LEMMA EntryType ==
  ASSUME TypeOK, NEW p \in Procs,
         (\E o \in Operations, b \in bundles \cup {NoBundle}, to \in Versions : Begin(p, o, b, to))
           \/ Acquire(p) \/ LockTimeout(p)
  PROVE  TypeOK'
<1>1. Data
  BY DEF Begin, Acquire, LockTimeout, TypeOK, Data, files, recovery
<1>2. ASSUME NEW o \in Operations, NEW b \in bundles \cup {NoBundle}, NEW to \in Versions, Begin(p, o, b, to)
      PROVE  Control(p)
  <2> DEFINE j == [[[[job[p] EXCEPT !.op = o] EXCEPT !.bundle = b] EXCEPT !.to = to] EXCEPT !.mem = record]
  <2>1. job[p] \in Locals /\ b \in Bundles \cup {NoBundle} /\ record \in Records
    BY DEF TypeOK
  <2>2. j \in Locals
    BY <2>1 DEF Locals
  <2>3. job' = [job EXCEPT ![p] = j] /\ pc' = [pc EXCEPT ![p] = "lock"] /\ lock' = lock /\ pc[p] = "idle"
    BY <1>2 DEF Begin, Goto
  <2>4. {"idle", "lock"} \subseteq Outside /\ {"idle", "lock"} \cap Inside = {}
    BY Places DEF Outside
  <2> QED
    BY <2>2, <2>3, <2>4 DEF TypeOK, Control
<1>3. ASSUME Acquire(p) PROVE Control(p)
  <2> DEFINE mem == IF job[p].op = "rollback" THEN job[p].mem ELSE record
  <2>1. job[p] \in Locals /\ mem \in Records
    BY DEF TypeOK, Locals
  <2>2. [job[p] EXCEPT !.mem = mem] \in Locals
    BY <2>1 DEF Locals
  <2>3. job' = [job EXCEPT ![p] = [job[p] EXCEPT !.mem = mem]]
    BY <1>3 DEF Acquire
  <2>4. FirstStep(job[p].op) \in Inside
    BY <2>1 DEF FirstStep, Inside, Locals, Operations
  <2>5. pc[p] \in Outside /\ pc[p] \notin Inside
    BY <1>3, Places DEF Acquire, Outside
  <2> QED
    BY <1>3, <2>2, <2>3, <2>4, <2>5 DEF Acquire, Free, TypeOK, Control, Goto
<1>4. ASSUME LockTimeout(p) PROVE Control(p)
  BY <1>4, FinishControl, Ends DEF LockTimeout
<1> QED
  BY <1>1, <1>2, <1>3, <1>4, TypeFromParts

LEMMA NoteTypes ==
  ASSUME NEW p \in Procs
  PROVE  StopNote(p) \in Notes /\ DropNote(p) \in Notes /\ Restoring(p) \in BOOLEAN
BY DEF StopNote, DropNote, Notes, Restoring

\* A step inside a section that leaves p's locals alone.
LEMMA StepControl ==
  ASSUME TypeOK, NEW p \in Procs, pc[p] \in Inside, NEW place \in Inside, Goto(p, place), UNCHANGED held
  PROVE  Control(p)
BY GotoControl DEF held, TypeOK

LEMMA FailControl ==
  ASSUME TypeOK, NEW p \in Procs, Fail(p)
  PROVE  Control(p) /\ scars' \subseteq {"cut", "stale", "broken", "woken", "unstopped"}
<1>1. Control(p)
  BY FinishControl, Ends DEF Fail
<1>2. scars' \subseteq {"cut", "stale", "broken", "woken", "unstopped"}
  BY DEF Fail, TypeOK
<1> QED
  BY <1>1, <1>2

LEMMA NewLocals ==
  ASSUME NEW l \in Locals, NEW ok \in BOOLEAN, NEW b \in Bundles \cup {NoBundle}
  PROVE  [l EXCEPT !.ok = ok] \in Locals /\ [[l EXCEPT !.ok = ok] EXCEPT !.bundle = b] \in Locals
BY DEF Locals

\* What p's operation must be, and must have, where p is.
Fits(p) ==
  /\ pc[p] = "idle" => job[p].part = "own"
  /\ pc[p] \in {"plan", "halt"} => job[p].op = "upgrade"
  /\ pc[p] \in {"write", "record", "up"} => job[p].op \in {"upgrade", "rollback", "set_env"}
  /\ pc[p] = "dump" => ~Restoring(p)
  /\ pc[p] \in Quiet \ {"dump"} => Restoring(p)
  /\ pc[p] \in {"start", "clear", "left"} /\ job[p].ok /\ ~Restoring(p) => job[p].bundle \in Bundles
  /\ pc[p] \in Inside \cup {"lock"} /\ Restoring(p) => job[p].bundle \in Bundles

JobsFit == \A p \in Procs : Fits(p)

LEMMA SectionType ==
  ASSUME TypeOK, JobsFit, NEW p \in Procs, Quiescing(p) \/ Check(p) \/ Pack(p) \/ Restored(p) \/ SetState(p)
  PROVE  TypeOK'
<1> USE DEF TypeOK, Inside, Quiet, files, recovery, held, Data
<1>1. ASSUME NoMongo(p) \/ DataFailed(p) PROVE Control(p) /\ Data
  BY <1>1, FailControl DEF NoMongo, DataFailed
<1>2. ASSUME NoteStopped(p) PROVE Control(p) /\ Data
  BY <1>2, StepControl, NoteTypes DEF NoteStopped
<1>3. ASSUME Quiesce(p) PROVE Control(p) /\ Data
  BY <1>3, StepControl DEF Quiesce, StoppedBy
<1>4. ASSUME NoteDropped(p) PROVE Control(p) /\ Data
  BY <1>4, StepControl, NoteTypes DEF NoteDropped
<1>5. ASSUME Drop(p) PROVE Control(p) /\ Data
  BY <1>5, StepControl DEF Drop, Contents
<1>6. ASSUME ClearDropped(p) PROVE Control(p) /\ Data
  BY <1>6, StepControl DEF ClearDropped, Settled
<1>7. ASSUME StartAgain(p) PROVE Control(p) /\ Data
  BY <1>7, StepControl DEF StartAgain, AfterStart, Running
<1>8. ASSUME ClearStopped(p) PROVE Control(p) /\ Data
  BY <1>8, StepControl DEF ClearStopped
<1>9. ASSUME Restored(p) PROVE Control(p) /\ Data
  BY <1>9, StepControl DEF Restored
<1>10. ASSUME Dump(p) PROVE Control(p) /\ Data
  <2>1. PICK ok \in BOOLEAN :
          job' = [job EXCEPT ![p] = [@ EXCEPT !.ok = ok,
                   !.bundle = IF ~ok THEN NoBundle ELSE
                     [id |-> p, version |-> record.version, schema |-> db.schema,
                      content |-> IF box.up /\ db.content = "whole" THEN "mixed" ELSE db.content]]]
    BY <1>10 DEF Dump, Answer
  <2> DEFINE b == IF ~ok THEN NoBundle ELSE
                    [id |-> p, version |-> record.version, schema |-> db.schema,
                     content |-> IF box.up /\ db.content = "whole" THEN "mixed" ELSE db.content]
  <2>2. b \in Bundles \cup {NoBundle}
    BY DEF Bundles, Contents, Records
  <2>3. [[job[p] EXCEPT !.ok = ok] EXCEPT !.bundle = b] \in Locals
    BY <2>2, NewLocals
  <2>4. job' = [job EXCEPT ![p] = [[job[p] EXCEPT !.ok = ok] EXCEPT !.bundle = b]]
    BY <2>1
  <2>5. job' \in [Procs -> Locals]
    BY <2>3, <2>4
  <2> QED
    BY <1>10, <2>5, GotoControl DEF Dump
<1>11. ASSUME Load(p) PROVE Control(p) /\ Data
  <2>1. PICK ok \in BOOLEAN : job' = [job EXCEPT ![p].ok = ok]
    BY <1>11 DEF Load, Answer
  <2>a. job' \in [Procs -> Locals]
    BY <2>1, NewLocals
  <2>2. job[p].bundle \in Bundles \cup {NoBundle}
    BY DEF Locals
  <2>3. Loaded(job[p].bundle) \in [schema : Versions, content : Contents]
    BY <2>2 DEF Loaded, Bundles, NoBundle, Contents, Versions
  <2>4. db' \in [schema : Versions, content : Contents]
    BY <1>11, <2>3 DEF Load, Contents
  <2> QED
    BY <1>11, <2>a, <2>4, GotoControl DEF Load
<1>12. ASSUME Check(p) PROVE Control(p) /\ Data
  BY <1>12, StepControl, FailControl DEF Check
<1>13. ASSUME Pack(p) PROVE Control(p) /\ Data
  <2>1. job[p].bundle \in Bundles
    BY <1>13 DEF Pack, JobsFit, Fits
  <2> QED
    BY <1>13, <2>1, StepControl, FinishControl, Ends DEF Pack
<1>14. ASSUME SetState(p) PROVE Control(p) /\ Data
  <2>1. PICK ok \in BOOLEAN :
          /\ box' = IF ~ok THEN box
                    ELSE IF job[p].op = "start" THEN Running(box.image) ELSE StoppedBy("user")
          /\ Finish(p, IF ok THEN "ended" ELSE "failed")
    BY <1>14 DEF SetState, Answer
  <2>2. Control(p)
    BY <2>1, FinishControl, Ends
  <2>3. box' \in [up : BOOLEAN, image : Versions, stopper : {"nobody", "user", "quiesce", "upgrade"}]
    BY <2>1 DEF Running, StoppedBy
  <2> QED
    BY <1>14, <2>2, <2>3 DEF SetState
<1> QED
  BY <1>1, <1>2, <1>3, <1>4, <1>5, <1>6, <1>7, <1>8, <1>9, <1>10, <1>11, <1>12, <1>13, <1>14, TypeFromParts
     DEF Quiescing

LEMMA RecoilControl ==
  ASSUME TypeOK, NEW p \in Procs, pc[p] \in Inside, Recoil(p)
  PROVE  Control(p) /\ scars' \subseteq {"cut", "stale", "broken", "woken", "unstopped"}
<1>1. CASE job[p].bundle = NoBundle
  BY <1>1, FinishControl, Ends DEF Recoil, TypeOK
<1>2. CASE job[p].bundle # NoBundle
  <2>1. job' \in [Procs -> Locals]
    BY <1>2 DEF Recoil, TypeOK, Locals
  <2>2. Goto(p, "write") /\ UNCHANGED <<lock, scars>> /\ "write" \in Inside
    BY <1>2 DEF Recoil, Inside
  <2> QED
    BY <2>1, <2>2, GotoControl DEF TypeOK
<1> QED
  BY <1>1, <1>2

LEMMA WrittenTypes ==
  ASSUME TypeOK, NEW p \in Procs
  PROVE  /\ Undoing(p) \/ job[p].op \in {"upgrade", "rollback", "set_env"} => NewCompose(p) \in Composes
         /\ Undoing(p) \/ job[p].op \in {"upgrade", "rollback", "set_env"} => NewRecord(p) \in Records
<1>1. job[p] \in Locals /\ compose \in Composes /\ record \in Records
  BY DEF TypeOK
<1>2. /\ job[p].op \in Operations /\ job[p].to \in Versions /\ job[p].bundle \in Bundles \cup {NoBundle}
      /\ job[p].mem \in Records /\ job[p].prev \in Composes
  BY <1>1 DEF Locals
<1>3. /\ [compose EXCEPT !.version = job[p].to] \in Composes
      /\ [compose EXCEPT !.env = p] \in Composes
  BY <1>1, <1>2 DEF Composes
<1>4. /\ [record EXCEPT !.version = job[p].mem.version] \in Records
      /\ [job[p].mem EXCEPT !.version = job[p].to] \in Records
      /\ [job[p].mem EXCEPT !.env = p] \in Records
  BY <1>1, <1>2 DEF Records
<1>5. [job[p].mem EXCEPT !.version = job[p].to, !.backup = IF job[p].bundle = NoBundle THEN @ ELSE job[p].bundle]
        \in Records
  BY <1>2 DEF Records
<1>6. Undoing(p) \/ job[p].op \in {"upgrade", "rollback", "set_env"} => NewCompose(p) \in Composes
  BY <1>2, <1>3 DEF NewCompose
<1>7. Undoing(p) \/ job[p].op \in {"upgrade", "rollback", "set_env"} => NewRecord(p) \in Records
  BY <1>4, <1>5 DEF NewRecord
<1> QED
  BY <1>6, <1>7

LEMMA UpgradeType ==
  ASSUME TypeOK, JobsFit, NEW p \in Procs, Upgrading(p)
  PROVE  TypeOK'
<1> USE DEF TypeOK, Inside, Quiet, files, recovery, held, Data
<1>1. ASSUME NEW backup \in BOOLEAN, Plan(p, backup) PROVE Control(p) /\ Data
  <2>1. CASE Upgradable(p)
    <3>1. job' \in [Procs -> Locals]
      BY <1>1, <2>1 DEF Plan, Locals
    <3> QED
      BY <1>1, <2>1, <3>1, GotoControl DEF Plan
  <2>2. CASE ~Upgradable(p)
    BY <1>1, <2>2, FailControl DEF Plan
  <2> QED
    BY <2>1, <2>2
<1>2. ASSUME Halt(p) PROVE Control(p) /\ Data
  BY <1>2, StepControl DEF Halt, StoppedBy
<1>3. ASSUME WriteCompose(p) PROVE Control(p) /\ Data
  BY <1>3, StepControl, WrittenTypes DEF WriteCompose, JobsFit, Fits
<1>4. ASSUME WriteRecord(p) PROVE Control(p) /\ Data
  BY <1>4, StepControl, WrittenTypes DEF WriteRecord, JobsFit, Fits
<1>5. ASSUME NoRestart(p) \/ Served(p) PROVE Control(p) /\ Data
  BY <1>5, FinishControl, Ends DEF NoRestart, Served
<1>6. ASSUME pc[p] = "up", UpDone(p) PROVE Control(p)
  BY <1>6, StepControl, FinishControl, Ends DEF UpDone
<1>7. ASSUME Up(p) PROVE Control(p) /\ Data
  <2>1. box' \in [up : BOOLEAN, image : Versions, stopper : {"nobody", "user", "quiesce", "upgrade"}]
    BY <1>7 DEF Up, Running, Composes
  <2> QED
    BY <1>6, <1>7, <2>1 DEF Up
<1>8. ASSUME UpFails(p) PROVE Control(p) /\ Data
  BY <1>6, <1>8, RecoilControl, FailControl DEF UpFails
<1>9. ASSUME NotServed(p) PROVE Control(p) /\ Data
  BY <1>9, RecoilControl, FailControl DEF NotServed
<1> QED
  BY <1>1, <1>2, <1>3, <1>4, <1>5, <1>7, <1>8, <1>9, TypeFromParts DEF Upgrading

LEMMA OutsideType ==
  ASSUME TypeOK,
         (\E p \in Procs : Die(p)) \/ Migrate \/ Recover
           \/ (\E n \in rec : Repair(n)) \/ (\E n \in mended : Mend(n))
  PROVE  TypeOK'
<1> USE DEF TypeOK, files, recovery
<1>1. ASSUME NEW p \in Procs, Die(p) PROVE TypeOK'
  <2>1. Control(p)
    BY <1>1, FinishControl DEF Die
  <2>2. Data
    BY <1>1 DEF Die, Data
  <2> QED
    BY <2>1, <2>2, TypeFromParts
<1>2. ASSUME Migrate PROVE TypeOK'
  BY <1>2 DEF Migrate
<1>3. ASSUME Recover PROVE TypeOK'
  BY <1>3 DEF Recover, Abandoned
<1>4. ASSUME NEW n \in rec, Repair(n) PROVE TypeOK'
  BY <1>4 DEF Repair, Running
<1>5. ASSUME NEW n \in mended, Mend(n) PROVE TypeOK'
  BY <1>5 DEF Mend
<1> QED
  BY <1>1, <1>2, <1>3, <1>4, <1>5

-----------------------------------------------------------------------------
(* Where the operations are.                                                 *)

\* What a command does leaves the others where they are.
LEMMA Others ==
  ASSUME TypeOK, NEW p \in Procs, Work(p) \/ Die(p), NEW q \in Procs, q # p
  PROVE  pc'[q] = pc[q] /\ job'[q] = job[q]
<1> USE DEF TypeOK, Finish, Fail, Goto, held
<1>1. ASSUME NEW o, NEW b, NEW to, Begin(p, o, b, to) PROVE pc'[q] = pc[q] /\ job'[q] = job[q]
  BY <1>1 DEF Begin
<1>2. CASE Acquire(p) \/ LockTimeout(p) \/ Check(p) \/ SetState(p) \/ Pack(p) \/ Restored(p) \/ Die(p)
  BY <1>2 DEF Acquire, LockTimeout, Check, SetState, Pack, Restored, Die
<1>3. CASE Quiescing(p)
  BY <1>3 DEF Quiescing, NoMongo, NoteStopped, Quiesce, Dump, NoteDropped, Drop, Load, ClearDropped,
              StartAgain, ClearStopped, DataFailed
<1>4. CASE Upgrading(p)
  BY <1>4 DEF Upgrading, Plan, Halt, WriteCompose, WriteRecord, NoRestart, Up, UpDone, UpFails, Served,
              NotServed, Recoil
<1> QED
  BY <1>1, <1>2, <1>3, <1>4 DEF Work

\* At the end of a command nothing is asked of it.
LEMMA FinishFits ==
  ASSUME TypeOK, NEW p \in Procs, NEW how \in Over \cup {"dead"}, Finish(p, how)
  PROVE  Fits(p)'
<1>1. pc'[p] = how /\ how \notin Inside \cup {"idle", "lock"}
  BY Places DEF Finish, Goto, TypeOK, Outside, Over
<1>2. {"plan", "halt", "write", "record", "up", "start", "clear", "left"} \cup Quiet \subseteq Inside /\ "dump" \in Quiet
  BY DEF Inside, Quiet
<1> QED
  BY <1>1, <1>2 DEF Fits

LEMMA SectionFits ==
  ASSUME TypeOK, JobsFit, NEW p \in Procs,
         Quiescing(p) \/ Check(p) \/ Pack(p) \/ Restored(p) \/ SetState(p)
  PROVE  Fits(p)'
<1> USE DEF TypeOK, Goto, held, JobsFit, Fits, Inside, Quiet, Restoring
<1>1. CASE NoteStopped(p) \/ Quiesce(p) \/ NoteDropped(p) \/ Drop(p)
  BY <1>1 DEF NoteStopped, Quiesce, NoteDropped, Drop
<1>2. CASE ClearDropped(p) \/ StartAgain(p) \/ ClearStopped(p) \/ Restored(p)
  BY <1>2 DEF ClearDropped, StartAgain, AfterStart, ClearStopped, Restored
<1>3. CASE NoMongo(p) \/ DataFailed(p) \/ SetState(p)
  BY <1>3, FinishFits, Ends DEF NoMongo, DataFailed, SetState, Fail
<1>4. CASE Check(p)
  BY <1>4, FinishFits, Ends DEF Check, Fail
<1>5. CASE Pack(p)
  BY <1>5, FinishFits, Ends DEF Pack
<1>6. CASE Dump(p)
  <2> DEFINE b == [id |-> p, version |-> record.version, schema |-> db.schema,
                   content |-> IF box.up /\ db.content = "whole" THEN "mixed" ELSE db.content]
  <2>1. b \in Bundles
    BY DEF Bundles, Contents, Records
  <2>2. PICK ok \in BOOLEAN : job' = [job EXCEPT ![p] = [@ EXCEPT !.ok = ok, !.bundle = IF ~ok THEN NoBundle ELSE b]]
    BY <1>6 DEF Dump, Answer
  <2>3. /\ job'[p].op = job[p].op /\ job'[p].part = job[p].part
        /\ job'[p].ok => job'[p].bundle \in Bundles
    BY <2>1, <2>2 DEF Locals
  <2>4. pc[p] = "dump" /\ pc'[p] = "start" /\ ~Restoring(p)
    BY <1>6 DEF Dump
  <2> QED
    BY <2>3, <2>4
<1>7. CASE Load(p)
  <2>1. PICK ok \in BOOLEAN : job' = [job EXCEPT ![p].ok = ok]
    BY <1>7 DEF Load, Answer
  <2>2. job'[p].op = job[p].op /\ job'[p].part = job[p].part /\ job'[p].bundle = job[p].bundle
    BY <2>1 DEF Locals
  <2>3. pc[p] = "load" /\ pc'[p] = "clear_drop" /\ Restoring(p)
    BY <1>7 DEF Load
  <2> QED
    BY <2>2, <2>3
<1> QED
  BY <1>1, <1>2, <1>3, <1>4, <1>5, <1>6, <1>7 DEF Quiescing

LEMMA RecoilFits ==
  ASSUME TypeOK, NEW p \in Procs, job[p].op = "upgrade", Recoil(p)
  PROVE  Fits(p)'
<1>1. CASE job[p].bundle = NoBundle
  BY <1>1, FinishFits, Ends DEF Recoil
<1>2. CASE job[p].bundle # NoBundle
  <2>1. job'[p].op = "upgrade" /\ job'[p].bundle = job[p].bundle /\ job[p].bundle \in Bundles /\ pc'[p] = "write"
    BY <1>2 DEF Recoil, TypeOK, Locals, Goto
  <2> QED
    BY <2>1 DEF Fits, Quiet
<1> QED
  BY <1>1, <1>2

LEMMA UpgradeFits ==
  ASSUME TypeOK, JobsFit, NEW p \in Procs, Upgrading(p)
  PROVE  Fits(p)'
<1> USE DEF TypeOK, Goto, held, JobsFit, Fits, Inside, Quiet, Restoring
<1>1. ASSUME NEW backup \in BOOLEAN, Plan(p, backup) PROVE Fits(p)'
  <2>1. CASE Upgradable(p)
    <3>1. job'[p].op = "upgrade" /\ job'[p].part = job[p].part /\ job'[p].bundle = job[p].bundle
      BY <1>1, <2>1 DEF Plan, Locals
    <3> QED
      BY <1>1, <2>1, <3>1 DEF Plan
  <2>2. CASE ~Upgradable(p)
    BY <1>1, <2>2, FinishFits, Ends DEF Plan, Fail
  <2> QED
    BY <2>1, <2>2
<1>2. CASE Halt(p) \/ WriteCompose(p) \/ WriteRecord(p)
  BY <1>2 DEF Halt, WriteCompose, WriteRecord
<1>3. CASE NoRestart(p) \/ Served(p)
  BY <1>3, FinishFits, Ends DEF NoRestart, Served
<1>4. ASSUME pc[p] = "up", UpDone(p) PROVE Fits(p)'
  BY <1>4, FinishFits, Ends DEF UpDone
<1>5. CASE Up(p)
  BY <1>4, <1>5 DEF Up
<1>6. CASE UpFails(p)
  BY <1>4, <1>6, RecoilFits, FinishFits, Ends DEF UpFails, Fail
<1>7. CASE NotServed(p)
  BY <1>7, RecoilFits, FinishFits, Ends DEF NotServed, Fail
<1> QED
  BY <1>1, <1>2, <1>3, <1>5, <1>6, <1>7 DEF Upgrading

LEMMA EntryFits ==
  ASSUME TypeOK, JobsFit, NEW p \in Procs,
         (\E o \in Operations, b \in bundles \cup {NoBundle}, to \in Versions : Begin(p, o, b, to))
           \/ Acquire(p) \/ LockTimeout(p)
  PROVE  Fits(p)'
<1>1. ASSUME NEW o \in Operations, NEW b \in bundles \cup {NoBundle}, NEW to \in Versions, Begin(p, o, b, to)
      PROVE  Fits(p)'
  <2>1. pc[p] = "idle" /\ pc'[p] = "lock" /\ (o \in {"restore", "rollback"} => b \in Bundles)
    BY <1>1 DEF Begin, Goto, TypeOK
  <2>2. job[p] \in Locals /\ job' = [job EXCEPT ![p] = [@ EXCEPT !.op = o, !.bundle = b, !.to = to, !.mem = record]]
    BY <1>1 DEF Begin, TypeOK
  <2>3. job'[p].op = o /\ job'[p].bundle = b /\ job'[p].part = job[p].part
    BY <2>2 DEF TypeOK, Locals
  <2> QED
    BY <2>1, <2>3 DEF JobsFit, Fits, Quiet, Restoring
<1>2. CASE Acquire(p)
  <2>1. /\ pc[p] = "lock" /\ pc'[p] = FirstStep(job[p].op) /\ job[p].op \in Operations
        /\ job'[p].op = job[p].op /\ job'[p].bundle = job[p].bundle /\ job'[p].part = job[p].part
    BY <1>2 DEF Acquire, Goto, TypeOK, Locals
  <2>2. \/ pc'[p] = "note"
        \/ pc'[p] = "check"
        \/ pc'[p] = "plan" /\ job[p].op = "upgrade"
        \/ pc'[p] = "write" /\ job[p].op \in {"rollback", "set_env"}
        \/ pc'[p] = "set_state"
    BY <2>1 DEF FirstStep, Operations
  <2> QED
    BY <2>1, <2>2 DEF JobsFit, Fits, Quiet, Restoring
<1>3. CASE LockTimeout(p)
  BY <1>3, FinishFits, Ends DEF LockTimeout
<1> QED
  BY <1>1, <1>2, <1>3

LEMMA CommandsOrNot ==
  ASSUME NEW p \in Procs, Work(p)
  PROVE  \/ (\E o \in Operations, b \in bundles \cup {NoBundle}, to \in Versions : Begin(p, o, b, to))
              \/ Acquire(p) \/ LockTimeout(p)
         \/ Quiescing(p) \/ Check(p) \/ Pack(p) \/ Restored(p) \/ SetState(p)
         \/ Upgrading(p)
BY DEF Work

LEMMA TypeStep ==
  ASSUME TypeOK, JobsFit, [Next]_vars
  PROVE  TypeOK' /\ JobsFit'
<1>1. ASSUME NEW p \in Procs, Work(p) PROVE TypeOK' /\ JobsFit'
  <2>1. TypeOK'
    BY <1>1, CommandsOrNot, EntryType, SectionType, UpgradeType
  <2>2. Fits(p)'
    BY <1>1, CommandsOrNot, EntryFits, SectionFits, UpgradeFits
  <2>3. ASSUME NEW q \in Procs, q # p PROVE Fits(q)'
    BY <1>1, <2>3, Others DEF JobsFit, Fits, Restoring
  <2> QED
    BY <2>1, <2>2, <2>3 DEF JobsFit
<1>2. ASSUME NEW p \in Procs, Die(p) PROVE TypeOK' /\ JobsFit'
  <2>1. Fits(p)'
    BY <1>2, FinishFits DEF Die
  <2>2. ASSUME NEW q \in Procs, q # p PROVE Fits(q)'
    BY <1>2, <2>2, Others DEF JobsFit, Fits, Restoring
  <2> QED
    BY <1>2, <2>1, <2>2, OutsideType DEF JobsFit
<1>3. CASE Migrate \/ Recover \/ (\E n \in rec : Repair(n)) \/ (\E n \in mended : Mend(n))
  <2>1. UNCHANGED <<pc, job>>
    BY <1>3 DEF Migrate, Recover, Repair, Mend
  <2> QED
    BY <1>3, <2>1, OutsideType DEF JobsFit, Fits, Restoring
<1>4. CASE UNCHANGED vars
  BY <1>4 DEF vars, files, recovery, TypeOK, JobsFit, Fits, Restoring
<1> QED
  BY <1>1, <1>2, <1>3, <1>4 DEF Next

LEMMA TypeInv == Spec => [](TypeOK /\ JobsFit)
<1>1. Init => JobsFit
  BY DEF Init, JobsFit, Fits, Inside, Quiet, NoJob, Restoring
<1> QED
  BY <1>1, InitType, TypeStep, PTL DEF Spec

\* Every variable keeps its type in every reachable state, and whoever is past
\* the acquisition of repro_lock (services/backup.py, services/upgrade.py) holds
\* it: the operations of one workspace exclude each other.
THEOREM TypeCorrect == Spec => []TypeOK
BY TypeInv, PTL

-----------------------------------------------------------------------------
(* Nothing starts under a dump or a load.                                    *)

\* A command without the lock changes nothing but itself and, dying, the scars.
LEMMA Bystander ==
  ASSUME TypeOK, NEW p \in Procs, Work(p) \/ Die(p), pc[p] \notin Inside
  PROVE  UNCHANGED <<box, db, bundles, notes, recovery>>
<1> USE DEF Inside, Quiet
<1>1. CASE Work(p)
  <2>1. ~Check(p) /\ ~SetState(p) /\ ~Pack(p) /\ ~Restored(p)
    BY DEF Check, SetState, Pack, Restored
  <2>2. ~Quiescing(p)
    BY DEF Quiescing, NoMongo, NoteStopped, Quiesce, Dump, NoteDropped, Drop, Load, ClearDropped,
           StartAgain, ClearStopped, DataFailed
  <2>3. ~Upgrading(p)
    BY DEF Upgrading, Plan, Halt, WriteCompose, WriteRecord, NoRestart, Up, UpFails, Served, NotServed
  <2> QED
    BY <1>1, <2>1, <2>2, <2>3 DEF Work, Begin, Acquire, LockTimeout
<1>2. CASE Die(p)
  BY <1>2 DEF Die
<1> QED
  BY <1>1, <1>2

\* Two processes are not inside at once.
LEMMA Alone ==
  ASSUME TypeOK, NEW p \in Procs, NEW q \in Procs, pc[p] \in Inside, pc[q] \in Inside
  PROVE  p = q
BY DEF TypeOK

LEMMA ScarsStay == ASSUME TypeOK, Next PROVE scars \subseteq scars'
<1>1. ASSUME NEW p \in Procs, Quiescing(p) PROVE scars \subseteq scars'
  BY <1>1 DEF Quiescing, NoMongo, NoteStopped, Quiesce, Dump, NoteDropped, Drop, Load, ClearDropped,
              StartAgain, ClearStopped, DataFailed, Fail
<1>2. ASSUME NEW p \in Procs, Upgrading(p) PROVE scars \subseteq scars'
  BY <1>2 DEF Upgrading, Plan, Halt, WriteCompose, WriteRecord, NoRestart, Up, UpFails, Recoil, Served,
              NotServed, Fail
<1>3. ASSUME NEW p \in Procs, Work(p) PROVE scars \subseteq scars'
  BY <1>1, <1>2, <1>3 DEF Work, Begin, Acquire, LockTimeout, Check, SetState, Pack, Restored, Fail
<1> QED
  BY <1>3 DEF Next, Die, Migrate, Recover, Repair, Mend

LEMMA IntoQuiet ==
  ASSUME TypeOK, NEW p \in Procs, Work(p) \/ Die(p), pc'[p] \in Quiet
  PROVE  Quiesce(p) \/ (pc[p] \in Quiet /\ box' = box)
<1> USE DEF TypeOK, Quiet, Goto, held
<1>1. \A how \in Over \cup {"dead"} : ~Finish(p, how)
  BY DEF Finish, Over
<1>2. ~Fail(p) /\ ~Finish(p, "ended") /\ ~Finish(p, "failed")
  BY <1>1, Ends DEF Fail
<1>3. CASE Quiescing(p)
  BY <1>2, <1>3 DEF Quiescing, NoMongo, NoteStopped, Dump, NoteDropped, Drop, Load, ClearDropped,
                    StartAgain, AfterStart, ClearStopped, DataFailed
<1>4. ~Upgrading(p)
  BY <1>2 DEF Upgrading, Plan, Halt, WriteCompose, WriteRecord, NoRestart, Up, UpDone, UpFails, Recoil,
              Served, NotServed
<1>5. ASSUME NEW o, NEW b, NEW to PROVE ~Begin(p, o, b, to)
  BY DEF Begin
<1>6. ~Acquire(p)
  BY DEF Acquire, FirstStep, Locals, Operations
<1>7. ~LockTimeout(p) /\ ~Check(p) /\ ~SetState(p) /\ ~Pack(p) /\ ~Restored(p) /\ ~Die(p)
  BY <1>1, <1>2, Ends DEF LockTimeout, Check, SetState, Pack, Restored, Die
<1> QED
  BY <1>3, <1>4, <1>5, <1>6, <1>7 DEF Work

LEMMA QuietStep ==
  ASSUME TypeOK, DumpsAreQuiet, [Next]_vars
  PROVE  DumpsAreQuiet'
<1> SUFFICES ASSUME NEW q \in Procs, pc'[q] \in Quiet, box'.up PROVE scars' \cap {"woken", "unstopped"} # {}
  BY DEF DumpsAreQuiet
<1>1. CASE UNCHANGED vars
  BY <1>1 DEF vars, files, recovery, DumpsAreQuiet
<1>2. CASE Next /\ scars \cap {"woken", "unstopped"} # {}
  BY <1>2, ScarsStay
<1>3. CASE Next /\ scars \cap {"woken", "unstopped"} = {}
  <2>1. ASSUME NEW p \in Procs, Work(p) \/ Die(p), p # q PROVE FALSE
    <3>1. pc[q] \in Quiet /\ ~box.up
      BY <1>3, <2>1, Others DEF DumpsAreQuiet
    <3>2. pc[p] \notin Inside
      BY <2>1, <3>1, Alone, Places
    <3> QED
      BY <2>1, <3>1, <3>2, Bystander
  <2>2. ASSUME Work(q) \/ Die(q) PROVE scars' \cap {"woken", "unstopped"} # {}
    BY <1>3, <2>2, IntoQuiet DEF Quiesce, StoppedBy, DumpsAreQuiet, TypeOK
  <2>3. ASSUME NEW n \in rec, Repair(n) PROVE scars' \cap {"woken", "unstopped"} # {}
    BY <1>3, <2>3 DEF Repair, DumpsAreQuiet
  <2>4. CASE Migrate \/ Recover \/ (\E n \in mended : Mend(n))
    BY <1>3, <2>4 DEF Migrate, Recover, Mend, DumpsAreQuiet
  <2> QED
    BY <1>3, <2>1, <2>2, <2>3, <2>4 DEF Next
<1> QED
  BY <1>1, <1>2, <1>3

\* No command starts Rocket.Chat under another's mongodump or mongorestore: it
\* takes a stop whose return code nobody read, or recovery (_Quiesced,
\* services/backup.py).
THEOREM QuietDumps == Spec => []DumpsAreQuiet
<1>1. Init => DumpsAreQuiet
  BY DEF Init, DumpsAreQuiet, Quiet
<1> QED
  BY <1>1, TypeInv, QuietStep, PTL DEF Spec

-----------------------------------------------------------------------------
(* The notes of stopped containers.                                          *)

Section == {"quiesce", "start", "clear"} \cup Quiet
Asleep == ~box.up /\ box.stopper = "quiesce"

\* Inside the section there is the note that _Quiesced wrote.
SectionNoted == \A p \in Procs : pc[p] \in Section => StopNote(p) \in notes

\* The note of a stopped container is not one that recovery is about to clear.
SleepNoted == Asleep => \E n \in notes \ mended : n.kind = "stopped"

\* A note is cleared by its owner when the container runs.
AwakeBeforeClear == \A p \in Procs : pc[p] = "clear" => ~Asleep

\* Recovery works on the notes of containers stopped by processes that are gone.
RecoveryOfTheGone == \A n \in rec \cup mended : n.kind = "stopped" /\ Gone(n.owner)

StopInv == SectionNoted /\ SleepNoted /\ AwakeBeforeClear /\ RecoveryOfTheGone

LEMMA GoneStays ==
  ASSUME TypeOK, Next, NEW q \in Procs, Gone(q)
  PROVE  Gone(q)' /\ ~Work(q) /\ ~Die(q)
<1>1. pc[q] \in {"dead", "ended", "failed"} /\ pc[q] \notin Inside
  BY DEF Gone, Over, Inside, Quiet
<1>2. ~Die(q)
  BY DEF Die
<1>3. ~Work(q)
  BY <1>1 DEF Work, Begin, Acquire, LockTimeout, Check, SetState, Pack, Restored,
    Quiescing, NoMongo, NoteStopped, Quiesce, Dump, NoteDropped, Drop, Load, ClearDropped, StartAgain,
    ClearStopped, DataFailed,
    Upgrading, Plan, Halt, WriteCompose, WriteRecord, NoRestart, Up, UpFails, Served, NotServed
<1>4. pc'[q] = pc[q]
  BY <1>2, <1>3, Others DEF Next, Migrate, Recover, Repair, Mend
<1> QED
  BY <1>2, <1>3, <1>4 DEF Gone

\* What a command does to the notes, to the container and to recovery.
LEMMA NotesKept ==
  ASSUME TypeOK, NEW p \in Procs, Work(p) \/ Die(p)
  PROVE  /\ UNCHANGED <<rec, mended>>
         /\ \A n \in notes :
              n \in notes' \/ (n = StopNote(p) /\ ClearStopped(p)) \/ (n = DropNote(p) /\ ClearDropped(p) /\ job[p].ok)
<1> USE DEF recovery
<1>1. CASE ClearStopped(p)
  BY <1>1 DEF ClearStopped
<1>2. CASE ClearDropped(p)
  BY <1>2 DEF ClearDropped, Settled
<1>3. CASE NoteStopped(p) \/ NoteDropped(p)
  BY <1>3 DEF NoteStopped, NoteDropped
<1>4. CASE Quiescing(p)
  <2>1. CASE NoMongo(p) \/ Quiesce(p) \/ Dump(p) \/ Drop(p) \/ Load(p) \/ StartAgain(p) \/ DataFailed(p)
    <3>1. UNCHANGED <<rec, mended, notes>>
      BY <2>1 DEF NoMongo, Quiesce, Dump, Drop, Load, StartAgain, DataFailed
    <3> QED
      BY <3>1
  <2> QED
    BY <1>1, <1>2, <1>3, <1>4, <2>1 DEF Quiescing
<1>5. ASSUME Upgrading(p) PROVE UNCHANGED <<rec, mended, notes>>
  BY <1>5 DEF Upgrading, Plan, Halt, WriteCompose, WriteRecord, NoRestart, Up, UpFails, Served, NotServed
<1>6. ASSUME NEW o, NEW b, NEW to, Begin(p, o, b, to) PROVE UNCHANGED <<rec, mended, notes>>
  BY <1>6 DEF Begin
<1>7. ASSUME Acquire(p) \/ LockTimeout(p) \/ Check(p) \/ SetState(p) \/ Pack(p) \/ Restored(p) \/ Die(p)
      PROVE  UNCHANGED <<rec, mended, notes>>
  BY <1>7 DEF Die, Acquire, LockTimeout, Check, SetState, Pack, Restored
<1> QED
  BY <1>4, <1>5, <1>6, <1>7 DEF Work

LEMMA FallsAsleep ==
  ASSUME TypeOK, NEW p \in Procs, Work(p) \/ Die(p), Asleep'
  PROVE  Quiesce(p) \/ (Asleep /\ box' = box)
<1>1. /\ \A i : Running(i).up
      /\ \A who : StoppedBy(who).stopper = who
  BY DEF TypeOK, Running, StoppedBy
<1> USE DEF Asleep
<1>2. ASSUME Quiescing(p) PROVE Quiesce(p) \/ box' = box
  BY <1>1, <1>2 DEF Quiescing, NoMongo, NoteStopped, Dump, NoteDropped, Drop, Load, ClearDropped,
                    StartAgain, ClearStopped, DataFailed
<1>3. ASSUME Halt(p) \/ Up(p) \/ SetState(p) PROVE box' = box
  BY <1>1, <1>3 DEF Halt, Up, SetState
<1>4. ASSUME Upgrading(p) PROVE box' = box
  BY <1>3, <1>4 DEF Upgrading, Plan, WriteCompose, WriteRecord, NoRestart, UpFails, Served, NotServed
<1>5. ASSUME NEW o, NEW b, NEW to, Begin(p, o, b, to) PROVE box' = box
  BY <1>5 DEF Begin
<1>6. ASSUME Acquire(p) \/ LockTimeout(p) \/ Check(p) \/ Pack(p) \/ Restored(p) \/ Die(p) PROVE box' = box
  BY <1>6 DEF Die, Acquire, LockTimeout, Check, Pack, Restored
<1> QED
  BY <1>2, <1>3, <1>4, <1>5, <1>6 DEF Work

\* A dump or a load does not change which operation it is part of.
LEMMA SameJob ==
  ASSUME TypeOK, NEW p \in Procs, Dump(p) \/ Load(p)
  PROVE  job'[p].op = job[p].op /\ job'[p].part = job[p].part
<1> USE DEF TypeOK
<1>1. CASE Load(p)
  <2>1. PICK ok \in BOOLEAN : job' = [job EXCEPT ![p].ok = ok]
    BY <1>1 DEF Load, Answer
  <2> QED
    BY <2>1 DEF Locals
<1>2. CASE Dump(p)
  <2> DEFINE b == [id |-> p, version |-> record.version, schema |-> db.schema,
                   content |-> IF box.up /\ db.content = "whole" THEN "mixed" ELSE db.content]
  <2>1. PICK ok \in BOOLEAN : job' = [job EXCEPT ![p] = [@ EXCEPT !.ok = ok, !.bundle = IF ~ok THEN NoBundle ELSE b]]
    BY <1>2 DEF Dump, Answer
  <2> QED
    BY <2>1 DEF Locals
<1> QED
  BY <1>1, <1>2

\* Into the section one comes with the note, and one stays with it.
LEMMA SectionKept ==
  ASSUME TypeOK, SectionNoted, NEW p \in Procs, Work(p) \/ Die(p)
  PROVE  /\ pc'[p] \in Section => StopNote(p)' \in notes'
         /\ pc'[p] = "clear" => pc[p] = "start" /\ box'.up
<1> USE DEF TypeOK, Section, Quiet, Goto, held
<1>1. \A how \in Over \cup {"dead"} : Finish(p, how) => pc'[p] \notin Section
  BY DEF Finish, Over
<1>2. (Fail(p) \/ Finish(p, "ended") \/ Finish(p, "failed") \/ Finish(p, "dead")) => pc'[p] \notin Section
  BY <1>1, Ends DEF Fail
<1>3. CASE NoteStopped(p) \/ Quiesce(p) \/ NoteDropped(p) \/ Drop(p) \/ StartAgain(p) \/ ClearStopped(p)
  BY <1>3 DEF SectionNoted, NoteStopped, Quiesce, NoteDropped, Drop, StartAgain, AfterStart, ClearStopped,
              StopNote, Restoring, Running
<1>4. CASE ClearDropped(p)
  BY <1>4 DEF SectionNoted, ClearDropped, Settled, StopNote, DropNote, Restoring
<1>5. CASE Dump(p) \/ Load(p)
  <2>2. job'[p].op = job[p].op /\ job'[p].part = job[p].part
    BY <1>5, SameJob
  <2>3. notes' = notes /\ pc'[p] # "clear" /\ pc[p] \in Section
    BY <1>5 DEF Dump, Load
  <2> QED
    BY <2>2, <2>3 DEF SectionNoted, StopNote, Restoring
<1>6. CASE NoMongo(p) \/ DataFailed(p) \/ LockTimeout(p) \/ Check(p) \/ SetState(p) \/ Pack(p) \/ Restored(p) \/ Die(p)
  BY <1>2, <1>6 DEF NoMongo, DataFailed, LockTimeout, Check, SetState, Pack, Restored, Die
<1>7. CASE Upgrading(p)
  BY <1>2, <1>7 DEF Upgrading, Plan, Halt, WriteCompose, WriteRecord, NoRestart, Up, UpDone, UpFails, Recoil,
                    Served, NotServed
<1>8. CASE Acquire(p) \/ \E o \in Operations, b \in bundles \cup {NoBundle}, to \in Versions : Begin(p, o, b, to)
  BY <1>8 DEF Acquire, FirstStep, Locals, Operations, Begin
<1> QED
  BY <1>3, <1>4, <1>5, <1>6, <1>7, <1>8 DEF Work, Quiescing

LEMMA SectionInside == Section \subseteq Inside /\ Quiet \subseteq Section
  BY DEF Section, Inside, Quiet

LEMMA StopCommand ==
  ASSUME TypeOK, StopInv, Next, NEW p \in Procs, Work(p) \/ Die(p)
  PROVE  StopInv'
<1>1. UNCHANGED <<rec, mended>>
  BY NotesKept DEF recovery
<1>2. ASSUME NEW q \in Procs, q # p, pc'[q] \in Section
      PROVE  pc[q] \in Section /\ pc[q] = pc'[q] /\ StopNote(q)' = StopNote(q) /\ UNCHANGED <<box, notes>>
  <2>1. pc[q] = pc'[q] /\ StopNote(q)' = StopNote(q)
    BY <1>2, Others DEF StopNote, Restoring
  <2>2. pc[p] \notin Inside
    BY <1>2, <2>1, Alone, SectionInside
  <2> QED
    BY <1>2, <2>1, <2>2, Bystander
<1>3. SectionNoted'
  BY <1>2, SectionKept DEF StopInv, SectionNoted
<1>4. SleepNoted'
  <2> SUFFICES ASSUME Asleep' PROVE \E n \in notes' \ mended : n.kind = "stopped"
    BY <1>1 DEF SleepNoted
  <2>1. CASE Quiesce(p)
    <3>1. StopNote(p) \in notes /\ notes' = notes /\ ~Gone(p)
      BY <2>1 DEF Quiesce, StopInv, SectionNoted, Section, Gone, Over
    <3>2. StopNote(p).owner = p /\ StopNote(p).kind = "stopped"
      BY DEF StopNote
    <3> QED
      BY <3>1, <3>2 DEF StopInv, RecoveryOfTheGone
  <2>2. CASE Asleep /\ box' = box
    <3>1. PICK n \in notes \ mended : n.kind = "stopped"
      BY <2>2 DEF StopInv, SleepNoted
    <3>2. ~ClearStopped(p)
      BY <2>2 DEF ClearStopped, StopInv, AwakeBeforeClear
    <3>3. n # DropNote(p)
      BY <3>1 DEF DropNote
    <3> QED
      BY <3>1, <3>2, <3>3, NotesKept
  <2> QED
    BY <2>1, <2>2, FallsAsleep
<1>5. AwakeBeforeClear'
  BY <1>2, SectionKept DEF StopInv, AwakeBeforeClear, Asleep, Section
<1>6. RecoveryOfTheGone'
  BY <1>1, GoneStays DEF StopInv, RecoveryOfTheGone, TypeOK, Notes
<1> QED
  BY <1>3, <1>4, <1>5, <1>6 DEF StopInv

LEMMA StopStep ==
  ASSUME TypeOK, StopInv, [Next]_vars
  PROVE  StopInv'
<1> USE DEF StopInv, SectionNoted, SleepNoted, AwakeBeforeClear, RecoveryOfTheGone, Asleep, StopNote, Restoring
<1>1. CASE UNCHANGED vars
  BY <1>1 DEF vars, files, recovery, Gone
<1>2. CASE Migrate /\ Next
  BY <1>2 DEF Migrate, recovery, Gone
<1>3. CASE Recover /\ Next
  BY <1>3 DEF Recover, Abandoned, Gone
<1>4. ASSUME NEW n \in rec, Repair(n) PROVE StopInv'
  BY <1>4 DEF Repair, Running, Gone
<1>5. ASSUME NEW n \in mended, Mend(n) PROVE StopInv'
  <2>1. pc' = pc /\ job' = job /\ box' = box /\ rec' = rec /\ mended' = mended \ {n} /\ notes' = notes \ {n}
    BY <1>5 DEF Mend
  <2>2. \A q \in Procs : pc[q] \in Section => n # StopNote(q)
    BY DEF Section, Quiet, Gone, Over
  <2> QED
    BY <2>1, <2>2 DEF Gone
<1> QED
  BY <1>1, <1>2, <1>3, <1>4, <1>5, StopCommand DEF Next

\* Whoever dies and whatever fails, a Rocket.Chat that a backup or a restore has
\* stopped has its note in the journal, from which `serve` starts it again
\* (_Quiesced, services/backup.py; _repair, services/journal.py).
THEOREM StoppedNoted == Spec => []StoppedIsNoted
<1>1. Init => StopInv
  BY DEF Init, StopInv, SectionNoted, SleepNoted, AwakeBeforeClear, RecoveryOfTheGone, Asleep, Section, Quiet
<1>2. StopInv => StoppedIsNoted
  BY DEF StopInv, SleepNoted, Asleep, StoppedIsNoted
<1> QED
  BY <1>1, <1>2, TypeInv, StopStep, PTL DEF Spec

-----------------------------------------------------------------------------
(* The notes of dropped databases.                                           *)

Lost(content) == content \in {"partial", "empty"}

DropNoted == \A p \in Procs : pc[p] \in {"drop", "load", "clear_drop"} => DropNote(p) \in notes

\* A note of a drop that nobody will clear: its owner is gone, or is leaving
\* with the load failed.
Lasting(n) ==
  /\ n.kind = "dropped"
  /\ \/ pc[n.owner] \in Over \cup {"dead"}
     \/ Restoring(n.owner) /\ ~job[n.owner].ok /\ pc[n.owner] \in {"start", "clear", "left"}

LossLasts == \E n \in notes : Lasting(n)

\* Lost data is noted for good, or somebody is about to load what replaces it.
LossNoted ==
  Lost(db.content) =>
    LossLasts \/ \E p \in Procs : pc[p] = "load" \/ (pc[p] = "clear_drop" /\ ~job[p].ok)

\* Nor is the dump of a database that lost its data made without such a note.
BundlesNoted == (\E b \in bundles : Lost(b.content)) => LossLasts
JobsNoted == (\E p \in Procs : job[p].bundle # NoBundle /\ Lost(job[p].bundle.content)) => LossLasts

LossInv == DropNoted /\ LossNoted /\ BundlesNoted /\ JobsNoted

LEMMA Leaving ==
  ASSUME TypeOK, NEW p \in Procs, Work(p) \/ Die(p), pc[p] \in {"start", "clear", "left"}, ~job[p].ok
  PROVE  pc'[p] \in Over \cup {"dead"} \/ (pc'[p] \in {"clear", "left"} /\ job' = job)
<1> USE DEF TypeOK, Goto
<1>1. \A how \in Over \cup {"dead"} : Finish(p, how) => pc'[p] = how
  BY DEF Finish, Over
<1>2. ASSUME Quiescing(p) PROVE StartAgain(p) \/ ClearStopped(p) \/ DataFailed(p)
  BY <1>2 DEF Quiescing, NoMongo, NoteStopped, Quiesce, Dump, NoteDropped, Drop, Load, ClearDropped
<1>3. ~Upgrading(p)
  BY DEF Upgrading, Plan, Halt, WriteCompose, WriteRecord, NoRestart, Up, UpFails, Served, NotServed
<1>4. StartAgain(p) \/ ClearStopped(p) \/ DataFailed(p) \/ Die(p)
  BY <1>2, <1>3 DEF Work, Begin, Acquire, LockTimeout, Check, SetState, Pack, Restored
<1>5. CASE DataFailed(p) \/ Die(p)
  BY <1>1, <1>5, Ends DEF DataFailed, Die, Fail
<1>6. CASE StartAgain(p) \/ ClearStopped(p)
  BY <1>6 DEF StartAgain, AfterStart, ClearStopped
<1> QED
  BY <1>4, <1>5, <1>6

LEMMA NoteKinds ==
  ASSUME NEW p \in Procs
  PROVE  /\ StopNote(p).kind = "stopped" /\ StopNote(p).owner = p
         /\ DropNote(p).kind = "dropped" /\ DropNote(p).owner = p
BY DEF StopNote, DropNote

LEMMA LastingStays ==
  ASSUME TypeOK, RecoveryOfTheGone, [Next]_vars, NEW n \in notes, Lasting(n)
  PROVE  n \in notes' /\ Lasting(n)'
<1>1. n.owner \in Procs
  BY DEF TypeOK, Notes
<1>2. ASSUME NEW p \in Procs, Work(p) \/ Die(p) PROVE n \in notes'
  <2>1. n # StopNote(p)
    BY NoteKinds DEF Lasting
  <2>2. n = DropNote(p) => ~ClearDropped(p)
    BY NoteKinds DEF Lasting, ClearDropped, Over
  <2> QED
    BY <1>2, <2>1, <2>2, NotesKept
<1>3. ASSUME NEW p \in Procs, Work(p) \/ Die(p) PROVE Lasting(n)'
  <2>1. CASE p # n.owner
    BY <1>1, <1>3, <2>1, Others DEF Lasting, Restoring
  <2>2. CASE p = n.owner /\ pc[p] \in Over \cup {"dead"}
    <3>1. pc[p] \notin Inside \cup {"idle", "lock"}
      BY <2>2 DEF Over, Inside, Quiet
    <3>2. ~Work(p)
      BY <2>2 DEF Over, Work, Begin, Acquire, LockTimeout, Check, SetState, Pack, Restored,
        Quiescing, NoMongo, NoteStopped, Quiesce, Dump, NoteDropped, Drop, Load, ClearDropped, StartAgain,
        ClearStopped, DataFailed,
        Upgrading, Plan, Halt, WriteCompose, WriteRecord, NoRestart, Up, UpFails, Served, NotServed
    <3>3. pc'[p] = "dead"
      BY <1>3, <3>2 DEF Die, Finish, Goto, TypeOK
    <3> QED
      BY <2>2, <3>3 DEF Lasting
  <2>3. CASE p = n.owner /\ ~job[p].ok /\ Restoring(p) /\ pc[p] \in {"start", "clear", "left"}
    BY <1>3, <2>3, Leaving DEF Lasting, Restoring
  <2> QED
    BY <2>1, <2>2, <2>3 DEF Lasting
<1>4. CASE UNCHANGED vars
  BY <1>4 DEF vars, Lasting, Restoring
<1>5. CASE Migrate \/ Recover \/ (\E m \in rec : Repair(m))
  BY <1>5 DEF Migrate, Recover, Repair, Lasting, Restoring
<1>6. ASSUME NEW m \in mended, Mend(m) PROVE n \in notes' /\ Lasting(n)'
  BY <1>6 DEF Mend, Lasting, Restoring, RecoveryOfTheGone
<1> QED
  BY <1>2, <1>3, <1>4, <1>5, <1>6 DEF Next

LEMMA LossStays ==
  ASSUME TypeOK, RecoveryOfTheGone, [Next]_vars, LossLasts
  PROVE  LossLasts'
BY LastingStays DEF LossLasts

LEMMA DropStep ==
  ASSUME TypeOK, RecoveryOfTheGone, [Next]_vars, DropNoted
  PROVE  DropNoted'
<1> SUFFICES ASSUME NEW q \in Procs, pc'[q] \in {"drop", "load", "clear_drop"} PROVE DropNote(q) \in notes'
  BY DEF DropNoted, DropNote
<1>1. {"drop", "load", "clear_drop"} \subseteq Inside
  BY DEF Inside, Quiet
<1>2. ASSUME NEW p \in Procs, Work(p) \/ Die(p), p # q PROVE DropNote(q) \in notes'
  <2>1. pc[q] = pc'[q]
    BY <1>2, Others
  <2>2. pc[p] \notin Inside
    BY <1>1, <1>2, <2>1, Alone
  <2> QED
    BY <1>2, <2>1, <2>2, Bystander DEF DropNoted
<1>3. ASSUME Work(q) \/ Die(q) PROVE DropNote(q) \in notes'
  <2>1. Quiesce(q) \/ pc[q] \in Quiet
    BY <1>3, IntoQuiet DEF Quiet
  <2>2. pc[q] \in Quiet => NoteDropped(q) \/ Drop(q) \/ Load(q)
    <3>1. ASSUME pc[q] \in Quiet, Quiescing(q) PROVE NoteDropped(q) \/ Drop(q) \/ Load(q)
      BY <3>1 DEF Quiet, Quiescing, NoMongo, NoteStopped, Quiesce, Dump, ClearDropped, StartAgain,
                  ClearStopped, DataFailed, TypeOK, Goto
    <3>2. pc[q] \in Quiet => ~Upgrading(q)
      BY DEF Quiet, Upgrading, Plan, Halt, WriteCompose, WriteRecord, NoRestart, Up, UpFails, Served, NotServed
    <3>3. ~Die(q)
      BY DEF Die, Finish, Goto, TypeOK
    <3> QED
      BY <1>3, <3>1, <3>2, <3>3 DEF Quiet, Work, Begin, Acquire, LockTimeout, Check, SetState, Pack, Restored
  <2>3. ~Quiesce(q)
    BY DEF Quiesce, Goto, TypeOK
  <2> QED
    BY <2>1, <2>2, <2>3 DEF NoteDropped, Drop, Load, DropNoted
<1>4. CASE UNCHANGED vars
  BY <1>4 DEF vars, DropNoted
<1>5. CASE Migrate \/ Recover \/ (\E m \in rec : Repair(m))
  BY <1>5 DEF Migrate, Recover, Repair, DropNoted
<1>6. ASSUME NEW m \in mended, Mend(m) PROVE DropNote(q) \in notes'
  <2>1. m # DropNote(q)
    BY NoteKinds DEF RecoveryOfTheGone
  <2> QED
    BY <1>6, <2>1 DEF Mend, DropNoted
<1> QED
  BY <1>2, <1>3, <1>4, <1>5, <1>6 DEF Next

LEMMA NewBundles ==
  ASSUME TypeOK, JobsFit, NEW p \in Procs, Work(p) \/ Die(p)
  PROVE  bundles' = bundles \/ (bundles' = bundles \cup {job[p].bundle} /\ job[p].bundle \in Bundles)
<1>1. CASE Quiescing(p)
  BY <1>1 DEF Quiescing, NoMongo, NoteStopped, Quiesce, Dump, NoteDropped, Drop, Load, ClearDropped,
              StartAgain, ClearStopped, DataFailed
<1>2. CASE Upgrading(p)
  BY <1>2 DEF Upgrading, Plan, Halt, WriteCompose, WriteRecord, NoRestart, Up, UpFails, Served, NotServed
<1>3. CASE Pack(p)
  BY <1>3 DEF Pack, JobsFit, Fits
<1> QED
  BY <1>1, <1>2, <1>3 DEF Work, Die, Begin, Acquire, LockTimeout, Check, SetState, Restored

\* Where the bundle that p works with comes from.
LEMMA NewJob ==
  ASSUME TypeOK, NEW p \in Procs, Work(p) \/ Die(p)
  PROVE  \/ job'[p].bundle \in bundles \cup {NoBundle, job[p].bundle}
         \/ Dump(p) /\ (Lost(job'[p].bundle.content) => Lost(db.content))
<1> USE DEF TypeOK
<1>1. \A how : Finish(p, how) => job'[p].bundle = NoBundle
  BY DEF Finish, NoJob
<1>2. (Fail(p) \/ Finish(p, "ended") \/ Finish(p, "failed") \/ Finish(p, "dead")) => job'[p].bundle = NoBundle
  BY <1>1 DEF Fail
<1>3. CASE Dump(p)
  <2> DEFINE b == [id |-> p, version |-> record.version, schema |-> db.schema,
                   content |-> IF box.up /\ db.content = "whole" THEN "mixed" ELSE db.content]
  <2>1. PICK ok \in BOOLEAN : job' = [job EXCEPT ![p] = [@ EXCEPT !.ok = ok, !.bundle = IF ~ok THEN NoBundle ELSE b]]
    BY <1>3 DEF Dump, Answer
  <2>2. job'[p].bundle = IF ~ok THEN NoBundle ELSE b
    BY <2>1 DEF Locals
  <2>3. Lost(b.content) => Lost(db.content)
    BY DEF Lost
  <2> QED
    BY <1>3, <2>2, <2>3
<1>4. CASE Load(p)
  <2>1. PICK ok \in BOOLEAN : job' = [job EXCEPT ![p].ok = ok]
    BY <1>4 DEF Load, Answer
  <2> QED
    BY <2>1 DEF Locals
<1>5. CASE Quiescing(p)
  BY <1>2, <1>3, <1>4, <1>5 DEF Quiescing, NoMongo, NoteStopped, Quiesce, NoteDropped, Drop, ClearDropped,
              StartAgain, ClearStopped, DataFailed
<1>6. ASSUME Recoil(p) PROVE job'[p].bundle \in {NoBundle, job[p].bundle}
  BY <1>2, <1>6 DEF Recoil, Locals
<1>7. ASSUME NEW backup \in BOOLEAN, Plan(p, backup) PROVE job'[p].bundle \in {NoBundle, job[p].bundle}
  BY <1>2, <1>7 DEF Plan, Locals, held
<1>8. CASE Upgrading(p)
  BY <1>2, <1>6, <1>7, <1>8 DEF Upgrading, Halt, WriteCompose, WriteRecord, NoRestart, Up, UpDone, UpFails, Served,
                               NotServed, held
<1>9. ASSUME NEW o \in Operations, NEW b \in bundles \cup {NoBundle}, NEW to \in Versions, Begin(p, o, b, to)
      PROVE  job'[p].bundle = b
  BY <1>9 DEF Begin, Locals
<1>10. ASSUME Acquire(p) PROVE job'[p].bundle = job[p].bundle
  BY <1>10 DEF Acquire, Locals
<1>11. CASE LockTimeout(p) \/ Check(p) \/ Pack(p) \/ Restored(p) \/ SetState(p) \/ Die(p)
  BY <1>2, <1>11 DEF LockTimeout, Check, Pack, Restored, SetState, Die, held
<1> QED
  BY <1>5, <1>8, <1>9, <1>10, <1>11 DEF Work

\* How the database loses its data.
LEMMA NewDb ==
  ASSUME TypeOK, NEW p \in Procs, Work(p) \/ Die(p), Lost(db'.content)
  PROVE  \/ Lost(db.content)
         \/ pc'[p] = "load"
         \/ pc'[p] = "clear_drop" /\ ~job'[p].ok
         \/ Load(p) /\ Lost(job[p].bundle.content)
<1> USE DEF TypeOK, Goto
<1>1. CASE Load(p)
  <2>1. PICK ok \in BOOLEAN :
          /\ job' = [job EXCEPT ![p].ok = ok]
          /\ IF ok THEN db' = Loaded(job[p].bundle)
                   ELSE \E c \in {db.content, "partial"} : db' = [db EXCEPT !.content = c]
    BY <1>1 DEF Load, Answer
  <2>2. job'[p].ok = ok /\ pc'[p] = "clear_drop"
    BY <1>1, <2>1 DEF Load, Locals
  <2>3. CASE ok
    <3>1. Lost(Loaded(job[p].bundle).content) => Lost(job[p].bundle.content)
      BY DEF Loaded, Lost
    <3> QED
      BY <1>1, <2>1, <2>3, <3>1
  <2> QED
    BY <2>2, <2>3
<1>2. CASE Drop(p)
  BY <1>2 DEF Drop
<1>3. CASE Quiescing(p)
  BY <1>1, <1>2, <1>3 DEF Quiescing, NoMongo, NoteStopped, Quiesce, Dump, NoteDropped, ClearDropped,
              StartAgain, ClearStopped, DataFailed
<1>4. CASE Upgrading(p)
  BY <1>4 DEF Upgrading, Plan, Halt, WriteCompose, WriteRecord, NoRestart, Up, UpFails, Served, NotServed
<1> QED
  BY <1>3, <1>4 DEF Work, Die, Begin, Acquire, LockTimeout, Check, SetState, Pack, Restored

\* What can follow a drop.
LEMMA FromDrop ==
  ASSUME TypeOK, NEW p \in Procs, Work(p) \/ Die(p), pc[p] \in {"load", "clear_drop"}
  PROVE  \/ Load(p)
         \/ pc[p] = "load" /\ Die(p)
         \/ pc[p] = "clear_drop" /\ (ClearDropped(p) \/ Die(p))
<1>1. ASSUME Quiescing(p) PROVE Load(p) \/ ClearDropped(p)
  BY <1>1 DEF Quiescing, NoMongo, NoteStopped, Quiesce, Dump, NoteDropped, Drop, StartAgain, ClearStopped, DataFailed
<1>2. ~Upgrading(p)
  BY DEF Upgrading, Plan, Halt, WriteCompose, WriteRecord, NoRestart, Up, UpFails, Served, NotServed
<1> QED
  BY <1>1, <1>2 DEF Work, Begin, Acquire, LockTimeout, Check, SetState, Pack, Restored, ClearDropped

\* Who stops short of loading leaves its note for good.
LEMMA ShortOfLoad ==
  ASSUME TypeOK, JobsFit, DropNoted, NEW p \in Procs, Work(p) \/ Die(p), ~Load(p),
         pc[p] = "load" \/ (pc[p] = "clear_drop" /\ ~job[p].ok)
  PROVE  LossLasts'
<1>1. DropNote(p) \in notes
  BY DEF DropNoted
<1>2. CASE Die(p)
  <2>1. pc'[p] = "dead" /\ notes' = notes
    BY <1>2 DEF Die, Finish, Goto, TypeOK
  <2> QED
    BY <1>1, <2>1, NoteKinds DEF LossLasts, Lasting
<1>3. CASE ClearDropped(p) /\ pc[p] = "clear_drop"
  <2>1. pc'[p] = "start" /\ notes' = notes /\ job' = job /\ Restoring(p) /\ ~job[p].ok
    BY <1>3 DEF ClearDropped, Settled, Goto, TypeOK, JobsFit, Fits, Quiet
  <2> QED
    BY <1>1, <2>1, NoteKinds DEF LossLasts, Lasting, Restoring
<1> QED
  BY <1>2, <1>3, FromDrop

LEMMA LossCommand ==
  ASSUME TypeOK, JobsFit, RecoveryOfTheGone, LossInv, Next, NEW p \in Procs, Work(p) \/ Die(p), ~LossLasts'
  PROVE  LossNoted' /\ BundlesNoted' /\ JobsNoted'
<1>1. ~LossLasts
  BY LossStays
<1>2. /\ \A b \in bundles : ~Lost(b.content)
      /\ \A q \in Procs : job[q].bundle # NoBundle => ~Lost(job[q].bundle.content)
  BY <1>1 DEF LossInv, BundlesNoted, JobsNoted
<1>3. BundlesNoted'
  BY <1>2, NewBundles, ConstantTypes DEF BundlesNoted
<1>4. Lost(db.content) => \E q \in Procs : pc[q] = "load" \/ (pc[q] = "clear_drop" /\ ~job[q].ok)
  BY <1>1 DEF LossInv, LossNoted
<1>5. JobsNoted'
  <2>1. Dump(p) => ~Lost(db.content)
    <3>1. {"dump", "load", "clear_drop"} \subseteq Inside
      BY DEF Inside, Quiet
    <3> QED
      BY <1>4, <3>1, Alone DEF Dump
  <2>2. job'[p].bundle # NoBundle => ~Lost(job'[p].bundle.content)
    BY <1>2, <2>1, NewJob
  <2> QED
    BY <1>2, <2>2, Others DEF JobsNoted
<1>6. LossNoted'
  <2> SUFFICES ASSUME Lost(db'.content)
               PROVE  \E q \in Procs : pc'[q] = "load" \/ (pc'[q] = "clear_drop" /\ ~job'[q].ok)
    BY DEF LossNoted
  <2>1. ASSUME Load(p), Lost(job[p].bundle.content) PROVE FALSE
    <3>1. job[p].bundle \in Bundles
      BY <2>1, Places DEF Load, JobsFit, Fits, Quiet
    <3> QED
      BY <1>2, <2>1, <3>1, ConstantTypes
  <2>2. CASE Lost(db.content)
    <3>1. PICK q \in Procs : pc[q] = "load" \/ (pc[q] = "clear_drop" /\ ~job[q].ok)
      BY <1>4, <2>2
    <3>2. CASE q # p
      BY <3>1, <3>2, Others
    <3>3. CASE q = p
      <4>1. Load(p)
        BY <3>1, <3>3, ShortOfLoad DEF LossInv
      <4>2. PICK ok \in BOOLEAN :
              /\ job' = [job EXCEPT ![p].ok = ok]
              /\ ok => db' = Loaded(job[p].bundle)
        BY <4>1 DEF Load, Answer
      <4>3. job'[p].ok = ok /\ pc'[p] = "clear_drop"
        BY <4>1, <4>2 DEF Load, Goto, TypeOK, Locals
      <4>4. Lost(Loaded(job[p].bundle).content) => Lost(job[p].bundle.content)
        BY DEF Loaded, Lost
      <4> QED
        BY <2>1, <4>1, <4>2, <4>3, <4>4
    <3> QED
      BY <3>2, <3>3
  <2> QED
    BY <2>1, <2>2, NewDb
<1> QED
  BY <1>3, <1>5, <1>6

LEMMA LossStep ==
  ASSUME TypeOK, JobsFit, RecoveryOfTheGone, LossInv, [Next]_vars
  PROVE  LossInv'
<1>1. DropNoted'
  BY DropStep DEF LossInv
<1>2. CASE LossLasts'
  BY <1>1, <1>2 DEF LossInv, LossNoted, BundlesNoted, JobsNoted
<1>3. CASE ~LossLasts'
  <2>1. ASSUME NEW p \in Procs, Next, Work(p) \/ Die(p) PROVE LossInv'
    BY <1>1, <1>3, <2>1, LossCommand DEF LossInv
  <2>2. CASE UNCHANGED vars \/ Migrate \/ Recover \/ (\E n \in rec : Repair(n)) \/ (\E n \in mended : Mend(n))
    <3>1. UNCHANGED <<pc, job, bundles>> /\ db'.content = db.content
      BY <2>2 DEF vars, Migrate, Recover, Repair, Mend, TypeOK
    <3>2. ~LossLasts
      BY <1>3, LossStays
    <3> QED
      BY <1>1, <1>3, <3>1, <3>2 DEF LossInv, LossNoted, BundlesNoted, JobsNoted
  <2> QED
    BY <2>1, <2>2 DEF Next
<1> QED
  BY <1>2, <1>3

\* A database that a restore has emptied, or filled in part, is noted in the
\* journal until a restore has loaded one, whatever fails and whoever is killed
\* (the comment on DATABASE_DROPPED, services/journal.py).
THEOREM LossIsNoted == Spec => []LostDataIsNoted
<1>1. Init => StopInv
  BY DEF Init, StopInv, SectionNoted, SleepNoted, AwakeBeforeClear, RecoveryOfTheGone, Asleep, Section, Quiet
<1>2. Init => LossInv
  <2>1. Init => ~Lost(db.content) /\ \A p \in Procs : job[p].bundle = NoBundle /\ pc[p] = "idle"
    BY DEF Init, Lost, NoJob
  <2> QED
    BY <2>1 DEF Init, LossInv, DropNoted, LossNoted, BundlesNoted, JobsNoted
<1>3. StopInv => RecoveryOfTheGone
  BY DEF StopInv
<1>4. LossInv => LostDataIsNoted
  BY DEF LossInv, LossNoted, LossLasts, Lasting, DropNoted, Lost, LostDataIsNoted, DropNote
<1> QED
  BY <1>1, <1>2, <1>3, <1>4, TypeInv, StopStep, LossStep, PTL DEF Spec
-----------------------------------------------------------------------------
(* What the record says, and what a rollback leaves.                         *)

\* What an operation was asked for, and what it is where p is.
Asked(p) ==
  /\ pc[p] \notin Inside => job[p].part = "own"
  /\ job[p].part = "undo" => job[p].op = "upgrade"
  /\ pc[p] = "lock" /\ job[p].op = "upgrade" => job[p].bundle = NoBundle
  /\ pc[p] = "set_state" => job[p].op \in {"start", "stop"}
  /\ job[p].op = "rollback" => job[p].to = job[p].bundle.version

JobsAsked == \A p \in Procs : Asked(p)

\* p is on its way back, after which nothing is as it was before.
Settling(p) == job[p].op = "rollback" \/ Undoing(p)

\* The steps of p inside, by what they do to the files, the image, the database
\* and what p knows of them.
SameTask(p) == job'[p].op = job[p].op /\ job'[p].to = job[p].to /\ job'[p].mem = job[p].mem

Planned(p) ==
  /\ pc[p] = "plan" /\ pc'[p] \in {"note", "halt"} /\ lock' = lock
  /\ SameTask(p) /\ job'[p].part = job[p].part /\ job'[p].bundle = job[p].bundle
  /\ job'[p].prev = compose /\ job[p].to > record.version
  /\ UNCHANGED <<files, db, bundles, scars>> /\ box'.image = box.image

After == {"clear_drop", "start", "clear", "left", "serve"}

Walked(p) ==
  /\ pc[p] \notin {"plan", "dump", "load", "write", "record", "up", "serve"}
  /\ pc'[p] \in Inside \ {"plan", "check", "record", "up", "set_state"} /\ lock' = lock
  /\ pc'[p] = "serve" => pc[p] = "left" /\ Restoring(p) /\ job[p].ok
  /\ pc'[p] = "write" => pc[p] = "halt"
  /\ pc'[p] \in After => pc[p] \in After /\ db' = db
  /\ pc[p] = "check" /\ job[p].op = "restore" => job[p].bundle.version <= record.version
  /\ job'[p] = job[p] /\ UNCHANGED files
  /\ db'.schema = db.schema /\ box'.image = box.image
  /\ bundles' \subseteq bundles \cup {job[p].bundle}
  /\ scars \subseteq scars' /\ scars' \subseteq scars \cup {"unstopped"}

Dumped(p) ==
  /\ pc[p] = "dump" /\ pc'[p] = "start" /\ lock' = lock
  /\ SameTask(p) /\ job'[p].part = job[p].part /\ job'[p].prev = job[p].prev
  /\ job'[p].bundle = NoBundle \/ (job'[p].bundle.version = record.version /\ job'[p].bundle.schema = db.schema)
  /\ UNCHANGED <<files, db, box, bundles, scars>>

GotLoaded(p) ==
  /\ pc[p] = "load" /\ pc'[p] = "clear_drop" /\ lock' = lock
  /\ SameTask(p) /\ job'[p].part = job[p].part /\ job'[p].bundle = job[p].bundle /\ job'[p].prev = job[p].prev
  /\ db' = Loaded(job[p].bundle) \/ (~job'[p].ok /\ db'.schema = db.schema)
  /\ UNCHANGED <<files, box, bundles, scars>>

Raised(p) ==
  /\ pc[p] = "up" /\ pc'[p] = (IF Restoring(p) THEN "check" ELSE "serve")
  /\ Restoring(p) \/ job[p].op = "upgrade"
  /\ job'[p] = job[p] /\ lock' = lock
  /\ box'.image = compose.version
  /\ UNCHANGED <<files, db, bundles, scars>>

Recoiled(p) ==
  /\ pc[p] \in {"up", "serve"} /\ pc'[p] = "write" /\ lock' = lock
  /\ job[p].op = "upgrade" /\ job[p].part # "undo" /\ job[p].bundle # NoBundle
  /\ SameTask(p) /\ job'[p].part = "undo" /\ job'[p].bundle = job[p].bundle /\ job'[p].prev = job[p].prev
  /\ UNCHANGED <<files, db, bundles, scars, box>>

Left(p) ==
  /\ pc'[p] \in Over \cup {"dead"} /\ lock' = Nobody
  /\ job'[p] = NoJob
  /\ scars \subseteq scars'
  /\ pc[p] = "record" => "cut" \in scars'
  /\ \/ "broken" \in scars'
     \/ ~Settling(p) /\ ~(job[p].op = "upgrade" /\ pc[p] = "up")
     \/ job[p].op = "rollback" /\ pc[p] = "write"
     \/ pc[p] = "serve" /\ db.schema = box.image
  /\ box'.image = box.image \/ (pc[p] = "up" /\ job[p].op = "set_env" /\ box'.image = compose.version)
  /\ UNCHANGED <<files, db>> /\ bundles' \subseteq bundles \cup {job[p].bundle}

Moved(p) ==
  \/ Planned(p) \/ Walked(p) \/ Dumped(p) \/ GotLoaded(p) \/ WriteCompose(p) \/ WriteRecord(p)
  \/ Raised(p) \/ Recoiled(p) \/ Left(p)

LEMMA FinishLeaves ==
  ASSUME TypeOK, NEW p \in Procs, pc[p] \in Inside, NEW how \in Over \cup {"dead"}, Finish(p, how)
  PROVE  pc'[p] \in Over \cup {"dead"} /\ lock' = Nobody /\ job'[p] = NoJob
BY DEF TypeOK, Finish, Goto

LEMMA FailLeaves ==
  ASSUME TypeOK, NEW p \in Procs, pc[p] \in Inside, Fail(p)
  PROVE  /\ pc'[p] \in Over /\ lock' = Nobody /\ job'[p] = NoJob /\ scars \subseteq scars'
         /\ Settling(p) => "broken" \in scars'
BY FinishLeaves, Ends DEF Fail, Settling, TypeOK, Finish, Goto

LEMMA QuiescingMoves ==
  ASSUME TypeOK, JobsFit, NEW p \in Procs, pc[p] \in Inside, Quiescing(p)
  PROVE  Moved(p)
<1> USE DEF TypeOK, Goto, Inside, Quiet, After, files, held
<1>1. ASSUME NoMongo(p) \/ DataFailed(p) PROVE Left(p)
  BY <1>1, FailLeaves DEF NoMongo, DataFailed, Left, Settling
<1>2. ASSUME NoteStopped(p) \/ NoteDropped(p) \/ ClearDropped(p) \/ ClearStopped(p) PROVE Walked(p)
  BY <1>2 DEF NoteStopped, NoteDropped, ClearDropped, ClearStopped, Walked
<1>3. ASSUME StartAgain(p) PROVE Walked(p)
  BY <1>3 DEF StartAgain, AfterStart, Running, Walked
<1>4. ASSUME Quiesce(p) PROVE Walked(p)
  BY <1>4 DEF Quiesce, StoppedBy, Walked
<1>5. ASSUME Drop(p) PROVE Walked(p)
  BY <1>5 DEF Drop, Walked
<1>6. ASSUME Dump(p) PROVE Dumped(p)
  <2> DEFINE b == [id |-> p, version |-> record.version, schema |-> db.schema,
                   content |-> IF box.up /\ db.content = "whole" THEN "mixed" ELSE db.content]
  <2>1. PICK ok \in BOOLEAN : job' = [job EXCEPT ![p] = [@ EXCEPT !.ok = ok, !.bundle = IF ~ok THEN NoBundle ELSE b]]
    BY <1>6 DEF Dump, Answer
  <2>2. /\ SameTask(p) /\ job'[p].part = job[p].part /\ job'[p].prev = job[p].prev
        /\ job'[p].bundle = IF ~ok THEN NoBundle ELSE b
    BY <2>1 DEF Locals, SameTask
  <2> QED
    BY <1>6, <2>2 DEF Dump, Dumped
<1>7. ASSUME Load(p) PROVE GotLoaded(p)
  <2>1. PICK ok \in BOOLEAN :
          /\ job' = [job EXCEPT ![p].ok = ok]
          /\ IF ok THEN db' = Loaded(job[p].bundle)
                   ELSE \E c \in {db.content, "partial"} : db' = [db EXCEPT !.content = c]
    BY <1>7 DEF Load, Answer
  <2>2. /\ SameTask(p) /\ job'[p].part = job[p].part /\ job'[p].prev = job[p].prev
        /\ job'[p].bundle = job[p].bundle /\ job'[p].ok = ok
    BY <2>1 DEF Locals, SameTask
  <2>3. db' = Loaded(job[p].bundle) \/ (~ok /\ db'.schema = db.schema)
    BY <2>1
  <2> QED
    BY <1>7, <2>2, <2>3 DEF Load, GotLoaded
<1> QED
  BY <1>1, <1>2, <1>3, <1>4, <1>5, <1>6, <1>7 DEF Quiescing, Moved

LEMMA ShortMoves ==
  ASSUME TypeOK, JobsFit, JobsAsked, NEW p \in Procs, pc[p] \in Inside,
         Check(p) \/ Pack(p) \/ Restored(p) \/ SetState(p)
  PROVE  Moved(p)
<1> USE DEF TypeOK, Goto, Inside, Quiet, After, files, held
<1>1. CASE Check(p)
  <2>1. CASE job[p].op = "restore" /\ job[p].bundle.version > record.version
    <3>1. Fail(p) /\ pc[p] = "check" /\ UNCHANGED <<files, box, db, bundles>>
      BY <1>1, <2>1 DEF Check
    <3> QED
      BY <2>1, <3>1, FailLeaves DEF Moved, Left, Settling, Undoing
  <2>2. CASE ~(job[p].op = "restore" /\ job[p].bundle.version > record.version)
    <3>1. job[p].op = "restore" => job[p].bundle.version <= record.version
      <4>1. job[p].bundle.version \in Nat /\ record.version \in Nat
        BY DEF Locals, Bundles, NoBundle, Records, Versions
      <4> QED
        BY <2>2, <4>1
    <3>2. /\ pc[p] = "check" /\ pc'[p] = "note" /\ lock' = lock /\ job' = job
          /\ UNCHANGED <<files, box, db, bundles, scars>>
      BY <1>1, <2>2 DEF Check
    <3> QED
      BY <3>1, <3>2 DEF Moved, Walked
  <2> QED
    BY <2>1, <2>2
<1>2. CASE Pack(p)
  <2>1. CASE job[p].op = "upgrade"
    BY <1>2, <2>1 DEF Pack, Moved, Walked
  <2>2. CASE job[p].op # "upgrade"
    <3>1. Finish(p, "ended") /\ ~Settling(p) /\ pc[p] = "left"
      BY <1>2, <2>2 DEF Pack, Settling, Restoring, Undoing
    <3> QED
      BY <1>2, <2>2, <3>1, FinishLeaves, Ends DEF Pack, Moved, Left
  <2> QED
    BY <2>1, <2>2
<1>3. CASE Restored(p)
  BY <1>3 DEF Restored, Moved, Walked
<1>4. CASE SetState(p)
  <2>1. PICK ok \in BOOLEAN :
          /\ box' = IF ~ok THEN box ELSE IF job[p].op = "start" THEN Running(box.image) ELSE StoppedBy("user")
          /\ Finish(p, IF ok THEN "ended" ELSE "failed")
    BY <1>4 DEF SetState, Answer
  <2>2. box'.image = box.image
    BY <2>1 DEF Running, StoppedBy
  <2>3. ~Settling(p) /\ job[p].op # "upgrade"
    BY <1>4 DEF SetState, JobsAsked, Asked, Settling, Undoing
  <2>4. UNCHANGED <<files, db, bundles, scars>> /\ pc[p] = "set_state"
    BY <1>4 DEF SetState
  <2> QED
    BY <2>1, <2>2, <2>3, <2>4, FinishLeaves, Ends DEF Moved, Left
<1> QED
  BY <1>1, <1>2, <1>3, <1>4

LEMMA RecoilMoves ==
  ASSUME TypeOK, NEW p \in Procs, pc[p] \in {"up", "serve"}, job[p].op = "upgrade", ~Undoing(p), Recoil(p),
         UNCHANGED <<files, box, db, bundles>>
  PROVE  Moved(p)
<1> USE DEF TypeOK, Goto, Inside
<1>1. CASE job[p].bundle = NoBundle
  <2>1. Finish(p, "failed") /\ scars' = scars \cup {"broken"}
    BY <1>1 DEF Recoil
  <2> QED
    BY <2>1, FinishLeaves, Ends DEF Moved, Left
<1>2. CASE job[p].bundle # NoBundle
  <2>1. job' = [job EXCEPT ![p].part = "undo"] /\ pc'[p] = "write" /\ UNCHANGED <<lock, scars>>
    BY <1>2 DEF Recoil
  <2>2. SameTask(p) /\ job'[p].part = "undo" /\ job'[p].bundle = job[p].bundle /\ job'[p].prev = job[p].prev
    BY <2>1 DEF SameTask, Locals
  <2> QED
    BY <1>2, <2>1, <2>2 DEF Moved, Recoiled, Undoing
<1> QED
  BY <1>1, <1>2

LEMMA UpgradingMoves ==
  ASSUME "up_again" \notin Flaky, TypeOK, JobsFit, NEW p \in Procs, pc[p] \in Inside, Upgrading(p)
  PROVE  Moved(p)
<1> USE DEF TypeOK, Goto, Inside, Quiet, After, files, held
<1>1. ASSUME NEW backup \in BOOLEAN, Plan(p, backup) PROVE Moved(p)
  <2>1. CASE Upgradable(p)
    <3>1. job' = [job EXCEPT ![p].prev = compose] /\ pc'[p] \in {"note", "halt"} /\ lock' = lock /\ scars' = scars
      BY <1>1, <2>1 DEF Plan
    <3>2. SameTask(p) /\ job'[p].part = job[p].part /\ job'[p].bundle = job[p].bundle /\ job'[p].prev = compose
      BY <3>1 DEF SameTask, Locals
    <3> QED
      BY <1>1, <2>1, <3>1, <3>2 DEF Plan, Upgradable, Moved, Planned
  <2>2. CASE ~Upgradable(p)
    <3>1. Fail(p) /\ pc[p] = "plan" /\ UNCHANGED <<files, box, db, bundles>>
      BY <1>1, <2>2 DEF Plan
    <3> QED
      BY <3>1, FailLeaves DEF Moved, Left
  <2> QED
    BY <2>1, <2>2
<1>2. CASE Halt(p)
  <2>1. pc[p] = "halt" /\ pc'[p] = "write" /\ box'.image = box.image
    BY <1>2 DEF Halt, StoppedBy
  <2> QED
    BY <1>2, <2>1 DEF Halt, Moved, Walked
<1>3. CASE WriteCompose(p) \/ WriteRecord(p)
  BY <1>3 DEF Moved
<1>4. CASE NoRestart(p)
  <2>1. Finish(p, "ended") /\ job[p].op = "set_env" /\ pc[p] = "up" /\ UNCHANGED <<files, box, db, bundles, scars>>
    BY <1>4 DEF NoRestart
  <2> QED
    BY <2>1, FinishLeaves, Ends DEF Moved, Left, Settling, Undoing
<1>5. CASE Up(p)
  <2>1. pc[p] = "up" /\ box'.image = compose.version /\ UpDone(p) /\ UNCHANGED <<files, db, bundles, scars>>
    BY <1>5 DEF Up, Running
  <2>2. CASE Restoring(p) \/ job[p].op = "upgrade"
    <3>1. Goto(p, IF Restoring(p) THEN "check" ELSE "serve") /\ UNCHANGED held
      BY <2>1, <2>2 DEF UpDone, Restoring, Undoing
    <3>2. Raised(p)
      BY <2>1, <2>2, <3>1 DEF Raised
    <3> QED
      BY <3>2 DEF Moved
  <2>3. CASE ~(Restoring(p) \/ job[p].op = "upgrade")
    <3>1. Finish(p, "ended")
      BY <2>1, <2>3 DEF UpDone
    <3>2. job[p].op = "set_env"
      BY <2>1, <2>3 DEF JobsFit, Fits, Restoring
    <3> QED
      BY <2>1, <3>1, <3>2, FinishLeaves, Ends DEF Moved, Left, Settling, Undoing
  <2> QED
    BY <2>2, <2>3
<1>6. CASE UpFails(p)
  <2>1. ~Undoing(p) /\ pc[p] = "up" /\ UNCHANGED <<files, box, db, bundles>>
    BY <1>6 DEF UpFails
  <2>2. CASE job[p].op = "upgrade"
    BY <1>6, <2>1, <2>2, RecoilMoves DEF UpFails
  <2>3. CASE job[p].op # "upgrade"
    <3>1. Fail(p)
      BY <1>6, <2>1, <2>3 DEF UpFails
    <3> QED
      BY <2>1, <2>3, <3>1, FailLeaves DEF Moved, Left
  <2> QED
    BY <2>2, <2>3
<1>7. CASE Served(p)
  <2>1. Finish(p, "ended") /\ pc[p] = "serve" /\ db.schema = box.image /\ UNCHANGED <<files, box, db, bundles, scars>>
    BY <1>7 DEF Served
  <2> QED
    BY <2>1, FinishLeaves, Ends DEF Moved, Left
<1>8. CASE NotServed(p)
  <2>1. pc[p] = "serve" /\ UNCHANGED <<files, box, db, bundles>>
    BY <1>8 DEF NotServed
  <2>2. CASE job[p].op = "upgrade" /\ ~Undoing(p)
    BY <1>8, <2>1, <2>2, RecoilMoves DEF NotServed
  <2>3. CASE ~(job[p].op = "upgrade" /\ ~Undoing(p))
    <3>1. Fail(p)
      BY <1>8, <2>3 DEF NotServed
    <3> QED
      BY <2>1, <2>3, <3>1, FailLeaves DEF Moved, Left
  <2> QED
    BY <2>2, <2>3
<1> QED
  BY <1>1, <1>2, <1>3, <1>4, <1>5, <1>6, <1>7, <1>8 DEF Upgrading

LEMMA DeathMoves ==
  ASSUME TypeOK, JobsFit, NEW p \in Procs, pc[p] \in Inside, Die(p)
  PROVE  Moved(p)
<1>1. /\ Finish(p, "dead") /\ scars \subseteq scars'
      /\ pc[p] = "record" => "cut" \in scars'
      /\ HalfWay(p) => "broken" \in scars'
      /\ UNCHANGED <<files, box, db, bundles>>
  BY DEF Die
<1>2. \/ HalfWay(p)
      \/ ~Settling(p) /\ ~(job[p].op = "upgrade" /\ pc[p] = "up")
      \/ job[p].op = "rollback" /\ pc[p] = "write"
  BY Places DEF HalfWay, Settling, Undoing, Restoring, Outside
<1> QED
  BY <1>1, <1>2, FinishLeaves DEF Moved, Left

LEMMA HolderMoves ==
  ASSUME "up_again" \notin Flaky, TypeOK, JobsFit, JobsAsked, NEW p \in Procs, pc[p] \in Inside, Work(p) \/ Die(p)
  PROVE  Moved(p)
<1>1. \A o, b, to : ~Begin(p, o, b, to)
  BY DEF Begin, Inside, Quiet
<1>2. ~Acquire(p) /\ ~LockTimeout(p)
  BY DEF Acquire, LockTimeout, Inside, Quiet
<1> QED
  BY <1>1, <1>2, QuiescingMoves, ShortMoves, UpgradingMoves, DeathMoves DEF Work

\* A process outside begins, enters or gives up.
Begun(p) ==
  /\ pc[p] = "idle" /\ pc'[p] = "lock" /\ lock' = lock
  /\ job'[p].part = job[p].part /\ job'[p].bundle \in bundles \cup {NoBundle}
  /\ job'[p].op = "upgrade" => job'[p].bundle = NoBundle
  /\ job'[p].op = "rollback" => job'[p].to = job'[p].bundle.version

Entered(p) ==
  /\ pc[p] = "lock" /\ pc'[p] = FirstStep(job[p].op) /\ lock = Nobody /\ lock' = p
  /\ job'[p].op = job[p].op /\ job'[p].to = job[p].to /\ job'[p].part = job[p].part
  /\ job'[p].bundle = job[p].bundle
  /\ job[p].op # "rollback" => job'[p].mem = record

GaveUp(p) == pc'[p] \in Over \cup {"dead"} /\ lock' = lock /\ job'[p] = NoJob

Outward(p) ==
  /\ UNCHANGED <<files, box, db, bundles>> /\ scars \subseteq scars'
  /\ Begun(p) \/ Entered(p) \/ GaveUp(p)

LEMMA OutsiderMoves ==
  ASSUME TypeOK, NEW p \in Procs, pc[p] \notin Inside, Work(p) \/ Die(p)
  PROVE  Outward(p)
<1> USE DEF TypeOK, Goto
<1>1. ASSUME NEW o \in Operations, NEW b \in bundles \cup {NoBundle}, NEW to \in Versions, Begin(p, o, b, to)
      PROVE  Outward(p)
  <2>1. job' = [job EXCEPT ![p] = [@ EXCEPT !.op = o, !.bundle = b, !.to = to, !.mem = record]]
    BY <1>1 DEF Begin
  <2>2. job'[p].op = o /\ job'[p].bundle = b /\ job'[p].to = to /\ job'[p].part = job[p].part
    BY <2>1 DEF Locals
  <2> QED
    BY <1>1, <2>2 DEF Begin, Outward, Begun
<1>2. CASE Acquire(p)
  <2>1. job' = [job EXCEPT ![p].mem = IF job[p].op = "rollback" THEN @ ELSE record]
    BY <1>2 DEF Acquire
  <2>2. /\ job'[p].op = job[p].op /\ job'[p].to = job[p].to /\ job'[p].part = job[p].part
        /\ job'[p].bundle = job[p].bundle
        /\ job[p].op # "rollback" => job'[p].mem = record
    BY <2>1 DEF Locals
  <2> QED
    BY <1>2, <2>2 DEF Acquire, Free, Outward, Entered
<1>3. CASE LockTimeout(p) \/ Die(p)
  BY <1>3, Ends, Places DEF LockTimeout, Die, Finish, Outward, GaveUp
<1>4. ~Upgrading(p)
  BY DEF Inside, Quiet, Upgrading, Plan, Halt, WriteCompose, WriteRecord, NoRestart, Up, UpFails, Served, NotServed
<1>5. ~Quiescing(p)
  BY DEF Inside, Quiet, Quiescing, NoMongo, NoteStopped, Quiesce, Dump, NoteDropped, Drop, Load, ClearDropped,
         StartAgain, ClearStopped, DataFailed
<1>6. ~Check(p) /\ ~Pack(p) /\ ~Restored(p) /\ ~SetState(p)
  BY DEF Inside, Quiet, Check, Pack, Restored, SetState
<1> QED
  BY <1>1, <1>2, <1>3, <1>4, <1>5, <1>6 DEF Work

\* What else can happen: a migration up to the image, and what leaves it all alone.
Around ==
  /\ UNCHANGED <<pc, job, lock, files, bundles>> /\ scars \subseteq scars' /\ scars' \subseteq scars \cup {"woken"}
  /\ box'.image = box.image /\ db'.content = db.content
  /\ db' = db \/ (db.schema < box.image /\ db'.schema = box.image)

LEMMA StepMoves ==
  ASSUME "up_again" \notin Flaky, TypeOK, JobsFit, JobsAsked, [Next]_vars
  PROVE  \/ \E p \in Procs : /\ (pc[p] \in Inside /\ Moved(p)) \/ (pc[p] \notin Inside /\ Outward(p))
                             /\ \A q \in Procs \ {p} : pc'[q] = pc[q] /\ job'[q] = job[q]
         \/ Around
<1>1. ASSUME NEW p \in Procs, Work(p) \/ Die(p)
      PROVE  /\ (pc[p] \in Inside /\ Moved(p)) \/ (pc[p] \notin Inside /\ Outward(p))
             /\ \A q \in Procs \ {p} : pc'[q] = pc[q] /\ job'[q] = job[q]
  BY <1>1, HolderMoves, OutsiderMoves, Others
<1>2. CASE UNCHANGED vars
  BY <1>2 DEF vars, Around, files
<1>3. CASE Migrate
  BY <1>3 DEF Migrate, Around, TypeOK
<1>4. CASE Recover \/ (\E n \in mended : Mend(n))
  BY <1>4 DEF Recover, Mend, Around, files
<1>5. ASSUME NEW n \in rec, Repair(n) PROVE Around
  BY <1>5 DEF Repair, Running, Around, files
<1> QED
  BY <1>1, <1>2, <1>3, <1>4, <1>5 DEF Next

LEMMA AskedStep ==
  ASSUME "up_again" \notin Flaky, TypeOK, JobsFit, JobsAsked, [Next]_vars
  PROVE  JobsAsked'
<1> USE DEF JobsAsked, Asked
<1>1. CASE Around
  BY <1>1 DEF Around
<1>2. ASSUME NEW p \in Procs, (pc[p] \in Inside /\ Moved(p)) \/ (pc[p] \notin Inside /\ Outward(p))
      PROVE  Asked(p)'
  <2>1. NoJob.part = "own" /\ NoJob.op = "backup"
    BY DEF NoJob
  <2>2. \A how \in Over \cup {"dead"} : how \notin {"lock", "set_state"}
    BY DEF Over
  <2>3. CASE GaveUp(p) \/ Left(p)
    BY <2>1, <2>2, <2>3 DEF GaveUp, Left
  <2>4. CASE pc[p] \notin Inside /\ Outward(p) /\ (Begun(p) \/ Entered(p))
    <3>1. Begun(p) => "lock" \notin {"set_state"} /\ pc'[p] = "lock" /\ job[p].part = "own"
      BY <2>4 DEF Begun
    <3>2. Entered(p) => pc'[p] \in Inside /\ (pc'[p] = "set_state" => job[p].op \in {"start", "stop"})
      BY DEF Entered, FirstStep, Inside, Quiet, TypeOK, Locals, Operations
    <3>3. "lock" \notin Inside
      BY DEF Inside, Quiet
    <3> QED
      BY <2>4, <3>1, <3>2, <3>3 DEF Begun, Entered
  <2>5. CASE pc[p] \in Inside /\ Moved(p) /\ ~Left(p)
    <3>1. pc'[p] \in Inside
      BY <2>5 DEF Moved, Planned, Walked, Dumped, GotLoaded, WriteCompose, WriteRecord, Raised, Recoiled, Inside,
                  Quiet, Goto, TypeOK
    <3>2. pc'[p] \notin {"lock"}
      BY <3>1 DEF Inside, Quiet
    <3>3. pc'[p] # "set_state"
      BY <2>5 DEF Moved, Planned, Walked, Dumped, GotLoaded, WriteCompose, WriteRecord, Raised, Recoiled, 
                  Goto, TypeOK
    <3>4. job'[p].part = "undo" => job'[p].op = "upgrade"
      BY <2>5 DEF Moved, Planned, Walked, Dumped, GotLoaded, WriteCompose, WriteRecord, Raised, Recoiled, SameTask
    <3>5. job'[p].op = job[p].op /\ job'[p].to = job[p].to /\ (job[p].op = "rollback" => job'[p].bundle = job[p].bundle)
      BY <2>5 DEF Moved, Planned, Walked, Dumped, GotLoaded, WriteCompose, WriteRecord, Raised, Recoiled, SameTask,
                  JobsFit, Fits, Restoring
    <3> QED
      BY <3>1, <3>2, <3>3, <3>4, <3>5
  <2> QED
    BY <1>2, <2>3, <2>4, <2>5 DEF Outward
<1>3. ASSUME NEW p \in Procs, NEW q \in Procs, pc'[q] = pc[q] /\ job'[q] = job[q] PROVE Asked(q)'
  BY <1>3
<1> QED
  BY <1>1, <1>2, <1>3, StepMoves

\* How the holder of the lock moves, seen from all the others.
Apart(p) == \A q \in Procs \ {p} : pc'[q] = pc[q] /\ job'[q] = job[q]

Aside ==
  /\ lock' = lock /\ UNCHANGED <<files, bundles>> /\ scars \subseteq scars'
  /\ \A q \in Procs : lock = q => pc'[q] = pc[q] /\ job'[q] = job[q]
  /\ \A q \in Procs : job'[q].bundle \in bundles \cup {NoBundle, job[q].bundle}
  /\ box'.image = box.image /\ db'.content = db.content
  /\ db' = db \/ (db.schema < box.image /\ db'.schema = box.image)

LEMMA LockMoves ==
  ASSUME "up_again" \notin Flaky, TypeOK, JobsFit, JobsAsked, [Next]_vars
  PROVE  \/ \E p \in Procs : lock = p /\ pc[p] \in Inside /\ Moved(p) /\ Apart(p)
         \/ \E p \in Procs : Entered(p) /\ Outward(p) /\ Apart(p)
         \/ Aside
<1>1. CASE Around
  BY <1>1 DEF Around, Aside
<1>2. ASSUME NEW p \in Procs, pc[p] \in Inside, Moved(p), Apart(p) PROVE lock = p
  BY <1>2 DEF TypeOK
<1>3. ASSUME NEW p \in Procs, pc[p] \notin Inside, Outward(p), Apart(p), ~Entered(p) PROVE Aside
  <2>1. lock # p /\ lock' = lock
    BY <1>3 DEF TypeOK, Outward, Begun, GaveUp
  <2>2. job'[p].bundle \in bundles \cup {NoBundle}
    BY <1>3 DEF Outward, Begun, GaveUp, NoJob
  <2> QED
    BY <1>3, <2>1, <2>2 DEF Outward, Aside, Apart
<1> QED
  BY <1>1, <1>2, <1>3, StepMoves DEF Apart

\* The two files as p writes them.
LEMMA Written ==
  ASSUME TypeOK, NEW p \in Procs
  PROVE  /\ Undoing(p) => /\ NewRecord(p).version = job[p].mem.version /\ NewRecord(p).env = record.env
                          /\ NewCompose(p) = job[p].prev
         /\ job[p].op \in {"upgrade", "rollback"} /\ ~Undoing(p) =>
              /\ NewRecord(p).version = job[p].to /\ NewRecord(p).env = job[p].mem.env
              /\ NewCompose(p).version = job[p].to /\ NewCompose(p).env = compose.env
         /\ job[p].op = "set_env" =>
              /\ NewRecord(p).version = job[p].mem.version /\ NewRecord(p).env = p
              /\ NewCompose(p).version = compose.version /\ NewCompose(p).env = p
<1>1. job[p].mem \in Records /\ record \in Records /\ compose \in Composes
  BY DEF TypeOK, Locals
<1> QED
  BY <1>1 DEF NewRecord, NewCompose, Records, Composes, Undoing

\* What the holder knows of the record, whatever was killed before it.
Informed(p) ==
  /\ job[p].op \in {"upgrade", "set_env"} /\ ~Undoing(p) /\ pc[p] \notin {"up", "serve"} => job[p].mem = record
  /\ job[p].op = "upgrade" /\ ~Undoing(p) /\ pc[p] \notin {"plan", "up", "serve"} => job[p].to > record.version
  /\ job[p].op = "upgrade" /\ ~Undoing(p) /\ pc[p] \in {"up", "serve"} => job[p].to = record.version
  /\ job[p].op = "upgrade" /\ (Undoing(p) \/ pc[p] \in {"up", "serve"}) => record.env = job[p].mem.env
  /\ job[p].op = "upgrade" /\ job[p].bundle # NoBundle => job[p].bundle.version = job[p].mem.version
  /\ Undoing(p) => job[p].bundle # NoBundle
  /\ Settling(p) /\ pc[p] \notin {"write", "record"} => record.version = job[p].bundle.version

LEMMA InformedMoves ==
  ASSUME TypeOK, JobsFit, JobsAsked, NEW p \in Procs, pc[p] \in Inside, Moved(p), ~Left(p), Informed(p)
  PROVE  Informed(p)'
<1> USE DEF Informed, Settling, Undoing
<1>0. Asked(p) /\ Fits(p)
  BY DEF JobsAsked, JobsFit
<1>1. CASE Planned(p)
  BY <1>0, <1>1 DEF Planned, SameTask, files, Fits
<1>2. CASE Walked(p)
  BY <1>0, <1>2 DEF Walked, files, Restoring, Asked
<1>3. CASE Dumped(p)
  BY <1>0, <1>3 DEF Dumped, SameTask, files, Fits, Restoring
<1>4. CASE GotLoaded(p)
  BY <1>0, <1>4 DEF GotLoaded, SameTask, files
<1>5. CASE WriteCompose(p)
  BY <1>0, <1>5 DEF WriteCompose, Goto, TypeOK
<1>6. CASE WriteRecord(p)
  <2>1. pc[p] = "record" /\ pc'[p] = "up" /\ job'[p] = job[p] /\ record' = NewRecord(p)
    BY <1>6 DEF WriteRecord, Goto, TypeOK
  <2>2. job[p].op \in {"upgrade", "rollback", "set_env"}
    BY <1>0, <2>1 DEF Fits
  <2> QED
    BY <1>0, <2>1, <2>2, Written DEF Asked
<1>7. CASE Raised(p)
  BY <1>0, <1>7 DEF Raised, files, Restoring, Asked
<1>8. CASE Recoiled(p)
  BY <1>0, <1>8 DEF Recoiled, SameTask, files
<1> QED
  BY <1>1, <1>2, <1>3, <1>4, <1>5, <1>6, <1>7, <1>8 DEF Moved

Knowing == \A p \in Procs : lock = p => Informed(p)

LEMMA MovedLock ==
  ASSUME TypeOK, NEW p \in Procs, lock = p, Moved(p)
  PROVE  Left(p) \/ lock' = p
BY DEF Moved, Planned, Walked, Dumped, GotLoaded, WriteCompose, WriteRecord, Raised, Recoiled

LEMMA EnteredInside ==
  ASSUME TypeOK, JobsAsked, NEW p \in Procs, Entered(p)
  PROVE  /\ pc'[p] = FirstStep(job[p].op) /\ job[p].op \in Operations
         /\ ~Undoing(p) /\ ~Undoing(p)' /\ (job[p].op = "upgrade" => job[p].bundle = NoBundle)
         /\ job[p].op = "rollback" => job[p].to = job[p].bundle.version
<1>1. pc[p] = "lock" /\ "lock" \notin Inside
  BY DEF Entered, Inside, Quiet
<1> QED
  BY <1>1 DEF Entered, JobsAsked, Asked, Undoing, TypeOK, Locals

LEMMA KnowingStep ==
  ASSUME "up_again" \notin Flaky, TypeOK, JobsFit, JobsAsked, Knowing, [Next]_vars
  PROVE  Knowing'
<1> SUFFICES ASSUME NEW q \in Procs, lock' = q PROVE Informed(q)'
  BY DEF Knowing
<1>1. ASSUME NEW p \in Procs, lock = p, pc[p] \in Inside, Moved(p) PROVE Informed(q)'
  <2>1. ~Left(p) /\ q = p
    BY <1>1, MovedLock, NobodyIsNoProcess DEF Left
  <2> QED
    BY <1>1, <2>1, InformedMoves DEF Knowing
<1>2. ASSUME NEW p \in Procs, Entered(p), Outward(p) PROVE Informed(q)'
  <2>1. q = p /\ record' = record
    BY <1>2 DEF Entered, Outward, files
  <2>2. FirstStep(job[p].op) \notin {"up", "serve"} /\ (job[p].op = "upgrade" => FirstStep(job[p].op) = "plan")
        /\ (job[p].op = "rollback" => FirstStep(job[p].op) = "write")
    BY <1>2, EnteredInside DEF FirstStep, Operations
  <2> QED
    BY <1>2, <2>1, <2>2, EnteredInside DEF Entered, Informed, Settling, Undoing
<1>3. CASE Aside
  BY <1>3 DEF Aside, files, Knowing, Informed, Settling, Undoing
<1> QED
  BY <1>1, <1>2, <1>3, LockMoves

Stale == "stale" \in scars
Agree == compose.version = record.version /\ (Stale \/ compose.env = record.env)

\* How the files of the holder agree: but for between its two writes, they do.
Filed(p) ==
  /\ pc[p] # "record" => Agree
  /\ pc[p] = "record" => compose.version = NewRecord(p).version
  /\ pc[p] = "record" =>
       \/ Stale \/ compose.env = NewRecord(p).env
       \/ (job[p].op = "rollback" /\ job[p].mem.env # record.env)
  /\ job[p].op = "upgrade" /\ pc[p] # "plan" => job[p].prev.version = job[p].mem.version
  /\ job[p].op = "upgrade" /\ pc[p] # "plan" => Stale \/ job[p].prev.env = job[p].mem.env
  /\ Settling(p) /\ pc[p] \notin {"write", "record", "up"} => box.image = record.version

LEMMA FiledMoves ==
  ASSUME TypeOK, JobsFit, JobsAsked, NEW p \in Procs, pc[p] \in Inside, Moved(p), ~Left(p), Informed(p), Filed(p)
  PROVE  Filed(p)'
<1>0. Asked(p) /\ Fits(p)
  BY DEF JobsAsked, JobsFit
<1>1. CASE Planned(p)
  <2>1. job[p].op = "upgrade"
    BY <1>0, <1>1 DEF Fits, Planned
  <2>2. ~Undoing(p) => job[p].mem = record
    BY <1>1, <2>1 DEF Informed, Planned
  <2>3. Undoing(p) => record.version = job[p].bundle.version /\ job[p].bundle.version = job[p].mem.version
                      /\ record.env = job[p].mem.env /\ box.image = record.version
    BY <1>1, <2>1 DEF Informed, Planned, Settling, Filed
  <2> QED
    BY <1>1, <2>1, <2>2, <2>3 DEF Filed, Agree, Stale, Planned, SameTask, files, Settling, Undoing
<1>2. CASE Walked(p)
  <2>1. Agree /\ record' = record /\ compose' = compose /\ job'[p] = job[p] /\ Stale \in BOOLEAN /\ (Stale => Stale')
    BY <1>2 DEF Filed, Walked, files, Stale
  <2> QED
    BY <1>2, <2>1 DEF Filed, Agree, Walked, Settling, Undoing
<1>3. CASE Dumped(p)
  BY <1>0, <1>3 DEF Filed, Agree, Stale, Dumped, SameTask, files, Settling, Undoing
<1>4. CASE GotLoaded(p)
  BY <1>0, <1>4 DEF Filed, Agree, Stale, GotLoaded, SameTask, files, Settling, Undoing
<1>5. CASE WriteCompose(p)
  <2>1. /\ pc[p] = "write" /\ pc'[p] = "record" /\ job' = job /\ record' = record /\ scars' = scars /\ box' = box
        /\ compose' = NewCompose(p)
    BY <1>5 DEF WriteCompose, Goto, TypeOK
  <2>2. job[p].op \in {"upgrade", "rollback", "set_env"} /\ Agree
    BY <1>0, <2>1 DEF Fits, Filed
  <2>3. NewRecord(p)' = NewRecord(p)
    BY <2>1 DEF NewRecord, Undoing
  <2>4. Undoing(p) => /\ compose' = job[p].prev /\ NewRecord(p).version = job[p].mem.version
                      /\ NewRecord(p).env = job[p].mem.env
    BY <2>1, Written DEF Informed, Undoing
  <2>5. job[p].op = "upgrade" /\ ~Undoing(p) => job[p].mem = record
    BY <2>1 DEF Informed
  <2>6. job[p].op = "set_env" => job[p].mem = record
    BY <2>1 DEF Informed, Undoing
  <2>7. compose'.version = NewRecord(p).version
    BY <2>1, <2>2, <2>4, <2>5, <2>6, Written DEF Filed, Agree, Undoing
  <2>8. Stale \/ compose'.env = NewRecord(p).env \/ (job[p].op = "rollback" /\ job[p].mem.env # record.env)
    BY <2>1, <2>2, <2>4, <2>5, <2>6, Written DEF Filed, Agree, Undoing
  <2> QED
    BY <2>1, <2>3, <2>7, <2>8 DEF Filed, Stale, Settling, Undoing
<1>6. CASE WriteRecord(p)
  <2>1. /\ pc[p] = "record" /\ pc'[p] = "up" /\ job' = job /\ compose' = compose /\ box' = box
        /\ record' = NewRecord(p) /\ scars \subseteq scars'
        /\ job[p].op = "rollback" /\ job[p].mem.env # record.env => "stale" \in scars'
    BY <1>6 DEF WriteRecord, Goto, TypeOK
  <2> QED
    BY <2>1 DEF Filed, Agree, Stale, Settling
<1>7. CASE Raised(p)
  BY <1>7 DEF Filed, Agree, Stale, Raised, files, Settling, Undoing
<1>8. CASE Recoiled(p)
  BY <1>8 DEF Filed, Agree, Stale, Recoiled, SameTask, files, Settling
<1> QED
  BY <1>1, <1>2, <1>3, <1>4, <1>5, <1>6, <1>7, <1>8 DEF Moved

Filing ==
  "cut" \notin scars =>
    /\ lock = Nobody => Agree
    /\ \A p \in Procs : lock = p => Filed(p)

LEMMA MovedScars ==
  ASSUME TypeOK, NEW p \in Procs, Moved(p)
  PROVE  scars \subseteq scars'
BY DEF Moved, Planned, Walked, Dumped, GotLoaded, WriteCompose, WriteRecord, Raised, Recoiled, Left

LEMMA FilingStep ==
  ASSUME "up_again" \notin Flaky, TypeOK, JobsFit, JobsAsked, Knowing, Filing, [Next]_vars
  PROVE  Filing'
<1> SUFFICES ASSUME "cut" \notin scars'
             PROVE  (lock' = Nobody => Agree') /\ \A q \in Procs : lock' = q => Filed(q)'
  BY DEF Filing
<1>1. ASSUME NEW p \in Procs, lock = p, pc[p] \in Inside, Moved(p)
      PROVE  (lock' = Nobody => Agree') /\ \A q \in Procs : lock' = q => Filed(q)'
  <2>1. Informed(p) /\ Filed(p)
    BY <1>1, MovedScars DEF Knowing, Filing
  <2>2. CASE Left(p)
    <3>1. pc[p] # "record" /\ lock' = Nobody /\ UNCHANGED files /\ scars \subseteq scars'
      BY <2>2 DEF Left
    <3> QED
      BY <2>1, <3>1, NobodyIsNoProcess DEF Filed, Agree, Stale, files
  <2>3. CASE ~Left(p)
    BY <1>1, <2>1, <2>3, FiledMoves, MovedLock, NobodyIsNoProcess
  <2> QED
    BY <2>2, <2>3
<1>2. ASSUME NEW p \in Procs, Entered(p), Outward(p)
      PROVE  (lock' = Nobody => Agree') /\ \A q \in Procs : lock' = q => Filed(q)'
  <2>1. lock = Nobody /\ lock' = p /\ UNCHANGED <<record, compose>> /\ scars \subseteq scars'
    BY <1>2 DEF Entered, Outward, files
  <2>2. Agree /\ Agree'
    BY <2>1 DEF Filing, Agree, Stale
  <2>3. pc'[p] # "record" /\ (job'[p].op = "upgrade" => pc'[p] = "plan") /\ (Settling(p)' => pc'[p] = "write")
    <3>1. pc'[p] = FirstStep(job[p].op) /\ job[p].op \in Operations /\ job'[p].op = job[p].op /\ ~Undoing(p)'
      BY <1>2, EnteredInside DEF Entered
    <3> QED
      BY <3>1 DEF FirstStep, Operations, Settling
  <2> QED
    BY <2>1, <2>2, <2>3, NobodyIsNoProcess DEF Filed
<1>3. CASE Aside
  <2>1. lock' = lock /\ UNCHANGED <<record, compose>> /\ box'.image = box.image /\ (Stale => Stale') /\ "cut" \notin scars
    BY <1>3 DEF Aside, files, Stale
  <2>2. lock = Nobody => Agree'
    BY <2>1 DEF Filing, Agree
  <2>3. ASSUME NEW q \in Procs, lock = q PROVE Filed(q)'
    <3>1. pc'[q] = pc[q] /\ job'[q] = job[q] /\ Filed(q)
      BY <1>3, <2>1, <2>3 DEF Aside, Filing
    <3>2. NewRecord(q)' = NewRecord(q) /\ (Settling(q)' <=> Settling(q))
      BY <2>1, <3>1 DEF NewRecord, Undoing, Settling
    <3> QED
      BY <2>1, <3>1, <3>2 DEF Filed, Agree
  <2> QED
    BY <2>1, <2>2, <2>3
<1> QED
  BY <1>1, <1>2, <1>3, LockMoves

\* The container is of the version in the metadata, and no database is newer.
Sane == box.image = record.version /\ db.schema <= record.version

\* How far the holder keeps to that.
Runs(p) ==
  /\ ~Settling(p) /\ ~(job[p].op = "upgrade" /\ pc[p] = "up") => Sane
  /\ job[p].op = "upgrade" /\ ~Undoing(p) /\ pc[p] = "up" =>
       box.image <= record.version /\ db.schema <= record.version
  /\ job[p].op = "rollback" /\ pc[p] = "write" => Sane
  /\ job[p].op = "restore" /\ pc[p] # "check" => job[p].bundle.version <= record.version

\* No dump holds data newer than the version it was taken of.
BundlesFit ==
  /\ \A b \in bundles : b.schema <= b.version
  /\ \A p \in Procs : job[p].bundle.schema <= job[p].bundle.version

LEMMA Numbers ==
  ASSUME TypeOK, NEW p \in Procs
  PROVE  /\ record.version \in Nat /\ compose.version \in Nat /\ box.image \in Nat /\ db.schema \in Nat
         /\ job[p].to \in Nat /\ job[p].mem.version \in Nat
         /\ job[p].bundle.version \in Nat /\ job[p].bundle.schema \in Nat
<1>1. job[p] \in Locals /\ record \in Records /\ compose \in Composes
  BY DEF TypeOK
<1>2. job[p].bundle \in Bundles \cup {NoBundle} /\ job[p].mem \in Records /\ job[p].to \in Versions
  BY <1>1 DEF Locals
<1>3. job[p].bundle.version \in Nat /\ job[p].bundle.schema \in Nat
  BY <1>2 DEF Bundles, NoBundle, Versions
<1> QED
  BY <1>1, <1>2, <1>3 DEF Records, Composes, Versions, TypeOK

LEMMA RunsMoves ==
  ASSUME TypeOK, JobsFit, JobsAsked, NEW p \in Procs, pc[p] \in Inside, Moved(p), ~Left(p),
         Informed(p), Filed(p), Runs(p), BundlesFit
  PROVE  Runs(p)'
<1>0. Asked(p) /\ Fits(p)
  BY DEF JobsAsked, JobsFit
<1>1. CASE Planned(p)
  BY <1>0, <1>1 DEF Runs, Sane, Planned, SameTask, files, Settling, Undoing, Fits
<1>2. CASE Walked(p)
  <2>1. pc'[p] = "write" => job[p].op = "upgrade"
    BY <1>0, <1>2 DEF Fits, Walked
  <2>2. job'[p] = job[p] /\ record' = record /\ db'.schema = db.schema /\ box'.image = box.image /\ pc'[p] # "up"
    BY <1>2 DEF Walked, files
  <2>3. pc[p] # "up" /\ (pc[p] = "check" /\ job[p].op = "restore" => job[p].bundle.version <= record.version)
    BY <1>2 DEF Walked
  <2> QED
    BY <2>1, <2>2, <2>3 DEF Runs, Sane, Settling, Undoing
<1>3. CASE Dumped(p)
  <2>1. ~Restoring(p)
    BY <1>0, <1>3 DEF Fits, Dumped
  <2> QED
    BY <1>3, <2>1 DEF Runs, Sane, Dumped, SameTask, files, Settling, Undoing, Restoring
<1>4. CASE GotLoaded(p)
  <2>1. Restoring(p) /\ record' = record /\ box' = box /\ pc[p] = "load" /\ pc'[p] = "clear_drop"
    BY <1>0, <1>4 DEF Fits, GotLoaded, files, Quiet
  <2>2. /\ job'[p].op = job[p].op /\ job'[p].part = job[p].part /\ job'[p].bundle = job[p].bundle
        /\ db'.schema \in {job[p].bundle.schema, db.schema}
    BY <1>4 DEF GotLoaded, SameTask, Loaded
  <2>3. ~Settling(p) => job[p].op = "restore" /\ job[p].bundle.schema <= record.version
    <3>1. ~Settling(p) => job[p].op = "restore" /\ job[p].bundle.version <= record.version
      BY <1>0, <2>1 DEF Restoring, Settling, Undoing, Asked, Runs
    <3>2. job[p].bundle.schema <= job[p].bundle.version
      BY DEF BundlesFit
    <3> QED
      BY <3>1, <3>2, Numbers
  <2> QED
    BY <2>1, <2>2, <2>3 DEF Runs, Sane, Settling, Undoing
<1>5. CASE WriteCompose(p)
  <2>1. pc[p] = "write" /\ pc'[p] = "record" /\ job' = job /\ record' = record /\ box' = box /\ db' = db
    BY <1>5 DEF WriteCompose, Goto, TypeOK
  <2> QED
    BY <2>1 DEF Runs, Sane, Settling, Undoing
<1>6. CASE WriteRecord(p)
  <2>1. /\ pc[p] = "record" /\ pc'[p] = "up" /\ job' = job /\ box' = box /\ db' = db /\ record' = NewRecord(p)
        /\ job[p].op \in {"upgrade", "rollback", "set_env"}
    BY <1>0, <1>6 DEF WriteRecord, Goto, TypeOK, Fits
  <2>2. CASE Settling(p)
    BY <2>1, <2>2 DEF Runs, Settling, Undoing
  <2>3. CASE job[p].op = "upgrade" /\ ~Undoing(p)
    <3>1. record'.version = job[p].to /\ job[p].to > record.version /\ Sane
      BY <2>1, <2>3, Written DEF Informed, Runs, Settling
    <3>2. box.image <= job[p].to /\ db.schema <= job[p].to
      BY <3>1, Numbers DEF Sane
    <3> QED
      BY <2>1, <2>3, <3>1, <3>2 DEF Runs, Settling, Undoing
  <2>4. CASE job[p].op = "set_env"
    <3>1. record'.version = record.version /\ Sane /\ ~Settling(p)
      BY <2>1, <2>4, Written DEF Informed, Runs, Settling, Undoing
    <3> QED
      BY <2>1, <2>4, <3>1 DEF Runs, Sane, Settling, Undoing
  <2> QED
    BY <2>1, <2>2, <2>3, <2>4 DEF Settling
<1>7. CASE Raised(p)
  <2>1. /\ pc[p] = "up" /\ pc'[p] \in {"check", "serve"} /\ job'[p] = job[p] /\ record' = record /\ db' = db
        /\ box'.image = record.version /\ job[p].op \in {"upgrade", "rollback"}
    BY <1>0, <1>7 DEF Raised, files, Filed, Agree, Fits, Restoring, Asked
  <2> QED
    BY <2>1 DEF Runs, Sane, Settling, Undoing
<1>8. CASE Recoiled(p)
  BY <1>8 DEF Runs, Recoiled, SameTask, files, Settling, Undoing
<1> QED
  BY <1>1, <1>2, <1>3, <1>4, <1>5, <1>6, <1>7, <1>8 DEF Moved

LEMMA BundlesMove ==
  ASSUME TypeOK, JobsFit, NEW p \in Procs, pc[p] \in Inside, Moved(p), Apart(p), Runs(p), BundlesFit
  PROVE  BundlesFit'
<1>1. NoBundle.schema <= NoBundle.version /\ NoJob.bundle = NoBundle
  BY DEF NoBundle, NoJob
<1>2. \A b \in bundles' : b.schema <= b.version
  <2>1. bundles' \subseteq bundles \cup {job[p].bundle}
    BY DEF Moved, Planned, Walked, Dumped, GotLoaded, WriteCompose, WriteRecord, Raised, Recoiled, Left
  <2> QED
    BY <2>1 DEF BundlesFit
<1>3. job'[p].bundle.schema <= job'[p].bundle.version
  <2>1. CASE Dumped(p)
    <3>1. ~Restoring(p) /\ pc[p] = "dump"
      BY <2>1 DEF Dumped, JobsFit, Fits
    <3>2. Sane
      BY <3>1 DEF Runs, Settling, Undoing, Restoring
    <3> QED
      BY <1>1, <2>1, <3>2 DEF Dumped, Sane
  <2>2. CASE ~Dumped(p)
    <3>1. job'[p].bundle \in {NoBundle, job[p].bundle}
      BY <1>1, <2>2 DEF Moved, Planned, Walked, GotLoaded, WriteCompose, WriteRecord, Raised, Recoiled, Left
    <3> QED
      BY <1>1, <3>1 DEF BundlesFit
  <2> QED
    BY <2>1, <2>2
<1>4. ASSUME NEW q \in Procs \ {p} PROVE job'[q].bundle.schema <= job'[q].bundle.version
  BY DEF Apart, BundlesFit
<1> QED
  BY <1>2, <1>3, <1>4 DEF BundlesFit

Unbroken == scars \cap {"cut", "broken"} = {}

Truthful ==
  Unbroken =>
    /\ BundlesFit
    /\ lock = Nobody => Sane
    /\ \A p \in Procs : lock = p => Runs(p)

LEMMA TruthfulStep ==
  ASSUME "up_again" \notin Flaky, TypeOK, JobsFit, JobsAsked, Knowing, Filing, Truthful, [Next]_vars
  PROVE  Truthful'
<1> SUFFICES ASSUME Unbroken'
             PROVE  BundlesFit' /\ (lock' = Nobody => Sane') /\ \A q \in Procs : lock' = q => Runs(q)'
  BY DEF Truthful
<1>1. ASSUME NEW p \in Procs, lock = p, pc[p] \in Inside, Moved(p), Apart(p)
      PROVE  BundlesFit' /\ (lock' = Nobody => Sane') /\ \A q \in Procs : lock' = q => Runs(q)'
  <2>1. Unbroken
    BY <1>1, MovedScars DEF Unbroken
  <2>2. Informed(p) /\ Filed(p) /\ Runs(p) /\ BundlesFit
    BY <1>1, <2>1 DEF Knowing, Filing, Truthful, Unbroken
  <2>3. BundlesFit'
    BY <1>1, <2>2, BundlesMove
  <2>4. CASE Left(p)
    <3>1. /\ pc[p] # "record" /\ lock' = Nobody /\ record' = record /\ db' = db
          /\ box'.image = box.image \/ (pc[p] = "up" /\ job[p].op = "set_env" /\ box'.image = compose.version)
          /\ \/ ~Settling(p) /\ ~(job[p].op = "upgrade" /\ pc[p] = "up")
             \/ job[p].op = "rollback" /\ pc[p] = "write"
             \/ pc[p] = "serve" /\ db.schema = box.image
      BY <2>4 DEF Left, Unbroken, files
    <3>2. Sane
      <4>1. CASE pc[p] = "serve" /\ db.schema = box.image /\ Settling(p)
        BY <2>2, <4>1, Numbers DEF Filed, Sane
      <4> QED
        BY <2>2, <3>1, <4>1 DEF Runs
    <3>3. compose.version = record.version
      BY <2>2, <3>1 DEF Filed, Agree
    <3> QED
      BY <2>3, <3>1, <3>2, <3>3, NobodyIsNoProcess DEF Sane
  <2>5. CASE ~Left(p)
    BY <1>1, <2>2, <2>3, <2>5, RunsMoves, MovedLock, NobodyIsNoProcess
  <2> QED
    BY <2>4, <2>5
<1>2. ASSUME NEW p \in Procs, Entered(p), Outward(p), Apart(p)
      PROVE  BundlesFit' /\ (lock' = Nobody => Sane') /\ \A q \in Procs : lock' = q => Runs(q)'
  <2>1. /\ lock = Nobody /\ lock' = p /\ UNCHANGED <<record, db, box, bundles>> /\ Unbroken
        /\ job'[p].bundle = job[p].bundle
    BY <1>2 DEF Entered, Outward, files, Unbroken
  <2>2. Sane /\ BundlesFit
    BY <2>1 DEF Truthful
  <2>3. BundlesFit'
    BY <1>2, <2>1, <2>2 DEF BundlesFit, Apart
  <2>4. pc'[p] # "up" /\ (job'[p].op = "restore" => pc'[p] = "check")
    <3>1. pc'[p] = FirstStep(job[p].op) /\ job[p].op \in Operations /\ job'[p].op = job[p].op
      BY <1>2, EnteredInside DEF Entered
    <3> QED
      BY <3>1 DEF FirstStep, Operations
  <2> QED
    BY <2>1, <2>2, <2>3, <2>4, NobodyIsNoProcess DEF Runs, Sane
<1>3. CASE Aside
  <2>1. /\ lock' = lock /\ UNCHANGED <<record, bundles>> /\ box'.image = box.image /\ Unbroken
        /\ db' = db \/ db'.schema = box.image
    BY <1>3 DEF Aside, files, Unbroken
  <2>2. BundlesFit'
    <3>1. NoBundle.schema <= NoBundle.version
      BY DEF NoBundle
    <3> QED
      BY <1>3, <2>1, <3>1 DEF Aside, Truthful, BundlesFit
  <2>3. Sane => Sane'
    <3>1. record.version \in Nat
      BY DEF TypeOK, Records, Versions
    <3> QED
      BY <2>1, <3>1 DEF Sane
  <2>4. ASSUME NEW q \in Procs, lock = q PROVE Runs(q)'
    <3>1. pc'[q] = pc[q] /\ job'[q] = job[q] /\ Runs(q)
      BY <1>3, <2>1, <2>4 DEF Aside, Truthful
    <3> QED
      BY <2>1, <2>3, <3>1 DEF Runs, Settling, Undoing
  <2> QED
    BY <2>1, <2>2, <2>3, <2>4 DEF Truthful
<1> QED
  BY <1>1, <1>2, <1>3, LockMoves

LEMMA TruthBegins == Init => JobsAsked /\ Knowing /\ Filing /\ Truthful
<1> SUFFICES ASSUME Init PROVE JobsAsked /\ Knowing /\ Filing /\ Truthful
  OBVIOUS
<1>1. \A p \in Procs : job[p] = NoJob /\ pc[p] = "idle"
  BY DEF Init
<1>2. JobsAsked
  BY <1>1 DEF JobsAsked, Asked, NoJob
<1>3. lock = Nobody /\ record.version = 1 /\ compose.version = 1 /\ compose.env = record.env /\ box.image = 1
      /\ db.schema = 1 /\ bundles = {}
  BY DEF Init, NewWorkspace, NewDeployment
<1>4. BundlesFit
  BY <1>1, <1>3 DEF BundlesFit, NoJob, NoBundle
<1> QED
  BY <1>2, <1>3, <1>4, NobodyIsNoProcess DEF Knowing, Filing, Truthful, Agree, Sane

\* Between operations the record tells the truth of the compose file, of the
\* container and of the database, for any number of processes and versions.
\* Undoing an upgrade must not fail at its second `docker compose up`, whose
\* return code _rollback (services/upgrade.py) does not look at.
THEOREM TruthIsTold == ASSUME "up_again" \notin Flaky PROVE Spec => []RecordTellsTheTruth
<1>1. Filing /\ Truthful => RecordTellsTheTruth
  BY DEF Filing, Truthful, RecordTellsTheTruth, FilesAgree, RunsWhatIsRecorded, Agree, Stale, Sane, Unbroken
<1> QED
  BY <1>1, TruthBegins, TypeInv, AskedStep, KnowingStep, FilingStep, TruthfulStep, PTL DEF Spec

\* What a load has put into the database stays until the operation reports.
Kept(p) ==
  Restoring(p) /\ pc[p] \in After =>
    /\ pc[p] = "serve" => job[p].ok
    /\ job[p].ok /\ job[p].bundle.content = "whole" /\ scars \cap {"woken", "unstopped"} = {}
         => db.content \in {"whole", "merged"}

Keeping == \A p \in Procs : lock = p => Kept(p)

LEMMA KeptMoves ==
  ASSUME TypeOK, JobsFit, JobsAsked, DumpsAreQuiet, NEW p \in Procs, pc[p] \in Inside, Moved(p), ~Left(p), Kept(p)
  PROVE  Kept(p)'
<1>0. Asked(p) /\ Fits(p) /\ scars \subseteq scars'
  BY MovedScars DEF JobsAsked, JobsFit
<1>1. CASE Walked(p)
  <2>1. job'[p] = job[p] /\ (pc'[p] \in After => pc[p] \in After /\ db' = db) /\ (pc'[p] = "serve" => job[p].ok)
    BY <1>1 DEF Walked
  <2> QED
    BY <1>0, <2>1 DEF Kept, Restoring
<1>2. CASE GotLoaded(p)
  <2>1. /\ pc[p] = "load" /\ pc'[p] = "clear_drop" /\ scars' = scars
        /\ job'[p].bundle = job[p].bundle
        /\ db' = Loaded(job[p].bundle) \/ ~job'[p].ok
    BY <1>2 DEF GotLoaded
  <2>2. scars \cap {"woken", "unstopped"} = {} => ~box.up
    BY <2>1 DEF DumpsAreQuiet, Quiet
  <2>3. job[p].bundle.content = "whole" /\ ~box.up => Loaded(job[p].bundle).content \in {"whole", "merged"}
    BY DEF Loaded
  <2> QED
    BY <2>1, <2>2, <2>3 DEF Kept
<1>3. CASE Planned(p) \/ Dumped(p) \/ WriteCompose(p) \/ WriteRecord(p) \/ Raised(p) \/ Recoiled(p)
  <2>1. Dumped(p) => ~Restoring(p)'
    BY <1>0 DEF Dumped, Fits, SameTask, Restoring
  <2>2. Raised(p) /\ pc'[p] = "serve" => ~Restoring(p)'
    BY DEF Raised, Restoring
  <2>3. ~Dumped(p) => pc'[p] \notin After \/ (Raised(p) /\ pc'[p] = "serve")
    BY <1>3 DEF Planned, WriteCompose, WriteRecord, Raised, Recoiled, Goto, TypeOK, After
  <2> QED
    BY <2>1, <2>2, <2>3 DEF Kept
<1> QED
  BY <1>1, <1>2, <1>3 DEF Moved

LEMMA KeepingStep ==
  ASSUME "up_again" \notin Flaky, TypeOK, JobsFit, JobsAsked, DumpsAreQuiet, Keeping, [Next]_vars
  PROVE  Keeping'
<1> SUFFICES ASSUME NEW q \in Procs, lock' = q PROVE Kept(q)'
  BY DEF Keeping
<1>1. ASSUME NEW p \in Procs, lock = p, pc[p] \in Inside, Moved(p) PROVE Kept(q)'
  <2>1. ~Left(p) /\ q = p
    BY <1>1, MovedLock, NobodyIsNoProcess DEF Left
  <2> QED
    BY <1>1, <2>1, KeptMoves DEF Keeping
<1>2. ASSUME NEW p \in Procs, Entered(p), Outward(p) PROVE Kept(q)'
  <2>1. q = p /\ pc'[p] = FirstStep(job[p].op)
    BY <1>2 DEF Entered
  <2>2. FirstStep(job[p].op) \notin After
    BY <1>2, EnteredInside DEF FirstStep, Operations, After
  <2> QED
    BY <2>1, <2>2 DEF Kept
<1>3. CASE Aside
  BY <1>3 DEF Aside, Keeping, Kept, Restoring
<1> QED
  BY <1>1, <1>2, <1>3, LockMoves

\* Only wait_and_finalize ends a rollback well.
LEMMA OnlyServed ==
  ASSUME "up_again" \notin Flaky, TypeOK, JobsFit, JobsAsked, NEW p \in Procs, pc[p] \notin Over, pc'[p] = "ended",
         job[p].op \in {"rollback", "upgrade"}, Restoring(p), Next
  PROVE  Served(p)
<1>1. "ended" \in Over /\ "failed" # "ended"
  BY Ends
<1>2. Work(p)
  <2>1. ASSUME NEW q \in Procs, Work(q) \/ Die(q) PROVE q = p
    BY <1>1, <2>1, Others
  <2>2. ~Die(p)
    BY DEF Die, Finish, Goto, TypeOK
  <2>3. ~Migrate /\ ~Recover /\ ~(\E n \in rec : Repair(n)) /\ ~(\E n \in mended : Mend(n))
    BY <1>1 DEF Migrate, Recover, Repair, Mend
  <2> QED
    BY <2>1, <2>2, <2>3 DEF Next
<1> USE DEF TypeOK, Goto, Finish, Fail
<1>3. ~Quiescing(p)
  BY DEF Quiescing, NoMongo, NoteStopped, Quiesce, Dump, NoteDropped, Drop, Load, ClearDropped, StartAgain,
         AfterStart, ClearStopped, DataFailed
<1>4. ~Check(p) /\ ~Pack(p) /\ ~Restored(p) /\ ~LockTimeout(p)
  BY DEF Check, Pack, Restored, LockTimeout
<1>5. ~SetState(p)
  BY DEF SetState, JobsAsked, Asked
<1>6. \A o, b, to : ~Begin(p, o, b, to)
  BY DEF Begin
<1>7. ~Acquire(p)
  BY DEF Acquire, FirstStep, Locals, Operations
<1>8. ~Halt(p) /\ ~WriteCompose(p) /\ ~WriteRecord(p) /\ ~NoRestart(p)
  BY DEF Halt, WriteCompose, WriteRecord, NoRestart
<1>9. ~(\E backup \in BOOLEAN : Plan(p, backup))
  BY DEF Plan
<1>10. ~Recoil(p)
  BY DEF Recoil
<1>11. ~Up(p) /\ ~UpFails(p) /\ ~NotServed(p)
  <2>1. UpDone(p) => Goto(p, "check")
    BY DEF UpDone, Undoing, Restoring
  <2> QED
    BY <1>10, <2>1 DEF Up, UpFails, NotServed
<1> QED
  BY <1>2, <1>3, <1>4, <1>5, <1>6, <1>7, <1>8, <1>9, <1>11 DEF Work, Upgrading

LEMMA RollbackStep ==
  ASSUME "up_again" \notin Flaky, TypeOK, JobsFit, JobsAsked, Knowing, Filing, Keeping, [Next]_vars,
         NEW p \in Procs, pc[p] \notin Over, pc'[p] = "ended", job[p].op \in {"rollback", "upgrade"}, Restoring(p),
         NEW b, b = job[p].bundle
  PROVE  /\ "cut" \notin scars' =>
              box'.image = b.version /\ record'.version = b.version /\ compose'.version = b.version
              /\ db'.schema = b.version
         /\ b.content = "whole" /\ scars' \cap {"woken", "unstopped"} = {} => db'.content \in {"whole", "merged"}
<1>1. Next
  BY DEF vars, Over
<1>2. /\ pc[p] = "serve" /\ db.schema = box.image
      /\ UNCHANGED <<record, compose, box, db, scars>>
  BY <1>1, OnlyServed DEF Served, files
<1>3. lock = p
  BY <1>2 DEF TypeOK, Inside
<1>4. Settling(p) /\ (job[p].op = "upgrade" => Undoing(p))
  BY DEF Settling, Undoing, Restoring
<1>5. record.version = b.version
  BY <1>2, <1>3, <1>4 DEF Knowing, Informed
<1>6. "cut" \notin scars => box.image = record.version /\ compose.version = record.version
  BY <1>2, <1>3, <1>4 DEF Filing, Filed, Agree
<1>7. b.content = "whole" /\ scars \cap {"woken", "unstopped"} = {} => db.content \in {"whole", "merged"}
  BY <1>2, <1>3 DEF Keeping, Kept, After
<1> QED
  BY <1>2, <1>5, <1>6, <1>7

LEMMA RollbackBox ==
  ASSUME "up_again" \notin Flaky, TypeOK, JobsFit, JobsAsked, Knowing, Filing, Keeping, [Next]_vars
  PROVE  [\A p \in Procs : \A b \in {job[p].bundle} :
            pc[p] \notin Over /\ pc'[p] = "ended" /\ job[p].op \in {"rollback", "upgrade"} /\ Restoring(p)
              => RolledBackTo(b)']_vars
<1> SUFFICES ASSUME NEW p \in Procs, NEW b \in {job[p].bundle}, pc[p] \notin Over, pc'[p] = "ended",
                    job[p].op \in {"rollback", "upgrade"}, Restoring(p)
             PROVE  RolledBackTo(b)'
  OBVIOUS
<1> QED
  BY RollbackStep DEF RolledBackTo

\* A rollback, asked for or automatic, that reports success has put back image,
\* metadata, compose file and database (_rollback, services/upgrade.py), for any
\* number of processes and versions, under the condition of TruthIsTold.
THEOREM RollsBack == ASSUME "up_again" \notin Flaky PROVE Spec => RollbackRestores
<1>1. Init => JobsAsked /\ Knowing /\ Filing /\ Truthful /\ Keeping /\ DumpsAreQuiet
  BY TruthBegins, NobodyIsNoProcess DEF Keeping, Init, DumpsAreQuiet, Quiet
<1> QED
  BY <1>1, TypeInv, QuietStep, AskedStep, KnowingStep, FilingStep, KeepingStep, RollbackBox, PTL
     DEF Spec, RollbackRestores
=============================================================================
