------------------------------- MODULE Bench --------------------------------
(***************************************************************************)
(* The throwaway workspace of a benchmark of one version, which bench_one  *)
(* (services/perf.py) makes and removes under a fixed name and without the *)
(* workspace lock, beside a person who makes and removes one of that name, *)
(* and the recovery of what a killed benchmark has left (journal.py).      *)
(***************************************************************************)
EXTENDS Naturals, FiniteSets

CONSTANTS Procs, Serves,   \* processes that run benchmarks; those that recover as they start
          MaxRuns          \* bound: benchmarks begun

VARIABLES
  record,    \* repro.json: "none", "bench" (extra.benchmark) or "own"
  boxes,     \* whose data the containers and volumes of the name hold
  notes,     \* benchmarks with a note in the journal
  pc, run,   \* where each process is, and the benchmark it runs or repairs
  rec,       \* the abandoned notes it has left to repair
  runs,      \* benchmarks begun
  before,    \* those of them begun before the person's workspace was made
  scars      \* "refused": a `down` whose outcome nobody looked at; "met": two at work at once

vars == <<record, boxes, notes, pc, run, rec, runs, before, scars>>

Init ==
  /\ record = "none" /\ boxes = {} /\ notes = {}
  /\ pc = [p \in Procs |-> "idle"] /\ run = [p \in Procs |-> 0] /\ rec = [p \in Procs |-> {}]
  /\ runs = 0 /\ before = {} /\ scars = {}

At(p, place) == pc[p] = place
Go(p, place) == pc' = [pc EXCEPT ![p] = place]
Stop(p) == /\ Go(p, "idle") /\ run' = [run EXCEPT ![p] = 0]

\* No lock keeps benchmarks of one version apart.
Meeting(p) == IF \A q \in Procs \ {p} : At(q, "idle") THEN {} ELSE {"met"}

Begin(p) ==
  /\ At(p, "idle") /\ rec[p] = {} /\ runs < MaxRuns
  /\ runs' = runs + 1 /\ run' = [run EXCEPT ![p] = runs + 1]
  /\ Go(p, "look") /\ scars' = scars \cup Meeting(p)
  /\ UNCHANGED <<record, boxes, notes, rec, before>>

\* A workspace that is not a benchmark's is left alone.
Look(p) ==
  /\ At(p, "look")
  /\ IF record = "own" THEN Stop(p)
     ELSE /\ Go(p, IF record = "none" THEN "note" ELSE "clear_old")
          /\ UNCHANGED run
  /\ UNCHANGED <<record, boxes, notes, rec, runs, before, scars>>

NoteBench(p) ==
  /\ At(p, "note")
  /\ notes' = notes \cup {run[p]}
  /\ Go(p, "write")
  /\ UNCHANGED <<record, boxes, run, rec, runs, before, scars>>

\* No port is found, or the record is written over what is there.
Write(p) ==
  /\ At(p, "write")
  /\ \/ Go(p, "down") /\ UNCHANGED record
     \/ Go(p, "up") /\ record' = "bench"
  /\ UNCHANGED <<boxes, notes, run, rec, runs, before, scars>>

\* compose up, which needs its file, and after a failure leaves some containers or none.
BenchUp(p) ==
  /\ At(p, "up")
  /\ \/ /\ record # "none"
        /\ boxes' = boxes \cup {"bench"} /\ Go(p, "work")
     \/ /\ boxes' \in {boxes, boxes \cup IF record # "none" THEN {"bench"} ELSE {}}
        /\ Go(p, "down")
  /\ UNCHANGED <<record, notes, run, rec, runs, before, scars>>

\* Rocket.Chat is awaited and seeded, or one of these raises.
Work(p) == /\ At(p, "work") /\ Go(p, "down")
           /\ UNCHANGED <<record, boxes, notes, run, rec, runs, before, scars>>

\* `down -v` of the benchmark before (clear_old), of this one (down) and of one that
\* was killed (mend).  docker may refuse, which nobody looks at.  Without the
\* workspace's directory the call raises, and the note stays.
BenchDown(p) ==
  /\ pc[p] \in {"clear_old", "down", "mend"}
  /\ \/ record = "none" /\ Stop(p) /\ UNCHANGED <<boxes, scars>>
     \/ /\ record # "none"
        /\ \/ boxes' = {} /\ UNCHANGED scars
           \/ boxes # {} /\ scars' = scars \cup {"refused"} /\ UNCHANGED boxes
        /\ Go(p, CASE At(p, "clear_old") -> "remove_old"
                   [] At(p, "down") -> "remove"
                   [] At(p, "mend") -> "remove_lost")
        /\ UNCHANGED run
  /\ UNCHANGED <<record, notes, rec, runs, before>>

Remove(p) ==
  /\ pc[p] \in {"remove_old", "remove", "remove_lost"}
  /\ record' = "none"
  /\ Go(p, IF At(p, "remove_old") THEN "note" ELSE "clear")
  /\ UNCHANGED <<boxes, notes, run, rec, runs, before, scars>>

\* The note goes last.  A recovery takes the next one.
ClearBench(p) ==
  /\ At(p, "clear")
  /\ notes' = notes \ {run[p]}
  /\ Stop(p)
  /\ UNCHANGED <<record, boxes, rec, runs, before, scars>>

-----------------------------------------------------------------------------
Running == {run[p] : p \in {q \in Procs : pc[q] # "idle"}}

\* `serve` starts and lists the notes whose process is gone.
Recover(p) ==
  /\ p \in Serves /\ At(p, "idle")
  /\ rec' = [rec EXCEPT ![p] = notes \ Running]
  /\ UNCHANGED <<record, boxes, notes, pc, run, runs, before, scars>>

\* journal._repair: without a record there is nothing left to remove.
Repair(p) ==
  /\ At(p, "idle")
  /\ \E n \in rec[p] :
       /\ rec' = [rec EXCEPT ![p] = @ \ {n}]
       /\ run' = [run EXCEPT ![p] = n]
       /\ Go(p, IF record = "none" THEN "clear" ELSE "mend")
  /\ scars' = scars \cup Meeting(p)
  /\ UNCHANGED <<record, boxes, notes, runs, before>>

\* No `finally` runs.
Kill(p) ==
  /\ pc[p] # "idle"
  /\ Stop(p) /\ rec' = [rec EXCEPT ![p] = {}]
  /\ UNCHANGED <<record, boxes, notes, runs, before, scars>>

\* A person makes a workspace of the name (one that is there is used), and removes
\* whatever it is, unless docker refuses.
Make ==
  /\ record = "none"
  /\ record' = "own" /\ boxes' = boxes \cup {"own"}
  /\ before' = 1 .. runs
  /\ UNCHANGED <<notes, pc, run, rec, runs, scars>>

TearDown ==
  /\ record # "none"
  /\ record' = "none" /\ boxes' = {}
  /\ UNCHANGED <<notes, pc, run, rec, runs, before, scars>>

Next ==
  \/ \E p \in Procs :
       \/ Begin(p) \/ Look(p) \/ NoteBench(p) \/ Write(p) \/ BenchUp(p) \/ Work(p)
       \/ BenchDown(p) \/ Remove(p) \/ ClearBench(p) \/ Recover(p) \/ Repair(p) \/ Kill(p)
  \/ Make \/ TearDown

-----------------------------------------------------------------------------
TypeOK ==
  /\ record \in {"none", "bench", "own"} /\ boxes \subseteq {"bench", "own"}
  /\ notes \subseteq 1 .. MaxRuns /\ before \subseteq 1 .. MaxRuns
  /\ run \in [Procs -> 0 .. MaxRuns] /\ rec \in [Procs -> SUBSET (1 .. MaxRuns)]
  /\ runs \in 0 .. MaxRuns /\ scars \subseteq {"refused", "met"}

\* BenchesAreNoted: the Rocket.Chat and the MongoDB of a benchmark, wherever it is
\* killed and whatever else runs, are in the journal, from which they are removed
\* (perf.py:500-503), unless docker once refused a `down` or two were at work at once.
BenchesAreNoted == "bench" \in boxes => notes # {} \/ scars # {}

\* OwnWorkspacesStay: a workspace that is there when a benchmark of its name begins is
\* neither written over nor removed by it or in its repair (perf.py:491-495).  One
\* that is made while the benchmark runs, or before a killed one is repaired, is.
OwnWorkspacesStay ==
  record = "own" /\ (record' # "own" \/ boxes' # boxes) =>
    TearDown \/ \E p \in Procs : pc'[p] # pc[p] /\ run[p] \in before
=============================================================================
