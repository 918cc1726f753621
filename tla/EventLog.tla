------------------------------ MODULE EventLog ------------------------------
(***************************************************************************)
(* The event log (services/eventlog.py): every thread of every command and *)
(* of `serve` appends lines to one file without a lock, and the one that   *)
(* finds it too big renames it over the one before, under a lock of the    *)
(* file.  A writer that has the file open follows it to its new name, and  *)
(* from there to nowhere.                                                  *)
(***************************************************************************)
EXTENDS Naturals

CONSTANTS Writers,   \* threads
          ProcOf,    \* their processes
          Cap,       \* lines that fill a file (max_bytes)
          MaxSize,   \* bound: lines of a file whose rotation keeps failing
          None

VARIABLES file,      \* file["here"], rc-repro.log, and file["old"], rc-repro.log.1:
                     \* their lines, or None
          counted,   \* _SIZE of a process, or None
          disabled,  \* _DISABLED of a process
          at,        \* where a thread is in _write
          fd,        \* the file it has open: "here", "old", "gone", or None
          flocked,   \* the threads that hold the lock of their file
          since      \* lines written since a thread has begun its line

vars == <<file, counted, disabled, at, fd, flocked, since>>

Procs == {ProcOf[w] : w \in Writers}

Init == /\ file = [f \in {"here", "old"} |-> None]
        /\ counted = [p \in Procs |-> None] /\ disabled = [p \in Procs |-> FALSE]
        /\ at = [w \in Writers |-> "idle"] /\ fd = [w \in Writers |-> None]
        /\ flocked = {} /\ since = [w \in Writers |-> 0]

Goto(w, step) == at' = [at EXCEPT ![w] = step]

\* open(path, O_CREAT | O_APPEND), or "a".
Open(w) ==
  /\ fd' = [fd EXCEPT ![w] = "here"]
  /\ file' = IF file["here"] = None THEN [file EXCEPT !["here"] = 0] ELSE file

\* A line begins: the size is read from the file once in a process, and counted
\* from then on.
Begin(w) ==
  LET p == ProcOf[w]
      known == IF counted[p] # None THEN counted[p] ELSE IF file["here"] = None THEN 0 ELSE file["here"]
  IN  /\ at[w] = "idle" /\ ~disabled[p]
      /\ counted' = [counted EXCEPT ![p] = known]
      /\ since' = [since EXCEPT ![w] = 0]
      /\ Goto(w, IF known > Cap THEN "rotate" ELSE "append")
      /\ UNCHANGED <<file, disabled, fd, flocked>>

\* _rotate, which may fail at the first call, and then the size starts anew.
OpenToRotate(w) ==
  /\ at[w] = "rotate"
  /\ Open(w) /\ Goto(w, "flock")
  /\ UNCHANGED <<counted, disabled, flocked, since>>
Rotated(w) ==
  /\ Goto(w, "append") /\ fd' = [fd EXCEPT ![w] = None] /\ flocked' = flocked \ {w}
  /\ counted' = [counted EXCEPT ![ProcOf[w]] = 0]
RotateFails(w) ==
  /\ at[w] = "rotate" /\ Rotated(w)
  /\ UNCHANGED <<file, disabled, since>>
Flock(w) ==
  /\ at[w] = "flock" /\ \A v \in flocked : fd[v] # fd[w]
  /\ flocked' = flocked \cup {w} /\ Goto(w, "stat")
  /\ UNCHANGED <<file, counted, disabled, fd, since>>

\* Mutant of Overgrown: whoever has the lock rotates.
Whatever(w) == file["here"] # None

\* The file that has the name now, which need not be the one that is locked.
Overgrown(w) == file["here"] # None /\ file["here"] > Cap

Stat(w) ==
  /\ at[w] = "stat"
  /\ IF Overgrown(w) THEN Goto(w, "replace") /\ UNCHANGED <<fd, flocked, counted>> ELSE Rotated(w)
  /\ UNCHANGED <<file, disabled, since>>
\* Who has the file open, has the one before then.
Followed(w) ==
  [v \in Writers |-> CASE v = w -> None [] v # w /\ fd[v] = "here" -> "old"
                       [] v # w /\ fd[v] = "old" -> "gone" [] v # w /\ fd[v] \notin {"here", "old"} -> fd[v]]
Replace(w) ==
  /\ at[w] = "replace" /\ Goto(w, "append")
  /\ flocked' = flocked \ {w} /\ counted' = [counted EXCEPT ![ProcOf[w]] = 0]
  /\ IF file["here"] = None THEN UNCHANGED file /\ fd' = [fd EXCEPT ![w] = None]
     ELSE file' = [file EXCEPT !["old"] = file["here"], !["here"] = None] /\ fd' = Followed(w)
  /\ UNCHANGED <<disabled, since>>

\* One write of one line; an error of the open turns the log off in the process.
OpenToAppend(w) ==
  /\ at[w] = "append"
  /\ Open(w) /\ Goto(w, "write")
  /\ UNCHANGED <<counted, disabled, flocked, since>>
OpenFails(w) ==
  /\ at[w] = "append" /\ Goto(w, "idle")
  /\ disabled' = [disabled EXCEPT ![ProcOf[w]] = TRUE]
  /\ UNCHANGED <<file, counted, fd, flocked, since>>

\* Bound: nobody is held up within its line while others fill a whole file.
Prompt(w) == \A v \in Writers \ {w} : at[v] # "idle" => since[v] < Cap
Write(w) ==
  /\ at[w] = "write" /\ Prompt(w)
  /\ fd[w] # "gone" => file[fd[w]] < MaxSize
  /\ file' = IF fd[w] = "gone" THEN file ELSE [file EXCEPT ![fd[w]] = @ + 1]
  /\ since' = [v \in Writers |-> IF at[v] = "idle" \/ v = w THEN 0 ELSE since[v] + 1]
  /\ counted' = [counted EXCEPT ![ProcOf[w]] = @ + 1]
  /\ Goto(w, "idle") /\ fd' = [fd EXCEPT ![w] = None]
  /\ UNCHANGED <<disabled, flocked>>

\* A process ends, killed or not, and the next of its kind begins.
Ends(p) ==
  LET own == {w \in Writers : ProcOf[w] = p}
  IN  /\ counted[p] # None
      /\ at' = [w \in Writers |-> IF w \in own THEN "idle" ELSE at[w]]
      /\ fd' = [w \in Writers |-> IF w \in own THEN None ELSE fd[w]]
      /\ since' = [w \in Writers |-> IF w \in own THEN 0 ELSE since[w]]
      /\ flocked' = flocked \ own
      /\ counted' = [counted EXCEPT ![p] = None] /\ disabled' = [disabled EXCEPT ![p] = FALSE]
      /\ UNCHANGED file

Line(w) == \/ Begin(w) \/ OpenToRotate(w) \/ RotateFails(w) \/ Flock(w) \/ Stat(w) \/ Replace(w)
           \/ OpenToAppend(w) \/ OpenFails(w) \/ Write(w)
Next == (\E w \in Writers : Line(w)) \/ (\E p \in Procs : Ends(p))
Spec == Init /\ [][Next]_vars

-----------------------------------------------------------------------------
\* A file of the log is thrown away only for a full one, and no line is written
\* where nobody will read it: two that find the file too big at once do not
\* rotate twice (eventlog.py:171-173).
KeepsTheNewest ==
  /\ file["here"] # None /\ file'["here"] = None => file["here"] > Cap
  /\ \A w \in Writers : at[w] = "write" /\ at'[w] = "idle" => fd[w] # "gone" \/ counted'[ProcOf[w]] = None
NewestSurvive == [][KeepsTheNewest]_vars

TypeOK == /\ fd \in [Writers -> {"here", "old", "gone", None}]
          /\ \A v, w \in flocked : fd[v] = fd[w] => v = w
=============================================================================
