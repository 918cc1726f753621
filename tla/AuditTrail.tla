----------------------------- MODULE AuditTrail -----------------------------
(****************************************************************************)
(* audit.log and the files it was before (services/audit.py): every process *)
(* appends a line for what it was asked, and the one that finds the file    *)
(* full first moves each file one place on, the oldest over the end, with   *)
(* no lock.  An error, or a move that finds another has moved the file, is  *)
(* passed over in silence.                                                  *)
(****************************************************************************)
EXTENDS Naturals

CONSTANTS Writers,   \* threads of all processes
          MAX,       \* lines that fill the file (MAX_BYTES)
          KEEP,      \* files kept beside it
          None

VARIABLES log,       \* lines of audit.log, MAX for any more, or None
          kept,      \* the places at which there is a file
          moving,    \* moving[w]: the place it moves next, 0 for audit.log, or None
          ready,     \* the threads about to append
          crowded    \* two have rotated at once, and not all have finished

vars == <<log, kept, moving, ready, crowded>>

Init == /\ log = None /\ kept = {} /\ moving = [w \in Writers |-> None] /\ ready = {}
        /\ crowded = FALSE

Rotating(w) == moving[w] # None
Idle(w) == ~Rotating(w) /\ w \notin ready
Only(w) == \A v \in Writers \ {w} : ~Rotating(v)

\* record, or audit with a name: the size is read, and the file rotated first
\* where it is full.
record(w) ==
  /\ Idle(w)
  /\ IF log # None /\ log >= MAX
     THEN /\ moving' = [moving EXCEPT ![w] = KEEP - 1] /\ UNCHANGED ready
          /\ crowded' = (crowded \/ ~Only(w))
     ELSE ready' = ready \cup {w} /\ UNCHANGED <<moving, crowded>>
  /\ UNCHANGED <<log, kept>>

\* Done, or given up.
Rotated(w) ==
  /\ moving' = [moving EXCEPT ![w] = None] /\ ready' = ready \cup {w}
  /\ crowded' = (crowded /\ ~Only(w))

\* From the oldest file that is kept down to audit.log itself.
_rotate_if_needed(w) ==
  /\ Rotating(w) /\ moving[w] # 0
  /\ IF moving[w] \in kept
     THEN kept' = (kept \ {moving[w]}) \cup {moving[w] + 1} ELSE UNCHANGED kept
  /\ moving' = [moving EXCEPT ![w] = moving[w] - 1]
  /\ UNCHANGED <<log, ready, crowded>>
MoveLog(w) ==
  /\ moving[w] = 0
  /\ IF log = None THEN UNCHANGED <<log, kept>> ELSE log' = None /\ kept' = kept \cup {1}
  /\ Rotated(w)
GiveUp(w) ==
  /\ Rotating(w) /\ Rotated(w)
  /\ UNCHANGED <<log, kept>>

Append(w) ==
  /\ w \in ready /\ ready' = ready \ {w}
  /\ \/ log' = IF log = None THEN 1 ELSE IF log < MAX THEN log + 1 ELSE log
     \/ UNCHANGED log
  /\ UNCHANGED <<kept, moving, crowded>>

Killed(w) ==
  /\ ~Idle(w) /\ ready' = ready \ {w}
  /\ moving' = [moving EXCEPT ![w] = None] /\ crowded' = (crowded /\ ~Only(w))
  /\ UNCHANGED <<log, kept>>

Next == \E w \in Writers :
  record(w) \/ _rotate_if_needed(w) \/ MoveLog(w) \/ GiveUp(w) \/ Append(w) \/ Killed(w)
Spec == Init /\ [][Next]_vars

-----------------------------------------------------------------------------
\* A rotation throws away the oldest file and no other, however often rotations
\* are cut short ("keeping five", audit.py:81), unless two overlap: then
\* audit.log, a few lines long by now, may go over the newest one.
KeepsTheNewest ==
  \A w \in Writers :
    crowded \/ ~Rotating(w) \/ moving'[w] = moving[w] \/ kept' = kept
      \/ moving[w] + 1 \notin kept \/ moving[w] + 1 = KEEP
NewestSurvive == [][KeepsTheNewest]_vars

TypeOK == kept \subseteq 1 .. KEEP /\ moving \in [Writers -> (0 .. KEEP - 1) \cup {None}]
=============================================================================
