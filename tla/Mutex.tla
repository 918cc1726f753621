------------------------------- MODULE Mutex -------------------------------
(***************************************************************************)
(* What `repro_lock` promises its callers, with no mechanism in it: every  *)
(* workspace name has at most one holding thread, the holder may enter     *)
(* again, and a holder that dies holds nothing.  ReproLock.tla implements  *)
(* this with a thread lock and a file lock.                                *)
(***************************************************************************)
EXTENDS Naturals

CONSTANTS Threads,   \* the threads of every rc-repro process on the box
          Names      \* the lock names: workspaces, and "_ports"

VARIABLE frames      \* frames[t][n]: how many `with repro_lock(n)` bodies t is in

Holds(t, n) == frames[t][n] > 0

Init == frames = [t \in Threads |-> [n \in Names |-> 0]]

Enter(t, n) ==
  /\ \A u \in Threads \ {t} : ~Holds(u, n)
  /\ frames' = [frames EXCEPT ![t][n] = @ + 1]

Leave(t, n) ==
  /\ Holds(t, n)
  /\ frames' = [frames EXCEPT ![t][n] = @ - 1]

\* A process dies with all of its threads.
Die(dead) ==
  frames' = [t \in Threads |-> IF t \in dead THEN [n \in Names |-> 0] ELSE frames[t]]

Next ==
  \/ \E t \in Threads, n \in Names : Enter(t, n) \/ Leave(t, n)
  \/ \E dead \in SUBSET Threads : Die(dead)

Spec == Init /\ [][Next]_frames
=============================================================================
