------------------------------- MODULE Ledger -------------------------------
(***************************************************************************)
(* What is promised of the state directory: whatever this program holds    *)
(* outside it is written down in it, from before the first resource exists *)
(* until after the last one is gone.  Every command starts from the        *)
(* records, so a workspace without one could be neither seen nor removed.  *)
(***************************************************************************)
CONSTANT Names

VARIABLES
  held,      \* the workspaces with resources in existence
  recorded   \* the workspaces with a record in the state directory

vars == <<held, recorded>>

Init == held = {} /\ recorded = {}

Record(w) == recorded' = recorded \cup {w} /\ UNCHANGED held

Take(w) == /\ w \in recorded
           /\ held' = held \cup {w}
           /\ UNCHANGED recorded

Release(S) == held' = held \ S /\ UNCHANGED recorded

Forget(w) == /\ w \notin held
             /\ recorded' = recorded \ {w}
             /\ UNCHANGED held

Next == \/ \E w \in Names : Record(w) \/ Take(w) \/ Forget(w)
        \/ \E S \in SUBSET Names : Release(S)

Spec == Init /\ [][Next]_vars
=============================================================================
