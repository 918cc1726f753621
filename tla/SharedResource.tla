--------------------------- MODULE SharedResource ---------------------------
(***************************************************************************)
(* What is promised of a thing that exists once per cluster and serves     *)
(* every workspace on it (the MongoDB operator, the monitoring stack): it  *)
(* is removed only by a process that went and looked for users, and only   *)
(* under users that began to use it after that process began to look.      *)
(***************************************************************************)
CONSTANTS Users, Procs, NotCounted

VARIABLES
  up,       \* it is installed
  users,    \* who relies on it
  arrived   \* arrived[p]: who began to use it since p began to look, or NotCounted

vars == <<up, users, arrived>>

Init == /\ up = FALSE
        /\ users = {}
        /\ arrived = [p \in Procs |-> NotCounted]

Install == up' = TRUE /\ UNCHANGED <<users, arrived>>

Use(u) == /\ users' = users \cup {u}
          /\ arrived' = [p \in Procs |-> IF arrived[p] = NotCounted \/ u \in users
                                         THEN arrived[p] ELSE arrived[p] \cup {u}]
          /\ UNCHANGED up

Leave(S) == users' = users \ S /\ UNCHANGED <<up, arrived>>

\* p begins to look for users; how many calls the look takes is its affair.
Look(p) == arrived' = [arrived EXCEPT ![p] = {}] /\ UNCHANGED <<up, users>>

Remove(p) == /\ arrived[p] # NotCounted
             /\ users \subseteq arrived[p]
             /\ up' = FALSE
             /\ arrived' = [arrived EXCEPT ![p] = NotCounted]
             /\ UNCHANGED users

GiveUp(p) == arrived' = [arrived EXCEPT ![p] = NotCounted] /\ UNCHANGED <<up, users>>

\* The whole cluster goes, and its workspaces with it.
Vanish(p) == /\ up' = FALSE
             /\ users' = {}
             /\ arrived' = [arrived EXCEPT ![p] = NotCounted]

Next == \/ Install
        \/ \E u \in Users : Use(u)
        \/ \E S \in SUBSET Users : Leave(S)
        \/ \E p \in Procs : Look(p) \/ Remove(p) \/ GiveUp(p) \/ Vanish(p)

Spec == Init /\ [][Next]_vars
=============================================================================
