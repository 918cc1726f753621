------------------------------- MODULE MCJobs -------------------------------
(***************************************************************************)
(* Two measurement jobs on one slot and a job without a pool; registry,    *)
(* queue and kept results small enough to overflow.                        *)
(***************************************************************************)
EXTENDS Jobs, TLC

CONSTANTS measure, j1, j2, j4

MCPoolOf == [j \in Jobs |-> IF j = j4 THEN NoPool ELSE measure]
MCSlots == measure :> 1
=============================================================================
