----------------------------- MODULE MCRestore -----------------------------
(* An upgrade or a backup, a restore or a rollback, and a third command, of  *)
(* one workspace, with one start of `serve` among them.                      *)
EXTENDS Restore, TLC

CONSTANTS p1, p2, p3

MCOps ==
  (p1 :> {"upgrade", "backup"}) @@ (p2 :> {"rollback", "restore", "start"}) @@ (p3 :> {"set_env", "stop"})

\* Every call but mongodump and the second `docker compose up` of an upgrade
\* that is undone.
MCFlaky == {"stop", "drop", "load", "start", "up", "wait"}
=============================================================================
