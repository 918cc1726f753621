---------------------------- MODULE MCReproLock ----------------------------
(***************************************************************************)
(* Two threads of `serve` and one CLI run, a workspace name and the box-   *)
(* wide "_ports" name that create takes inside it.                         *)
(***************************************************************************)
EXTENDS ReproLock, TLC

CONSTANTS serve, cli, t1, t2, t3, ws, ports

MCProcOf == (t1 :> serve) @@ (t2 :> serve) @@ (t3 :> cli)
=============================================================================
