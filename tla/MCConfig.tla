------------------------------ MODULE MCConfig ------------------------------
(***************************************************************************)
(* `serve --domain D --email E`, started with RC_REPRO_REG_TOKEN set.      *)
(***************************************************************************)
EXTENDS ConfigFile, TLC

CONSTANTS serve, main

MCProcOf == main :> serve
MCEnv == serve :> [Empty EXCEPT !["reg_token"] = "token"]
MCOffers == main :> [op : {"remember"}, key : {"acme_email"}, value : {"ann"}]

Spec == Init /\ [][Next]_vars

\* A value of the environment never reaches the file (config.py:205-207).
EnvironmentStaysOut == [][WritesOnlyWhatWasAsked]_vars
=============================================================================
