--------------------------- MODULE MCSideEffects ---------------------------
(***************************************************************************)
(* One pid for `serve`, one for CLI commands, against one workspace.       *)
(***************************************************************************)
EXTENDS SideEffects, TLC

CONSTANTS serve, cli

\* Only serve changes caps: two processes that do restore each other's.
MCOps == (serve :> {"loadtest", "loadtest_diag", "capacity", "seed"}) @@ (cli :> {"loadtest", "seed", "import"})

JustLoadTests == [p \in Procs |-> {"loadtest"}]

\* docker may refuse to change caps, and the calls of a seed or an import may fail.
MCFlaky == {<<"capacity", "caps">>, <<"none", "caps">>, <<"seed", "limiter">>, <<"seed", "email_2fa">>, <<"import", "limiter">>}

NeverFlaky == {}
=============================================================================
