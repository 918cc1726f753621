----------------------------- MODULE ConfigFile -----------------------------
(***************************************************************************)
(* config.yaml, which threads and processes read, change and write back    *)
(* (config.py).  update_config holds a lock of the process and one of the  *)
(* file; what `serve` remembers of its own command line goes another way   *)
(* (cli.py:3504-3515).  Any process may die anywhere.                      *)
(***************************************************************************)
EXTENDS Naturals, FiniteSets

CONSTANTS Threads, ProcOf, Offers,    \* threads, their processes, and what each may do
          Env,                        \* RC_REPRO_* of a process, by key: a value or ""
          NoThread

Keys == {"default_repro", "acme_email", "bind_host", "reg_token"}
Processes == {ProcOf[t] : t \in Threads}

VARIABLES
  config,    \* config.yaml: the value of each key, "" where there is none
  mutex,     \* _CONFIG_LOCK of each process: who has it
  flock,     \* the lock on .config.lock: who has it
  at, ask,   \* where each thread is, and what it does
  cfg,       \* the dict it has loaded
  passed     \* threads that serve, which takes no lock, has overtaken since they loaded

vars == <<config, mutex, flock, at, ask, cfg, passed>>

Empty == [k \in Keys |-> ""]
NoAsk == [op |-> "none"]

Init ==
  /\ config = Empty
  /\ mutex = [p \in Processes |-> NoThread] /\ flock = NoThread
  /\ at = [t \in Threads |-> "idle"]
  /\ ask = [t \in Threads |-> NoAsk]
  /\ cfg = [t \in Threads |-> Empty] /\ passed = {}

\* load_config.
Loaded(t, with_env) ==
  [k \in Keys |-> IF with_env /\ Env[ProcOf[t]][k] # "" THEN Env[ProcOf[t]][k] ELSE config[k]]

\* What a caller of update_config makes of the file: `use` and a pinned create set
\* default_repro, `config set` and `config unset` a setting, and a workspace that
\* is removed is no longer the default (_clear_default_if).
Mutated(request, c) ==
  CASE request.op \in {"set", "remember"} -> [c EXCEPT ![request.key] = request.value]
    [] request.op = "unset"   -> [c EXCEPT ![request.key] = ""]
    [] request.op = "removed" -> IF c["default_repro"] = request.name
                                 THEN [c EXCEPT !["default_repro"] = ""] ELSE c

-----------------------------------------------------------------------------
\* serve loads with the environment, and holds no lock.
Call(t) ==
  /\ at[t] = "idle"
  /\ \E request \in Offers[t] :
       /\ ask' = [ask EXCEPT ![t] = request]
       /\ at' = [at EXCEPT ![t] = IF request.op = "remember" THEN "recall" ELSE "mutex"]
  /\ UNCHANGED <<config, mutex, flock, cfg, passed>>

\* Nothing is written when the address is known.
Recall(t) ==
  /\ at[t] = "recall"
  /\ LET loaded == Loaded(t, TRUE)
     IN  IF loaded[ask[t].key] = ask[t].value
         THEN /\ at' = [at EXCEPT ![t] = "idle"] /\ ask' = [ask EXCEPT ![t] = NoAsk]
              /\ UNCHANGED cfg
         ELSE /\ at' = [at EXCEPT ![t] = "save"] /\ cfg' = [cfg EXCEPT ![t] = loaded]
              /\ UNCHANGED ask
  /\ UNCHANGED <<config, mutex, flock, passed>>

TakeMutex(t) ==
  /\ at[t] = "mutex" /\ mutex[ProcOf[t]] = NoThread
  /\ mutex' = [mutex EXCEPT ![ProcOf[t]] = t]
  /\ at' = [at EXCEPT ![t] = "flock"]
  /\ UNCHANGED <<config, flock, ask, cfg, passed>>

\* Mutant of TakeFlock: without the lock of the file.
SkipFlock(t) ==
  /\ at[t] = "flock"
  /\ at' = [at EXCEPT ![t] = "load"]
  /\ UNCHANGED <<config, mutex, flock, ask, cfg, passed>>

TakeFlock(t) ==
  /\ at[t] = "flock" /\ flock = NoThread
  /\ flock' = t
  /\ at' = [at EXCEPT ![t] = "load"]
  /\ UNCHANGED <<config, mutex, ask, cfg, passed>>

Load(t) ==
  /\ at[t] = "load"
  /\ cfg' = [cfg EXCEPT ![t] = Loaded(t, FALSE)]
  /\ at' = [at EXCEPT ![t] = "save"]
  /\ UNCHANGED <<config, mutex, flock, ask, passed>>

\* The file is replaced whole, and then the locks are given back.
Save(t) ==
  /\ at[t] = "save"
  /\ config' = Mutated(ask[t], cfg[t])
  /\ mutex' = [p \in Processes |-> IF mutex[p] = t THEN NoThread ELSE mutex[p]]
  /\ flock' = IF flock = t THEN NoThread ELSE flock
  /\ at' = [at EXCEPT ![t] = "idle"]
  /\ ask' = [ask EXCEPT ![t] = NoAsk]
  /\ cfg' = [cfg EXCEPT ![t] = Empty]
  /\ passed' = IF ask[t].op = "remember" THEN (passed \cup {u \in Threads : at[u] = "save"}) \ {t}
             ELSE passed \ {t}

\* A process dies, and another takes its place.
Kill(p) ==
  LET dead == {t \in Threads : ProcOf[t] = p}
  IN  /\ \E t \in dead : at[t] # "idle"
      /\ mutex' = [mutex EXCEPT ![p] = NoThread]
      /\ flock' = IF flock \in dead THEN NoThread ELSE flock
      /\ at' = [t \in Threads |-> IF t \in dead THEN "idle" ELSE at[t]]
      /\ ask' = [t \in Threads |-> IF t \in dead THEN NoAsk ELSE ask[t]]
      /\ cfg' = [t \in Threads |-> IF t \in dead THEN Empty ELSE cfg[t]]
      /\ passed' = passed \ dead
      /\ UNCHANGED config

Next ==
  \/ \E t \in Threads : \/ Call(t) \/ Recall(t) \/ TakeMutex(t) \/ TakeFlock(t)
                        \/ Load(t) \/ Save(t)
  \/ \E p \in Processes : Kill(p)

-----------------------------------------------------------------------------
TypeOK ==
  /\ DOMAIN config = Keys
  /\ \A p \in Processes : mutex[p] = NoThread \/ ProcOf[mutex[p]] = p
  /\ flock \in Threads \cup {NoThread}
  /\ \A t \in Threads : at[t] \in {"idle", "recall", "mutex", "flock", "load", "save"}

\* SettingsChangeOneByOne: the file changes by one request at a time, done to
\* what the file is then, so that no setting is lost and no default of another
\* workspace is removed (config.py:173-184, 201-208).  What serve remembers of its
\* command line is left out, and whom it overtakes with that.
SettingsChangeOneByOne ==
  config' # config =>
    \E t \in Threads : /\ at[t] = "save"
                       /\ \/ ask[t].op = "remember"
                          \/ t \in passed
                          \/ config' = Mutated(ask[t], config)

\* WritesOnlyWhatWasAsked: the same of every writer, by the key that it was asked
\* to change.  The docstring of update_config says that a value of the
\* environment is never written (config.py:205-207); it does not hold.
WritesOnlyWhatWasAsked ==
  \A k \in Keys : config'[k] \in {"", config[k]} \cup
    {ask[t].value : t \in {u \in Threads : at[u] = "save" /\ ask[u].op \in {"set", "remember"} /\ ask[u].key = k}}
=============================================================================
