----------------------------- MODULE KubeServing -----------------------------
(***************************************************************************)
(* Serving workspaces from a Kubernetes cluster: the port-forward that     *)
(* `ready` keeps alive (services/k8s.py, lifecycle.py                      *)
(* _wait_serving_kubernetes) and stop, start and restart, which scale the  *)
(* workloads to zero and back (_set_state_kubernetes).                     *)
(*                                                                         *)
(* A forward is a kubectl process.  It dies some time after its pod, other *)
(* programs listen on ports too, and the system hands out a dead process's *)
(* pid again.  `ready` takes no lock; the other commands hold the          *)
(* workspace's repro_lock.                                                 *)
(***************************************************************************)
EXTENDS Naturals, FiniteSets, Sequences

CONSTANTS Works,           \* the workspaces on the cluster
          Neighbours,      \* the Compose workspaces of the same home
          PortOf,          \* the port in the record of each of both
          Loads,           \* the workloads of a workspace, in kubectl's order
          App,             \* the Rocket.Chat deployment among them
          Counts,          \* Counts[l]: replicas a workspace was made with
          Procs, Calls,    \* processes of rc-repro; Calls[p]: what p may run
          Pids, NoPid,     \* pids of forwards and of other programs
          ArgvHidden,      \* kubectl is k3s: /proc shows no arguments of a forward
          Refusals,        \* the calls of kubectl that may fail
          MaxStrikes,      \* FOREIGN_PORT_STRIKES
          Crashing,        \* workspaces whose pods may crash
          MaxOthers,       \* bound: programs that are no forward, at once
          Free, Nothing

LoadSet == {Loads[i] : i \in 1..Len(Loads)}
Families == {"v4", "v6"}       \* localhost is asked for v4 first
Other == "other"               \* a program that is no forward and no Rocket.Chat
Stranger == "stranger"         \* a Rocket.Chat that is no workspace of this home
RocketChats == {Stranger} \cup Neighbours
NoForward == {Other} \cup RocketChats

VARIABLES
  scale,     \* scale[w][l]: replicas the cluster is asked for
  pods,      \* pods[w]: of Rocket.Chat, "gone", "starting" or "ready"
  noted,     \* noted[w]: SCALE_ANNOTATION, the counts noted before a stop
  proc,      \* proc[q]: the process with pid q
  recorded,  \* recorded[w]: port_forward_pid in the record
  wlock,     \* wlock[w]: holder of the workspace's repro_lock
  at, call,  \* the next step of each process, and its command
  intact     \* workspaces of which the last stop that noted anything noted all

cluster == <<scale, pods, noted>>
vars == <<cluster, proc, recorded, wlock, at, call, intact>>

NoProc == [into |-> Nothing, port |-> 0, on |-> {}, fresh |-> FALSE]
NoCall == [op |-> "none"]

\* pid is the forward that the record knew of; before what it will scale to.
Start(c) == [op |-> c.op, work |-> c.work, pid |-> recorded[c.work],
             strikes |-> 0, before |-> << >>, left |-> << >>]

Init ==
  /\ scale = [w \in Works |-> Counts]
  /\ pods = [w \in Works |-> "ready"]
  /\ noted = [w \in Works |-> << >>]
  /\ proc = [q \in Pids |-> NoProc]
  /\ recorded = [w \in Works |-> NoPid]
  /\ wlock = [w \in Works |-> Free]
  /\ at = [p \in Procs |-> "idle"] /\ call = [p \in Procs |-> NoCall]
  /\ intact = {}

-----------------------------------------------------------------------------
(* Processes and ports *)

Exists(q) == q # NoPid /\ proc[q] # NoProc
Listening(port, fam) == {q \in Pids : proc[q].port = port /\ fam \in proc[q].on}
FreeOn(port) == {fam \in Families : Listening(port, fam) = {}}
pid_owns_port(q, port) == proc[q].port = port /\ proc[q].on # {}

\* Who answers on localhost: the v4 listener, else the v6 one.
Answering(port) ==
  LET v4 == Listening(port, "v4") v6 == Listening(port, "v6") IN
  IF v4 # {} THEN CHOOSE q \in v4 : TRUE
  ELSE IF v6 # {} THEN CHOOSE q \in v6 : TRUE ELSE NoPid

\* rcapi.api_info: a Rocket.Chat answers, whichever it is: through a forward to
\* a pod that is there, a Compose workspace, or anyone's.
IsRocketChat(q) ==
  /\ Exists(q)
  /\ \/ proc[q].into \in Works /\ proc[q].fresh /\ pods[proc[q].into] = "ready"
     \/ proc[q].into \in RocketChats

\* Mutant of forward_alive: any forward will do, the namespace is not compared.
forward_alive_of_anyone(q, w, port) ==
  Exists(q) /\ proc[q].into \in Works /\ (port # 0 => proc[q].port = port)

\* The recorded pid is a forward into this namespace (and to this port, if the
\* caller names one).  With its arguments hidden: a kubectl that owns the port.
forward_alive(q, w, port) ==
  /\ Exists(q) /\ proc[q].into \in Works
  /\ IF ArgvHidden THEN port # 0 => pid_owns_port(q, port)
     ELSE proc[q].into = w /\ (port # 0 => proc[q].port = port)

-----------------------------------------------------------------------------
(* The world: pods, other programs, forwards that end *)

Detached(ws) == [q \in Pids |-> IF proc[q].into \in ws THEN [proc[q] EXCEPT !.fresh = FALSE]
                                ELSE proc[q]]
World == <<recorded, wlock, at, call, intact>>

PodUp == \E w \in Works :
  /\ pods[w] # "ready" /\ scale[w][App] > 0
  /\ pods' = [pods EXCEPT ![w] = IF @ = "gone" THEN "starting" ELSE "ready"]
  /\ UNCHANGED <<scale, noted, proc, World>>

PodCrashes == \E w \in Crashing :
  /\ pods[w] = "ready" /\ pods' = [pods EXCEPT ![w] = "starting"]
  /\ proc' = Detached({w})
  /\ UNCHANGED <<scale, noted, World>>

\* A forward whose pod is gone ends when it notices; another program when it
\* likes.  Such a program listens on IPv4 at least (lifecycle.py:3917-3922); a
\* Compose workspace on the port of its record, the others on any that matters.
\* Docker binds IPv4 alone (config.py DEFAULT_BIND_HOST).
Exit == \E q \in Pids :
  /\ Exists(q) /\ ~(proc[q].into \in Works /\ proc[q].fresh)
  /\ proc' = [proc EXCEPT ![q] = NoProc]
  /\ UNCHANGED <<cluster, World>>

OtherStarts == \E q \in Pids :
  /\ Cardinality({o \in Pids : proc[o].into \in NoForward}) < MaxOthers /\ ~Exists(q)
  /\ \E who \in NoForward, on \in {{"v4"}, Families},
        port \in {PortOf[w] : w \in Works \cup Neighbours} :
       /\ on \subseteq FreeOn(port)
       /\ IF who \in Neighbours THEN port = PortOf[who] /\ on = {"v4"}
          ELSE \E w \in Works : port = PortOf[w]
       /\ proc' = [proc EXCEPT ![q] = [into |-> who, port |-> port, on |-> on, fresh |-> TRUE]]
  /\ UNCHANGED <<cluster, World>>

-----------------------------------------------------------------------------
(* Every command *)

Go(p, step) == at' = [at EXCEPT ![p] = step]
Work(p) == call[p].work
Port(p) == PortOf[call[p].work]
Call(p, c) == call' = [call EXCEPT ![p] = c]

Finish(p) == /\ Go(p, "idle") /\ Call(p, NoCall)
             /\ wlock' = [w \in Works |-> IF wlock[w] = p THEN Free ELSE wlock[w]]

\* The record is read before any lock is taken.
Begin(p) == \E c \in Calls[p] :
  /\ at[p] = "idle"
  /\ Call(p, Start(c))
  /\ Go(p, IF c.op = "ready" THEN "look" ELSE "enter")
  /\ UNCHANGED <<cluster, proc, recorded, wlock, intact>>

\* A timeout, a pod that can never start, the lock held for too long.
GiveUp(p) ==
  /\ at[p] \in {"look", "forward", "enter", "served"}
  /\ Finish(p)
  /\ UNCHANGED <<cluster, proc, recorded, intact>>

Kill == \E p \in Procs :
  /\ at[p] # "idle"
  /\ Finish(p)
  /\ UNCHANGED <<cluster, proc, recorded, intact>>

-----------------------------------------------------------------------------
(* ready *)

workspace_ready(w) == pods[w] = "ready"

Look(p) ==
  /\ at[p] = "look" /\ workspace_ready(Work(p))
  /\ Go(p, "forward")
  /\ UNCHANGED <<cluster, proc, recorded, wlock, call, intact>>

\* The forward of the command is now q, or none.
Got(p, q, step) == Call(p, [call[p] EXCEPT !.pid = q]) /\ Go(p, step)

\* ensure_port_forward: kubectl takes what is free of the port, and ends if
\* nothing is or there is no pod.
Reattach(p) ==
  /\ at[p] = "forward" /\ forward_alive(call[p].pid, Work(p), Port(p))
  /\ Go(p, "ask")
  /\ UNCHANGED <<cluster, proc, recorded, wlock, call, intact>>

port_forward(p) ==
  /\ at[p] = "forward" /\ ~forward_alive(call[p].pid, Work(p), Port(p))
  /\ \/ \E q \in Pids, bound \in {TRUE} \cup (IF "bind" \in Refusals THEN {FALSE} ELSE {}) :
          /\ ~Exists(q) /\ FreeOn(Port(p)) # {} /\ pods[Work(p)] # "gone"
          /\ proc' = [proc EXCEPT ![q] = [into |-> Work(p), port |-> Port(p),
                                          on |-> FreeOn(Port(p)), fresh |-> TRUE]]
          /\ IF bound THEN Got(p, q, "record") ELSE Got(p, NoPid, "ask")
     \/ /\ FreeOn(Port(p)) = {} \/ pods[Work(p)] = "gone"
        /\ Got(p, NoPid, "ask") /\ UNCHANGED proc
  /\ UNCHANGED <<cluster, recorded, wlock, intact>>

Record(p) ==
  /\ at[p] = "record"
  /\ recorded' = [recorded EXCEPT ![Work(p)] = call[p].pid]
  /\ Go(p, "ask")
  /\ UNCHANGED <<cluster, proc, wlock, call, intact>>

\* Mutant of Accepted: a port that answers is enough, nobody asks what does.
AcceptedIfReachable(q) == q # NoPid

\* forward_reachable and api_info.
Accepted(q) == q # NoPid /\ IsRocketChat(q)

\* What answers is Rocket.Chat; or nothing does; or something else does, or
\* Rocket.Chat not yet, for the n-th time in a row.
Ask(p) ==
  LET q == Answering(Port(p)) n == call[p].strikes + 1 IN
  /\ at[p] = "ask"
  /\ \/ Accepted(q) /\ Go(p, "served") /\ UNCHANGED <<call, wlock>>
     \/ /\ q = NoPid /\ Go(p, "look")
        /\ Call(p, [call[p] EXCEPT !.strikes = 0]) /\ UNCHANGED wlock
     \/ /\ q # NoPid /\ n < MaxStrikes /\ Go(p, "look")
        /\ Call(p, [call[p] EXCEPT !.strikes = n]) /\ UNCHANGED wlock
     \/ q # NoPid /\ n = MaxStrikes /\ Finish(p)
  /\ UNCHANGED <<cluster, proc, recorded, intact>>

-----------------------------------------------------------------------------
(* stop, start and restart *)

Lossy(what) == what \in Refusals

Enter(p) ==
  /\ at[p] = "enter" /\ wlock[Work(p)] = Free
  /\ wlock' = [wlock EXCEPT ![Work(p)] = p]
  /\ Go(p, IF call[p].op = "start" THEN "read" ELSE "count")
  /\ UNCHANGED <<cluster, proc, recorded, call, intact>>

\* Mutant of Note: a stop that counted nothing notes that.
NoteAlways(w, before) == noted' = [noted EXCEPT ![w] = before]

Note(w, before) ==
  IF before = << >> THEN UNCHANGED noted ELSE noted' = [noted EXCEPT ![w] = before]

\* stop_workspace: the counts that are not zero, as far as they can be read,
\* are noted; whether they were is not looked at.
Annotate(p) == \E seen \in SUBSET LoadSet :
  LET w == Work(p)
      before == [l \in {k \in seen : scale[w][k] > 0} |-> scale[w][l]] IN
  /\ at[p] = "count" /\ (~Lossy("count") => seen = LoadSet)
  /\ \/ /\ Note(w, before)
        /\ intact' = CASE before = Counts -> intact \cup {w}
                       [] before = << >> -> intact
                       [] OTHER -> intact \ {w}
     \/ Lossy("annotate") /\ UNCHANGED noted /\ intact' = intact \ {w}
  /\ Go(p, "down")
  /\ UNCHANGED <<scale, pods, proc, recorded, wlock, call>>

\* scale_workspace: one call for all workloads; it may fail half-way.
ScaleDown(p) == \E done \in SUBSET LoadSet :
  /\ at[p] = "down" /\ (~Lossy("down") => done = LoadSet)
  /\ scale' = [scale EXCEPT ![Work(p)] = [l \in LoadSet |-> IF l \in done THEN 0 ELSE @[l]]]
  /\ IF App \in done THEN pods' = [pods EXCEPT ![Work(p)] = "gone"] /\ proc' = Detached({Work(p)})
     ELSE UNCHANGED <<pods, proc>>
  /\ Go(p, IF done = LoadSet THEN "forget" ELSE "leave")
  /\ UNCHANGED <<noted, recorded, wlock, call, intact>>

\* _stop_port_forward: of the pid read before the lock; the record's pid goes,
\* whichever it is by now.
Forget(p) ==
  LET q == call[p].pid w == Work(p) IN
  /\ at[p] = "forget"
  /\ IF q = NoPid THEN UNCHANGED <<proc, recorded>>
     ELSE /\ proc' = IF forward_alive(q, w, 0) THEN [proc EXCEPT ![q] = NoProc] ELSE proc
          /\ recorded' = [recorded EXCEPT ![w] = NoPid]
  /\ Go(p, IF call[p].op = "restart" THEN "read" ELSE "leave")
  /\ UNCHANGED <<cluster, wlock, call, intact>>

\* start_workspace: the note, and every workload that is there.
ReadNote(p) ==
  /\ at[p] = "read"
  /\ \/ Call(p, [call[p] EXCEPT !.before = noted[Work(p)], !.left = Loads])
        /\ UNCHANGED intact
     \/ /\ Lossy("note") /\ intact' = intact \ {Work(p)}
        /\ Call(p, [call[p] EXCEPT !.before = << >>, !.left = Loads])
  /\ Go(p, "up")
  /\ UNCHANGED <<cluster, proc, recorded, wlock>>

ScaleUp(p) ==
  LET w == Work(p) l == Head(call[p].left) counts == call[p].before IN
  /\ at[p] = "up"
  /\ \/ /\ scale' = [scale EXCEPT ![w][l] = IF l \in DOMAIN counts THEN counts[l] ELSE 1]
        /\ Call(p, [call[p] EXCEPT !.left = Tail(@)])
        /\ Go(p, IF Len(call[p].left) = 1 THEN "leave" ELSE "up")
     \/ Lossy("up") /\ Go(p, "leave") /\ UNCHANGED <<scale, call>>
  /\ UNCHANGED <<pods, noted, proc, recorded, wlock, intact>>

Leave(p) == /\ at[p] \in {"leave", "served"} /\ Finish(p)
            /\ UNCHANGED <<cluster, proc, recorded, intact>>

Step(p) ==
  \/ Begin(p) \/ GiveUp(p) \/ Look(p) \/ Reattach(p) \/ port_forward(p) \/ Record(p) \/ Ask(p)
  \/ Enter(p) \/ Annotate(p) \/ ScaleDown(p) \/ Forget(p) \/ ReadNote(p)
  \/ ScaleUp(p) \/ Leave(p)

Next == PodUp \/ PodCrashes \/ Exit \/ OtherStarts \/ Kill \/ \E p \in Procs : Step(p)

Spec == Init /\ [][Next]_vars

-----------------------------------------------------------------------------
TypeOK ==
  /\ \A w \in Works : /\ DOMAIN scale[w] = LoadSet
                      /\ \A l \in LoadSet : scale[w][l] \in 0..Counts[l]
                      /\ DOMAIN noted[w] \subseteq LoadSet
                      /\ recorded[w] \in Pids \cup {NoPid} /\ wlock[w] \in Procs \cup {Free}
                      /\ scale[w][App] = 0 => pods[w] = "gone"
  /\ \A port \in {PortOf[w] : w \in Works \cup Neighbours}, fam \in Families :
       Cardinality(Listening(port, fam)) <= 1
  /\ intact \subseteq Works

\* "is serving at <url>" is said of a workspace when it is that workspace that
\* answers there: the port may be held by another program, by a forward whose
\* pod is gone, or on one address family only (lifecycle.py:3880-3915).  Which
\* Rocket.Chat answers is never asked: one that is no workspace of this home
\* passes for the workspace, and so would a workspace of the same port.
SaidOfItself == \A p \in Procs :
  at[p] = "ask" /\ at'[p] = "served" =>
    LET q == Answering(Port(p)) IN
    /\ q # NoPid
    /\ \/ proc[q].into = Work(p) /\ pods[Work(p)] = "ready"
       \/ proc[q].into = Stranger
ReadyIsItself == [][SaidOfItself]_vars

\* stop ends no process but a forward of its workspace, although the pid it
\* knows may have died and be another process's by now (k8s.py:2910-2956).
KillsItsForward == \A p \in Procs, q \in Pids :
  at[p] = "forget" /\ at'[p] # "forget" /\ proc[q] # NoProc /\ proc'[q] = NoProc =>
    proc[q].into = Work(p)
OnlyItsForwardIsKilled == [][KillsItsForward]_vars

\* A start brings back the replicas the workspace had, whatever stops, starts
\* and restarts came before, killed ones too, unless the stop before it found
\* the workspace only partly up (k8s.py:4422-4427).
BringsCountsBack == \A p \in Procs :
  at[p] = "up" /\ at'[p] = "leave" /\ call'[p].left = << >> /\ Work(p) \in intact =>
    scale'[Work(p)] = Counts
CountsComeBack == [][BringsCountsBack]_vars
=============================================================================
