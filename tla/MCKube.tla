------------------------------- MODULE MCKube -------------------------------
(***************************************************************************)
(* Three parts of the Kubernetes runtime, of which a behaviour runs one.   *)
(*   cluster  two workspaces and two processes: one creates and monitors,  *)
(*            the other takes down, prunes and stops monitoring;           *)
(*   serving  `ready` of two workspaces while one of them is stopped and   *)
(*            started, and pids come to belong to other processes;         *)
(*   scaling  two processes stop, start and restart a workspace with two   *)
(*            workloads, and kubectl fails at will.                        *)
(***************************************************************************)
EXTENDS Kube, Sequences, TLC

CONSTANTS Parts,            \* the parts of this run
          Served, Scaled,   \* the workspaces of `serving` and of `scaling`, and who does what
          ArgvHidden,       \* kubectl is k3s, and /proc shows no arguments of it
          Nothing

VARIABLES part, scale, pods, noted, proc, recorded, wlock, at, call, intact

Serving == INSTANCE KubeServing WITH
  Works <- Served.works, Neighbours <- Served.neighbours, PortOf <- Served.portOf,
  Loads <- Served.loads, App <- Served.app, Counts <- Served.counts, Calls <- Served.calls, Pids <- Served.pids, NoPid <- 0,
  Refusals <- Served.refusals, MaxStrikes <- Served.strikes, Crashing <- Served.crashing,
  MaxOthers <- Served.others

Scaling == INSTANCE KubeServing WITH
  Works <- Scaled.works, Neighbours <- Scaled.neighbours, PortOf <- Scaled.portOf,
  Loads <- Scaled.loads, App <- Scaled.app, Counts <- Scaled.counts, Calls <- Scaled.calls, Pids <- Scaled.pids, NoPid <- 0,
  Refusals <- Scaled.refusals, MaxStrikes <- Scaled.strikes, Crashing <- Scaled.crashing,
  MaxOthers <- Scaled.others

served == <<scale, pods, noted, proc, recorded, wlock, at, call, intact>>
partVars == <<part, vars, served>>

MCInit == /\ part \in Parts /\ Init
          /\ IF part = "scaling" THEN Scaling!Init ELSE Serving!Init

InCluster == part = "cluster" /\ Next /\ UNCHANGED <<part, served>>
InServing == part = "serving" /\ Serving!Next /\ UNCHANGED <<part, vars>>
InScaling == part = "scaling" /\ Scaling!Next /\ UNCHANGED <<part, vars>>

MCNext == InCluster \/ InServing \/ InScaling

MCSpec == MCInit /\ [][MCNext]_partVars

TypesOK == /\ TypeOK
           /\ IF part = "scaling" THEN Scaling!TypeOK ELSE Serving!TypeOK

(* The properties of the parts, each stated and explained in its module.   *)
ReadyIsItself == [][part = "serving" => Serving!SaidOfItself]_partVars
OnlyItsForwardIsKilled == [][part = "serving" => Serving!KillsItsForward]_partVars
CountsComeBack == [][part = "scaling" => Scaling!BringsCountsBack]_partVars
-----------------------------------------------------------------------------
(* What the constants are.                                                 *)
Ops == {"ready", "stop", "start", "restart"}

\* A workload has replicas to begin with.
ASSUME ServedIs ==
  /\ \A p \in Procs : Served.calls[p] \subseteq [op : Ops, work : Served.works]
  /\ Serving!NoForward \cap Served.works = {} /\ Nothing \notin Served.works \cup Served.neighbours
  /\ Serving!Stranger \notin Served.neighbours /\ Serving!Other \notin Serving!RocketChats
ASSUME ScaledIs ==
  /\ \A p \in Procs : Scaled.calls[p] \subseteq [op : Ops, work : Scaled.works]
  /\ Scaled.loads # << >> /\ Scaled.loads \in Seq(Scaling!LoadSet)
  /\ Scaled.counts \in [Scaling!LoadSet -> Nat \ {0}]

\* What one theorem needs and the code does not see to: no workspace, on the
\* cluster or Compose's, has the port of one on the cluster.  `up --runtime
\* kubernetes --port N` looks at nobody else's ports (lifecycle.py:3568).
PortsGivenOnce == \A v \in Served.works \cup Served.neighbours, w \in Served.works :
  Served.portOf[v] = Served.portOf[w] => v = w
-----------------------------------------------------------------------------
(* The instance.                                                           *)
CONSTANTS a, b, composed, maker, taker, chat, mongo

MCCalls ==
  (maker :> ([op : {"create"}, name : {a}, operator : {FALSE}]
               \cup [op : {"create"}, name : {b}, operator : {TRUE}]
               \cup [op : {"attach"}, name : {b}]))
  @@ (taker :> ([op : {"down"}, name : {a}, volumes : {FALSE}]
               \cup [op : {"down"}, name : {a, b}, volumes : {TRUE}]
               \cup [op : {"detach"}, name : {a}]
               \cup [op : {"prune"}]))

\* Two workspaces of one workload, next to one of Compose.
MCServed ==
  [works |-> {a, b}, neighbours |-> {composed},
   portOf |-> (a :> 1) @@ (b :> 2) @@ (composed :> 3), loads |-> <<chat>>, app |-> chat,
   counts |-> (chat :> 1), pids |-> {1, 2}, refusals |-> {"bind"}, strikes |-> 2,
   crashing |-> {a}, others |-> 1,
   calls |-> (maker :> [op : {"ready"}, work : {a, b}]) @@ (taker :> [op : {"restart"}, work : {a}])]

\* One workspace of two.
MCScaled ==
  [works |-> {a}, neighbours |-> {}, portOf |-> (a :> 1), loads |-> <<mongo, chat>>, app |-> chat,
   counts |-> (mongo :> 1) @@ (chat :> 2), pids |-> {1},
   refusals |-> {"up", "down", "count", "annotate", "note"}, strikes |-> 2,
   crashing |-> {a}, others |-> 0,
   calls |-> (maker :> [op : {"stop", "start"}, work : {a}])
             @@ (taker :> [op : {"stop", "restart"}, work : {a}])]
=============================================================================
