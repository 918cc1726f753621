------------------------------ MODULE Admission ------------------------------
(***************************************************************************)
(* Whether a host takes one more workspace: the gates a create passes      *)
(* before it makes anything (services/lifecycle.py), and what people were  *)
(* told beforehand, by capacity() on the console's home page and by        *)
(* `doctor` (services/doctor.py), which look at the same host with other   *)
(* code.  One command at a time: nothing orders two creates, and both may  *)
(* be let into room for one.  A workspace is taken to use the memory it is *)
(* charged.  The rows of doctor that no gate asks about are left out.      *)
(***************************************************************************)
EXTENDS Naturals, FiniteSets

CONSTANTS Boxes,      \* hosts: subset of Box
          Requests,   \* creates: subset of Request
          Memories    \* MB that other programs may leave available

Kinds == {"docker", "kubernetes-monolith", "kubernetes-microservices"}

WORKSPACE_MB == 1100
PRESET_MB == [default |-> 0, saml |-> 450]     \* no preset adds more than saml
MONITORING_MB == 280
CLUSTER_MB == 600
KUBE_CHART_MB == 500
MICROSERVICES_MB == 800
ENGINE_FLOOR_CPUS == 4
ENGINE_FLOOR_MEMORY == 6144                   \* 6.0 GiB

\* A tool is absent, older than its floor, or fit.  The own cluster answers
\* ("up"), is not in this home's kubeconfig ("elsewhere"), is dead, or there is
\* none; the user's current context answers, is dead, or there is none.  cpus and
\* engine are what the container engine has, memory in MB; 0 is what it does not say.
Tools == {"absent", "old", "fit"}
Box == [docker : BOOLEAN, compose : 0..2, kernel : {"old", "new"},
        total : Nat, available : Nat, ports : BOOLEAN, cpus : Nat, engine : Nat,
        kind : Tools, kubectl : Tools, helm : Tools,
        own : {"none", "dead", "elsewhere", "up"}, active : {"none", "dead", "up"},
        storage : {"default", "none", "refused"}]
Request == [kind : Kinds, preset : DOMAIN PRESET_MB, monitor : BOOLEAN, mongo8 : BOOLEAN,
            force : BOOLEAN, again : BOOLEAN, odd : BOOLEAN]  \* odd: not for Kubernetes

VARIABLES box,      \* the host
          made,     \* the kinds of which there are workspaces
          told,     \* what capacity and doctor said, and what was made since
          answer    \* of a create that was just refused: what was asked, and why

vars == <<box, made, told, answer>>

Unanswered == [known |-> FALSE]
None == [refusal |-> "no"]

Init == /\ box \in Boxes
        /\ made \in {{}, Kinds}
        /\ told = Unanswered /\ answer = None

Kubernetes(k) == k # "docker"

-----------------------------------------------------------------------------
(* Clusters: which one a create would use *)

which(t) == box[t] # "absent"
new_enough(t) == box[t] = "fit"
tools_ready == new_enough("kubectl") /\ new_enough("helm")
can_provision == new_enough("kind")

\* `kind get clusters` asks Docker.
ClustersKnown == which("kind") /\ box.docker
OwnExists == box.own # "none"

reachable(context) ==
  which("kubectl") /\ (IF context = "own" THEN box.own = "up" /\ box.docker ELSE box.active = "up")

NoPlan == [context |-> "none", create |-> FALSE]

\* A plan is refused where it has no context.
plan_cluster ==
  CASE ClustersKnown -> [context |-> "own", create |-> ~OwnExists]
    [] ~ClustersKnown /\ reachable("own") -> [context |-> "own", create |-> FALSE]
    [] ~ClustersKnown /\ ~reachable("own") /\ reachable("active") -> [context |-> "active", create |-> FALSE]
    [] OTHER -> NoPlan

\* ensure_kubeconfig and ensure_cluster: a cluster of another home is exported,
\* one that does not answer afterwards is a failure.
Usable(plan) ==
  IF plan.context = "active" THEN TRUE
  ELSE reachable("own") \/ (which("kind") /\ which("kubectl") /\ box.own \in {"none", "elsewhere"})

\* preflight: it stops where kind cannot be asked, whatever kubectl points at.
Looks(context) == /\ ~(can_provision /\ ~ClustersKnown)
                  /\ which("kubectl") /\ context # "none"
Sees(context, isUp) == Looks(context) /\ isUp

\* Called once the cluster is up: whether its volumes will bind.  They do in one
\* that kind has just made.
storage_blocker(plan) == Sees(plan.context, TRUE) /\ ~plan.create /\ box.storage # "default"

-----------------------------------------------------------------------------
(* Memory *)

Less(x, y) == IF x > y THEN x - y ELSE 0
host_reserve_mb == IF box.total \div 5 > 1024 THEN box.total \div 5 ELSE 1024
usable == Less(box.available, host_reserve_mb)

runtime_cost(k) ==
  [workspace_mb |-> WORKSPACE_MB + (IF Kubernetes(k) THEN KUBE_CHART_MB ELSE 0)
                      + (IF k = "kubernetes-microservices" THEN MICROSERVICES_MB ELSE 0),
   cluster_mb |-> IF Kubernetes(k) THEN CLUSTER_MB ELSE 0]

room == usable \div WORKSPACE_MB

\* Mutant of room_by_runtime: the cluster costs nothing.
RoomsBesideCluster(k) == usable \div runtime_cost(k).workspace_mb

room_by_runtime(k) ==
  Less(usable, runtime_cost(k).cluster_mb) \div runtime_cost(k).workspace_mb

will_provision(r) == Kubernetes(r.kind) /\ plan_cluster.create

kube_overhead_mb(r) ==
  IF ~Kubernetes(r.kind) THEN 0
  ELSE KUBE_CHART_MB + (IF will_provision(r) THEN CLUSTER_MB ELSE 0)
         + (IF r.kind = "kubernetes-microservices" THEN MICROSERVICES_MB ELSE 0)

\* What a create is charged.
Need(r) == WORKSPACE_MB + PRESET_MB[r.preset]
             + (IF r.monitor THEN MONITORING_MB ELSE 0) + kube_overhead_mb(r)

Short(given, floor) == given # 0 /\ given < floor
EngineIsShort == Short(box.cpus, ENGINE_FLOOR_CPUS) \/ Short(box.engine, ENGINE_FLOOR_MEMORY)
check_engine_floor(r) == r.force \/ ~will_provision(r) \/ ~EngineIsShort
check_memory(r) == r.force \/ Need(r) + host_reserve_mb <= box.available

-----------------------------------------------------------------------------
(* A create *)

require_docker == box.docker /\ box.compose >= 2
Unsupported(r) == r.odd
mongo_kernel_conflict(r) == r.mongo8 /\ box.kernel = "new"

Gate(name, holds) == [name |-> name, holds |-> holds]

\* The gates of a create, in the order in which it meets them.
DockerGates(r) ==
  << Gate("docker", require_docker),
     Gate("kernel", ~mongo_kernel_conflict(r)),
     Gate("memory", r.again \/ check_memory(r)),
     Gate("ports", (r.again /\ ~r.force) \/ box.ports) >>

KubernetesGates(r) ==
  << Gate("unsupported", ~Unsupported(r)),
     Gate("engine", check_engine_floor(r)),
     Gate("memory", check_memory(r)),
     Gate("ports", r.again \/ box.ports),
     Gate("plan", plan_cluster # NoPlan),
     Gate("cluster", Usable(plan_cluster)),
     Gate("storage", ~storage_blocker(plan_cluster)),
     Gate("helm", which("helm")) >>

Refusal(r) ==
  LET gates == IF Kubernetes(r.kind) THEN KubernetesGates(r) ELSE DockerGates(r)
      shut == {i \in DOMAIN gates : ~gates[i].holds}
  IN IF shut = {} THEN "no" ELSE gates[CHOOSE i \in shut : \A j \in shut : i <= j].name

Plain(r) == r.preset = "default" /\ ~r.monitor /\ ~r.force /\ ~r.again

\* What was said holds on for creates of one kind that add nothing to it.
StillTold(r) ==
  IF told # Unanswered /\ Plain(r) /\ told.since \in {"none", r.kind}
  THEN [told EXCEPT !.since = r.kind, !.made = @ + 1, !.fresh = FALSE]
  ELSE Unanswered

\* Where a create gets that far, its cluster is there and in the kubeconfig.
Provisioned(r) ==
  IF Kubernetes(r.kind) /\ plan_cluster.context = "own"
  THEN [box EXCEPT !.own = "up", !.storage = IF plan_cluster.create THEN "default" ELSE @]
  ELSE box

\* A refused create changes nothing, except that its cluster may be there by
\* then.  A workspace that is brought up again has its memory or takes it.
Create(r) ==
  LET refusal == Refusal(r) IN
  /\ r.again => r.kind \in made
  /\ answer' = IF refusal = "no" THEN None ELSE [request |-> r, refusal |-> refusal]
  /\ IF refusal = "no"
     THEN /\ made' = made \cup {r.kind}
          /\ \E mb \in {Need(r)} \cup (IF r.again THEN {0} ELSE {}) :
               box' = [Provisioned(r) EXCEPT !.available = Less(@, mb)]
          /\ told' = StillTold(r)
     ELSE /\ UNCHANGED made
          /\ IF refusal \in {"storage", "helm"}
             THEN box' = Provisioned(r) /\ told' = Unanswered ELSE UNCHANGED <<box, told>>

-----------------------------------------------------------------------------
(* What people are told *)

Row(check, status) == [check |-> check, status |-> status]
in_use == \E k \in made : Kubernetes(k)
needed == IF in_use THEN "fail" ELSE "warn"

EngineRows ==
  {Row("docker", IF box.docker THEN "ok" ELSE "fail"),
   Row("compose", IF box.compose >= 2 THEN "ok" ELSE "warn")}
  \cup (IF box.docker THEN {Row("engine-kernel", IF box.kernel = "new" THEN "warn" ELSE "ok")} ELSE {})

MemoryRows == {Row("memory", IF room >= 2 THEN "ok" ELSE "warn")}

PortRows == {Row("ports", IF box.ports THEN "ok" ELSE "fail")}

missing_tools == {t \in {"kubectl", "helm"} : ~which(t)}
outdated_tools == {t \in {"kind", "kubectl", "helm"} : which(t) /\ ~new_enough(t)}

ToolRows ==
  (IF missing_tools # {} THEN {Row("kubernetes-tools", "fail")} ELSE {})
  \cup (IF outdated_tools # {} THEN {Row("kubernetes-tools", needed)} ELSE {})
  \cup (IF tools_ready THEN {Row("kubernetes-tools", "ok")} ELSE {})

\* Without a plan, doctor speaks of the context kubectl has.
Context == IF plan_cluster # NoPlan THEN plan_cluster.context
           ELSE IF box.active = "none" THEN "none" ELSE "active"

StorageRows == {Row("kubernetes-storage", IF box.storage = "default" THEN "ok" ELSE needed)}

\* What is said of a cluster that does not answer, or is not there.
NoClusterRows ==
  CASE can_provision /\ ~ClustersKnown -> {Row("kubernetes-cluster", needed)}
    [] Looks(Context) /\ plan_cluster.create ->
         {Row("kubernetes-cluster", IF in_use THEN "warn" ELSE "ok")}
    [] Looks(Context) /\ ~plan_cluster.create ->
         {Row("kubernetes-cluster",
              IF Context = "own" /\ can_provision /\ OwnExists THEN "ok" ELSE needed)}
    [] Looks("own") /\ Context = "none" /\ tools_ready -> {Row("kubernetes-cluster", needed)}
    [] OTHER -> {}

ClusterRows ==
  IF Sees(Context, reachable(Context)) /\ ~plan_cluster.create
  THEN {Row("kubernetes-cluster", "ok")} \cup StorageRows ELSE NoClusterRows

\* A host without the tools is not set up for Kubernetes, which is no fault.
KubernetesRows ==
  IF missing_tools # {} /\ ~in_use THEN {Row("kubernetes-tools", "ok")}
  ELSE ToolRows \cup ClusterRows

run_checks == EngineRows \cup MemoryRows \cup PortRows \cup KubernetesRows

\* capacity() and run_checks().
Look ==
  /\ told' = [known |-> TRUE, rows |-> run_checks, rooms |-> [k \in Kinds |-> room_by_runtime(k)],
              since |-> "none", made |-> 0, fresh |-> TRUE]
  /\ answer' = None /\ UNCHANGED <<box, made>>

\* Somebody starts or stops something.
HostChanges ==
  /\ told' = Unanswered /\ answer' = None /\ UNCHANGED made
  /\ \/ \E mb \in Memories : box' = [box EXCEPT !.available = mb]
     \/ box' = [box EXCEPT !.docker = ~@]

Next == Look \/ HostChanges \/ \E r \in Requests : Create(r)

Spec == Init /\ [][Next]_vars

-----------------------------------------------------------------------------
TypeOK == /\ box \in Box /\ made \subseteq Kinds
          /\ told.known => told.rows \subseteq [check : STRING, status : {"ok", "warn", "fail"}]

\* The memory of the host is short for what is asked, or that of its engine.
WantsMemory(a) ==
  a.refusal = "memory" \/ (a.refusal = "engine" /\ Short(box.engine, ENGINE_FLOOR_MEMORY))

\* Room for n more workspaces of a kind means that n plain creates of it, one
\* after the other, are not refused for want of memory (lifecycle.py:228-234),
\* but for one thing: capacity() does not know the engine's floor, at which the
\* first of them is refused where it would make the cluster (363-371).
KeepsRoom ==
  told.known /\ WantsMemory(answer') /\ Plain(answer'.request)
    /\ told.since \in {"none", answer'.request.kind} =>
  \/ told.made >= told.rooms[answer'.request.kind]
  \/ told.made = 0 /\ answer'.refusal = "engine"

\* The rows that concern a create.
Concerns(k) == IF Kubernetes(k) THEN {"ports", "kubernetes-tools", "kubernetes-cluster", "kubernetes-storage"}
               ELSE {"docker", "compose", "engine-kernel", "memory", "ports"}
\* What doctor does not look at: the request itself, the engine's floor, and the
\* room for what is dearer than a Compose workspace.
Unasked(k) == {"no", "unsupported", "engine"} \cup (IF Kubernetes(k) THEN {"memory"} ELSE {})

\* A create that is refused was foretold by the report made just before it: a
\* row that is not well, or none on a cluster.  A cluster of rc-repro's own that
\* does not answer here is the exception: it is taken to be fine
\* (doctor.py:672-687).
Foretells ==
  LET k == answer'.request.kind IN
  told.known /\ told.fresh /\ answer'.refusal # "no" /\ answer'.refusal \notin Unasked(k) =>
    \/ \E row \in told.rows : row.check \in Concerns(k) /\ row.status # "ok"
    \/ Kubernetes(k) /\ (box.own \in {"dead", "elsewhere"}
                         \/ \A row \in told.rows : row.check # "kubernetes-cluster")

\* What capacity and doctor say of a create is what its gates do.
AdmissionIsForetold == [][KeepsRoom /\ Foretells]_vars
=============================================================================
