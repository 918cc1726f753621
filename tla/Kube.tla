-------------------------------- MODULE Kube --------------------------------
(***************************************************************************)
(* Workspaces on a Kubernetes cluster that rc-repro made (services/k8s.py  *)
(* and the Kubernetes half of services/lifecycle.py and monitor.py): one   *)
(* cluster, a namespace per workspace, and two helm releases that all of   *)
(* them share.  Every process runs one command at a time; between its      *)
(* kubectl, helm and kind calls any other process may take a step.         *)
(*                                                                         *)
(* A call may be refused (a timeout, RBAC, a control plane restarting) if  *)
(* "refused" is in Faults; the cluster's API may fail to answer a probe if *)
(* "unreachable" is.  A refused read is never the answer "nothing there".  *)
(***************************************************************************)
EXTENDS Naturals, FiniteSets

CONSTANTS Names,       \* workspaces
          Procs,       \* processes that share one RC_REPRO_HOME
          Calls,       \* Calls[p]: the commands p may run, as Jobs
          Faults,      \* which calls may fail: a subset of {"refused", "unreachable"}
          MaxKills,    \* bound: processes killed
          Free,        \* no process
          NotCounted   \* no count of a shared release's users is under way

ASSUME FreeIsNoProcess == Free \notin Procs
ASSUME BoundedKills == MaxKills \in Nat

Shared == {"operator", "monitoring"}

\* A workspace's release and a shared one never go by the same name.
ASSUME OwnReleases == Names \cap Shared = {}
ASSUME NotCountedIsNoCount == NotCounted \notin Shared /\ \A S \in SUBSET Names : S # NotCounted

Pending == {"first", "later"}    \* pending-install; pending-upgrade or -rollback

VARIABLES
  cluster,   \* the kind cluster exists
  ns,        \* ns[w]: the namespace; "bare" is created and not labelled yet
  work,      \* work[w]: "mongo" workload, "custom" resource, "data" volume
  wants,     \* wants[w]: the namespace is labelled as wanting monitoring
  helm,      \* helm[r]: state of a shared release or of a workspace's own
  record,    \* record[w]: repro.json
  lock,      \* lock[w]: holder of the workspace's repro_lock
  clock,     \* holder of CLUSTER_LOCK
  pc, job,   \* the next step of each process, and its command
  since,     \* since[p]: what p knows of the users of the release it counts
  kills

kube == <<cluster, ns, work, wants, helm>>
locks == <<lock, clock>>
vars == <<kube, record, locks, pc, job, since, kills>>

\* The steps at which a process is about a shared release.
beginAt == [operator |-> "begin operator", monitoring |-> "begin monitoring"]
helmAt == [operator |-> "helm operator", monitoring |-> "helm monitoring"]
countAt == [operator |-> "count operator", monitoring |-> "count monitoring"]
listAt == [operator |-> "list operator", monitoring |-> "list monitoring"]
removeAt == [operator |-> "remove operator", monitoring |-> "remove monitoring"]

NoJob == [op |-> "none"]

\* what |-> the release being counted; left |-> the namespaces still to be
\* asked; who |-> those that became users after the count began.
Idle == [what |-> NotCounted, left |-> {}, who |-> {}]
Count(r, asked) == [what |-> r, left |-> asked, who |-> {}]

Jobs == [op : {"create"}, name : Names, operator : BOOLEAN]
          \cup [op : {"down"}, name : Names, volumes : BOOLEAN]
          \cup [op : {"attach", "detach"}, name : Names]
          \cup [op : {"prune"}]

ASSUME CallsAreJobs == \A p \in Procs : Calls[p] \subseteq Jobs

\* What a command knows as it begins.
Begun(j) ==
  CASE j.op = "create" -> [op |-> "create", name |-> j.name, operator |-> j.operator,
                           hadCluster |-> TRUE, hadNs |-> TRUE, found |-> {}]
    [] j.op = "prune" -> [op |-> "prune", targets |-> {}]
    [] OTHER -> j

Init ==
  /\ cluster = FALSE
  /\ ns = [w \in Names |-> "absent"]
  /\ work = [w \in Names |-> {}]
  /\ wants = [w \in Names |-> FALSE]
  /\ helm = [r \in Names \cup Shared |-> "none"]
  /\ record = [w \in Names |-> "none"]
  /\ lock = [w \in Names |-> Free] /\ clock = Free
  /\ pc = [p \in Procs |-> "idle"] /\ job = [p \in Procs |-> NoJob]
  /\ since = [p \in Procs |-> Idle]
  /\ kills = 0

-----------------------------------------------------------------------------
(* What the cluster answers.                                               *)

MayRefuse == "refused" \in Faults \/ ~cluster

\* workspace_namespaces: those with the owner label, whatever their phase.
Labelled == {w \in Names : ns[w] \in {"active", "terminating"}}

\* mongodb_resources: the namespaces that hold a MongoDBCommunity.
MongodbResources == {w \in Names : "custom" \in work[w]}

\* The operator is for those that hold a resource, the stack for those marked.
UsersOf(r) == IF r = "operator" THEN MongodbResources ELSE {w \in Labelled : wants[w]}

Deployed(r) == helm[r] = "deployed"
Serves(r) == helm[r] \in {"deployed", "later"}

\* Nothing can be created in a namespace that is going or not there.
Accepts(w) == cluster /\ ns[w] = "active"

-----------------------------------------------------------------------------
(* The control of a process.                                               *)

Name(p) == job[p].name
At(p, l) == pc[p] = l
Go(p, l) == pc' = [pc EXCEPT ![p] = l]

\* The command returns or raises; its locks go with it.
Finish(p) ==
  /\ pc' = [pc EXCEPT ![p] = "idle"]
  /\ job' = [job EXCEPT ![p] = NoJob]
  /\ lock' = [w \in Names |-> IF lock[w] = p THEN Free ELSE lock[w]]
  /\ clock' = IF clock = p THEN Free ELSE clock
  /\ since' = [since EXCEPT ![p] = Idle]
  /\ UNCHANGED kills

\* The process goes on to l, holding what it held.
To(p, l) == Go(p, l) /\ UNCHANGED <<job, locks, since, kills>>

Call(p) ==
  \E j \in Calls[p] :
    /\ At(p, "idle")
    /\ job' = [job EXCEPT ![p] = Begun(j)]
    /\ j.op \in {"down", "attach", "detach"} => record[j.name] # "none"
    /\ IF j.op \in {"create", "down"}
       THEN lock[j.name] = Free /\ lock' = [lock EXCEPT ![j.name] = p]
       ELSE UNCHANGED lock
    /\ Go(p, CASE j.op = "create" -> "plan" [] j.op = "down" -> "delete"
               [] j.op = "prune" -> "list" [] j.op = "attach" -> "begin monitoring"
               [] OTHER -> "unlabel")
    /\ UNCHANGED <<kube, record, clock, since, kills>>

-----------------------------------------------------------------------------
(* _create_kubernetes and create_workspace.                                *)

\* plan_cluster: kind is asked what exists; if it cannot be, nothing else is
\* there to adopt and the create is refused.
PlanCluster(p) ==
  /\ At(p, "plan")
  /\ \/ "refused" \in Faults /\ Finish(p)
     \/ /\ job' = [job EXCEPT ![p].hadCluster = cluster]
        /\ Go(p, IF cluster THEN "kubeconfig" ELSE "record")
        /\ UNCHANGED <<locks, since, kills>>
  /\ UNCHANGED <<kube, record>>

\* ensure_kubeconfig, before the preflight and again in create_workspace.  A
\* cluster that answers is used; otherwise ensure_cluster makes it, or fails
\* because it exists and does not answer.
EnsureCluster(p) ==
  /\ pc[p] \in {"kubeconfig", "cluster"}
  /\ \/ /\ cluster
        /\ To(p, IF At(p, "kubeconfig") THEN "preflight" ELSE "had")
        /\ UNCHANGED cluster
     \/ /\ ~cluster /\ clock = Free
        /\ cluster' = TRUE
        /\ To(p, IF At(p, "kubeconfig") THEN "preflight" ELSE "had")
     \/ /\ {"refused", "unreachable"} \cap Faults # {}
        /\ Finish(p) /\ UNCHANGED cluster
  /\ UNCHANGED <<ns, work, wants, helm, record>>

\* assert_namespace_available: refused if it is going or not labelled ours.
AssertNamespaceAvailable(p) ==
  /\ At(p, "preflight")
  /\ \/ MayRefuse /\ Finish(p)
     \/ cluster /\ ns[Name(p)] \in {"terminating", "bare"} /\ Finish(p)
     \/ cluster /\ ns[Name(p)] \in {"absent", "active"} /\ To(p, "record")
  /\ UNCHANGED <<kube, record>>

\* repro.json is written, marked incomplete, before any resource exists.
WriteAhead(p) ==
  /\ At(p, "record")
  /\ record' = [record EXCEPT ![Name(p)] = "incomplete"]
  /\ To(p, "cluster")
  /\ UNCHANGED kube

\* Mutant of HadNamespace: a refused list reads as an empty one.
RefusedIsEmpty(p) ==
  /\ At(p, "had")
  /\ \/ "refused" \in Faults /\ Finish(p)
     \/ /\ \E had \in BOOLEAN :
             /\ had => cluster /\ Name(p) \in Labelled
             /\ ~had => MayRefuse \/ Name(p) \notin Labelled
             /\ job' = [job EXCEPT ![p].hadNs = had, ![p].found = work[Name(p)]]
        /\ Go(p, "namespace")
        /\ UNCHANGED <<locks, since, kills>>
  /\ UNCHANGED <<kube, record>>

\* After the storage check, whether the namespace was there decides what a
\* failure may undo.  A refused list counts as "it was there".
HadNamespace(p) ==
  /\ At(p, "had")
  /\ \/ "refused" \in Faults /\ Finish(p)    \* storage_blocker
     \/ /\ \E had \in BOOLEAN :
             /\ had => MayRefuse \/ Name(p) \in Labelled
             /\ ~had => cluster /\ Name(p) \notin Labelled
             /\ job' = [job EXCEPT ![p].hadNs = had, ![p].found = work[Name(p)]]
        /\ Go(p, "namespace")
        /\ UNCHANGED <<locks, since, kills>>
  /\ UNCHANGED <<kube, record>>

\* ensure_namespace, which raises outside create_workspace's try.
EnsureNamespace(p) ==
  LET w == Name(p) IN
  /\ At(p, "namespace")
  /\ \/ MayRefuse /\ Finish(p) /\ UNCHANGED ns
     \/ cluster /\ ns[w] = "bare" /\ Finish(p) /\ UNCHANGED ns
     \/ /\ cluster /\ ns[w] # "bare"
        /\ ns' = [ns EXCEPT ![w] = IF @ = "absent" THEN "bare" ELSE @]
        /\ To(p, "label")
  /\ UNCHANGED <<cluster, work, wants, helm, record>>

\* A workspace becomes a user of a release that others may be counting.
Arrives(r, w) ==
  since' = [q \in Procs |-> IF since[q].what = r /\ w \notin UsersOf(r)
                            THEN [since[q] EXCEPT !.who = @ \cup {w}] ELSE since[q]]

\* It may have been marked as wanting monitoring already, and is seen from now on.
LabelNamespace(p) ==
  LET w == Name(p) IN
  /\ At(p, "label")
  /\ \/ (MayRefuse \/ ns[w] = "absent") /\ Finish(p) /\ UNCHANGED ns
     \/ /\ cluster /\ ns[w] # "absent"
        /\ ns' = [ns EXCEPT ![w] = IF @ = "bare" THEN "active" ELSE @]
        /\ Go(p, IF job[p].operator THEN "begin operator" ELSE "mongo")
        /\ IF wants[w] THEN Arrives("monitoring", w) ELSE UNCHANGED since
        /\ UNCHANGED <<job, locks, kills>>
  /\ UNCHANGED <<cluster, work, wants, helm, record>>

\* apply(): the StatefulSet, or the MongoDBCommunity resource and its secrets.
ApplyMongo(p) ==
  LET w == Name(p) IN
  /\ pc[p] \in {"mongo", "custom"}
  /\ \/ MayRefuse /\ To(p, "rollback") /\ UNCHANGED work
     \/ ~Accepts(w) /\ To(p, "rollback") /\ UNCHANGED work
     \/ /\ Accepts(w)
        /\ work' = [work EXCEPT ![w] = @ \cup {"mongo", "data"}
                      \cup IF At(p, "custom") THEN {"custom"} ELSE {}]
        /\ IF At(p, "custom") THEN Arrives("operator", w) ELSE UNCHANGED since
        /\ Go(p, "ready") /\ UNCHANGED <<job, locks, kills>>
  /\ UNCHANGED <<cluster, ns, wants, helm, record>>

\* init_replica_set or wait_for_mongodb: nothing comes up without the operator.
MongoReady(p) ==
  /\ At(p, "ready")
  /\ \/ ("custom" \in work[Name(p)] => Serves("operator")) /\ To(p, "chart")
     \/ To(p, "rollback")
  /\ UNCHANGED <<kube, record>>

\* install: a pending release of its own is freed first, and helm undoes what
\* it could not finish.
InstallChart(p) ==
  LET w == Name(p) IN
  /\ At(p, "chart")
  /\ \/ /\ Accepts(w)
        /\ helm' = [helm EXCEPT ![w] = "deployed"]
        /\ To(p, "forward")
     \/ /\ helm' = [helm EXCEPT ![w] = IF Serves(w) THEN "deployed" ELSE "none"]
        /\ To(p, "rollback")
  /\ UNCHANGED <<cluster, ns, work, wants, record>>

\* port_forward may raise; then the final record is never written.
Complete(p) ==
  /\ At(p, "forward")
  /\ \/ record' = [record EXCEPT ![Name(p)] = "complete"]
     \/ MayRefuse /\ UNCHANGED record
  /\ Finish(p)
  /\ UNCHANGED kube

\* A failed create removes what it brought into being and nothing else.
RollBack(p) ==
  LET w == Name(p) IN
  /\ At(p, "rollback")
  /\ \/ job[p].hadNs /\ Finish(p) /\ UNCHANGED ns
     \/ /\ ~job[p].hadNs
        /\ \/ cluster /\ ns' = [ns EXCEPT ![w] = IF @ = "active" THEN "terminating" ELSE @]
           \/ MayRefuse /\ UNCHANGED ns
        /\ IF job[p].hadCluster THEN Finish(p) ELSE To(p, "reclaim")
  /\ UNCHANGED <<cluster, work, wants, helm, record>>

-----------------------------------------------------------------------------
(* The shared releases: ensure_operator, ensure_monitoring, their removal. *)

\* A pending release is freed (the first one is uninstalled, a later one
\* rolled back), then `helm upgrade --install` starts a revision.
BeginInstall(p, r) ==
  /\ At(p, beginAt[r])
  /\ \/ /\ r = "monitoring" /\ cluster /\ ~Deployed(Name(p)) /\ Finish(p)   \* no login
        /\ UNCHANGED helm
     \/ /\ r = "monitoring" /\ cluster /\ Deployed(Name(p)) /\ Deployed(r)
        /\ To(p, "want") /\ UNCHANGED helm
     \/ /\ MayRefuse
        /\ IF r = "operator" THEN To(p, "rollback") ELSE Finish(p)
        /\ UNCHANGED helm
     \/ /\ cluster
        /\ r = "monitoring" => Deployed(Name(p)) /\ ~Deployed(r)
        /\ helm' = [helm EXCEPT ![r] = IF Serves(r) THEN "later" ELSE "first"]
        /\ To(p, helmAt[r])
  /\ UNCHANGED <<cluster, ns, work, wants, record>>

\* helm returns; a failed revision is rolled back, and one that somebody freed
\* in the meantime has nothing to complete.
EndInstall(p, r) ==
  /\ At(p, helmAt[r])
  /\ \/ /\ helm[r] \in Pending
        /\ helm' = [helm EXCEPT ![r] = "deployed"]
        /\ To(p, IF r = "operator" THEN "custom" ELSE "want")
     \/ /\ helm' = [helm EXCEPT ![r] = IF Serves(r) THEN "deployed" ELSE "none"]
        /\ IF r = "operator" THEN To(p, "rollback") ELSE Finish(p)
  /\ UNCHANGED <<cluster, ns, work, wants, record>>

\* set_monitoring_label; what it answers is not read.
Want(p) ==
  LET w == Name(p) IN
  /\ At(p, "want")
  /\ \/ /\ cluster /\ ns[w] # "absent"
        /\ wants' = [wants EXCEPT ![w] = TRUE]
        /\ Go(p, "attached")
        /\ IF w \in Labelled THEN Arrives("monitoring", w) ELSE UNCHANGED since
        /\ UNCHANGED <<job, locks, kills>>
     \/ (MayRefuse \/ ns[w] = "absent") /\ Finish(p) /\ UNCHANGED wants
  /\ UNCHANGED <<cluster, ns, work, helm, record>>

\* The Grafana forward and the record of it follow.
Attached(p) == At(p, "attached") /\ Finish(p) /\ UNCHANGED <<kube, record>>

Unwant(p) ==
  LET w == Name(p) IN
  /\ At(p, "unlabel")
  /\ \/ cluster /\ wants' = [wants EXCEPT ![w] = FALSE]
     \/ MayRefuse /\ UNCHANGED wants
  /\ To(p, "count monitoring")
  /\ UNCHANGED <<cluster, ns, work, helm, record>>

\* `down --volumes` leaves out the workspace it has just destroyed.
Excluded(p) == IF job[p].op = "down" THEN {Name(p)} ELSE {}

AfterRemoval(r, p) == IF r = "operator" THEN "count monitoring"
                      ELSE IF job[p].op = "down" THEN "forget" ELSE "detached"

\* The count ends and the release stays.
LeaveUp(p, r) ==
  /\ Go(p, AfterRemoval(r, p))
  /\ since' = [since EXCEPT ![p] = Idle]
  /\ UNCHANGED <<job, locks, kills>>

\* remove_operator and remove_monitoring.  First: is the release there?  A
\* refused read counts as "it is".
Installed(p, r) ==
  /\ At(p, countAt[r])
  /\ \/ (helm[r] # "none" \/ MayRefuse) /\ To(p, listAt[r])
     \/ cluster /\ helm[r] = "none" /\ LeaveUp(p, r)
  /\ UNCHANGED <<kube, record>>

\* Then the list of those who may use it.  For the operator that is the answer;
\* for monitoring, each namespace of it has yet to be asked.
ListUsers(p, r) ==
  LET others == UsersOf(r) \ Excluded(p) IN
  /\ At(p, listAt[r])
  /\ \/ /\ cluster
        /\ r = "operator" => others = {}
        /\ since' = [since EXCEPT ![p] = Count(r, IF r = "operator" THEN {} ELSE Labelled \ Excluded(p))]
        /\ Go(p, IF r = "operator" THEN removeAt[r] ELSE "ask monitoring")
        /\ UNCHANGED <<job, locks, kills>>
     \/ MayRefuse /\ LeaveUp(p, r)
     \/ r = "operator" /\ others # {} /\ LeaveUp(p, r)
  /\ UNCHANGED <<kube, record>>

\* Mutant of AskWants: a label that could not be read is a "no".
UnreadIsNo(p) ==
  /\ At(p, "ask monitoring")
  /\ \/ \E w \in since[p].left :
          /\ MayRefuse \/ ~wants[w]
          /\ since' = [since EXCEPT ![p].left = @ \ {w}]
          /\ UNCHANGED <<pc, job, locks, kills>>
     \/ since[p].left = {} /\ To(p, "remove monitoring")
     \/ (\E w \in since[p].left : wants[w]) /\ LeaveUp(p, "monitoring")
  /\ UNCHANGED <<kube, record>>

\* monitoring_wanted, of one namespace after another.  One that wants it, or
\* that could not be read, keeps the stack up whatever the others answer; one
\* that has gone wants nothing.
AskWants(p) ==
  /\ At(p, "ask monitoring")
  /\ \/ \E w \in since[p].left :
          /\ cluster /\ ~wants[w]
          /\ since' = [since EXCEPT ![p].left = @ \ {w}]
          /\ UNCHANGED <<pc, job, locks, kills>>
     \/ since[p].left = {} /\ To(p, "remove monitoring")
     \/ (\E w \in since[p].left : wants[w] \/ MayRefuse) /\ LeaveUp(p, "monitoring")
  /\ UNCHANGED <<kube, record>>

RemoveShared(p, r) ==
  /\ At(p, removeAt[r])
  /\ \/ helm' = [helm EXCEPT ![r] = "none"]
     \/ MayRefuse /\ UNCHANGED helm
  /\ since' = [since EXCEPT ![p] = Idle]
  /\ Go(p, AfterRemoval(r, p))
  /\ UNCHANGED <<cluster, ns, work, wants, record, job, locks, kills>>

Detached(p) == At(p, "detached") /\ Finish(p) /\ UNCHANGED <<kube, record>>

-----------------------------------------------------------------------------
(* teardown, prune and delete_cluster.                                     *)

\* delete_namespace is done: True, the namespace is confirmed absent.
Gone(p) == To(p, IF job[p].op = "down" THEN "count operator" ELSE "forget")

\* ... or it is not, or the call raised ConflictError: prune skips the
\* workspace and goes on, anything else ends the command.
NotGone(p) ==
  IF job[p].op = "prune"
  THEN /\ lock' = [lock EXCEPT ![Name(p)] = Free]
       /\ Go(p, "next")
       /\ UNCHANGED <<job, clock, since, kills>>
  ELSE Finish(p)

Volumes(p) == IF job[p].op = "prune" THEN TRUE ELSE job[p].volumes

\* delete_namespace reads the labels.  A refused read raises, unless kind says
\* that the cluster itself is no longer there.
ReadLabels(p) ==
  LET w == Name(p) IN
  /\ At(p, "delete")
  /\ \/ ~cluster /\ Volumes(p) /\ Gone(p)
     \/ ~cluster /\ ~Volumes(p) /\ Finish(p)
     \/ MayRefuse /\ Finish(p)
     \/ cluster /\ ns[w] = "absent" /\ (IF Volumes(p) THEN Gone(p) ELSE Finish(p))
     \/ cluster /\ ns[w] = "bare" /\ NotGone(p)
     \/ cluster /\ ns[w] \in {"active", "terminating"}
        /\ To(p, IF Volumes(p) THEN "kubectl" ELSE "uninstall")
  /\ UNCHANGED <<kube, record>>

\* kubectl delete namespace --wait=false.
DeleteNamespace(p) ==
  LET w == Name(p) IN
  /\ At(p, "kubectl")
  /\ \/ MayRefuse /\ Finish(p) /\ UNCHANGED ns
     \/ /\ cluster
        /\ ns' = [ns EXCEPT ![w] = IF @ = "active" THEN "terminating" ELSE @]
        /\ To(p, "wait")
  /\ UNCHANGED <<cluster, work, wants, helm, record>>

\* Mutant of WaitGone: `--wait=false` and no wait.
DoNotWait(p) == At(p, "wait") /\ Gone(p) /\ UNCHANGED <<kube, record>>

\* It is polled until it is seen to be absent, or the tries run out.
WaitGone(p) ==
  /\ At(p, "wait")
  /\ \/ cluster /\ ns[Name(p)] = "absent" /\ Gone(p)
     \/ (ns[Name(p)] # "absent" \/ MayRefuse) /\ NotGone(p)
  /\ UNCHANGED <<kube, record>>

\* Plain `down`: the release and the StatefulSet go, the volume stays.
Uninstall(p) ==
  LET w == Name(p) IN
  /\ At(p, "uninstall")
  /\ \/ cluster /\ helm' = [helm EXCEPT ![w] = "none"]
        /\ \/ work' = [work EXCEPT ![w] = @ \ {"mongo"}]
           \/ MayRefuse /\ UNCHANGED work
     \/ MayRefuse /\ UNCHANGED <<helm, work>>
  /\ Finish(p)
  /\ UNCHANGED <<cluster, ns, wants, record>>

\* The record is the last thing to go; rmtree may fail, and says so.
Forget(p) ==
  LET w == Name(p) IN
  /\ At(p, "forget")
  /\ \/ record' = [record EXCEPT ![w] = "none"]
     \/ "refused" \in Faults /\ job[p].op = "down" /\ UNCHANGED record
  /\ IF job[p].op = "down" THEN Finish(p) ELSE NotGone(p)
  /\ UNCHANGED kube

\* prunable(): the recorded workspaces whose Deployment was not found.  A read
\* that fails finds none (workload_exists).
Prunable(p) ==
  /\ At(p, "list")
  /\ \E targets \in SUBSET {w \in Names : record[w] # "none"} :
       /\ \A w \in Names : record[w] # "none" /\ w \notin targets => cluster /\ helm[w] # "none"
       /\ \A w \in targets : helm[w] = "none" \/ MayRefuse
       /\ job' = [job EXCEPT ![p] = [op |-> "prune", targets |-> targets]]
  /\ Go(p, "next")
  /\ UNCHANGED <<kube, record, locks, since, kills>>

\* One workspace after another, each under its own lock; one that is in use,
\* or whose record has gone, is skipped.  Then the cluster, if nothing is left.
PruneNext(p) ==
  /\ At(p, "next")
  /\ \/ \E w \in job[p].targets :
          /\ job' = [job EXCEPT ![p] = [op |-> "prune", name |-> w, targets |-> @.targets \ {w}]]
          /\ IF lock[w] = Free /\ record[w] # "none"
             THEN lock' = [lock EXCEPT ![w] = p] /\ Go(p, "delete")
             ELSE UNCHANGED <<lock, pc>>
     \/ job[p].targets = {} /\ Go(p, "reclaim") /\ UNCHANGED <<job, lock>>
  /\ UNCHANGED <<kube, record, clock, since, kills>>

\* delete_cluster under CLUSTER_LOCK: refused while a namespace is seen in it.
\* A cluster whose API does not answer is not asked.
ReclaimCluster(p) ==
  /\ At(p, "reclaim") /\ clock = Free
  /\ \/ ~cluster /\ Finish(p)
     \/ cluster /\ (MayRefuse \/ Labelled # {}) /\ Finish(p)
     \/ /\ cluster /\ ("unreachable" \in Faults \/ Labelled = {})
        /\ clock' = p /\ Go(p, "kind")
        /\ UNCHANGED <<lock, job, since, kills>>
  /\ UNCHANGED <<kube, record>>

KindDelete(p) ==
  /\ At(p, "kind")
  /\ \/ /\ cluster' = FALSE
        /\ ns' = [w \in Names |-> "absent"]
        /\ work' = [w \in Names |-> {}]
        /\ wants' = [w \in Names |-> FALSE]
        /\ helm' = [r \in Names \cup Shared |-> "none"]
     \/ MayRefuse /\ UNCHANGED kube
  /\ Finish(p)
  /\ UNCHANGED record

-----------------------------------------------------------------------------
\* Kubernetes finishes a deletion once nothing holds a finalizer, and only a
\* running operator clears that of a MongoDBCommunity.
NamespaceGone(w) ==
  /\ ns[w] = "terminating"
  /\ "custom" \in work[w] => Serves("operator")
  /\ ns' = [ns EXCEPT ![w] = "absent"]
  /\ work' = [work EXCEPT ![w] = {}]
  /\ wants' = [wants EXCEPT ![w] = FALSE]
  /\ helm' = [helm EXCEPT ![w] = "none"]
  /\ UNCHANGED <<cluster, record, locks, pc, job, since, kills>>

\* SIGKILL or a `serve` shutdown; a helm that was running leaves its release
\* pending.
Kill(p) ==
  /\ pc[p] # "idle" /\ kills < MaxKills
  /\ pc' = [pc EXCEPT ![p] = "idle"] /\ job' = [job EXCEPT ![p] = NoJob]
  /\ lock' = [w \in Names |-> IF lock[w] = p THEN Free ELSE lock[w]]
  /\ clock' = IF clock = p THEN Free ELSE clock
  /\ since' = [since EXCEPT ![p] = Idle]
  /\ kills' = kills + 1
  /\ \/ UNCHANGED helm
     \/ /\ At(p, "chart") /\ Accepts(Name(p))
        /\ helm' = [helm EXCEPT ![Name(p)] = IF Serves(Name(p)) THEN "later" ELSE "first"]
  /\ UNCHANGED <<cluster, ns, work, wants, record>>

Create(p) == \/ PlanCluster(p) \/ EnsureCluster(p) \/ AssertNamespaceAvailable(p)
             \/ WriteAhead(p) \/ HadNamespace(p) \/ EnsureNamespace(p) \/ LabelNamespace(p)
             \/ ApplyMongo(p) \/ MongoReady(p) \/ InstallChart(p) \/ Complete(p) \/ RollBack(p)

Monitor(p) == Want(p) \/ Attached(p) \/ Unwant(p) \/ Detached(p)

SharedStep(p) == \/ AskWants(p)
                 \/ \E r \in Shared : \/ BeginInstall(p, r) \/ EndInstall(p, r)
                                      \/ Installed(p, r) \/ ListUsers(p, r) \/ RemoveShared(p, r)

Remove(p) == \/ ReadLabels(p) \/ DeleteNamespace(p) \/ WaitGone(p) \/ Uninstall(p) \/ Forget(p)
             \/ Prunable(p) \/ PruneNext(p) \/ ReclaimCluster(p) \/ KindDelete(p)

Next == \/ \E p \in Procs : \/ Call(p) \/ Create(p) \/ Monitor(p) \/ SharedStep(p)
                            \/ Remove(p) \/ Kill(p)
        \/ \E w \in Names : NamespaceGone(w)

Spec == Init /\ [][Next]_vars

-----------------------------------------------------------------------------
(* Properties.                                                             *)

Steps == {"idle", "plan", "kubeconfig", "preflight", "record", "cluster", "had", "namespace",
          "label", "mongo", "custom", "ready", "chart", "forward", "rollback", "want",
          "attached", "unlabel", "detached", "delete", "kubectl", "wait", "uninstall",
          "forget", "list", "next", "reclaim", "kind",
          "begin operator", "helm operator", "count operator", "list operator",
          "remove operator", "begin monitoring", "helm monitoring", "count monitoring",
          "list monitoring", "ask monitoring", "remove monitoring"}

HelmStates == {"none", "deployed"} \cup Pending

\* Every variable has its type, and what exists is in a cluster that does.
TypeOK ==
  /\ cluster \in BOOLEAN
  /\ ns \in [Names -> {"absent", "bare", "active", "terminating"}]
  /\ work \in [Names -> SUBSET {"mongo", "custom", "data"}]
  /\ wants \in [Names -> BOOLEAN]
  /\ helm \in [Names \cup Shared -> HelmStates]
  /\ record \in [Names -> {"none", "incomplete", "complete"}]
  /\ lock \in [Names -> Procs \cup {Free}] /\ clock \in Procs \cup {Free}
  /\ pc \in [Procs -> Steps]
  /\ \A p \in Procs : job[p].op \in {"none", "create", "down", "prune", "attach", "detach"}
  /\ since \in [Procs -> [what : Shared \cup {NotCounted}, left : SUBSET Names, who : SUBSET Names]]
  /\ kills \in 0..MaxKills
  /\ \A w \in Names : ~cluster \/ ns[w] = "absent" =>
       ns[w] = "absent" /\ work[w] = {} /\ ~wants[w] /\ helm[w] = "none"

\* Whatever exists in the cluster is written down in the state directory,
\* through kills, refused calls, rollbacks, `down --volumes` and `prune`
\* (the write-ahead record of _create_kubernetes; delete_namespace's True).
Records == INSTANCE Ledger WITH
             held <- {w \in Names : ns[w] # "absent"},
             recorded <- {w \in Names : record[w] # "none"}
EverythingIsRecorded == Records!Spec

\* The operator and the monitoring stack each do what SharedResource promises:
\* neither is removed under a workspace that used it when its users began to be
\* counted and still does, whatever the counting calls answered and whoever came
\* and went between them (remove_operator, remove_monitoring).
SharedAs(r, using) == [p \in Procs |-> IF since[p].what = r THEN using[p] ELSE NotCounted]
Arrived == [p \in Procs |-> since[p].who]
Operator == INSTANCE SharedResource WITH
              Users <- Names,
              up <- Serves("operator"), users <- UsersOf("operator"),
              arrived <- SharedAs("operator", Arrived)
Monitoring == INSTANCE SharedResource WITH
                Users <- Names,
                up <- Serves("monitoring"), users <- UsersOf("monitoring"),
                arrived <- SharedAs("monitoring", Arrived)
SharedReleasesOutliveTheirUsers == Operator!Spec /\ Monitoring!Spec

\* A create that fails leaves the volume that was there before it began
\* (had_namespace in create_workspace).
FailedCreateKeepsTheVolume ==
  [][\A p \in Procs :
       /\ At(p, "rollback") /\ pc'[p] # "rollback"
       /\ "data" \in job[p].found
       => ns'[Name(p)] = ns[Name(p)]]_vars

\* `prune` deletes the data of workspaces that are down, and of no other
\* (lifecycle.prunable: "safe to prune"; prune: one that "somebody grabbed in
\* between is skipped").
PruneSparesTheRunning ==
  [][\A p \in Procs :
       /\ At(p, "kubectl") /\ job[p].op = "prune"
       /\ record[Name(p)] = "complete" /\ helm[Name(p)] = "deployed"
       => ns'[Name(p)] = ns[Name(p)]]_vars
=============================================================================
