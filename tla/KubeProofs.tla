----------------------------- MODULE KubeProofs -----------------------------
(***************************************************************************)
(* Proofs about Kube, for any number of workspaces and processes, any      *)
(* commands, any calls that fail and any number of kills: its types, that  *)
(* it implements Ledger and, for each of the two shared releases,          *)
(* SharedResource, and that a failed create keeps the volume it found.     *)
(*                                                                         *)
(* The inductive invariant is IInv.  Control says which command is at      *)
(* which step and holds which lock; Cluster, what an absent or unlabelled  *)
(* namespace cannot hold; Known, what a process may still rely on of what  *)
(* it has seen or done: a record, a namespace confirmed absent, a volume   *)
(* that was not there, the users it counted.                               *)
(*                                                                         *)
(* After them, about KubeServing as MCKube composes it: ServingInv, that a *)
(* forward listens on the port of the workspace it leads to, and           *)
(* ScalingInv, that whoever notes, reads or gives back counts is alone     *)
(* with the workspace, and what is still to be given back is still left.   *)
(***************************************************************************)
EXTENDS MCKube, SequenceTheorems, TLAPS

USE FreeIsNoProcess, BoundedKills

Pieces == {"mongo", "custom", "data"}

\* A command under way, by its kind.  A prune has no name before the first
\* workspace it deletes.
Creates == [op : {"create"}, name : Names, operator : BOOLEAN,
            hadCluster : BOOLEAN, hadNs : BOOLEAN, found : SUBSET Pieces]
Downs == [op : {"down"}, name : Names, volumes : BOOLEAN]
Attaches == [op : {"attach"}, name : Names]
Detaches == [op : {"detach"}, name : Names]
Listings == [op : {"prune"}, targets : SUBSET Names]
Prunings == [op : {"prune"}, name : Names, targets : SUBSET Names]
Work == {NoJob} \cup Creates \cup Downs \cup Attaches \cup Detaches \cup Listings \cup Prunings

CreateSteps == {"plan", "kubeconfig", "preflight", "record", "cluster", "had", "namespace",
                "label", "begin operator", "helm operator", "mongo", "custom", "ready",
                "chart", "forward", "rollback", "reclaim", "kind"}
OperatorSteps == {"count operator", "list operator", "remove operator"}
MonitoringSteps == {"count monitoring", "list monitoring", "ask monitoring", "remove monitoring"}
DownSteps == {"delete", "kubectl", "wait", "uninstall", "forget"}
               \cup OperatorSteps \cup MonitoringSteps
AttachSteps == {"begin monitoring", "helm monitoring", "want", "attached"}
DetachSteps == {"unlabel", "detached"} \cup MonitoringSteps
BetweenSteps == {"list", "next", "reclaim", "kind"}
DeletingSteps == {"delete", "kubectl", "wait", "forget"}

Knowledge == [what : Shared \cup {NotCounted}, left : SUBSET Names, who : SUBSET Names]

\* These only abbreviate.
USE DEF OperatorSteps, MonitoringSteps, Knowledge

\* A process at step l runs j.
Fits(j, l) ==
  \/ j = NoJob /\ l = "idle"
  \/ j \in Creates /\ l \in CreateSteps
  \/ j \in Downs /\ l \in DownSteps
  \/ j \in Attaches /\ l \in AttachSteps
  \/ j \in Detaches /\ l \in DetachSteps
  \/ j \in Listings /\ l \in BetweenSteps
  \/ j \in Prunings /\ l \in BetweenSteps \cup DeletingSteps

\* It holds the lock of the workspace it is about.
Holding(j, l) == j.op \in {"create", "down"} \/ l \in DeletingSteps

Control ==
  /\ pc \in [Procs -> Steps]
  /\ job \in [Procs -> Work]
  /\ lock \in [Names -> Procs \cup {Free}] /\ clock \in Procs \cup {Free}
  /\ since \in [Procs -> Knowledge]
  /\ kills \in 0..MaxKills
  /\ \A p \in Procs : Fits(job[p], pc[p])
  /\ \A p \in Procs : Holding(job[p], pc[p]) => lock[Name(p)] = p

Cluster ==
  /\ cluster \in BOOLEAN
  /\ ns \in [Names -> {"absent", "bare", "active", "terminating"}]
  /\ work \in [Names -> SUBSET Pieces]
  /\ wants \in [Names -> BOOLEAN]
  /\ helm \in [Names \cup Shared -> HelmStates]
  /\ record \in [Names -> {"none", "incomplete", "complete"}]
  /\ \A w \in Names : ~cluster \/ ns[w] = "absent" =>
       ns[w] = "absent" /\ work[w] = {} /\ ~wants[w] /\ helm[w] = "none"
  /\ \A w \in Names : ns[w] = "bare" => work[w] = {}

\* A create past its write-ahead has a record.
Written == \A p \in Procs : pc[p] \in {"cluster", "had", "namespace"} => record[Name(p)] # "none"

\* What was confirmed absent is absent while its lock is held.
Confirmed == \A p \in Procs :
  \/ pc[p] \in {"forget"} \cup OperatorSteps
  \/ job[p].op = "down" /\ pc[p] \in MonitoringSteps
  => ns[Name(p)] = "absent"

\* Where a create saw no namespace it saw no volume.
NothingFound == \A p \in Procs :
  job[p].op = "create" /\ ~job[p].hadNs => job[p].found = {}

\* Who counts the users of a shared release has yet to ask each of them, or it
\* has come since; who is about to remove it has nobody left to ask.
Counted == \A p \in Procs, r \in Shared :
  /\ pc[p] = "ask monitoring" => since[p].what = "monitoring"
  /\ pc[p] = removeAt[r] => since[p].what = r /\ since[p].left = {}
  /\ since[p].what = r => UsersOf(r) \subseteq (since[p].who \cup since[p].left)

Known == Written /\ Confirmed /\ NothingFound /\ Counted

IInv == Control /\ Cluster /\ Known

-----------------------------------------------------------------------------
(* Control: where a process may go, and what it then holds.                *)

LEMMA IdleFits == /\ Fits(NoJob, "idle") /\ ~Holding(NoJob, "idle")
                  /\ NoJob \in Work /\ "idle" \in Steps
BY DEF Fits, Holding, NoJob, DeletingSteps, Work, Steps

LEMMA IdleIsTyped == Idle \in Knowledge
BY DEF Idle

LEMMA InitControl == Init => Control
BY IdleFits, IdleIsTyped DEF Init, Control

\* What the other processes keep when p moves.
Others(p) ==
  /\ \A q \in Procs \ {p} : pc'[q] = pc[q] /\ job'[q] = job[q]
  /\ \A q \in Procs \ {p}, w \in Names : lock[w] = q => lock'[w] = q

\* p is at l with job j afterwards, and that fits.
LEMMA MovesControl ==
  ASSUME Control, NEW p \in Procs, NEW l \in Steps, NEW j \in Work,
         Fits(j, l), Holding(j, l) => lock'[j.name] = p,
         pc' = [pc EXCEPT ![p] = l], job' = [job EXCEPT ![p] = j],
         lock' \in [Names -> Procs \cup {Free}], clock' \in Procs \cup {Free},
         \A q \in Procs \ {p}, w \in Names : lock[w] = q => lock'[w] = q,
         since' \in [Procs -> Knowledge],
         kills' \in 0..MaxKills
  PROVE  Control' /\ Others(p)
<1>1. Others(p)
  BY DEF Others, Control
<1>2. pc' \in [Procs -> Steps] /\ job' \in [Procs -> Work] /\ pc'[p] = l /\ job'[p] = j
  BY DEF Control
<1>3. ASSUME NEW q \in Procs PROVE Fits(job'[q], pc'[q])
  BY <1>1, <1>2 DEF Others, Control
<1>4. ASSUME NEW q \in Procs, Holding(job'[q], pc'[q]) PROVE lock'[job'[q].name] = q
  <2>1. CASE q = p
    BY <1>2, <1>4, <2>1
  <2>2. CASE q # p
    <3>1. Fits(job[q], pc[q]) /\ Holding(job[q], pc[q])
      BY <1>1, <1>4, <2>2 DEF Others, Control
    <3>2. job[q].name \in Names
      BY <3>1 DEF Fits, Holding, NoJob, Creates, Downs, Attaches, Detaches, Listings, Prunings,
                  BetweenSteps, DeletingSteps
    <3>3. lock[job[q].name] = q
      BY <3>1 DEF Control, Name
    <3> QED
      BY <1>1, <2>2, <3>2, <3>3 DEF Others
  <2> QED
    BY <2>1, <2>2
<1> QED
  BY <1>1, <1>2, <1>3, <1>4 DEF Control, Name

LEMMA EndsControl ==
  ASSUME Control, NEW p \in Procs,
         pc' = [pc EXCEPT ![p] = "idle"], job' = [job EXCEPT ![p] = NoJob],
         lock' = [w \in Names |-> IF lock[w] = p THEN Free ELSE lock[w]],
         clock' = (IF clock = p THEN Free ELSE clock),
         since' = [since EXCEPT ![p] = Idle],
         kills' \in 0..MaxKills
  PROVE  Control' /\ Others(p)
BY IdleFits, IdleIsTyped, MovesControl DEF Control

LEMMA FinishControl ==
  ASSUME Control, NEW p \in Procs, Finish(p) PROVE Control' /\ Others(p)
<1>1. kills' \in 0..MaxKills
  BY DEF Finish, Control
<1> QED
  BY <1>1, EndsControl DEF Finish

LEMMA GoControl ==
  ASSUME Control, NEW p \in Procs, NEW l \in Steps, Go(p, l), Fits(job[p], l),
         Holding(job[p], l) => Holding(job[p], pc[p]),
         UNCHANGED <<job, locks, kills>>,
         since' \in [Procs -> Knowledge]
  PROVE  Control' /\ Others(p)
<1>1. job[p] \in Work /\ job' = [job EXCEPT ![p] = job[p]]
  BY DEF Control
<1>2. Holding(job[p], l) => lock'[job[p].name] = p
  BY DEF Control, Name, locks
<1> QED
  BY <1>1, <1>2, MovesControl DEF Control, Go, locks

LEMMA ToControl ==
  ASSUME Control, NEW p \in Procs, NEW l \in Steps, To(p, l), Fits(job[p], l),
         Holding(job[p], l) => Holding(job[p], pc[p])
  PROVE  Control' /\ Others(p)
<1>1. since' \in [Procs -> Knowledge]
  BY DEF To, Control
<1> QED
  BY <1>1, GoControl DEF To, locks

\* Which command is at which step.
LEMMA WhoIsWhere ==
  ASSUME Control, NEW p \in Procs
  PROVE  /\ pc[p] \in CreateSteps \ {"reclaim", "kind"} => job[p] \in Creates
         /\ pc[p] \in {"reclaim", "kind"} => job[p] \in Creates \cup Listings \cup Prunings
         /\ pc[p] \in AttachSteps => job[p] \in Attaches
         /\ pc[p] \in {"unlabel", "detached"} => job[p] \in Detaches
         /\ pc[p] \in {"uninstall"} \cup OperatorSteps => job[p] \in Downs
         /\ pc[p] \in MonitoringSteps => job[p] \in Downs \cup Detaches
         /\ pc[p] \in DeletingSteps => job[p] \in Downs \cup Prunings
         /\ pc[p] \in {"list", "next"} => job[p] \in Listings \cup Prunings
         /\ pc[p] = "idle" => job[p] = NoJob
<1> Fits(job[p], pc[p])
  BY DEF Control
<1> QED
  BY DEF Fits, CreateSteps, DownSteps, AttachSteps, DetachSteps, BetweenSteps, DeletingSteps

LEMMA BegunFits ==
  ASSUME NEW j \in Jobs, NEW l,
         l = CASE j.op = "create" -> "plan" [] j.op = "down" -> "delete"
               [] j.op = "prune" -> "list" [] j.op = "attach" -> "begin monitoring"
               [] OTHER -> "unlabel"
  PROVE  /\ Begun(j) \in Work /\ l \in Steps /\ Fits(Begun(j), l)
         /\ Holding(Begun(j), l) <=> j.op \in {"create", "down"}
         /\ j.op # "prune" => Begun(j).name = j.name /\ j.name \in Names
         /\ Begun(j).op = j.op
         /\ j.op = "create" => Begun(j).hadNs
<1>1. CASE j \in [op : {"create"}, name : Names, operator : BOOLEAN]
  BY <1>1 DEF Begun, Work, Steps, Fits, Holding, Creates, CreateSteps, DeletingSteps, Pieces
<1>2. CASE j \in [op : {"down"}, name : Names, volumes : BOOLEAN]
  BY <1>2 DEF Begun, Work, Steps, Fits, Holding, Downs, DownSteps, DeletingSteps
<1>3. CASE j \in [op : {"attach", "detach"}, name : Names]
  BY <1>3 DEF Begun, Work, Steps, Fits, Holding, Attaches, Detaches, AttachSteps, DetachSteps,
              DeletingSteps
<1>4. CASE j \in [op : {"prune"}]
  BY <1>4 DEF Begun, Work, Steps, Fits, Holding, Listings, BetweenSteps, DeletingSteps
<1> QED
  BY <1>1, <1>2, <1>3, <1>4 DEF Jobs

LEMMA CallControl ==
  ASSUME Control, NEW p \in Procs, Call(p) PROVE Control' /\ Others(p)
<1>1. PICK j \in Calls[p] : Call(p)!(j)
  BY DEF Call
<1>2. j \in Jobs
  BY CallsAreJobs
<1> DEFINE l == CASE j.op = "create" -> "plan" [] j.op = "down" -> "delete"
                  [] j.op = "prune" -> "list" [] j.op = "attach" -> "begin monitoring"
                  [] OTHER -> "unlabel"
<1>3. /\ Begun(j) \in Work /\ l \in Steps /\ Fits(Begun(j), l)
      /\ Holding(Begun(j), l) <=> j.op \in {"create", "down"}
      /\ j.op # "prune" => Begun(j).name = j.name /\ j.name \in Names
  BY <1>2, BegunFits
<1>4. pc' = [pc EXCEPT ![p] = l] /\ job' = [job EXCEPT ![p] = Begun(j)]
  BY <1>1 DEF Go
<1> HIDE DEF l
<1>5. /\ lock' \in [Names -> Procs \cup {Free}]
      /\ \A q \in Procs \ {p}, w \in Names : lock[w] = q => lock'[w] = q
      /\ Holding(Begun(j), l) => lock'[Begun(j).name] = p
  BY <1>1, <1>3 DEF Control
<1> QED
  BY <1>1, <1>3, <1>4, <1>5, MovesControl DEF Control

\* A step of a create within it keeps its lock.
LEMMA InCreate ==
  ASSUME NEW p \in Procs, job[p] \in Creates, NEW l \in CreateSteps
  PROVE  l \in Steps /\ Fits(job[p], l) /\ (Holding(job[p], l) => Holding(job[p], pc[p]))
BY DEF Creates, Fits, Holding, CreateSteps, Steps, DeletingSteps

LEMMA GoInCreate ==
  ASSUME Control, NEW p \in Procs, job[p] \in Creates, NEW l \in CreateSteps, Go(p, l),
         UNCHANGED <<job, locks, kills>>,
         since' \in [Procs -> Knowledge]
  PROVE  Control' /\ Others(p)
BY InCreate, GoControl

LEMMA ToInCreate ==
  ASSUME Control, NEW p \in Procs, job[p] \in Creates, NEW l \in CreateSteps, To(p, l)
  PROVE  Control' /\ Others(p)
BY InCreate, ToControl

\* What a create learns about the cluster and the namespace.
LEMMA LearnsInCreate ==
  ASSUME Control, NEW p \in Procs, job[p] \in Creates, NEW l \in CreateSteps, Go(p, l),
         NEW j \in Creates, j.name = job[p].name, job' = [job EXCEPT ![p] = j],
         UNCHANGED <<locks, since, kills>>
  PROVE  Control' /\ Others(p)
<1>1. l \in Steps /\ j \in Work /\ Fits(j, l)
  BY DEF Work, Fits, CreateSteps, Steps
<1>2. lock'[j.name] = p
  BY DEF Control, Holding, Name, Creates, locks
<1> QED
  BY <1>1, <1>2, MovesControl DEF Control, Go, locks

LEMMA ArrivesTyped ==
  ASSUME Control, NEW r, NEW w \in Names, Arrives(r, w)
  PROVE  since' \in [Procs -> Knowledge]
BY DEF Control, Arrives

LEMMA CreateControl ==
  ASSUME Control, Cluster, NEW p \in Procs, Create(p) PROVE Control' /\ Others(p)
<1> USE DEF CreateSteps
<1>1. pc[p] \in CreateSteps \ {"reclaim", "kind"}
  BY DEF Create, At, PlanCluster, EnsureCluster, AssertNamespaceAvailable, WriteAhead,
         HadNamespace, EnsureNamespace, LabelNamespace, ApplyMongo, MongoReady, InstallChart,
         Complete, RollBack
<1>2. job[p] \in Creates
  BY <1>1, WhoIsWhere
<1>3. Name(p) \in Names
  BY <1>2 DEF Creates, Name
<1>4. CASE Finish(p)
  BY <1>4, FinishControl
<1>5. CASE \E l \in CreateSteps : To(p, l)
  BY <1>2, <1>5, ToInCreate
<1>6. CASE PlanCluster(p)
  <2>1. [job[p] EXCEPT !.hadCluster = cluster] \in Creates
    BY <1>2 DEF Creates, Cluster
  <2>2. [job[p] EXCEPT !.hadCluster = cluster].name = job[p].name
    BY <1>2 DEF Creates
  <2>3. CASE Finish(p)
    BY <2>3, <1>4
  <2>4. CASE /\ job' = [job EXCEPT ![p].hadCluster = cluster]
             /\ Go(p, IF cluster THEN "kubeconfig" ELSE "record")
             /\ UNCHANGED <<locks, since, kills>>
    BY <1>2, <2>1, <2>2, <2>4, LearnsInCreate
  <2> QED
    BY <1>6, <2>3, <2>4 DEF PlanCluster
<1>7. CASE HadNamespace(p)
  <2>1. CASE Finish(p)
    BY <2>1, <1>4
  <2>2. CASE ~Finish(p)
    <3>1. PICK had \in BOOLEAN : job' = [job EXCEPT ![p].hadNs = had, ![p].found = work[Name(p)]]
      BY <1>7, <2>2 DEF HadNamespace
    <3>2. Go(p, "namespace") /\ UNCHANGED <<locks, since, kills>>
      BY <1>7, <2>2 DEF HadNamespace
    <3> DEFINE j == [job[p] EXCEPT !.hadNs = had, !.found = work[Name(p)]]
    <3>3. j \in Creates /\ j.name = job[p].name
      BY <1>2, <1>3 DEF Creates, Cluster
    <3>4. job' = [job EXCEPT ![p] = j]
      BY <1>2, <3>1 DEF Control, Name, Creates
    <3> HIDE DEF j
    <3> QED
      BY <1>2, <3>2, <3>3, <3>4, LearnsInCreate
  <2> QED
    BY <2>1, <2>2
<1>8. CASE LabelNamespace(p)
  <2>1. CASE Finish(p)
    BY <2>1, <1>4
  <2>2. CASE ~Finish(p)
    <3>1. Go(p, IF job[p].operator THEN "begin operator" ELSE "mongo")
      BY <1>8, <2>2 DEF LabelNamespace
    <3>2. since' \in [Procs -> Knowledge]
      BY <1>3, <1>8, <2>2, ArrivesTyped DEF LabelNamespace, Control
    <3>3. UNCHANGED <<job, locks, kills>>
      BY <1>8, <2>2 DEF LabelNamespace
    <3> QED
      BY <1>2, <3>1, <3>2, <3>3, GoInCreate
  <2> QED
    BY <2>1, <2>2
<1>9. CASE ApplyMongo(p)
  <2>1. CASE To(p, "rollback")
    BY <2>1, <1>5
  <2>2. CASE ~To(p, "rollback")
    <3>1. since' \in [Procs -> Knowledge]
      BY <1>3, <1>9, <2>2, ArrivesTyped DEF ApplyMongo, Control
    <3>2. Go(p, "ready") /\ UNCHANGED <<job, locks, kills>>
      BY <1>9, <2>2 DEF ApplyMongo
    <3> QED
      BY <1>2, <3>1, <3>2, GoInCreate
  <2> QED
    BY <2>1, <2>2
<1>10. CASE \/ EnsureCluster(p) \/ AssertNamespaceAvailable(p) \/ WriteAhead(p)
            \/ EnsureNamespace(p)
  BY <1>4, <1>5, <1>10 DEF EnsureCluster, AssertNamespaceAvailable, WriteAhead, EnsureNamespace
<1>11. CASE MongoReady(p) \/ InstallChart(p) \/ Complete(p) \/ RollBack(p)
  BY <1>4, <1>5, <1>11 DEF MongoReady, InstallChart, Complete, RollBack
<1> QED
  BY <1>6, <1>7, <1>8, <1>9, <1>10, <1>11 DEF Create

LEMMA MonitorControl ==
  ASSUME Control, Cluster, NEW p \in Procs, Monitor(p) PROVE Control' /\ Others(p)
<1>1. CASE Finish(p)
  BY <1>1, FinishControl
<1>2. CASE Want(p) /\ ~Finish(p)
  <2>1. pc[p] = "want"
    BY <1>2 DEF Want, At
  <2>2. job[p] \in Attaches
    BY <2>1, WhoIsWhere DEF AttachSteps
  <2>3. Name(p) \in Names
    BY <2>2 DEF Attaches, Name
  <2>4. Go(p, "attached") /\ UNCHANGED <<job, locks, kills>>
    BY <1>2 DEF Want
  <2>5. since' \in [Procs -> Knowledge]
    BY <1>2, <2>3, ArrivesTyped DEF Want, Control
  <2>6. /\ "attached" \in Steps /\ Fits(job[p], "attached")
        /\ ~Holding(job[p], "attached")
    BY <2>2 DEF Steps, Fits, Holding, AttachSteps, Attaches, DeletingSteps
  <2> QED
    BY <2>4, <2>5, <2>6, GoControl
<1>3. CASE Unwant(p)
  <2>1. job[p] \in Detaches
    BY <1>3, WhoIsWhere DEF Unwant, At
  <2>2. To(p, "count monitoring")
    BY <1>3 DEF Unwant
  <2>3. /\ "count monitoring" \in Steps /\ Fits(job[p], "count monitoring")
        /\ ~Holding(job[p], "count monitoring")
    BY <2>1 DEF Steps, Fits, Holding, DetachSteps, Detaches, DeletingSteps
  <2> QED
    BY <2>2, <2>3, ToControl
<1> QED
  BY <1>1, <1>2, <1>3 DEF Monitor, Attached, Detached

LEMMA SharedTables ==
  /\ beginAt["operator"] = "begin operator" /\ beginAt["monitoring"] = "begin monitoring"
  /\ helmAt["operator"] = "helm operator" /\ helmAt["monitoring"] = "helm monitoring"
  /\ countAt["operator"] = "count operator" /\ countAt["monitoring"] = "count monitoring"
  /\ listAt["operator"] = "list operator" /\ listAt["monitoring"] = "list monitoring"
  /\ removeAt["operator"] = "remove operator" /\ removeAt["monitoring"] = "remove monitoring"
BY DEF beginAt, helmAt, countAt, listAt, removeAt

\* An operator is installed by a create, the monitoring stack by an attach.
LEMMA InstallPlaces ==
  ASSUME Control, NEW p \in Procs, NEW r \in Shared, pc[p] \in {beginAt[r], helmAt[r]}
  PROVE  /\ r = "operator" => job[p] \in Creates
         /\ r = "monitoring" => job[p] \in Attaches
BY SharedTables, WhoIsWhere DEF Shared, CreateSteps, AttachSteps

LEMMA ToInAttach ==
  ASSUME Control, NEW p \in Procs, job[p] \in Attaches, NEW l \in AttachSteps, To(p, l)
  PROVE  Control' /\ Others(p)
<1>1. l \in Steps /\ Fits(job[p], l) /\ ~Holding(job[p], l)
  BY DEF Steps, Fits, Holding, AttachSteps, Attaches, DeletingSteps
<1> QED
  BY <1>1, ToControl

LEMMA InstallControl ==
  ASSUME Control, NEW p \in Procs, NEW r \in Shared, BeginInstall(p, r) \/ EndInstall(p, r)
  PROVE  Control' /\ Others(p)
<1>1. CASE Finish(p)
  BY <1>1, FinishControl
<1>2. CASE r = "operator" /\ ~Finish(p)
  <2>1. job[p] \in Creates
    BY <1>2, InstallPlaces DEF BeginInstall, EndInstall, At
  <2>2. \E l \in CreateSteps : To(p, l)
    BY <1>2, SharedTables DEF BeginInstall, EndInstall, CreateSteps
  <2> QED
    BY <2>1, <2>2, ToInCreate
<1>3. CASE r = "monitoring" /\ ~Finish(p)
  <2>1. job[p] \in Attaches
    BY <1>3, InstallPlaces DEF BeginInstall, EndInstall, At
  <2>2. \E l \in AttachSteps : To(p, l)
    BY <1>3, SharedTables DEF BeginInstall, EndInstall, AttachSteps
  <2> QED
    BY <2>1, <2>2, ToInAttach
<1> QED
  BY <1>1, <1>2, <1>3 DEF Shared

\* The steps of a removal of a shared release.
Removing(p, r) == \/ Installed(p, r) \/ ListUsers(p, r) \/ RemoveShared(p, r)
                  \/ r = "monitoring" /\ AskWants(p)
StepsOf(r) == {countAt[r], listAt[r], removeAt[r]}
                \cup IF r = "monitoring" THEN {"ask monitoring"} ELSE {}

LEMMA StepsAre ==
  ASSUME NEW r \in Shared, NEW l, l \in StepsOf(r)
  PROVE  \/ r = "operator" /\ l \in OperatorSteps
         \/ r = "monitoring" /\ l \in MonitoringSteps
BY SharedTables DEF StepsOf, Shared

LEMMA SharedStepIs ==
  ASSUME NEW p, SharedStep(p)
  PROVE  \E r \in Shared : BeginInstall(p, r) \/ EndInstall(p, r) \/ Removing(p, r)
BY DEF SharedStep, Removing, Shared

\* Where a removal is, and where it goes.
LEMMA RemovalMoves ==
  ASSUME NEW p \in Procs, NEW r \in Shared, Removing(p, r), Control
  PROVE  /\ pc[p] \in StepsOf(r)
         /\ pc'[p] \in StepsOf(r) \cup {AfterRemoval(r, p)}
         /\ pc' = [pc EXCEPT ![p] = pc'[p]]
         /\ UNCHANGED <<job, locks, kills>>
<1>1. CASE Installed(p, r)
  BY <1>1 DEF Installed, LeaveUp, To, Go, At, StepsOf, Control
<1>2. CASE ListUsers(p, r)
  BY <1>2, SharedTables DEF ListUsers, LeaveUp, Go, At, StepsOf, Control, Shared
<1>3. CASE RemoveShared(p, r)
  BY <1>3 DEF RemoveShared, Go, At, StepsOf, Control
<1>4. CASE r = "monitoring" /\ AskWants(p)
  <2>1. pc[p] = "ask monitoring"
    BY <1>4 DEF AskWants, At
  <2>2. \/ UNCHANGED <<pc, job, locks, kills>> \/ To(p, "remove monitoring")
        \/ LeaveUp(p, "monitoring")
    BY <1>4 DEF AskWants
  <2> QED
    BY <1>4, <2>1, <2>2, SharedTables DEF LeaveUp, To, Go, StepsOf, Control
<1> QED
  BY <1>1, <1>2, <1>3, <1>4 DEF Removing

LEMMA RemovalPlaces ==
  ASSUME Control, NEW p \in Procs, NEW r \in Shared, pc[p] \in StepsOf(r),
         NEW l \in StepsOf(r) \cup {AfterRemoval(r, p)}
  PROVE  /\ job[p] \in Downs \cup Detaches
         /\ r = "operator" => job[p] \in Downs
         /\ l \in Steps /\ Fits(job[p], l) /\ (Holding(job[p], l) => Holding(job[p], pc[p]))
<1>0. pc[p] \in OperatorSteps \/ (r = "monitoring" /\ pc[p] \in MonitoringSteps)
  BY StepsAre
<1>1. /\ job[p] \in Downs \cup Detaches
      /\ r = "operator" => job[p] \in Downs
  BY <1>0, StepsAre, WhoIsWhere DEF Shared
<1>2. CASE job[p] \in Downs
  <2>1. l \in OperatorSteps \cup MonitoringSteps \cup {"forget"}
    BY <1>2, StepsAre DEF AfterRemoval, Shared, Downs
  <2> QED
    BY <1>1, <1>2, <2>1 DEF Downs, DownSteps, Steps, Fits, Holding
<1>3. CASE job[p] \in Detaches /\ r = "monitoring"
  <2>1. l \in MonitoringSteps \cup {"detached"}
    BY <1>3, StepsAre DEF AfterRemoval, Detaches
  <2> QED
    BY <1>1, <1>3, <2>1 DEF Detaches, DetachSteps, Steps, Fits, Holding, DeletingSteps
<1> QED
  BY <1>1, <1>2, <1>3 DEF Shared, Detaches, Downs

\* What it then knows.
LEMMA RemovalKnows ==
  ASSUME Control, NEW p \in Procs, NEW r \in Shared, Removing(p, r)
  PROVE  since' \in [Procs -> Knowledge]
<1>1. CASE since' = since \/ since' = [since EXCEPT ![p] = Idle]
  BY <1>1, IdleIsTyped DEF Control
<1>2. CASE ListUsers(p, r)
  <2>1. CASE LeaveUp(p, r)
    BY <1>1, <2>1 DEF LeaveUp
  <2>2. CASE ~LeaveUp(p, r)
    <3>1. PICK asked \in SUBSET Names : since' = [since EXCEPT ![p] = Count(r, asked)]
      BY <1>2, <2>2 DEF ListUsers, Labelled
    <3>2. Count(r, asked) \in Knowledge
      BY DEF Count
    <3> QED
      BY <3>1, <3>2 DEF Control
  <2> QED
    BY <2>1, <2>2
<1>3. CASE AskWants(p)
  <2>1. CASE To(p, "remove monitoring") \/ LeaveUp(p, "monitoring")
    BY <1>1, <2>1 DEF LeaveUp, To
  <2>2. CASE ~(To(p, "remove monitoring") \/ LeaveUp(p, "monitoring"))
    <3>1. PICK w : since' = [since EXCEPT ![p].left = @ \ {w}]
      BY <1>3, <2>2 DEF AskWants
    <3>2. [since[p] EXCEPT !.left = @ \ {w}] \in Knowledge
      BY DEF Control
    <3> QED
      BY <3>1, <3>2 DEF Control
  <2> QED
    BY <2>1, <2>2
<1> QED
  BY <1>1, <1>2, <1>3 DEF Removing, Installed, RemoveShared, LeaveUp, To

LEMMA RemovalControl ==
  ASSUME Control, NEW p \in Procs, NEW r \in Shared, Removing(p, r)
  PROVE  Control' /\ Others(p)
<1>1. pc[p] \in StepsOf(r) /\ pc'[p] \in StepsOf(r) \cup {AfterRemoval(r, p)}
  BY RemovalMoves
<1>2. Go(p, pc'[p]) /\ UNCHANGED <<job, locks, kills>>
  BY RemovalMoves DEF Go
<1> QED
  BY <1>1, <1>2, RemovalPlaces, RemovalKnows, GoControl

LEMMA SharedStepControl ==
  ASSUME Control, NEW p \in Procs, SharedStep(p) PROVE Control' /\ Others(p)
BY InstallControl, RemovalControl, SharedStepIs

LEMMA KillControl ==
  ASSUME Control, NEW p \in Procs, Kill(p) PROVE Control' /\ Others(p)
<1>1. kills' \in 0..MaxKills
  BY DEF Kill, Control
<1> QED
  BY <1>1, EndsControl DEF Kill

LEMMA NotGoneControl ==
  ASSUME Control, NEW p \in Procs, pc[p] \in DeletingSteps, NotGone(p)
  PROVE  Control' /\ Others(p)
<1>1. CASE job[p].op = "prune"
  <2>1. job[p] \in Prunings
    BY <1>1, WhoIsWhere DEF Downs
  <2>2. lock[Name(p)] = p /\ Name(p) \in Names
    BY <2>1 DEF Control, Holding, Name, Prunings
  <2>3. /\ lock' = [lock EXCEPT ![Name(p)] = Free] /\ Go(p, "next")
        /\ UNCHANGED <<job, clock, since, kills>>
    BY <1>1 DEF NotGone
  <2>4. /\ "next" \in Steps /\ Fits(job[p], "next") /\ ~Holding(job[p], "next")
    BY <2>1 DEF Steps, Fits, Holding, BetweenSteps, Prunings, DeletingSteps
  <2>5. /\ lock' \in [Names -> Procs \cup {Free}]
        /\ \A q \in Procs \ {p}, w \in Names : lock[w] = q => lock'[w] = q
    BY <2>2, <2>3 DEF Control
  <2>6. job' = [job EXCEPT ![p] = job[p]] /\ job[p] \in Work
    BY <2>3 DEF Control
  <2> QED
    BY <2>3, <2>4, <2>5, <2>6, MovesControl DEF Control, Go
<1>2. CASE job[p].op # "prune"
  BY <1>2, FinishControl DEF NotGone
<1> QED
  BY <1>1, <1>2

LEMMA ToInDelete ==
  ASSUME Control, NEW p \in Procs, pc[p] \in DeletingSteps,
         NEW l \in DeletingSteps \cup {"uninstall"}, l = "uninstall" => job[p].op = "down",
         To(p, l)
  PROVE  Control' /\ Others(p)
<1>1. job[p] \in Downs \cup Prunings
  BY WhoIsWhere
<1>2. l \in Steps /\ Fits(job[p], l) /\ Holding(job[p], pc[p])
  BY <1>1 DEF Steps, Fits, Holding, DownSteps, DeletingSteps, Prunings, Downs
<1> QED
  BY <1>2, ToControl

LEMMA GoneControl ==
  ASSUME Control, NEW p \in Procs, pc[p] \in DeletingSteps, Gone(p)
  PROVE  Control' /\ Others(p)
<1>1. CASE job[p].op = "down"
  <2>1. job[p] \in Downs
    BY <1>1, WhoIsWhere DEF Prunings
  <2>2. /\ "count operator" \in Steps /\ Fits(job[p], "count operator")
        /\ Holding(job[p], pc[p])
    BY <2>1 DEF Steps, Fits, Holding, DownSteps, Downs
  <2> QED
    BY <1>1, <2>2, ToControl DEF Gone
<1>2. CASE job[p].op # "down"
  BY <1>2, ToInDelete DEF Gone, DeletingSteps
<1> QED
  BY <1>1, <1>2

LEMMA DeletingControl ==
  ASSUME Control, NEW p \in Procs,
         ReadLabels(p) \/ DeleteNamespace(p) \/ WaitGone(p) \/ Uninstall(p) \/ Forget(p)
  PROVE  Control' /\ Others(p)
<1>1. CASE Finish(p)
  BY <1>1, FinishControl
<1>2. CASE ReadLabels(p)
  <2>1. pc[p] \in DeletingSteps
    BY <1>2 DEF ReadLabels, At, DeletingSteps
  <2>2. job[p] \in Downs \cup Prunings
    BY <2>1, WhoIsWhere
  <2>3. To(p, IF Volumes(p) THEN "kubectl" ELSE "uninstall") => Control' /\ Others(p)
    BY <2>1, <2>2, ToInDelete DEF Volumes, DeletingSteps, Downs, Prunings
  <2> QED
    BY <1>1, <1>2, <2>1, <2>3, GoneControl, NotGoneControl DEF ReadLabels
<1>3. CASE DeleteNamespace(p) /\ ~Finish(p)
  BY <1>3, ToInDelete DEF DeleteNamespace, At, DeletingSteps
<1>4. CASE WaitGone(p)
  BY <1>4, GoneControl, NotGoneControl DEF WaitGone, At, DeletingSteps
<1>5. CASE Forget(p) /\ ~Finish(p)
  BY <1>5, NotGoneControl DEF Forget, At, DeletingSteps
<1> QED
  BY <1>1, <1>2, <1>3, <1>4, <1>5 DEF Uninstall

LEMMA PruningControl ==
  ASSUME Control, NEW p \in Procs, Prunable(p) \/ PruneNext(p)
  PROVE  Control' /\ Others(p)
<1>1. job[p] \in Listings \cup Prunings
  BY WhoIsWhere DEF Prunable, PruneNext, At
<1>2. CASE Prunable(p)
  <2>1. PICK targets \in SUBSET Names : job' = [job EXCEPT ![p] = [op |-> "prune", targets |-> targets]]
    BY <1>2 DEF Prunable
  <2> DEFINE j == [op |-> "prune", targets |-> targets]
  <2>2. j \in Work /\ "next" \in Steps /\ Fits(j, "next") /\ ~Holding(j, "next")
    BY DEF Work, Listings, Steps, Fits, BetweenSteps, Holding, DeletingSteps
  <2>3. Go(p, "next") /\ UNCHANGED <<locks, since, kills>>
    BY <1>2 DEF Prunable
  <2> HIDE DEF j
  <2> QED
    BY <2>1, <2>2, <2>3, MovesControl DEF Control, Go, locks, j
<1>3. CASE PruneNext(p) /\ job[p].targets = {}
  <2>1. "reclaim" \in Steps /\ Fits(job[p], "reclaim") /\ ~Holding(job[p], "reclaim")
    BY <1>1 DEF Steps, Fits, BetweenSteps, Holding, DeletingSteps, Listings, Prunings
  <2>2. Go(p, "reclaim") /\ UNCHANGED <<job, locks, since, kills>>
    BY <1>3 DEF PruneNext, locks
  <2> QED
    BY <2>1, <2>2, GoControl DEF Control
<1>4. CASE PruneNext(p) /\ job[p].targets # {}
  <2>1. PICK w \in job[p].targets :
          /\ job' = [job EXCEPT ![p] = [op |-> "prune", name |-> w, targets |-> @.targets \ {w}]]
          /\ IF lock[w] = Free /\ record[w] # "none"
             THEN lock' = [lock EXCEPT ![w] = p] /\ Go(p, "delete")
             ELSE UNCHANGED <<lock, pc>>
    BY <1>4 DEF PruneNext
  <2> DEFINE j == [op |-> "prune", name |-> w, targets |-> job[p].targets \ {w}]
  <2>2. w \in Names /\ job[p].targets \subseteq Names
    BY <1>1 DEF Listings, Prunings
  <2>3. j \in Prunings /\ j.name = w /\ j.op = "prune"
    BY <2>2 DEF Prunings
  <2>4. job' = [job EXCEPT ![p] = j]
    BY <2>1
  <2> HIDE DEF j
  <2>5. j \in Work /\ ~Holding(j, "next") /\ Fits(j, "next") /\ Fits(j, "delete")
        /\ {"next", "delete"} \subseteq Steps
    BY <2>3 DEF Work, Holding, Fits, BetweenSteps, DeletingSteps, Steps
  <2>6. UNCHANGED <<clock, since, kills>>
    BY <1>4 DEF PruneNext
  <2>7. CASE lock[w] = Free /\ record[w] # "none"
    <3>1. /\ lock' \in [Names -> Procs \cup {Free}] /\ lock'[w] = p
          /\ \A q \in Procs \ {p}, v \in Names : lock[v] = q => lock'[v] = q
      BY <2>1, <2>2, <2>7 DEF Control
    <3> QED
      BY <2>1, <2>3, <2>4, <2>5, <2>6, <2>7, <3>1, MovesControl DEF Control, Go
  <2>8. CASE ~(lock[w] = Free /\ record[w] # "none")
    <3>1. pc' = [pc EXCEPT ![p] = "next"]
      BY <1>4, <2>1, <2>8 DEF PruneNext, At, Control
    <3> QED
      BY <2>1, <2>4, <2>5, <2>6, <2>8, <3>1, MovesControl DEF Control
  <2> QED
    BY <2>7, <2>8
<1> QED
  BY <1>2, <1>3, <1>4

LEMMA ReclaimControl ==
  ASSUME Control, NEW p \in Procs, ReclaimCluster(p) \/ KindDelete(p)
  PROVE  Control' /\ Others(p)
<1>1. CASE Finish(p)
  BY <1>1, FinishControl
<1>2. CASE ReclaimCluster(p) /\ ~Finish(p)
  <2>1. job[p] \in Creates \cup Listings \cup Prunings
    BY <1>2, WhoIsWhere DEF ReclaimCluster, At
  <2>2. "kind" \in Steps /\ Fits(job[p], "kind") /\ (Holding(job[p], "kind") => Holding(job[p], pc[p]))
    BY <2>1 DEF Steps, Fits, BetweenSteps, CreateSteps, Holding, DeletingSteps
  <2>3. /\ clock' = p /\ Go(p, "kind") /\ UNCHANGED <<lock, job, since, kills>>
    BY <1>2 DEF ReclaimCluster
  <2>4. job' = [job EXCEPT ![p] = job[p]] /\ job[p] \in Work
    BY <2>3 DEF Control
  <2>5. Holding(job[p], "kind") => lock'[job[p].name] = p
    BY <2>2, <2>3 DEF Control, Name
  <2> QED
    BY <2>2, <2>3, <2>4, <2>5, MovesControl DEF Control, Go
<1> QED
  BY <1>1, <1>2 DEF KindDelete

\* Every step of a process keeps Control, and what the others have.
LEMMA ProcessControl ==
  ASSUME Control, Cluster, NEW p \in Procs,
         Call(p) \/ Create(p) \/ Monitor(p) \/ SharedStep(p) \/ Remove(p) \/ Kill(p)
  PROVE  Control' /\ Others(p)
BY CallControl, CreateControl, MonitorControl, SharedStepControl, DeletingControl,
   PruningControl, ReclaimControl, KillControl DEF Remove

-----------------------------------------------------------------------------
(* Cluster: what an absent or unlabelled namespace cannot hold.            *)

LEMMA InitCluster == Init => Cluster
<1> SUFFICES ASSUME Init PROVE Cluster
  OBVIOUS
<1>1. helm \in [Names \cup Shared -> HelmStates] /\ \A w \in Names : helm[w] = "none"
  BY DEF Init, HelmStates
<1>2. /\ cluster \in BOOLEAN /\ work \in [Names -> SUBSET Pieces] /\ wants \in [Names -> BOOLEAN]
      /\ ns \in [Names -> {"absent", "bare", "active", "terminating"}]
      /\ record \in [Names -> {"none", "incomplete", "complete"}]
      /\ \A w \in Names : ns[w] = "absent" /\ work[w] = {} /\ ~wants[w]
  BY DEF Init
<1> QED
  BY <1>1, <1>2 DEF Cluster

LEMMA Named ==
  ASSUME Control, NEW p \in Procs, pc[p] \notin {"idle"} \cup BetweenSteps
  PROVE  Name(p) \in Names
<1> Fits(job[p], pc[p])
  BY DEF Control
<1> QED
  BY DEF Fits, Name, BetweenSteps, Creates, Downs, Attaches, Detaches, Prunings

LEMMA CreateCluster ==
  ASSUME Control, Cluster, NEW p \in Procs, Create(p) PROVE Cluster'
<1> USE DEF BetweenSteps
<1>1. CASE UNCHANGED <<kube, record>>
  BY <1>1 DEF Cluster, kube
<1>2. CASE EnsureCluster(p)
  <2>1. UNCHANGED <<ns, work, wants, helm, record>>
    BY <1>2 DEF EnsureCluster
  <2>2. cluster' = cluster \/ cluster' = TRUE
    BY <1>2 DEF EnsureCluster
  <2> QED
    BY <2>1, <2>2 DEF Cluster
<1>3. CASE WriteAhead(p) \/ Complete(p)
  BY <1>3 DEF WriteAhead, Complete, Cluster, kube
<1>4. CASE EnsureNamespace(p)
  BY <1>4, Named DEF EnsureNamespace, Cluster, At
<1>5. CASE LabelNamespace(p)
  BY <1>5, Named DEF LabelNamespace, Cluster, At
<1>6. CASE ApplyMongo(p)
  <2>1. Name(p) \in Names
    BY <1>6, Named DEF ApplyMongo
  <2>2. UNCHANGED <<cluster, ns, wants, helm, record>>
    BY <1>6 DEF ApplyMongo
  <2>3. CASE UNCHANGED work
    BY <2>2, <2>3 DEF Cluster
  <2>4. CASE ~UNCHANGED work
    <3>1. ns[Name(p)] = "active" /\ cluster
      BY <1>6, <2>4 DEF ApplyMongo, Accepts
    <3>2. work' \in [Names -> SUBSET Pieces]
      BY <1>6, <2>1, <2>4 DEF ApplyMongo, Cluster, Pieces
    <3>3. \A w \in Names : w # Name(p) => work'[w] = work[w]
      BY <1>6, <2>1, <2>4 DEF ApplyMongo, Cluster
    <3> QED
      BY <2>1, <2>2, <3>1, <3>2, <3>3 DEF Cluster
  <2> QED
    BY <2>3, <2>4
<1>7. CASE InstallChart(p)
  <2>1. Name(p) \in Names
    BY <1>7, Named DEF InstallChart, At
  <2> QED
    BY <1>7, <2>1 DEF InstallChart, Cluster, Accepts, HelmStates, Serves, Pending
<1>8. CASE RollBack(p)
  BY <1>8, Named DEF RollBack, Cluster, At
<1> QED
  BY <1>1, <1>2, <1>3, <1>4, <1>5, <1>6, <1>7, <1>8
     DEF Create, PlanCluster, AssertNamespaceAvailable, HadNamespace, MongoReady

LEMMA MonitorCluster ==
  ASSUME Control, Cluster, NEW p \in Procs, Monitor(p) PROVE Cluster'
<1> USE DEF BetweenSteps
<1>1. CASE Want(p)
  BY <1>1, Named DEF Want, Cluster, At
<1>2. CASE Unwant(p)
  BY <1>2, Named DEF Unwant, Cluster, At
<1>3. CASE Attached(p) \/ Detached(p)
  BY <1>3 DEF Attached, Detached, Cluster, kube
<1> QED
  BY <1>1, <1>2, <1>3 DEF Monitor

\* A step about a shared release changes nothing in a workspace.
LEMMA SharedStepCluster ==
  ASSUME Control, Cluster, NEW p \in Procs, SharedStep(p)
  PROVE  Cluster' /\ \A w \in Names : helm'[w] = helm[w]
<1>1. PICK r \in Shared : BeginInstall(p, r) \/ EndInstall(p, r) \/ Removing(p, r)
  BY SharedStepIs
<1>2. UNCHANGED <<cluster, ns, work, wants, record>>
  BY <1>1 DEF BeginInstall, EndInstall, Removing, Installed, ListUsers, AskWants, RemoveShared, kube
<1>3. \/ UNCHANGED helm
      \/ \E h \in HelmStates : helm' = [helm EXCEPT ![r] = h]
  BY <1>1 DEF BeginInstall, EndInstall, Removing, Installed, ListUsers, AskWants, RemoveShared,
              kube, HelmStates, Pending
<1>4. helm' \in [Names \cup Shared -> HelmStates] /\ \A w \in Names : helm'[w] = helm[w]
  BY <1>3, OwnReleases DEF Cluster
<1> QED
  BY <1>2, <1>4 DEF Cluster

LEMMA RemoveCluster ==
  ASSUME Control, Cluster, NEW p \in Procs, Remove(p) PROVE Cluster'
<1> USE DEF BetweenSteps
<1>1. CASE UNCHANGED <<kube, record>>
  BY <1>1 DEF Cluster, kube
<1>2. CASE DeleteNamespace(p)
  BY <1>2, Named DEF DeleteNamespace, Cluster, At
<1>3. CASE Uninstall(p)
  <2>1. Name(p) \in Names
    BY <1>3, Named DEF Uninstall, At
  <2>2. /\ helm' \in [Names \cup Shared -> HelmStates]
        /\ \A w \in Names : helm'[w] = helm[w] \/ helm'[w] = "none"
    BY <1>3, <2>1 DEF Uninstall, Cluster, HelmStates
  <2>3. /\ work' \in [Names -> SUBSET Pieces]
        /\ \A w \in Names : work'[w] \subseteq work[w]
    BY <1>3, <2>1 DEF Uninstall, Cluster
  <2> QED
    BY <1>3, <2>2, <2>3 DEF Uninstall, Cluster
<1>4. CASE Forget(p)
  BY <1>4, Named DEF Forget, Cluster, At, kube
<1>5. CASE KindDelete(p) /\ ~UNCHANGED kube
  BY <1>5 DEF KindDelete, Cluster, HelmStates
<1> QED
  BY <1>1, <1>2, <1>3, <1>4, <1>5
     DEF Remove, ReadLabels, WaitGone, Prunable, PruneNext, ReclaimCluster, KindDelete

LEMMA KillCluster ==
  ASSUME Control, Cluster, NEW p \in Procs, Kill(p) PROVE Cluster'
<1>1. CASE UNCHANGED helm
  BY <1>1 DEF Kill, Cluster
<1>2. CASE At(p, "chart") /\ Accepts(Name(p))
            /\ helm' = [helm EXCEPT ![Name(p)] = IF Serves(Name(p)) THEN "later" ELSE "first"]
  <2>1. Name(p) \in Names /\ cluster /\ ns[Name(p)] = "active"
    BY <1>2, Named DEF At, Accepts, BetweenSteps
  <2>2. /\ helm' \in [Names \cup Shared -> HelmStates]
        /\ \A w \in Names : w # Name(p) => helm'[w] = helm[w]
    BY <1>2, <2>1 DEF Cluster, HelmStates, Pending
  <2>3. UNCHANGED <<cluster, ns, work, wants, record>>
    BY DEF Kill
  <2> QED
    BY <2>1, <2>2, <2>3 DEF Cluster
<1> QED
  BY <1>1, <1>2 DEF Kill

LEMMA GoneCluster ==
  ASSUME Cluster, NEW w \in Names, NamespaceGone(w) PROVE Cluster'
BY DEF NamespaceGone, Cluster, HelmStates

LEMMA NextCluster == ASSUME Control, Cluster, Next PROVE Cluster'
<1>1. ASSUME NEW p \in Procs, Call(p) PROVE Cluster'
  <2>1. UNCHANGED <<kube, record>>
    BY <1>1 DEF Call
  <2> QED
    BY <2>1 DEF Cluster, kube
<1> QED
  BY <1>1, CreateCluster, MonitorCluster, SharedStepCluster, RemoveCluster, KillCluster,
     GoneCluster DEF Next

-----------------------------------------------------------------------------
(* What a step may do to the shared releases, their users and the counts.  *)

\* Nothing, except that p may stop counting.
Same(p) ==
  /\ \A r \in Shared : UsersOf(r)' = UsersOf(r) /\ Serves(r)' = Serves(r)
  /\ since' = since \/ since' = [since EXCEPT ![p] = Idle]

\* A release comes up.
Installs(r) ==
  /\ Serves(r)' = TRUE /\ since' = since
  /\ \A s \in Shared : UsersOf(s)' = UsersOf(s)
  /\ \A s \in Shared \ {r} : Serves(s)' = Serves(s)

\* Users go.
Leaves ==
  /\ \A r \in Shared : UsersOf(r)' \subseteq UsersOf(r) /\ Serves(r)' = Serves(r)
  /\ since' = since

\* A user comes, and whoever counted the users of that release is to know.
Comes(r, w) ==
  /\ Arrives(r, w) /\ UsersOf(r)' = UsersOf(r) \cup {w}
  /\ \A s \in Shared \ {r} : UsersOf(s)' = UsersOf(s)
  /\ \A s \in Shared : Serves(s)' = Serves(s)

\* p begins to count, and everybody but the workspace it is destroying has yet
\* to be asked.
Counts(p, r) ==
  /\ pc[p] = listAt[r]
  /\ \E asked \in SUBSET Names : /\ UsersOf(r) \subseteq (asked \cup Excluded(p))
                                /\ since' = [since EXCEPT ![p] = Count(r, asked)]
  /\ \A s \in Shared : UsersOf(s)' = UsersOf(s) /\ Serves(s)' = Serves(s)

\* p learns of one more namespace that it does not use monitoring.
Asks(p) ==
  /\ pc[p] = "ask monitoring" /\ pc' = pc
  /\ \E w \in Names \ UsersOf("monitoring") : since' = [since EXCEPT ![p].left = @ \ {w}]
  /\ \A s \in Shared : UsersOf(s)' = UsersOf(s) /\ Serves(s)' = Serves(s)

\* p removes what it counted.
Removes(p, r) ==
  /\ pc[p] = removeAt[r] /\ since' = [since EXCEPT ![p] = Idle]
  /\ ~Serves(r)'
  /\ \A s \in Shared : UsersOf(s)' = UsersOf(s)
  /\ \A s \in Shared \ {r} : Serves(s)' = Serves(s)

\* The cluster goes.
Vanishes(p) ==
  /\ \A r \in Shared : ~Serves(r)' /\ UsersOf(r)' = {}
  /\ since' = [since EXCEPT ![p] = Idle]

LEMMA SameUsers == ASSUME UNCHANGED <<ns, work, wants>> PROVE \A r : UsersOf(r)' = UsersOf(r)
BY DEF UsersOf, MongodbResources, Labelled

LEMMA SameServes == ASSUME NEW r, helm'[r] = helm[r] PROVE Serves(r)' = Serves(r)
BY DEF Serves

LEMMA UnchangedSame ==
  ASSUME NEW p \in Procs, UNCHANGED kube, since' = since \/ since' = [since EXCEPT ![p] = Idle]
  PROVE  Same(p)
BY SameUsers, SameServes DEF Same, kube

LEMMA StillSince ==
  ASSUME NEW p \in Procs, Finish(p) \/ (\E l : To(p, l))
  PROVE  since' = since \/ since' = [since EXCEPT ![p] = Idle]
BY DEF Finish, To

LEMMA CreateUsers ==
  ASSUME IInv, NEW p \in Procs, Create(p)
  PROVE  Same(p) \/ \E r \in Shared, w \in Names : Comes(r, w)
<1> USE DEF IInv
<1>1. Name(p) \in Names /\ Name(p) \notin Shared
  <2>1. pc[p] \notin {"idle"} \cup BetweenSteps
    BY DEF Create, At, PlanCluster, EnsureCluster, AssertNamespaceAvailable, WriteAhead,
           HadNamespace, EnsureNamespace, LabelNamespace, ApplyMongo, MongoReady, InstallChart,
           Complete, RollBack, BetweenSteps
  <2> QED
    BY <2>1, Named, OwnReleases
<1>2. CASE \/ PlanCluster(p) \/ AssertNamespaceAvailable(p) \/ WriteAhead(p)
           \/ HadNamespace(p) \/ MongoReady(p) \/ Complete(p)
  <2>1. UNCHANGED kube
    BY <1>2 DEF PlanCluster, AssertNamespaceAvailable, WriteAhead, HadNamespace, MongoReady,
                Complete, kube
  <2>2. since' = since \/ since' = [since EXCEPT ![p] = Idle]
    BY <1>2, StillSince DEF PlanCluster, AssertNamespaceAvailable, WriteAhead, HadNamespace,
                MongoReady, Complete
  <2> QED
    BY <2>1, <2>2, UnchangedSame
<1>3. CASE EnsureCluster(p)
  BY <1>3, SameUsers, SameServes, StillSince DEF EnsureCluster, Same
<1>4. CASE EnsureNamespace(p)
  <2>1. Labelled' = Labelled
    BY <1>1, <1>4 DEF EnsureNamespace, Cluster, Labelled
  <2> QED
    BY <1>4, <2>1, SameServes, StillSince DEF EnsureNamespace, Same, UsersOf, MongodbResources
<1>5. CASE LabelNamespace(p)
  <2>1. UNCHANGED <<work, wants, helm>>
    BY <1>5 DEF LabelNamespace
  <2>2. CASE Finish(p) /\ UNCHANGED ns
    BY <2>1, <2>2, SameUsers, SameServes, StillSince DEF Same
  <2>3. CASE ~(Finish(p) /\ UNCHANGED ns)
    <3>1. Labelled' = Labelled \cup {Name(p)}
      BY <1>1, <1>5, <2>3 DEF LabelNamespace, Cluster, Labelled
    <3>2. UsersOf("operator")' = UsersOf("operator")
      BY <2>1 DEF UsersOf, MongodbResources
    <3>3. UsersOf("monitoring")' = IF wants[Name(p)] THEN UsersOf("monitoring") \cup {Name(p)}
                                   ELSE UsersOf("monitoring")
      BY <1>1, <2>1, <3>1 DEF UsersOf
    <3>4. IF wants[Name(p)] THEN Arrives("monitoring", Name(p)) ELSE UNCHANGED since
      BY <1>5, <2>3 DEF LabelNamespace
    <3> QED
      BY <1>1, <2>1, <3>2, <3>3, <3>4, SameServes DEF Same, Comes, Shared
  <2> QED
    BY <2>2, <2>3
<1>6. CASE ApplyMongo(p)
  <2>1. UNCHANGED <<ns, wants, helm>>
    BY <1>6 DEF ApplyMongo
  <2>2. UsersOf("monitoring")' = UsersOf("monitoring")
    BY <2>1 DEF UsersOf, Labelled
  <2>3. CASE To(p, "rollback") /\ UNCHANGED work
    BY <2>1, <2>3, SameUsers, SameServes, StillSince DEF Same
  <2>4. CASE ~(To(p, "rollback") /\ UNCHANGED work)
    <3>1. work' = [work EXCEPT ![Name(p)] = @ \cup {"mongo", "data"}
                      \cup IF At(p, "custom") THEN {"custom"} ELSE {}]
      BY <1>6, <2>4 DEF ApplyMongo
    <3>2. IF At(p, "custom") THEN Arrives("operator", Name(p)) ELSE UNCHANGED since
      BY <1>6, <2>4 DEF ApplyMongo
    <3>3. MongodbResources' = IF At(p, "custom") THEN MongodbResources \cup {Name(p)}
                              ELSE MongodbResources
      BY <1>1, <3>1 DEF MongodbResources, Cluster
    <3> QED
      BY <1>1, <2>1, <2>2, <3>2, <3>3, SameServes DEF Same, Comes, Shared, UsersOf
  <2> QED
    BY <2>3, <2>4
<1>7. CASE InstallChart(p)
  <2>1. \A r \in Shared : helm'[r] = helm[r]
    BY <1>1, <1>7 DEF InstallChart, Cluster
  <2> QED
    BY <1>7, <2>1, SameUsers, SameServes, StillSince DEF InstallChart, Same
<1>8. CASE RollBack(p)
  <2>1. Labelled' = Labelled
    BY <1>1, <1>8 DEF RollBack, Cluster, Labelled
  <2> QED
    BY <1>8, <2>1, SameServes, StillSince DEF RollBack, Same, UsersOf, MongodbResources
<1> QED
  BY <1>2, <1>3, <1>4, <1>5, <1>6, <1>7, <1>8 DEF Create

LEMMA MonitorUsers ==
  ASSUME IInv, NEW p \in Procs, Monitor(p)
  PROVE  Same(p) \/ Leaves \/ \E r \in Shared, w \in Names : Comes(r, w)
<1> USE DEF IInv
<1>1. CASE Want(p)
  <2>1. Name(p) \in Names
    BY <1>1, Named DEF Want, At, BetweenSteps
  <2>2. UNCHANGED <<cluster, ns, work, helm>>
    BY <1>1 DEF Want
  <2>3. CASE Finish(p) /\ UNCHANGED wants
    BY <2>2, <2>3, SameUsers, SameServes, StillSince DEF Same
  <2>4. CASE ~(Finish(p) /\ UNCHANGED wants)
    <3>1. wants' = [wants EXCEPT ![Name(p)] = TRUE]
      BY <1>1, <2>4 DEF Want
    <3>2. IF Name(p) \in Labelled THEN Arrives("monitoring", Name(p)) ELSE UNCHANGED since
      BY <1>1, <2>4 DEF Want
    <3>3. UsersOf("monitoring")' = IF Name(p) \in Labelled THEN UsersOf("monitoring") \cup {Name(p)}
                                   ELSE UsersOf("monitoring")
      BY <2>1, <2>2, <3>1 DEF UsersOf, Labelled, Cluster
    <3>4. UsersOf("operator")' = UsersOf("operator")
      BY <2>2 DEF UsersOf, MongodbResources
    <3> QED
      BY <2>1, <2>2, <3>2, <3>3, <3>4, SameServes DEF Same, Comes, Shared
  <2> QED
    BY <2>3, <2>4
<1>2. CASE Unwant(p)
  <2>1. \A w \in Names : wants'[w] => wants[w]
    BY <1>2, Named DEF Unwant, Cluster, At, BetweenSteps
  <2>2. UNCHANGED <<ns, work, helm, since>>
    BY <1>2 DEF Unwant, To
  <2>3. \A r \in Shared : UsersOf(r)' \subseteq UsersOf(r)
    BY <2>1, <2>2 DEF UsersOf, Labelled, MongodbResources
  <2> QED
    BY <2>2, <2>3, SameServes DEF Leaves
<1>3. CASE Attached(p) \/ Detached(p)
  BY <1>3, StillSince, UnchangedSame DEF Attached, Detached
<1> QED
  BY <1>1, <1>2, <1>3 DEF Monitor

LEMMA RemovingUsers ==
  ASSUME IInv, NEW p \in Procs, NEW r \in Shared, Removing(p, r)
  PROVE  Same(p) \/ Counts(p, r) \/ Asks(p) \/ Removes(p, r)
<1> USE DEF IInv
<1>1. \A s : UsersOf(s)' = UsersOf(s)
  BY SameUsers DEF Removing, Installed, ListUsers, AskWants, RemoveShared, kube
<1>2. CASE Installed(p, r)
  BY <1>2, UnchangedSame DEF Installed, LeaveUp, To
<1>3. CASE ListUsers(p, r)
  <2>1. CASE LeaveUp(p, r)
    BY <1>3, <2>1, UnchangedSame DEF ListUsers, LeaveUp
  <2>2. CASE ~LeaveUp(p, r)
    <3>1. DEFINE asked == IF r = "operator" THEN {} ELSE Labelled \ Excluded(p)
    <3>2. since' = [since EXCEPT ![p] = Count(r, asked)] /\ asked \in SUBSET Names
      BY <1>3, <2>2 DEF ListUsers, Labelled
    <3>3. UsersOf(r) \subseteq (asked \cup Excluded(p))
      <4>1. CASE r = "operator"
        <5>1. UsersOf(r) \ Excluded(p) = {}
          BY <1>3, <2>2, <4>1 DEF ListUsers
        <5> QED
          BY <5>1
      <4>2. CASE r = "monitoring"
        BY <4>2 DEF UsersOf
      <4> QED
        BY <4>1, <4>2 DEF Shared
    <3>4. \A s \in Shared : Serves(s)' = Serves(s)
      BY <1>3, SameServes DEF ListUsers, kube
    <3> HIDE DEF asked
    <3> QED
      BY <1>1, <1>3, <3>2, <3>3, <3>4 DEF Counts, ListUsers, At
  <2> QED
    BY <2>1, <2>2
<1>4. CASE r = "monitoring" /\ AskWants(p)
  <2>1. CASE To(p, "remove monitoring") \/ LeaveUp(p, "monitoring")
    BY <1>4, <2>1, UnchangedSame DEF AskWants, LeaveUp, To
  <2>2. CASE ~(To(p, "remove monitoring") \/ LeaveUp(p, "monitoring"))
    <3>1. PICK w \in since[p].left : /\ ~wants[w] /\ since' = [since EXCEPT ![p].left = @ \ {w}]
                                     /\ pc' = pc
      BY <1>4, <2>2 DEF AskWants
    <3>2. w \in Names \ UsersOf("monitoring")
      BY <3>1 DEF UsersOf, Control
    <3>3. \A s \in Shared : Serves(s)' = Serves(s)
      BY <1>4, SameServes DEF AskWants, kube
    <3> QED
      BY <1>1, <1>4, <3>1, <3>2, <3>3 DEF Asks, AskWants, At
  <2> QED
    BY <2>1, <2>2
<1>5. CASE RemoveShared(p, r)
  <2>1. CASE UNCHANGED helm
    BY <1>1, <1>5, <2>1, SameServes DEF RemoveShared, Same
  <2>2. CASE helm' = [helm EXCEPT ![r] = "none"]
    BY <1>1, <1>5, <2>2 DEF RemoveShared, Removes, Serves, Cluster, At
  <2> QED
    BY <1>5, <2>1, <2>2 DEF RemoveShared
<1> QED
  BY <1>2, <1>3, <1>4, <1>5 DEF Removing

LEMMA SharedStepUsers ==
  ASSUME IInv, NEW p \in Procs, SharedStep(p)
  PROVE  \/ Same(p) \/ Asks(p)
         \/ \E r \in Shared : Installs(r) \/ Counts(p, r) \/ Removes(p, r)
<1> USE DEF IInv
<1>1. PICK r \in Shared : BeginInstall(p, r) \/ EndInstall(p, r) \/ Removing(p, r)
  BY SharedStepIs
<1>3. CASE BeginInstall(p, r)
  <2>1. \A s \in Shared : Serves(s)' = Serves(s)
    BY <1>3 DEF BeginInstall, Serves, Cluster
  <2> QED
    BY <1>3, <2>1, SameUsers, StillSince DEF BeginInstall, Same
<1>4. CASE EndInstall(p, r)
  <2>0. \A s : UsersOf(s)' = UsersOf(s)
    BY <1>4, SameUsers DEF EndInstall
  <2>1. CASE \E l : To(p, l) /\ helm' = [helm EXCEPT ![r] = "deployed"]
    BY <2>0, <2>1 DEF Installs, Serves, Cluster, To
  <2>2. CASE helm' = [helm EXCEPT ![r] = IF Serves(r) THEN "deployed" ELSE "none"]
    <3>1. \A s \in Shared : Serves(s)' = Serves(s)
      BY <2>2 DEF Serves, Cluster
    <3>2. since' = since \/ since' = [since EXCEPT ![p] = Idle]
      BY <1>4, StillSince DEF EndInstall
    <3> QED
      BY <2>0, <3>1, <3>2 DEF Same
  <2> QED
    BY <1>4, <2>1, <2>2 DEF EndInstall
<1> QED
  BY <1>1, <1>3, <1>4, RemovingUsers

LEMMA RemoveUsers ==
  ASSUME IInv, NEW p \in Procs, Remove(p)
  PROVE  Same(p) \/ Vanishes(p)
<1> USE DEF IInv
<1>1. CASE ReadLabels(p) \/ WaitGone(p) \/ Forget(p) \/ Prunable(p) \/ PruneNext(p)
  <2>1. UNCHANGED kube
    BY <1>1 DEF ReadLabels, WaitGone, Forget, Prunable, PruneNext
  <2>2. since' = since \/ since' = [since EXCEPT ![p] = Idle]
    BY <1>1, StillSince DEF ReadLabels, WaitGone, Forget, Prunable, PruneNext, Gone, NotGone
  <2> QED
    BY <2>1, <2>2, UnchangedSame
<1>2. CASE ReclaimCluster(p)
  BY <1>2, StillSince, UnchangedSame DEF ReclaimCluster
<1>3. CASE DeleteNamespace(p)
  <2>1. Labelled' = Labelled
    BY <1>3, Named DEF DeleteNamespace, Cluster, Labelled, At, BetweenSteps
  <2> QED
    BY <1>3, <2>1, SameServes, StillSince DEF DeleteNamespace, Same, UsersOf, MongodbResources
<1>4. CASE Uninstall(p)
  <2>1. Name(p) \in Names /\ Name(p) \notin Shared
    BY <1>4, Named, OwnReleases DEF Uninstall, At, BetweenSteps
  <2>2. \A r \in Shared : helm'[r] = helm[r]
    BY <1>4, <2>1 DEF Uninstall, Cluster
  <2>3. \A w \in Names : "custom" \in work'[w] <=> "custom" \in work[w]
    BY <1>4, <2>1 DEF Uninstall, Cluster
  <2>4. UNCHANGED <<ns, wants>>
    BY <1>4 DEF Uninstall
  <2> QED
    BY <1>4, <2>2, <2>3, <2>4, SameServes, StillSince
       DEF Uninstall, Same, UsersOf, MongodbResources, Labelled
<1>5. CASE KindDelete(p)
  <2>1. since' = [since EXCEPT ![p] = Idle]
    BY <1>5 DEF KindDelete, Finish
  <2>2. CASE UNCHANGED kube
    BY <2>1, <2>2, UnchangedSame
  <2>3. CASE /\ ns' = [w \in Names |-> "absent"] /\ work' = [w \in Names |-> {}]
             /\ helm' = [r \in Names \cup Shared |-> "none"]
    BY <2>1, <2>3 DEF Vanishes, Serves, UsersOf, MongodbResources, Labelled
  <2> QED
    BY <1>5, <2>2, <2>3 DEF KindDelete
<1> QED
  BY <1>1, <1>2, <1>3, <1>4, <1>5 DEF Remove

LEMMA KillUsers == ASSUME IInv, NEW p \in Procs, Kill(p) PROVE Same(p)
<1>1. UNCHANGED <<ns, work, wants>> /\ since' = [since EXCEPT ![p] = Idle]
  BY DEF Kill
<1>2. \A r \in Shared : helm'[r] = helm[r]
  <2>1. CASE UNCHANGED helm
    BY <2>1
  <2>2. CASE ~UNCHANGED helm
    BY <2>2, Named, OwnReleases DEF IInv, Kill, At, BetweenSteps, Cluster
  <2> QED
    BY <2>1, <2>2
<1> QED
  BY <1>1, <1>2, SameUsers, SameServes DEF Same

LEMMA GoneUsers == ASSUME IInv, NEW w \in Names, NamespaceGone(w) PROVE Leaves
<1>1. \A r \in Shared : helm'[r] = helm[r]
  BY OwnReleases DEF NamespaceGone, IInv, Cluster
<1>2. /\ \A v \in Names : ns'[v] = "absent" \/ ns'[v] = ns[v]
      /\ \A v \in Names : work'[v] \subseteq work[v] /\ (wants'[v] => wants[v])
  BY DEF NamespaceGone, IInv, Cluster
<1>3. \A r \in Shared : UsersOf(r)' \subseteq UsersOf(r)
  BY <1>2 DEF UsersOf, MongodbResources, Labelled
<1> QED
  BY <1>1, <1>3, SameServes DEF Leaves, NamespaceGone

\* What a step of a process comes to.
LEMMA ProcessUsers ==
  ASSUME IInv, NEW p \in Procs,
         Call(p) \/ Create(p) \/ Monitor(p) \/ SharedStep(p) \/ Remove(p) \/ Kill(p)
  PROVE  \/ Same(p) \/ Leaves \/ Vanishes(p) \/ Asks(p)
         \/ \E r \in Shared : Installs(r) \/ Counts(p, r) \/ Removes(p, r)
         \/ \E r \in Shared, w \in Names : Comes(r, w)
<1>1. CASE Call(p)
  BY <1>1, UnchangedSame DEF Call
<1> QED
  BY <1>1, CreateUsers, MonitorUsers, SharedStepUsers, RemoveUsers, KillUsers

-----------------------------------------------------------------------------
(* Known: what a process relies on of what it has seen or done.            *)

Moves(p) == Call(p) \/ Create(p) \/ Monitor(p) \/ SharedStep(p) \/ Remove(p) \/ Kill(p)

LEMMA MovesStep == Next <=> (\E p \in Procs : Moves(p)) \/ (\E w \in Names : NamespaceGone(w))
BY DEF Next, Moves

\* The steps that rely on something, and the actions that lead to them.
Relying == {"cluster", "had", "namespace", "forget"} \cup OperatorSteps \cup MonitoringSteps

LEMMA Landing ==
  ASSUME Control, NEW p \in Procs, NEW l, Go(p, l) \/ To(p, l) PROVE pc'[p] = l
BY DEF Control, Go, To

LEMMA Ending == ASSUME Control, NEW p \in Procs, Finish(p) \/ Kill(p) PROVE pc'[p] = "idle"
BY DEF Control, Finish, Kill

LEMMA IntoRelying ==
  ASSUME Control, NEW p \in Procs, Moves(p), pc'[p] \in Relying
  PROVE  \/ WriteAhead(p) \/ EnsureCluster(p) \/ HadNamespace(p) \/ Unwant(p)
         \/ ReadLabels(p) \/ WaitGone(p)
         \/ \E r \in Shared : Removing(p, r)
<1> USE DEF Relying
<1>1. ~Finish(p) /\ ~Kill(p)
  BY Ending
<1>2. CASE Call(p)
  <2>1. PICK l \in {"plan", "delete", "list", "begin monitoring", "unlabel"} : Go(p, l)
    BY <1>2 DEF Call
  <2> QED
    BY <2>1, Landing
<1>3. CASE Create(p)
  BY <1>1, <1>3, Landing
     DEF Create, PlanCluster, AssertNamespaceAvailable, EnsureNamespace, LabelNamespace,
         ApplyMongo, MongoReady, InstallChart, Complete, RollBack
<1>4. CASE Monitor(p)
  BY <1>1, <1>4, Landing DEF Monitor, Want, Attached, Detached
<1>5. CASE SharedStep(p)
  BY <1>1, <1>5, Landing, SharedTables, SharedStepIs DEF BeginInstall, EndInstall, Shared
<1>6. CASE DeleteNamespace(p) \/ Uninstall(p) \/ Prunable(p) \/ ReclaimCluster(p) \/ KindDelete(p)
  BY <1>1, <1>6, Landing DEF DeleteNamespace, Uninstall, Prunable, ReclaimCluster, KindDelete
<1>7. CASE Forget(p)
  BY <1>1, <1>7, Landing DEF Forget, NotGone
<1>8. CASE PruneNext(p)
  BY <1>8, Landing DEF PruneNext, At
<1> QED
  BY <1>1, <1>2, <1>3, <1>4, <1>5, <1>6, <1>7, <1>8 DEF Moves, Remove

\* Two processes that hold locks are about different workspaces.
LEMMA Exclusive ==
  ASSUME Control, NEW p \in Procs, NEW q \in Procs, p # q,
         Holding(job[p], pc[p]), Holding(job[q], pc[q])
  PROVE  Name(p) # Name(q)
BY DEF Control

\* A record goes only at "forget".
LEMMA RecordsStay ==
  ASSUME Control, Cluster, NEW p \in Procs, Moves(p), NEW w \in Names,
         record[w] # "none", pc[p] # "forget" \/ w # Name(p)
  PROVE  record'[w] # "none"
<1>1. CASE UNCHANGED record
  BY <1>1
<1>2. CASE WriteAhead(p) \/ Complete(p)
  BY <1>2 DEF WriteAhead, Complete, Cluster
<1>3. CASE Forget(p)
  BY <1>3 DEF Forget, Cluster, At
<1> QED
  BY <1>1, <1>2, <1>3
     DEF Moves, Call, Create, PlanCluster, EnsureCluster, AssertNamespaceAvailable, HadNamespace,
         EnsureNamespace, LabelNamespace, ApplyMongo, MongoReady, InstallChart, RollBack,
         Monitor, Want, Attached, Unwant, Detached,
         SharedStep, BeginInstall, EndInstall, Installed, ListUsers, AskWants, LeaveUp, RemoveShared,
         Remove, ReadLabels, DeleteNamespace, WaitGone, Uninstall, Prunable, PruneNext,
         ReclaimCluster, KindDelete, Kill

LEMMA WrittenStep == ASSUME IInv, NEW p \in Procs, Moves(p) PROVE Written'
<1> USE DEF IInv
<1>1. Control' /\ Others(p)
  BY ProcessControl DEF Moves
<1> SUFFICES ASSUME NEW q \in Procs, pc'[q] \in {"cluster", "had", "namespace"}
             PROVE  record'[job'[q].name] # "none"
  BY DEF Written, Name
<1>2. CASE q = p
  <2>1. WriteAhead(p) \/ EnsureCluster(p) \/ HadNamespace(p)
    <3>1. pc'[p] \in Relying
      BY <1>2 DEF Relying
    <3>2. ~Unwant(p) /\ ~ReadLabels(p) /\ ~WaitGone(p)
      BY <1>2, Landing, Ending DEF Unwant, ReadLabels, WaitGone, Gone, NotGone
    <3>3. \A r \in Shared : ~Removing(p, r)
      BY <1>2, RemovalMoves, StepsAre DEF AfterRemoval, Shared
    <3> QED
      BY <3>1, <3>2, <3>3, IntoRelying
  <2>2. Name(p) \in Names
    BY <2>1, Named DEF WriteAhead, EnsureCluster, HadNamespace, At, BetweenSteps
  <2>3. CASE WriteAhead(p)
    BY <1>2, <2>2, <2>3 DEF WriteAhead, Cluster, To, Name
  <2>4. CASE EnsureCluster(p)
    <3>1. pc[p] = "cluster"
      BY <1>2, <2>4, Landing, Ending DEF EnsureCluster, At
    <3>2. record' = record /\ job' = job
      BY <1>2, <2>4, Ending DEF EnsureCluster, To
    <3> QED
      BY <1>2, <3>1, <3>2 DEF Known, Written, Name
  <2>5. CASE HadNamespace(p)
    <3>1. pc[p] = "had" /\ record' = record
      BY <2>5 DEF HadNamespace, At
    <3>2. job'[p].name = Name(p)
      BY <1>2, <2>5, Ending, WhoIsWhere DEF HadNamespace, At, Name, Control, Creates, CreateSteps
    <3> QED
      BY <1>2, <3>1, <3>2 DEF Known, Written
  <2> QED
    BY <2>1, <2>3, <2>4, <2>5
<1>3. CASE q # p
  <2>1. pc[q] = pc'[q] /\ job[q] = job'[q]
    BY <1>1, <1>3 DEF Others
  <2>2. record[Name(q)] # "none" /\ Name(q) \in Names
    BY <2>1, Named DEF Known, Written, BetweenSteps
  <2>3. Holding(job[q], pc[q])
    BY <2>1, WhoIsWhere DEF Holding, CreateSteps, Creates
  <2>4. pc[p] = "forget" => Name(p) # Name(q)
    BY <1>3, <2>3, Exclusive DEF Holding, DeletingSteps
  <2>5. record'[Name(q)] # "none"
    BY <2>2, <2>4, RecordsStay
  <2> QED
    BY <2>1, <2>5 DEF Name
<1> QED
  BY <1>2, <1>3

\* A namespace comes into being only at "namespace".
LEMMA AbsentStays ==
  ASSUME Control, Cluster, NEW p \in Procs, Moves(p), NEW w \in Names,
         ns[w] = "absent", pc[p] # "namespace" \/ w # Name(p)
  PROVE  ns'[w] = "absent"
<1>1. CASE UNCHANGED ns
  BY <1>1
<1>2. CASE EnsureNamespace(p)
  BY <1>2 DEF EnsureNamespace, Cluster, At
<1>3. CASE LabelNamespace(p) \/ RollBack(p) \/ DeleteNamespace(p)
  BY <1>3 DEF LabelNamespace, RollBack, DeleteNamespace, Cluster
<1>4. CASE KindDelete(p)
  BY <1>4 DEF KindDelete, kube
<1> QED
  BY <1>1, <1>2, <1>3, <1>4
     DEF Moves, Call, Create, PlanCluster, EnsureCluster, AssertNamespaceAvailable, HadNamespace,
         WriteAhead, Complete, ApplyMongo, MongoReady, InstallChart, kube,
         Monitor, Want, Attached, Unwant, Detached,
         SharedStep, BeginInstall, EndInstall, Installed, ListUsers, AskWants, LeaveUp, RemoveShared,
         Remove, ReadLabels, WaitGone, Uninstall, Forget, Prunable, PruneNext,
         ReclaimCluster, Kill

\* What p relies on has just been seen, or stays.
LEMMA ConfirmedMove ==
  ASSUME IInv, NEW p \in Procs, Moves(p),
         \/ pc'[p] \in {"forget"} \cup OperatorSteps
         \/ job'[p].op = "down" /\ pc'[p] \in MonitoringSteps
  PROVE  ns'[job'[p].name] = "absent"
<1> USE DEF IInv
<1>1. pc'[p] \in Relying
  BY DEF Relying
<1>2. ~WriteAhead(p) /\ ~EnsureCluster(p) /\ ~HadNamespace(p)
  BY Landing, Ending DEF WriteAhead, EnsureCluster, HadNamespace
<1>3. ~Unwant(p)
  <2>1. SUFFICES ASSUME Unwant(p) PROVE FALSE
    OBVIOUS
  <2>2. pc'[p] = "count monitoring" /\ job' = job
    BY <2>1, Landing DEF Unwant, To
  <2>3. job[p].op = "detach"
    BY <2>1, WhoIsWhere DEF Unwant, At, Detaches
  <2> QED
    BY <2>2, <2>3
<1>4. CASE ReadLabels(p) \/ WaitGone(p)
  <2>1. pc[p] \in DeletingSteps /\ UNCHANGED kube
    BY <1>4 DEF ReadLabels, WaitGone, At, DeletingSteps
  <2>2. Name(p) \in Names
    BY <2>1, Named DEF DeletingSteps, BetweenSteps
  <2>3. ~NotGone(p) /\ ~Finish(p)
    BY Landing, Ending DEF NotGone
  <2>4. Gone(p)
    BY <1>4, <2>3, Landing DEF ReadLabels, WaitGone
  <2>5. ns[Name(p)] = "absent"
    BY <1>4, <2>2, <2>3, Landing DEF ReadLabels, WaitGone, Cluster
  <2> QED
    BY <2>1, <2>4, <2>5 DEF Gone, To, Name, kube
<1>5. CASE \E r \in Shared : Removing(p, r)
  <2>1. UNCHANGED <<ns, job>>
    BY <1>5, RemovalMoves DEF Removing, Installed, ListUsers, AskWants, RemoveShared, kube
  <2>2. pc[p] \in OperatorSteps \/ (job[p].op = "down" /\ pc[p] \in MonitoringSteps)
    <3>1. PICK r \in Shared : Removing(p, r)
      BY <1>5
    <3>2. pc[p] \in StepsOf(r) /\ pc'[p] \in StepsOf(r) \cup {AfterRemoval(r, p)}
      BY <3>1, RemovalMoves
    <3>3. CASE r = "operator"
      BY <3>2, <3>3, StepsAre
    <3>4. CASE r = "monitoring"
      <4>1. pc[p] \in MonitoringSteps /\ pc'[p] \in MonitoringSteps \cup {AfterRemoval(r, p)}
        BY <3>2, <3>4, StepsAre
      <4>2. job[p].op = "down"
        BY <2>1, <3>4, <4>1 DEF AfterRemoval
      <4> QED
        BY <4>1, <4>2
    <3> QED
      BY <3>3, <3>4 DEF Shared
  <2> QED
    BY <2>1, <2>2 DEF Known, Confirmed, Name
<1> QED
  BY <1>1, <1>2, <1>3, <1>4, <1>5, IntoRelying

LEMMA ConfirmedStep == ASSUME IInv, NEW p \in Procs, Moves(p) PROVE Confirmed'
<1> USE DEF IInv
<1>1. Control' /\ Others(p)
  BY ProcessControl DEF Moves
<1> SUFFICES ASSUME NEW q \in Procs, q # p,
                    \/ pc'[q] \in {"forget"} \cup OperatorSteps
                    \/ job'[q].op = "down" /\ pc'[q] \in MonitoringSteps
             PROVE  ns'[job'[q].name] = "absent"
  BY ConfirmedMove DEF Confirmed, Name
<1>2. pc[q] = pc'[q] /\ job[q] = job'[q]
  BY <1>1 DEF Others
<1>3. ns[Name(q)] = "absent" /\ Name(q) \in Names
  BY <1>2, Named DEF Known, Confirmed, BetweenSteps
<1>4. Holding(job[q], pc[q])
  <2>1. CASE pc[q] = "forget" \/ job[q].op = "down"
    BY <2>1 DEF Holding, DeletingSteps
  <2>2. CASE pc[q] \in OperatorSteps
    BY <2>2, WhoIsWhere DEF Holding, Downs
  <2> QED
    BY <1>2, <2>1, <2>2
<1>5. pc[p] = "namespace" => Name(p) # Name(q)
  <2>1. pc[p] = "namespace" => Holding(job[p], pc[p])
    BY WhoIsWhere DEF Holding, CreateSteps, Creates
  <2> QED
    BY <1>4, <2>1, Exclusive
<1>6. ns'[Name(q)] = "absent"
  BY <1>3, <1>5, AbsentStays
<1> QED
  BY <1>2, <1>6 DEF Name

LEMMA NothingFoundStep == ASSUME IInv, NEW p \in Procs, Moves(p) PROVE NothingFound'
<1> USE DEF IInv
<1>1. Control' /\ Others(p)
  BY ProcessControl DEF Moves
<1>2. ASSUME job'[p].op = "create", ~job'[p].hadNs PROVE job'[p].found = {}
  <2>1. CASE Call(p)
    <3>1. PICK j \in Calls[p] : job' = [job EXCEPT ![p] = Begun(j)]
      BY <2>1 DEF Call
    <3>2. job'[p] = Begun(j) /\ j \in Jobs
      BY <3>1, CallsAreJobs DEF Control
    <3> QED
      BY <1>2, <3>2, BegunFits
  <2>2. CASE PlanCluster(p)
    <3>1. job[p] \in Creates
      BY <2>2, WhoIsWhere DEF PlanCluster, At, CreateSteps
    <3>2. CASE Finish(p)
      BY <1>2, <3>2 DEF Finish, Control, NoJob
    <3>3. CASE job' = [job EXCEPT ![p].hadCluster = cluster]
      <4>1. job'[p].hadNs = job[p].hadNs /\ job'[p].found = job[p].found
        BY <3>1, <3>3 DEF Control, Creates
      <4> QED
        BY <1>2, <3>1, <4>1 DEF Known, NothingFound, Creates
    <3> QED
      BY <2>2, <3>2, <3>3 DEF PlanCluster
  <2>3. CASE HadNamespace(p)
    <3>1. job[p] \in Creates /\ Name(p) \in Names
      BY <2>3, WhoIsWhere, Named DEF HadNamespace, At, CreateSteps, BetweenSteps
    <3>2. CASE Finish(p)
      BY <1>2, <3>2 DEF Finish, Control, NoJob
    <3>3. CASE ~Finish(p)
      <4>1. PICK had \in BOOLEAN :
               /\ ~had => cluster /\ Name(p) \notin Labelled
               /\ job' = [job EXCEPT ![p].hadNs = had, ![p].found = work[Name(p)]]
        BY <2>3, <3>3 DEF HadNamespace
      <4>2. job'[p].hadNs = had /\ job'[p].found = work[Name(p)]
        BY <3>1, <4>1 DEF Control, Creates, Name
      <4>3. Name(p) \notin Labelled => work[Name(p)] = {}
        BY <3>1 DEF Labelled, Cluster
      <4> QED
        BY <1>2, <4>1, <4>2, <4>3
    <3> QED
      BY <3>2, <3>3
  <2>4. CASE Finish(p) \/ Kill(p)
    BY <1>2, <2>4 DEF Finish, Kill, Control, NoJob
  <2>5. CASE Prunable(p) \/ PruneNext(p)
    <3>1. job' = job \/ \E j : j.op = "prune" /\ job' = [job EXCEPT ![p] = j]
      BY <2>5 DEF Prunable, PruneNext
    <3> QED
      BY <1>2, <3>1 DEF Known, NothingFound, Control
  <2>6. CASE UNCHANGED job
    BY <1>2, <2>6 DEF Known, NothingFound
  <2> QED
    BY <2>1, <2>2, <2>3, <2>4, <2>5, <2>6
       DEF Moves, Create, EnsureCluster, AssertNamespaceAvailable, EnsureNamespace,
         LabelNamespace, WriteAhead, Complete, ApplyMongo, MongoReady, InstallChart, RollBack,
         Monitor, Want, Attached, Unwant, Detached,
         SharedStep, BeginInstall, EndInstall, Installed, ListUsers, AskWants, LeaveUp, RemoveShared, To, Gone, NotGone,
         Remove, ReadLabels, DeleteNamespace, WaitGone, Uninstall, Forget,
         ReclaimCluster, KindDelete
<1>3. ASSUME NEW q \in Procs, q # p, job'[q].op = "create", ~job'[q].hadNs PROVE job'[q].found = {}
  BY <1>1, <1>3 DEF Others, Known, NothingFound
<1> QED
  BY <1>2, <1>3 DEF NothingFound

LEMMA CountIs == ASSUME NEW r, NEW asked
                 PROVE  Count(r, asked).what = r /\ Count(r, asked).left = asked
BY DEF Count

\* Where a list that was read leads.
LEMMA Listing ==
  ASSUME Control, NEW p \in Procs, NEW s \in Shared, ListUsers(p, s), ~LeaveUp(p, s)
  PROVE  /\ pc'[p] = IF s = "operator" THEN removeAt[s] ELSE "ask monitoring"
         /\ since'[p].what = s
         /\ s = "operator" => since'[p].left = {}
<1>1. PICK asked : since' = [since EXCEPT ![p] = Count(s, asked)] /\ (s = "operator" => asked = {})
  BY DEF ListUsers
<1>2. since'[p] = Count(s, asked)
  BY <1>1 DEF Control
<1>3. since'[p].what = s /\ since'[p].left = asked
  BY <1>2, CountIs
<1>4. pc'[p] = IF s = "operator" THEN removeAt[s] ELSE "ask monitoring"
  BY Landing DEF ListUsers
<1> QED
  BY <1>1, <1>3, <1>4

\* Who asks, or is about to remove, has begun to count.
LEMMA IntoRemoval ==
  ASSUME IInv, NEW p \in Procs, Moves(p), NEW r \in Shared
  PROVE  /\ pc'[p] = "ask monitoring" => since'[p].what = "monitoring"
         /\ pc'[p] = removeAt[r] => since'[p].what = r /\ since'[p].left = {}
<1> USE DEF IInv
<1> SUFFICES ASSUME pc'[p] = "ask monitoring" \/ pc'[p] = removeAt[r]
             PROVE  /\ pc'[p] = "ask monitoring" => since'[p].what = "monitoring"
                    /\ pc'[p] = removeAt[r] => since'[p].what = r /\ since'[p].left = {}
  OBVIOUS
<1>1. pc'[p] \in {"ask monitoring", "remove operator", "remove monitoring"}
  BY SharedTables DEF Shared
<1>3. ~WriteAhead(p) /\ ~EnsureCluster(p) /\ ~HadNamespace(p) /\ ~Unwant(p)
      /\ ~ReadLabels(p) /\ ~WaitGone(p)
  BY <1>1, Landing, Ending
     DEF WriteAhead, EnsureCluster, HadNamespace, Unwant, ReadLabels, WaitGone, Gone, NotGone
<1>4. PICK s \in Shared : Removing(p, s)
  BY <1>1, <1>3, IntoRelying DEF Relying
<1>5. ~Go(p, AfterRemoval(s, p)) /\ ~To(p, AfterRemoval(s, p)) /\ ~LeaveUp(p, s)
  BY <1>1, Landing DEF AfterRemoval, LeaveUp
<1>6. CASE ListUsers(p, s)
  <2>1. CASE s = "operator"
    <3>1. pc'[p] = "remove operator" /\ since'[p].what = "operator" /\ since'[p].left = {}
      BY <1>5, <1>6, <2>1, Listing, SharedTables
    <3>2. pc'[p] = removeAt[r] => r = "operator"
      BY <3>1, SharedTables DEF Shared
    <3> QED
      BY <3>1, <3>2
  <2>2. CASE s = "monitoring"
    <3>1. pc'[p] = "ask monitoring" /\ since'[p].what = "monitoring"
      BY <1>5, <1>6, <2>2, Listing
    <3>2. pc'[p] # removeAt[r]
      BY <3>1, SharedTables DEF Shared
    <3> QED
      BY <3>1, <3>2
  <2> QED
    BY <2>1, <2>2 DEF Shared
<1>7. CASE s = "monitoring" /\ AskWants(p)
  <2>1. pc[p] = "ask monitoring" /\ since[p].what = "monitoring"
    BY <1>7 DEF AskWants, At, Known, Counted
  <2>2. since'[p].what = since[p].what
    BY <1>5, <1>7 DEF AskWants, To, Control
  <2>3. CASE pc' = pc
    BY <2>1, <2>2, <2>3, SharedTables DEF Shared
  <2>4. CASE since[p].left = {} /\ To(p, "remove monitoring")
    <3>1. pc'[p] = "remove monitoring" /\ since' = since
      BY <2>4, Landing DEF To
    <3> QED
      BY <2>1, <2>4, <3>1, SharedTables DEF Shared
  <2> QED
    BY <1>5, <1>7, <2>3, <2>4 DEF AskWants
<1>8. ~Installed(p, s)
  BY <1>1, <1>5, Landing, SharedTables DEF Installed, Shared
<1> QED
  BY <1>4, <1>5, <1>6, <1>7, <1>8 DEF Removing, RemoveShared

\* The workspace left out of the count is gone by then: whoever uses the
\* release has yet to be asked.
LEMMA CountsAll ==
  ASSUME IInv, NEW p \in Procs, NEW r \in Shared, NEW asked,
         pc[p] = listAt[r], UsersOf(r) \subseteq (asked \cup Excluded(p))
  PROVE  UsersOf(r) \subseteq asked
<1> USE DEF IInv
<1>1. pc[p] \in {"list operator", "list monitoring"}
  BY SharedTables DEF Shared
<1>2. CASE job[p].op = "down"
  <2>1. ns[Name(p)] = "absent" /\ Name(p) \in Names
    BY <1>1, <1>2, Named DEF Known, Confirmed, BetweenSteps
  <2>2. Name(p) \notin UsersOf(r)
    BY <2>1 DEF UsersOf, MongodbResources, Labelled, Cluster
  <2> QED
    BY <1>2, <2>2 DEF Excluded
<1>3. CASE job[p].op # "down"
  BY <1>3 DEF Excluded
<1> QED
  BY <1>2, <1>3

LEMMA CountedStep == ASSUME IInv, NEW p \in Procs, Moves(p) PROVE Counted'
<1> USE DEF IInv
<1>1. Control' /\ Others(p)
  BY ProcessControl DEF Moves
<1>2. \/ Same(p) \/ Leaves \/ Vanishes(p) \/ Asks(p)
      \/ \E r \in Shared : Installs(r) \/ Counts(p, r) \/ Removes(p, r)
      \/ \E r \in Shared, w \in Names : Comes(r, w)
  BY ProcessUsers DEF Moves
<1>3. \A q \in Procs, r \in Shared :
        since[q].what = r => UsersOf(r) \subseteq (since[q].who \cup since[q].left)
  BY DEF Known, Counted
<1>4. Idle.what \notin Shared
  BY NotCountedIsNoCount DEF Idle
<1>5. ASSUME NEW q \in Procs, NEW r \in Shared, since'[q].what = r
      PROVE  UsersOf(r)' \subseteq (since'[q].who \cup since'[q].left)
  <2>1. CASE Same(p) \/ Vanishes(p)
    BY <1>3, <1>4, <1>5, <2>1 DEF Same, Vanishes, Control
  <2>2. CASE Leaves \/ \E s \in Shared : Installs(s) \/ Removes(p, s)
    BY <1>3, <1>4, <1>5, <2>2 DEF Leaves, Installs, Removes, Control
  <2>3. CASE \E s \in Shared : Counts(p, s)
    <3>1. PICK s \in Shared : Counts(p, s)
      BY <2>3
    <3>2. PICK asked \in SUBSET Names : /\ UsersOf(s) \subseteq asked
                                        /\ since' = [since EXCEPT ![p] = Count(s, asked)]
      BY <3>1, CountsAll DEF Counts
    <3>3. \A v \in Shared : UsersOf(v)' = UsersOf(v)
      BY <3>1 DEF Counts
    <3>4. CASE q = p
      BY <1>5, <3>2, <3>3, <3>4 DEF Control, Count
    <3>5. CASE q # p
      BY <1>3, <1>5, <3>2, <3>3, <3>5 DEF Control
    <3> QED
      BY <3>4, <3>5
  <2>4. CASE \E s \in Shared, w \in Names : Comes(s, w)
    <3>1. PICK s \in Shared, w \in Names : Comes(s, w)
      BY <2>4
    <3>2. since[q].what = r /\ since'[q].left = since[q].left /\ since[q].who \subseteq since'[q].who
      BY <1>5, <3>1 DEF Comes, Arrives, Control
    <3>3. s = r => w \in UsersOf(r) \/ w \in since'[q].who
      BY <3>1, <3>2 DEF Comes, Arrives, Control
    <3> QED
      BY <1>3, <3>1, <3>2, <3>3 DEF Comes
  <2>5. CASE Asks(p)
    <3>1. PICK w \in Names \ UsersOf("monitoring") : since' = [since EXCEPT ![p].left = @ \ {w}]
      BY <2>5 DEF Asks
    <3>2. UsersOf(r)' = UsersOf(r)
      BY <2>5 DEF Asks
    <3>3. CASE q = p
      <4>1. since'[q].what = since[p].what /\ since'[q].who = since[p].who
            /\ since'[q].left = since[p].left \ {w}
        BY <3>1, <3>3 DEF Control
      <4>2. r = "monitoring"
        BY <1>5, <2>5, <4>1 DEF Asks, Known, Counted
      <4> QED
        BY <1>3, <1>5, <3>1, <3>2, <3>3, <4>1, <4>2
    <3>4. CASE q # p
      BY <1>3, <1>5, <3>1, <3>2, <3>4 DEF Control
    <3> QED
      BY <3>3, <3>4
  <2> QED
    BY <1>2, <2>1, <2>2, <2>3, <2>4, <2>5
<1>6. ASSUME NEW q \in Procs, q # p
      PROVE  since'[q].what = since[q].what /\ since'[q].left = since[q].left /\ pc'[q] = pc[q]
  <2>1. pc'[q] = pc[q]
    BY <1>1, <1>6 DEF Others
  <2>2. CASE \E s \in Shared, w \in Names : Comes(s, w)
    BY <1>6, <2>1, <2>2 DEF Comes, Arrives, Control
  <2>3. CASE since' = since \/ \E k : since' = [since EXCEPT ![p] = k]
    BY <1>6, <2>1, <2>3 DEF Control
  <2> QED
    BY <1>2, <2>2, <2>3 DEF Same, Leaves, Vanishes, Asks, Installs, Counts, Removes
<1>7. ASSUME NEW q \in Procs, NEW r \in Shared
      PROVE  /\ pc'[q] = "ask monitoring" => since'[q].what = "monitoring"
             /\ pc'[q] = removeAt[r] => since'[q].what = r /\ since'[q].left = {}
  <2>1. CASE q = p
    BY <2>1, IntoRemoval
  <2>2. CASE q # p
    <3>1. Counted /\ since'[q].what = since[q].what /\ since'[q].left = since[q].left /\ pc'[q] = pc[q]
      BY <1>6, <2>2 DEF Known
    <3> HIDE DEF IInv
    <3> QED
      BY <3>1 DEF Counted
  <2> QED
    BY <2>1, <2>2
<1> QED
  BY <1>5, <1>7 DEF Counted

LEMMA InitIInv == Init => IInv
<1> SUFFICES ASSUME Init PROVE IInv
  OBVIOUS
<1>1. \A p \in Procs : pc[p] = "idle" /\ job[p].op = "none" /\ since[p].what = NotCounted
  BY DEF Init, NoJob, Idle
<1>2. Written /\ Confirmed /\ NothingFound
  BY <1>1 DEF Written, Confirmed, NothingFound
<1>3. Counted
  <2>1. \A r \in Shared : removeAt[r] # "idle" /\ r # NotCounted /\ "ask monitoring" # "idle"
    BY SharedTables, NotCountedIsNoCount DEF Shared
  <2> QED
    BY <1>1, <2>1 DEF Counted
<1> QED
  BY <1>2, <1>3, InitControl, InitCluster DEF IInv, Known

LEMMA GoneIInv == ASSUME IInv, NEW w \in Names, NamespaceGone(w) PROVE IInv'
<1>1. UNCHANGED <<cluster, record, locks, pc, job, since, kills>>
  BY DEF NamespaceGone
<1>2. Control'
  BY <1>1 DEF IInv, Control, Name, locks
<1>3. Written' /\ NothingFound'
  BY <1>1 DEF IInv, Known, Written, NothingFound, Name
<1>4. Confirmed'
  <2>1. \A v \in Names : ns[v] = "absent" => ns'[v] = "absent"
    BY DEF NamespaceGone, IInv, Cluster
  <2>2. \A p \in Procs : ns[Name(p)] = "absent" /\ pc[p] \notin {"idle"} \cup BetweenSteps
                           => ns'[Name(p)] = "absent"
    BY <2>1, Named DEF IInv
  <2> QED
    BY <1>1, <2>2 DEF IInv, Known, Confirmed, Name, BetweenSteps
<1>5. Counted'
  BY <1>1, GoneUsers DEF Leaves, IInv, Known, Counted
<1> QED
  BY <1>2, <1>3, <1>4, <1>5, GoneCluster DEF IInv, Known

LEMMA StutterIInv == ASSUME IInv, UNCHANGED vars PROVE IInv'
<1> USE DEF vars, kube, locks
<1>1. Control'
  BY DEF IInv, Control, Name
<1>2. Cluster'
  BY DEF IInv, Cluster
<1>3. Written' /\ Confirmed' /\ NothingFound'
  BY DEF IInv, Known, Written, Confirmed, NothingFound, Name
<1>4. Counted'
  <2>1. UNCHANGED <<pc, since>> /\ Counted
    BY DEF IInv, Known
  <2>2. \A r : UsersOf(r)' = UsersOf(r)
    BY SameUsers
  <2>3. ASSUME NEW p \in Procs, NEW r \in Shared
        PROVE  /\ pc'[p] = "ask monitoring" => since'[p].what = "monitoring"
               /\ pc'[p] = removeAt[r] => since'[p].what = r /\ since'[p].left = {}
               /\ since'[p].what = r => UsersOf(r)' \subseteq (since'[p].who \cup since'[p].left)
    <3>1. pc' = pc /\ since' = since /\ UsersOf(r)' = UsersOf(r)
      BY <2>1, <2>2
    <3>2. /\ pc[p] = "ask monitoring" => since[p].what = "monitoring"
          /\ pc[p] = removeAt[r] => since[p].what = r /\ since[p].left = {}
          /\ since[p].what = r => UsersOf(r) \subseteq (since[p].who \cup since[p].left)
      BY <2>1 DEF Counted
    <3> QED
      BY <3>1, <3>2
  <2> QED
    BY <2>3 DEF Counted
<1> QED
  BY <1>1, <1>2, <1>3, <1>4 DEF IInv, Known

LEMMA NextIInv == IInv /\ [Next]_vars => IInv'
<1> SUFFICES ASSUME IInv, [Next]_vars PROVE IInv'
  OBVIOUS
<1>1. ASSUME NEW p \in Procs, Moves(p) PROVE IInv'
  <2>1. Next
    BY <1>1, MovesStep
  <2> QED
    BY <1>1, <2>1, ProcessControl, NextCluster, WrittenStep, ConfirmedStep, NothingFoundStep,
       CountedStep DEF IInv, Known, Moves
<1> QED
  BY <1>1, GoneIInv, StutterIInv, MovesStep

LEMMA Invariance == Spec => []IInv
BY InitIInv, NextIInv, PTL DEF Spec

\* Every variable has its type, a namespace that is absent holds nothing, and
\* without the cluster there is none, whatever commands run, fail or are killed.
THEOREM TypeCorrect == Spec => []TypeOK
<1>1. IInv => TypeOK
  <2> SUFFICES ASSUME IInv PROVE TypeOK
    OBVIOUS
  <2>1. \A p \in Procs : job[p].op \in {"none", "create", "down", "prune", "attach", "detach"}
    BY DEF IInv, Control, Work, NoJob, Creates, Downs, Attaches, Detaches, Listings, Prunings
  <2> QED
    BY <2>1 DEF IInv, Control, Cluster, TypeOK, Pieces
<1> QED
  BY <1>1, Invariance, PTL

-----------------------------------------------------------------------------
(* Kube implements Ledger.                                                 *)

Held == {w \in Names : ns[w] # "absent"}
Recorded == {w \in Names : record[w] # "none"}

LEMMA RecordStep ==
  ASSUME NEW w \in Names, Held' = Held, Recorded' = Recorded \cup {w} PROVE Records!Next
<1>1. Records!Record(w)
  BY DEF Records!Record, Held, Recorded
<1> QED
  BY <1>1 DEF Records!Next

LEMMA TakeStep ==
  ASSUME NEW w \in Recorded, Held' = Held \cup {w}, Recorded' = Recorded PROVE Records!Next
<1>1. w \in Names /\ Records!Take(w)
  BY DEF Records!Take, Held, Recorded
<1> QED
  BY <1>1 DEF Records!Next

LEMMA ForgetStep ==
  ASSUME NEW w \in Names \ Held, Held' = Held, Recorded' = Recorded \ {w} PROVE Records!Next
<1>1. Records!Forget(w)
  BY DEF Records!Forget, Held, Recorded
<1> QED
  BY <1>1 DEF Records!Next

LEMMA ReleaseStep ==
  ASSUME Held' \subseteq Held, Recorded' = Recorded PROVE Records!Next
<1>1. PICK S \in SUBSET Names : Held' = Held \ S
  <2>1. Held' = Held \ (Held \ Held') /\ Held \ Held' \in SUBSET Names
    BY DEF Held
  <2> QED
    BY <2>1
<1>2. Records!Release(S)
  BY <1>1 DEF Records!Release, Held, Recorded
<1> QED
  BY <1>1, <1>2 DEF Records!Next

LEMMA SameLedger ==
  ASSUME Held' = Held, Recorded' = Recorded PROVE UNCHANGED Records!vars
BY DEF Records!vars, Held, Recorded

LEMMA LedgerStep == IInv /\ [Next]_vars => [Records!Next]_(Records!vars)
<1> SUFFICES ASSUME IInv, [Next]_vars PROVE [Records!Next]_(Records!vars)
  OBVIOUS
<1> USE DEF IInv
<1>1. CASE UNCHANGED <<ns, record>>
  BY <1>1, SameLedger DEF Held, Recorded
<1>2. ASSUME NEW p \in Procs, WriteAhead(p) \/ Complete(p) PROVE [Records!Next]_(Records!vars)
  <2>1. Name(p) \in Names /\ UNCHANGED ns
    BY <1>2, Named DEF WriteAhead, Complete, At, BetweenSteps, kube
  <2>2. Recorded' = Recorded \cup {Name(p)} \/ UNCHANGED record
    BY <1>2, <2>1 DEF WriteAhead, Complete, Cluster, Recorded
  <2> QED
    BY <2>1, <2>2, RecordStep, <1>1 DEF Held
<1>3. ASSUME NEW p \in Procs, EnsureNamespace(p) PROVE [Records!Next]_(Records!vars)
  <2>1. Name(p) \in Names /\ UNCHANGED record /\ record[Name(p)] # "none"
    BY <1>3, Named DEF EnsureNamespace, At, BetweenSteps, Known, Written
  <2>2. Held' = Held \cup {Name(p)} \/ UNCHANGED ns
    BY <1>3, <2>1 DEF EnsureNamespace, Cluster, Held
  <2> QED
    BY <2>1, <2>2, TakeStep, <1>1 DEF Recorded
<1>4. ASSUME NEW p \in Procs, LabelNamespace(p) \/ RollBack(p) \/ DeleteNamespace(p)
      PROVE  [Records!Next]_(Records!vars)
  <2>1. Held' = Held /\ Recorded' = Recorded
    BY <1>4 DEF LabelNamespace, RollBack, DeleteNamespace, Cluster, Held, Recorded
  <2> QED
    BY <2>1, SameLedger
<1>5. ASSUME NEW p \in Procs, Forget(p) PROVE [Records!Next]_(Records!vars)
  <2>1. Name(p) \in Names \ Held /\ UNCHANGED ns
    BY <1>5, Named DEF Forget, At, BetweenSteps, kube, Known, Confirmed, Held
  <2>2. Recorded' = Recorded \ {Name(p)} \/ UNCHANGED record
    BY <1>5, <2>1 DEF Forget, Cluster, Recorded
  <2> QED
    BY <2>1, <2>2, ForgetStep, <1>1 DEF Held
<1>6. ASSUME NEW p \in Procs, KindDelete(p) PROVE [Records!Next]_(Records!vars)
  <2>1. Held' \subseteq Held /\ Recorded' = Recorded
    BY <1>6 DEF KindDelete, kube, Held, Recorded
  <2> QED
    BY <2>1, ReleaseStep
<1>7. ASSUME NEW w \in Names, NamespaceGone(w) PROVE [Records!Next]_(Records!vars)
  <2>1. Held' \subseteq Held /\ Recorded' = Recorded
    BY <1>7 DEF NamespaceGone, Cluster, Held, Recorded
  <2> QED
    BY <2>1, ReleaseStep
<1>8. ASSUME NEW p \in Procs, Moves(p), ~UNCHANGED <<ns, record>>
      PROVE  \/ WriteAhead(p) \/ Complete(p) \/ EnsureNamespace(p) \/ LabelNamespace(p)
             \/ RollBack(p) \/ DeleteNamespace(p) \/ Forget(p) \/ KindDelete(p)
  BY <1>8
     DEF Moves, Call, Create, PlanCluster, EnsureCluster, AssertNamespaceAvailable, HadNamespace,
         ApplyMongo, MongoReady, InstallChart, kube, Monitor, Want, Attached, Unwant, Detached,
         SharedStep, BeginInstall, EndInstall, Installed, ListUsers, AskWants, LeaveUp, RemoveShared,
         Remove, ReadLabels, WaitGone, Uninstall, Prunable, PruneNext, ReclaimCluster, Kill
<1> QED
  BY <1>1, <1>2, <1>3, <1>4, <1>5, <1>6, <1>7, <1>8, MovesStep DEF vars, kube

\* Whatever exists in the cluster is written down in the state directory, from
\* the write-ahead record of _create_kubernetes until delete_namespace has
\* confirmed that the namespace is absent.
THEOREM Recording == Spec => EverythingIsRecorded
<1>1. Init => Records!Init
  BY DEF Init, Records!Init
<1> QED
  BY <1>1, LedgerStep, Invariance, PTL DEF Spec, EverythingIsRecorded, Records!Spec

\* No namespace exists without a record: what is in the cluster can always be
\* listed and removed, which is what the ledger is for.
THEOREM NothingUnrecorded == Spec => [](\A w \in Names : ns[w] # "absent" => record[w] # "none")
<1>1. Init => Held \subseteq Recorded
  BY DEF Init, Held
<1>2. Held \subseteq Recorded /\ [Records!Next]_(Records!vars) => (Held \subseteq Recorded)'
  <2> SUFFICES ASSUME Held \subseteq Recorded, [Records!Next]_(Records!vars)
               PROVE  Held' \subseteq Recorded'
    OBVIOUS
  <2>1. CASE UNCHANGED Records!vars
    BY <2>1 DEF Records!vars, Held, Recorded
  <2>2. CASE Records!Next
    BY <2>2 DEF Records!Next, Records!Record, Records!Take, Records!Release, Records!Forget,
                Held, Recorded
  <2> QED
    BY <2>1, <2>2
<1>3. Held \subseteq Recorded => \A w \in Names : ns[w] # "absent" => record[w] # "none"
  BY DEF Held, Recorded
<1> QED
  BY <1>1, <1>2, <1>3, LedgerStep, Invariance, PTL DEF Spec

\* A create that fails leaves the volume that it found: where it says that the
\* namespace is its own to remove, it has seen it absent or not labelled.
THEOREM VolumesKept == Spec => FailedCreateKeepsTheVolume
<1> DEFINE Keeps == \A p \in Procs :
                      /\ At(p, "rollback") /\ pc'[p] # "rollback"
                      /\ "data" \in job[p].found
                      => ns'[Name(p)] = ns[Name(p)]
<1>1. IInv /\ [Next]_vars => [Keeps]_vars
  <2> SUFFICES ASSUME IInv, Next, NEW p \in Procs, At(p, "rollback"), pc'[p] # "rollback",
                      "data" \in job[p].found
               PROVE  ns'[Name(p)] = ns[Name(p)]
    OBVIOUS
  <2> USE DEF IInv
  <2>1. job[p] \in Creates /\ job[p].hadNs
    BY WhoIsWhere DEF At, CreateSteps, Known, NothingFound, Creates
  <2>2. PICK q \in Procs : Moves(q)
    BY MovesStep DEF NamespaceGone, At
  <2>3. q = p
    BY <2>2, ProcessControl DEF Moves, Others, At
  <2>4. CASE UNCHANGED ns
    BY <2>4
  <2>5. CASE RollBack(p)
    BY <2>1, <2>5 DEF RollBack
  <2>6. ~EnsureNamespace(p) /\ ~LabelNamespace(p) /\ ~DeleteNamespace(p) /\ ~KindDelete(p)
    BY DEF EnsureNamespace, LabelNamespace, DeleteNamespace, KindDelete, At
  <2> QED
    BY <2>2, <2>3, <2>4, <2>5, <2>6
       DEF Moves, Call, Create, PlanCluster, EnsureCluster, AssertNamespaceAvailable, HadNamespace,
           WriteAhead, Complete, ApplyMongo, MongoReady, InstallChart, kube,
           Monitor, Want, Attached, Unwant, Detached,
           SharedStep, BeginInstall, EndInstall, Installed, ListUsers, AskWants, LeaveUp, RemoveShared,
           Remove, ReadLabels, WaitGone, Uninstall, Forget, Prunable, PruneNext,
           ReclaimCluster, Kill
<1> QED
  BY <1>1, Invariance, PTL DEF Spec, FailedCreateKeepsTheVolume

-----------------------------------------------------------------------------
(* Kube implements SharedResource, for each of the two shared releases.    *)

Service(r) == INSTANCE SharedResource WITH
                Users <- Names,
                up <- Serves(r), users <- UsersOf(r), arrived <- SharedAs(r, Arrived)

LEMMA ArrivedIs ==
  \A r : /\ SharedAs(r, Arrived) = [p \in Procs |-> IF since[p].what = r THEN since[p].who ELSE NotCounted]
         /\ SharedAs(r, Arrived)' = [p \in Procs |-> IF since'[p].what = r THEN since'[p].who ELSE NotCounted]
BY DEF SharedAs, Arrived

LEMMA WhoIsCounted == ASSUME Control, NEW p \in Procs PROVE since[p].who # NotCounted
BY NotCountedIsNoCount DEF Control

LEMMA UsersAreNames == \A r : UsersOf(r) \subseteq Names
BY DEF UsersOf, MongodbResources, Labelled

LEMMA GivesUp ==
  ASSUME Control, NEW r \in Shared, NEW p \in Procs, NEW c,
         since' = [since EXCEPT ![p] = c], c.what # r,
         Serves(r)' = Serves(r), UsersOf(r)' = UsersOf(r)
  PROVE  Service(r)!Next
<1>1. SharedAs(r, Arrived)' = [SharedAs(r, Arrived) EXCEPT ![p] = NotCounted]
  BY ArrivedIs DEF Control
<1>2. Service(r)!GiveUp(p)
  BY <1>1 DEF Service!GiveUp
<1> QED
  BY <1>2 DEF Service!Next

LEMMA ServiceSame ==
  ASSUME NEW r, Serves(r)' = Serves(r), UsersOf(r)' = UsersOf(r),
         SharedAs(r, Arrived)' = SharedAs(r, Arrived)
  PROVE  UNCHANGED Service(r)!vars
BY DEF Service!vars

LEMMA ServiceComes ==
  ASSUME Control, NEW r \in Shared, NEW s \in Shared, NEW w \in Names, Comes(s, w)
  PROVE  [Service(r)!Next]_(Service(r)!vars)
<1>1. CASE s = r
  <2>1. SharedAs(r, Arrived)' = [p \in Procs |->
           IF SharedAs(r, Arrived)[p] = NotCounted \/ w \in UsersOf(r)
           THEN SharedAs(r, Arrived)[p] ELSE SharedAs(r, Arrived)[p] \cup {w}]
    BY <1>1, ArrivedIs, WhoIsCounted DEF Comes, Arrives, Control
  <2>2. Service(r)!Use(w)
    BY <1>1, <2>1 DEF Comes, Service!Use
  <2> QED
    BY <2>2 DEF Service!Next
<1>2. CASE s # r
  <2>1. SharedAs(r, Arrived)' = SharedAs(r, Arrived)
    BY <1>2, ArrivedIs DEF Comes, Arrives, Control
  <2> QED
    BY <1>2, <2>1, ServiceSame DEF Comes
<1> QED
  BY <1>1, <1>2

LEMMA ServiceCounts ==
  ASSUME IInv, NEW r \in Shared, NEW s \in Shared, NEW p \in Procs, Counts(p, s)
  PROVE  Service(r)!Next
<1> USE DEF IInv
<1>1. CASE s = r
  <2>1. SharedAs(r, Arrived)' = [SharedAs(r, Arrived) EXCEPT ![p] = {}]
    BY <1>1, ArrivedIs DEF Counts, Count, Control
  <2>2. Service(r)!Look(p)
    BY <1>1, <2>1 DEF Counts, Service!Look
  <2> QED
    BY <2>2 DEF Service!Next
<1>2. CASE s # r
  <2>1. PICK asked : since' = [since EXCEPT ![p] = Count(s, asked)]
    BY DEF Counts
  <2>2. Count(s, asked).what # r
    BY <1>2 DEF Count
  <2> QED
    BY <2>1, <2>2, GivesUp DEF Counts
<1> QED
  BY <1>1, <1>2

LEMMA ServiceRemoves ==
  ASSUME IInv, NEW r \in Shared, NEW s \in Shared, NEW p \in Procs, Removes(p, s)
  PROVE  Service(r)!Next
<1> USE DEF IInv
<1>0. Idle.what # r
  BY NotCountedIsNoCount DEF Idle
<1>1. CASE s = r
  <2>1. SharedAs(r, Arrived)' = [SharedAs(r, Arrived) EXCEPT ![p] = NotCounted]
    BY <1>0, <1>1, ArrivedIs DEF Removes, Control
  <2>2. SharedAs(r, Arrived)[p] # NotCounted /\ UsersOf(r) \subseteq SharedAs(r, Arrived)[p]
    <3>1. since[p].what = r /\ since[p].left = {}
      BY <1>1 DEF Removes, Known, Counted
    <3>2. UsersOf(r) \subseteq since[p].who
      BY <3>1 DEF Known, Counted
    <3> QED
      BY <3>1, <3>2, ArrivedIs, WhoIsCounted
  <2>3. Serves(r)' = FALSE
    BY <1>1 DEF Removes, Serves
  <2>4. Service(r)!Remove(p)
    BY <1>1, <2>1, <2>2, <2>3 DEF Removes, Service!Remove
  <2> QED
    BY <2>4 DEF Service!Next
<1>2. CASE s # r
  BY <1>0, <1>2, GivesUp DEF Removes
<1> QED
  BY <1>1, <1>2

LEMMA ServiceStep ==
  ASSUME IInv, [Next]_vars, NEW r \in Shared
  PROVE  [Service(r)!Next]_(Service(r)!vars)
<1> USE DEF IInv
<1>0. Idle.what # r
  BY NotCountedIsNoCount DEF Idle
<1>1. CASE UNCHANGED vars
  <2>1. UNCHANGED <<ns, work, wants, helm, since>>
    BY <1>1 DEF vars, kube
  <2>2. SharedAs(r, Arrived)' = SharedAs(r, Arrived)
    BY <2>1, ArrivedIs
  <2> QED
    BY <2>1, <2>2, SameUsers, SameServes, ServiceSame
<1>2. CASE Leaves
  <2>1. SharedAs(r, Arrived)' = SharedAs(r, Arrived)
    BY <1>2, ArrivedIs DEF Leaves
  <2>2. PICK S \in SUBSET Names : UsersOf(r)' = UsersOf(r) \ S
    <3>1. /\ UsersOf(r)' = UsersOf(r) \ (UsersOf(r) \ UsersOf(r)')
          /\ UsersOf(r) \ UsersOf(r)' \in SUBSET Names
      BY <1>2, UsersAreNames DEF Leaves
    <3> QED
      BY <3>1
  <2>3. Service(r)!Leave(S)
    BY <1>2, <2>1, <2>2 DEF Leaves, Service!Leave
  <2> QED
    BY <2>2, <2>3 DEF Service!Next
<1>3. ASSUME NEW p \in Procs, Same(p) PROVE [Service(r)!Next]_(Service(r)!vars)
  <2>1. CASE since' = since
    <3>1. SharedAs(r, Arrived)' = SharedAs(r, Arrived)
      BY <2>1, ArrivedIs
    <3> QED
      BY <1>3, <3>1, ServiceSame DEF Same
  <2>2. CASE since' = [since EXCEPT ![p] = Idle]
    BY <1>0, <1>3, <2>2, GivesUp DEF Same
  <2> QED
    BY <1>3, <2>1, <2>2 DEF Same
<1>4. ASSUME NEW s \in Shared, Installs(s) PROVE [Service(r)!Next]_(Service(r)!vars)
  <2>1. SharedAs(r, Arrived)' = SharedAs(r, Arrived)
    BY <1>4, ArrivedIs DEF Installs
  <2>2. CASE s = r
    <3>1. Service(r)!Install
      BY <1>4, <2>1, <2>2 DEF Installs, Service!Install
    <3> QED
      BY <3>1 DEF Service!Next
  <2>3. CASE s # r
    BY <1>4, <2>1, <2>3, ServiceSame DEF Installs
  <2> QED
    BY <2>2, <2>3
<1>5. ASSUME NEW p \in Procs, Vanishes(p) PROVE [Service(r)!Next]_(Service(r)!vars)
  <2>1. SharedAs(r, Arrived)' = [SharedAs(r, Arrived) EXCEPT ![p] = NotCounted]
    BY <1>0, <1>5, ArrivedIs DEF Vanishes, Control
  <2>2. Serves(r)' = FALSE /\ UsersOf(r)' = {}
    BY <1>5 DEF Vanishes, Serves
  <2>3. Service(r)!Vanish(p)
    BY <2>1, <2>2 DEF Service!Vanish
  <2> QED
    BY <2>3 DEF Service!Next
<1>6. ASSUME NEW p \in Procs, Asks(p) PROVE [Service(r)!Next]_(Service(r)!vars)
  <2>1. \A q \in Procs : since'[q].what = since[q].what /\ since'[q].who = since[q].who
    <3>1. PICK w : since' = [since EXCEPT ![p].left = @ \ {w}]
      BY <1>6 DEF Asks
    <3> QED
      BY <3>1 DEF Control
  <2>2. SharedAs(r, Arrived)' = SharedAs(r, Arrived)
    BY <2>1, ArrivedIs
  <2> QED
    BY <1>6, <2>2, ServiceSame DEF Asks
<1> QED
  BY <1>1, <1>2, <1>3, <1>4, <1>5, <1>6, ServiceComes, ServiceCounts, ServiceRemoves,
     MovesStep, ProcessUsers, GoneUsers DEF Moves

LEMMA InitService == ASSUME Init, NEW r \in Shared PROVE Service(r)!Init
<1>1. Serves(r) = FALSE
  BY DEF Init, Serves
<1>2. UsersOf(r) = {}
  BY DEF Init, UsersOf, MongodbResources, Labelled
<1>3. SharedAs(r, Arrived) = [p \in Procs |-> NotCounted]
  BY ArrivedIs, NotCountedIsNoCount DEF Init, Idle
<1> QED
  BY <1>1, <1>2, <1>3 DEF Service!Init

\* The operator and the monitoring stack are each removed only by a process
\* that went through their users one by one, and only under users that came after
\* it began to: through refused calls, kills and every order of remove_operator's
\* and remove_monitoring's reads, installs, arrivals and departures.
THEOREM SharedKept == Spec => SharedReleasesOutliveTheirUsers
<1>1. "operator" \in Shared /\ "monitoring" \in Shared
  BY DEF Shared
<1>2. Init => Operator!Init /\ Monitoring!Init
  BY <1>1, InitService DEF Operator!Init, Monitoring!Init, Service!Init
<1>3. IInv /\ [Next]_vars => [Operator!Next]_(Operator!vars)
  <2> SUFFICES ASSUME IInv, [Next]_vars PROVE [Operator!Next]_(Operator!vars)
    OBVIOUS
  <2>1. [Service("operator")!Next]_(Service("operator")!vars)
    BY <1>1, ServiceStep
  <2> QED
    BY <2>1
       DEF Operator!Next, Operator!vars, Operator!Install, Operator!Use, Operator!Leave,
           Operator!Look, Operator!Remove, Operator!GiveUp, Operator!Vanish,
           Service!Next, Service!vars, Service!Install, Service!Use, Service!Leave,
           Service!Look, Service!Remove, Service!GiveUp, Service!Vanish
<1>4. IInv /\ [Next]_vars => [Monitoring!Next]_(Monitoring!vars)
  <2> SUFFICES ASSUME IInv, [Next]_vars PROVE [Monitoring!Next]_(Monitoring!vars)
    OBVIOUS
  <2>1. [Service("monitoring")!Next]_(Service("monitoring")!vars)
    BY <1>1, ServiceStep
  <2> QED
    BY <2>1
       DEF Monitoring!Next, Monitoring!vars, Monitoring!Install, Monitoring!Use, Monitoring!Leave,
           Monitoring!Look, Monitoring!Remove, Monitoring!GiveUp, Monitoring!Vanish,
           Service!Next, Service!vars, Service!Install, Service!Use, Service!Leave,
           Service!Look, Service!Remove, Service!GiveUp, Service!Vanish
<1> QED
  BY <1>2, <1>3, <1>4, Invariance, PTL
     DEF Spec, SharedReleasesOutliveTheirUsers, Operator!Spec, Monitoring!Spec
-----------------------------------------------------------------------------
(* Serving: ready speaks of itself, and stop ends no forward but its own.  *)

ServingSteps == {"idle", "look", "enter", "forward", "record", "ask", "served", "count", "down",
                 "forget", "read", "up", "leave"}
CallFields == {"op", "work", "pid", "strikes", "before", "left"}

\* A command under way is about a workspace, and stays so.
ServingCalls ==
  /\ at \in [Procs -> ServingSteps] /\ DOMAIN call = Procs
  /\ \A p \in Procs : at[p] # "idle" => CallFields \subseteq DOMAIN call[p] /\ call[p].work \in Served.works

\* A forward listens on the port of the workspace it leads to, whoever started
\* it and whatever has become of its pod.
ForwardsAreInPlace ==
  /\ DOMAIN proc = Served.pids
  /\ \A q \in Served.pids : proc[q].into \in Served.works \cup Served.neighbours =>
       proc[q].port = Served.portOf[proc[q].into]

ServingInv == ServingCalls /\ ForwardsAreInPlace

LEMMA ServingMoves ==
  ASSUME ServingCalls, NEW p \in Procs, NEW l \in ServingSteps, at' = [at EXCEPT ![p] = l],
         \/ at[p] # "idle" /\ call' = call
         \/ l = "idle" /\ call' = [call EXCEPT ![p] = Serving!NoCall]
         \/ \E c : /\ call' = [call EXCEPT ![p] = c]
                   /\ CallFields \subseteq DOMAIN c /\ c.work \in Served.works
  PROVE  ServingCalls'
BY DEF ServingCalls

\* A command that changes one of its fields is still that command.
LEMMA ServingRevised ==
  ASSUME ServingCalls, NEW p \in Procs, at[p] # "idle", NEW x
  PROVE  /\ LET c == [call[p] EXCEPT !.pid = x] IN CallFields \subseteq DOMAIN c /\ c.work \in Served.works
         /\ LET c == [call[p] EXCEPT !.strikes = x] IN CallFields \subseteq DOMAIN c /\ c.work \in Served.works
         /\ LET c == [call[p] EXCEPT !.left = x] IN CallFields \subseteq DOMAIN c /\ c.work \in Served.works
BY DEF ServingCalls, CallFields

LEMMA ServingNoted ==
  ASSUME ServingCalls, NEW p \in Procs, at[p] # "idle", NEW x, NEW y
  PROVE  LET c == [call[p] EXCEPT !.before = x, !.left = y] IN
           CallFields \subseteq DOMAIN c /\ c.work \in Served.works
BY DEF ServingCalls, CallFields

LEMMA ServingBegins ==
  ASSUME NEW p \in Procs, NEW c \in Served.calls[p]
  PROVE  CallFields \subseteq DOMAIN Serving!Start(c) /\ Serving!Start(c).work \in Served.works
BY ServedIs DEF CallFields, Serving!Start

LEMMA ServingStepCalls == ASSUME ServingCalls, NEW p \in Procs, Serving!Step(p) PROVE ServingCalls'
<1> USE DEF Serving!Go, Serving!Call, ServingSteps
<1>1. CASE Serving!Begin(p)
  <2>1. PICK c \in Served.calls[p] :
          /\ Serving!Call(p, Serving!Start(c))
          /\ Serving!Go(p, IF c.op = "ready" THEN "look" ELSE "enter")
    BY <1>1 DEF Serving!Begin
  <2> QED BY <2>1, ServingBegins, ServingMoves
<1>2. CASE Serving!GiveUp(p)
  BY <1>2, ServingMoves DEF Serving!GiveUp, Serving!Finish
<1>3. CASE Serving!Look(p) \/ Serving!Reattach(p) \/ Serving!Record(p) \/ Serving!Enter(p)
           \/ Serving!Annotate(p) \/ Serving!ScaleDown(p) \/ Serving!Forget(p)
  <2>1. /\ call' = call /\ at[p] # "idle"
        /\ \E l \in ServingSteps : at' = [at EXCEPT ![p] = l]
    BY <1>3 DEF Serving!Look, Serving!Reattach, Serving!Record, Serving!Enter, Serving!Annotate,
         Serving!ScaleDown, Serving!Forget
  <2> QED BY <2>1, ServingMoves
<1>4. CASE Serving!port_forward(p)
  <2>1. at[p] # "idle"
    BY <1>4 DEF Serving!port_forward
  <2>2. PICK x : /\ \E l \in ServingSteps : at' = [at EXCEPT ![p] = l]
                 /\ call' = [call EXCEPT ![p] = [call[p] EXCEPT !.pid = x]]
    BY <1>4 DEF Serving!port_forward, Serving!Got
  <2> QED BY <2>1, <2>2, ServingRevised, ServingMoves
<1>5. CASE Serving!Ask(p)
  <2>1. at[p] # "idle"
    BY <1>5 DEF Serving!Ask
  <2>2. CASE at' = [at EXCEPT ![p] = "served"] /\ call' = call
    BY <2>1, <2>2, ServingMoves
  <2>3. CASE Serving!Finish(p)
    BY <2>1, <2>3, ServingMoves DEF Serving!Finish
  <2>4. CASE \E x : at' = [at EXCEPT ![p] = "look"] /\ call' = [call EXCEPT ![p] = [call[p] EXCEPT !.strikes = x]]
    BY <2>1, <2>4, ServingRevised, ServingMoves
  <2> QED BY <1>5, <2>2, <2>3, <2>4 DEF Serving!Ask
<1>6. CASE Serving!ReadNote(p)
  <2>1. PICK x, y : at[p] # "idle" /\ at' = [at EXCEPT ![p] = "up"]
                    /\ call' = [call EXCEPT ![p] = [call[p] EXCEPT !.before = x, !.left = y]]
    BY <1>6 DEF Serving!ReadNote
  <2> QED BY <2>1, ServingNoted, ServingMoves
<1>7. CASE Serving!ScaleUp(p)
  <2>1. at[p] # "idle" /\ \E l \in ServingSteps : at' = [at EXCEPT ![p] = l]
    BY <1>7 DEF Serving!ScaleUp
  <2>2. \/ call' = call
        \/ \E x : call' = [call EXCEPT ![p] = [call[p] EXCEPT !.left = x]]
    BY <1>7 DEF Serving!ScaleUp
  <2> QED BY <2>1, <2>2, ServingRevised, ServingMoves
<1>8. CASE Serving!Leave(p)
  BY <1>8, ServingMoves DEF Serving!Leave, Serving!Finish
<1> QED BY <1>1, <1>2, <1>3, <1>4, <1>5, <1>6, <1>7, <1>8 DEF Serving!Step

\* A forward whose pod has gone stays where it is.
LEMMA ServingDetached ==
  ASSUME ForwardsAreInPlace, NEW ws, proc' = Serving!Detached(ws)
  PROVE  ForwardsAreInPlace'
<1>1. \A o \in Served.pids : proc'[o].into = proc[o].into /\ proc'[o].port = proc[o].port
  BY DEF Serving!Detached
<1> QED BY <1>1 DEF ForwardsAreInPlace, Serving!Detached

LEMMA ServingStepProcs ==
  ASSUME ServingInv, NEW p \in Procs, Serving!Step(p)
  PROVE  ForwardsAreInPlace'
<1>1. CASE Serving!port_forward(p)
  <2>1. at[p] # "idle" /\ call[p].work \in Served.works
    BY <1>1 DEF Serving!port_forward, ServingInv, ServingCalls
  <2>2. CASE UNCHANGED proc
    BY <2>2 DEF ServingInv, ForwardsAreInPlace
  <2>3. CASE \E q \in Served.pids :
               proc' = [proc EXCEPT ![q] = [into |-> Serving!Work(p), port |-> Serving!Port(p),
                                            on |-> Serving!FreeOn(Serving!Port(p)), fresh |-> TRUE]]
    BY <2>1, <2>3 DEF ServingInv, ForwardsAreInPlace, Serving!Work, Serving!Port
  <2> QED BY <1>1, <2>2, <2>3 DEF Serving!port_forward
<1>2. CASE Serving!Forget(p)
  <2>1. \/ proc' = proc
        \/ \E q \in Served.pids : proc' = [proc EXCEPT ![q] = Serving!NoProc]
        \/ \E q : q \notin Served.pids /\ proc' = [proc EXCEPT ![q] = Serving!NoProc]
    BY <1>2 DEF Serving!Forget
  <2> QED BY <2>1, ServedIs DEF ServingInv, ForwardsAreInPlace, Serving!NoProc
<1>3. CASE Serving!ScaleDown(p)
  <2>1. proc' = proc \/ \E ws : proc' = Serving!Detached(ws)
    BY <1>3 DEF Serving!ScaleDown
  <2> QED BY <2>1, ServingDetached DEF ServingInv, ForwardsAreInPlace
<1>4. UNCHANGED proc \/ Serving!port_forward(p) \/ Serving!Forget(p) \/ Serving!ScaleDown(p)
  BY DEF Serving!Step, Serving!Begin, Serving!GiveUp, Serving!Look, Serving!Reattach, Serving!Record,
     Serving!Ask, Serving!Enter, Serving!Annotate, Serving!ReadNote, Serving!ScaleUp, Serving!Leave
<1> QED BY <1>1, <1>2, <1>3, <1>4 DEF ServingInv, ForwardsAreInPlace

LEMMA ServingNext == ASSUME ServingInv, Serving!Next PROVE ServingInv'
<1>1. ASSUME NEW p \in Procs, Serving!Step(p) PROVE ServingInv'
  BY <1>1, ServingStepCalls, ServingStepProcs DEF ServingInv
<1>2. CASE Serving!Kill
  <2>1. PICK p \in Procs : /\ at' = [at EXCEPT ![p] = "idle"] /\ UNCHANGED proc
                           /\ call' = [call EXCEPT ![p] = Serving!NoCall]
    BY <1>2 DEF Serving!Kill, Serving!Finish, Serving!Go, Serving!Call
  <2> QED BY <2>1, ServingMoves DEF ServingInv, ForwardsAreInPlace, ServingSteps
<1>3. CASE Serving!PodUp \/ Serving!PodCrashes \/ Serving!Exit \/ Serving!OtherStarts
  <2>1. UNCHANGED <<at, call>>
    BY <1>3 DEF Serving!PodUp, Serving!PodCrashes, Serving!Exit, Serving!OtherStarts, Serving!World
  <2>2. ASSUME Serving!PodUp PROVE ForwardsAreInPlace'
    BY <2>2 DEF Serving!PodUp, ServingInv, ForwardsAreInPlace
  <2>3. ASSUME Serving!PodCrashes PROVE ForwardsAreInPlace'
    BY <2>3, ServingDetached DEF Serving!PodCrashes, ServingInv
  <2>4. ASSUME Serving!Exit PROVE ForwardsAreInPlace'
    BY <2>4, ServedIs DEF Serving!Exit, ServingInv, ForwardsAreInPlace, Serving!NoProc
  <2>5. ASSUME Serving!OtherStarts PROVE ForwardsAreInPlace'
    <3>1. PICK q \in Served.pids, who \in Serving!NoForward, on \in {{"v4"}, Serving!Families},
               port \in {Served.portOf[w] : w \in Served.works \cup Served.neighbours} :
            /\ proc' = [proc EXCEPT ![q] = [into |-> who, port |-> port, on |-> on, fresh |-> TRUE]]
            /\ who \in Served.neighbours => port = Served.portOf[who]
      BY <2>5 DEF Serving!OtherStarts
    <3>2. who \notin Served.works
      BY ServedIs
    <3> QED BY <3>1, <3>2 DEF ServingInv, ForwardsAreInPlace
  <2> QED BY <1>3, <2>1, <2>2, <2>3, <2>4, <2>5 DEF ServingInv, ServingCalls
<1> QED BY <1>1, <1>2, <1>3 DEF Serving!Next

LEMMA ServingInit == ASSUME Serving!Init PROVE ServingInv
BY ServedIs DEF Serving!Init, ServingInv, ServingCalls, ForwardsAreInPlace, Serving!NoProc, ServingSteps

\* Who answers on the port of a workspace, if it is a Rocket.Chat of this home,
\* is a forward into that workspace: ports are given out once.
LEMMA AnswersForItself ==
  ASSUME PortsGivenOnce, ServingInv, NEW w \in Served.works,
         LET q == Serving!Answering(Served.portOf[w]) IN Serving!Accepted(q)
  PROVE  LET q == Serving!Answering(Served.portOf[w]) IN
         /\ q # 0
         /\ (proc[q].into = w /\ pods[w] = "ready") \/ proc[q].into = Serving!Stranger
<1> DEFINE q == Serving!Answering(Served.portOf[w])
<1>1. /\ q # 0
      /\ \/ proc[q].into \in Served.works /\ pods[proc[q].into] = "ready"
         \/ proc[q].into \in Served.neighbours
         \/ proc[q].into = Serving!Stranger
  BY DEF Serving!Accepted, Serving!IsRocketChat, Serving!RocketChats
<1>2. q \in Served.pids /\ proc[q].port = Served.portOf[w]
  BY <1>1 DEF Serving!Answering, Serving!Listening
<1>3. ASSUME proc[q].into \in Served.works \cup Served.neighbours PROVE proc[q].into = w
  BY <1>2, <1>3 DEF PortsGivenOnce, ServingInv, ForwardsAreInPlace
<1>4. Served.neighbours \cap Served.works = {}
  BY ServedIs DEF Serving!NoForward, Serving!RocketChats
<1> QED BY <1>1, <1>3, <1>4

LEMMA SaysOfItself == ASSUME PortsGivenOnce, ServingInv, [Serving!Next]_served PROVE Serving!SaidOfItself
<1> SUFFICES ASSUME NEW p \in Procs, at[p] = "ask", at'[p] = "served"
             PROVE  LET q == Serving!Answering(Serving!Port(p)) IN
                    /\ q # 0
                    /\ \/ proc[q].into = Serving!Work(p) /\ pods[Serving!Work(p)] = "ready"
                       \/ proc[q].into = Serving!Stranger
  BY DEF Serving!SaidOfItself
<1>1. ASSUME NEW u \in Procs, Serving!Step(u) PROVE u = p
  BY <1>1 DEF ServingInv, ServingCalls, Serving!Step, Serving!Begin, Serving!GiveUp, Serving!Look,
     Serving!Reattach, Serving!port_forward, Serving!Got, Serving!Record, Serving!Ask, Serving!Enter,
     Serving!Annotate, Serving!ScaleDown, Serving!Forget, Serving!ReadNote, Serving!ScaleUp,
     Serving!Leave, Serving!Go, Serving!Finish
<1>2. Serving!Step(p)
  BY <1>1 DEF Serving!Next, served, Serving!PodUp, Serving!PodCrashes, Serving!Exit,
     Serving!OtherStarts, Serving!World, Serving!Kill, Serving!Finish, Serving!Go, ServingInv, ServingCalls
<1>3. Serving!Ask(p)
  BY <1>2 DEF Serving!Step, Serving!Begin, Serving!GiveUp, Serving!Look, Serving!Reattach,
     Serving!port_forward, Serving!Record, Serving!Enter, Serving!Annotate, Serving!ScaleDown,
     Serving!Forget, Serving!ReadNote, Serving!ScaleUp, Serving!Leave, Serving!Finish, Serving!Go,
     ServingInv, ServingCalls
<1>4. Serving!Accepted(Serving!Answering(Serving!Port(p)))
  BY <1>3 DEF Serving!Ask, Serving!Go, Serving!Finish, ServingInv, ServingCalls
<1>5. call[p].work \in Served.works
  BY DEF ServingInv, ServingCalls
<1> QED BY <1>4, <1>5, AnswersForItself DEF Serving!Port, Serving!Work

LEMMA KillsItsOwn ==
  ASSUME ~ArgvHidden, ServingInv, [Serving!Next]_served
  PROVE  Serving!KillsItsForward
<1> SUFFICES ASSUME NEW p \in Procs, NEW q \in Served.pids, at[p] = "forget", at'[p] # "forget",
                    proc[q] # Serving!NoProc, proc'[q] = Serving!NoProc
             PROVE  proc[q].into = Serving!Work(p)
  BY DEF Serving!KillsItsForward
<1>1. ASSUME NEW u \in Procs, Serving!Step(u) PROVE u = p
  BY <1>1 DEF ServingInv, ServingCalls, Serving!Step, Serving!Begin, Serving!GiveUp, Serving!Look,
     Serving!Reattach, Serving!port_forward, Serving!Got, Serving!Record, Serving!Ask, Serving!Enter,
     Serving!Annotate, Serving!ScaleDown, Serving!Forget, Serving!ReadNote, Serving!ScaleUp,
     Serving!Leave, Serving!Go, Serving!Finish
<1>2. Serving!Step(p)
  BY <1>1 DEF Serving!Next, served, Serving!PodUp, Serving!PodCrashes, Serving!Exit,
     Serving!OtherStarts, Serving!World, Serving!Kill
<1>3. Serving!Forget(p)
  BY <1>2 DEF Serving!Step, Serving!Begin, Serving!GiveUp, Serving!Look, Serving!Reattach,
     Serving!port_forward, Serving!Record, Serving!Ask, Serving!Enter, Serving!Annotate, Serving!ScaleDown,
     Serving!ReadNote, Serving!ScaleUp, Serving!Leave
<1>4. q = call[p].pid /\ Serving!forward_alive(q, Serving!Work(p), 0)
  BY <1>3 DEF Serving!Forget, ServingInv, ForwardsAreInPlace
<1> QED BY <1>4 DEF Serving!forward_alive

LEMMA ServingHolds == MCSpec => [](part = "serving" => ServingInv)
<1>1. MCInit => (part = "serving" => ServingInv)
  BY ServingInit DEF MCInit
<1>2. (part = "serving" => ServingInv) /\ [MCNext]_partVars => (part = "serving" => ServingInv)'
  <2> SUFFICES ASSUME part = "serving" => ServingInv, [MCNext]_partVars, part' = "serving" PROVE ServingInv'
    OBVIOUS
  <2>1. ServingInv /\ (Serving!Next \/ UNCHANGED served)
    BY DEF MCNext, InCluster, InServing, InScaling, partVars
  <2>2. CASE UNCHANGED served
    BY <2>1, <2>2 DEF served, ServingInv, ServingCalls, ForwardsAreInPlace
  <2> QED BY <2>1, <2>2, ServingNext
<1> QED BY <1>1, <1>2, PTL DEF MCSpec

\* `ready` says a workspace is serving when it is that workspace that answers
\* (lifecycle.py:3880-3915), or a Rocket.Chat that is no workspace of this home:
\* whatever else listens on the port, whatever has died, and whatever `stop` and
\* `restart` do meanwhile.  It needs what only `up` on Compose sees to: no two
\* workspaces, one of them on the cluster, have one port; they would pass for
\* each other.
THEOREM ReadySpeaksOfItself == ASSUME PortsGivenOnce PROVE MCSpec => ReadyIsItself
<1>1. (part = "serving" => ServingInv) /\ [MCNext]_partVars
        => [part = "serving" => Serving!SaidOfItself]_partVars
  <2> SUFFICES ASSUME ServingInv, part = "serving", [MCNext]_partVars PROVE Serving!SaidOfItself
    OBVIOUS
  <2>1. [Serving!Next]_served
    BY DEF MCNext, InCluster, InServing, InScaling, partVars
  <2> QED BY <2>1, SaysOfItself
<1> QED BY <1>1, ServingHolds, PTL DEF MCSpec, ReadyIsItself

\* `stop` and `restart` end no process but a forward of their workspace
\* (k8s.py:2910-2956), where /proc shows what a kubectl was started with: if not,
\* any forward with the pid passes for it.
THEOREM ForwardsDieByTheirOwn == ASSUME ~ArgvHidden PROVE MCSpec => OnlyItsForwardIsKilled
<1>1. (part = "serving" => ServingInv) /\ [MCNext]_partVars
        => [part = "serving" => Serving!KillsItsForward]_partVars
  <2> SUFFICES ASSUME ServingInv, part = "serving", [MCNext]_partVars PROVE Serving!KillsItsForward
    OBVIOUS
  <2>1. [Serving!Next]_served
    BY DEF MCNext, InCluster, InServing, InScaling, partVars
  <2> QED BY <2>1, KillsItsOwn
<1> QED BY <1>1, ServingHolds, PTL DEF MCSpec, OnlyItsForwardIsKilled

-----------------------------------------------------------------------------
(* Scaling: a start brings the replicas back.                              *)

LockedSteps == {"count", "down", "forget", "read", "up"}

\* From its first reading to its last scaling a command holds the workspace.
ScalingCalls ==
  /\ at \in [Procs -> ServingSteps] /\ DOMAIN call = Procs
  /\ \A p \in Procs : at[p] # "idle" => CallFields \subseteq DOMAIN call[p] /\ call[p].work \in Scaled.works
  /\ DOMAIN wlock = Scaled.works
  /\ \A p \in Procs : at[p] \in LockedSteps => wlock[call[p].work] = p

\* What was noted whole is still there, and a start that has read it has yet to
\* scale, or has given its count to, each workload.
CountsAreKept ==
  /\ DOMAIN scale = Scaled.works /\ DOMAIN noted = Scaled.works
  /\ \A w \in Scaled.works : scale[w] = [l \in Scaling!LoadSet |-> scale[w][l]]
  /\ \A w \in Scaled.works : w \in intact => noted[w] = Scaled.counts
  /\ \A p \in Procs : at[p] = "up" => call[p].left \in Seq(Scaling!LoadSet) /\ call[p].left # << >>
CountsComeIn(p) ==
  at[p] = "up" /\ call[p].work \in intact =>
    /\ call[p].before = Scaled.counts
    /\ \A l \in Scaling!LoadSet : \/ \E i \in 1..Len(call[p].left) : call[p].left[i] = l
                                  \/ scale[call[p].work][l] = Scaled.counts[l]

ScalingInv == ScalingCalls /\ CountsAreKept /\ \A p \in Procs : CountsComeIn(p)

\* Who holds a workspace is alone with it.
LEMMA ScalingAlone ==
  ASSUME ScalingCalls, NEW p \in Procs, NEW u \in Procs, at[p] \in LockedSteps, at[u] \in LockedSteps,
         call[p].work = call[u].work
  PROVE  p = u
BY DEF ScalingCalls

\* p takes a step, keeping its workspace; or it ends.
LEMMA ScalingMoves ==
  ASSUME ScalingCalls, NEW p \in Procs, NEW l \in ServingSteps, at[p] # "idle", at' = [at EXCEPT ![p] = l],
         \/ call' = call
         \/ \E c : /\ call' = [call EXCEPT ![p] = c]
                   /\ CallFields \subseteq DOMAIN c /\ c.work = call[p].work,
         \/ wlock' = wlock /\ (l \in LockedSteps => at[p] \in LockedSteps)
         \/ wlock' = [wlock EXCEPT ![call[p].work] = p] /\ wlock[call[p].work] = Free
  PROVE  ScalingCalls'
<1>1. /\ at' \in [Procs -> ServingSteps] /\ DOMAIN call' = Procs /\ DOMAIN wlock' = Scaled.works
      /\ \A u \in Procs \ {p} : at'[u] = at[u] /\ call'[u] = call[u]
      /\ at'[p] = l /\ call'[p].work = call[p].work /\ CallFields \subseteq DOMAIN call'[p]
  BY DEF ScalingCalls
<1>2. \A u \in Procs \ {p} : at[u] \in LockedSteps => wlock'[call[u].work] = u
  BY FreeIsNoProcess DEF ScalingCalls, LockedSteps
<1>3. at'[p] \in LockedSteps => wlock'[call[p].work] = p
  BY <1>1 DEF ScalingCalls
<1> QED BY <1>1, <1>2, <1>3 DEF ScalingCalls

LEMMA ScalingEnds ==
  ASSUME ScalingCalls, NEW p \in Procs, Scaling!Finish(p)
  PROVE  ScalingCalls'
BY DEF ScalingCalls, Scaling!Finish, Scaling!Go, Scaling!Call, LockedSteps, ServingSteps

LEMMA ScalingRevised ==
  ASSUME ScalingCalls, NEW p \in Procs, at[p] # "idle", NEW x
  PROVE  /\ LET c == [call[p] EXCEPT !.pid = x] IN CallFields \subseteq DOMAIN c /\ c.work = call[p].work
         /\ LET c == [call[p] EXCEPT !.strikes = x] IN CallFields \subseteq DOMAIN c /\ c.work = call[p].work
         /\ LET c == [call[p] EXCEPT !.left = x] IN
              /\ CallFields \subseteq DOMAIN c /\ c.work = call[p].work
              /\ c.left = x /\ c.before = call[p].before
BY DEF ScalingCalls, CallFields

LEMMA ScalingNoted ==
  ASSUME ScalingCalls, NEW p \in Procs, at[p] # "idle", NEW x, NEW y
  PROVE  LET c == [call[p] EXCEPT !.before = x, !.left = y] IN
           /\ CallFields \subseteq DOMAIN c /\ c.work = call[p].work
           /\ c.before = x /\ c.left = y
BY DEF ScalingCalls, CallFields

\* The processes but p are where they were.
Rest(p) == \A u \in Procs \ {p} : at'[u] = at[u] /\ call'[u] = call[u]

\* A step that leaves the cluster and the notes alone.
LEMMA ScalingQuiet ==
  ASSUME ScalingInv, NEW p \in Procs, Rest(p), at'[p] # "up", UNCHANGED <<scale, noted, intact>>
  PROVE  CountsAreKept' /\ \A u \in Procs : CountsComeIn(u)'
BY DEF ScalingInv, CountsAreKept, CountsComeIn, Rest

LEMMA ScalingBegin == ASSUME ScalingInv, NEW p \in Procs, Scaling!Begin(p) PROVE ScalingInv'
<1>1. PICK c \in Scaled.calls[p] :
        /\ call' = [call EXCEPT ![p] = Scaling!Start(c)]
        /\ at' = [at EXCEPT ![p] = IF c.op = "ready" THEN "look" ELSE "enter"]
  BY DEF Scaling!Begin, Scaling!Call, Scaling!Go
<1>2. CallFields \subseteq DOMAIN Scaling!Start(c) /\ Scaling!Start(c).work \in Scaled.works
  BY ScaledIs DEF CallFields, Scaling!Start
<1>3. UNCHANGED <<scale, noted, intact, wlock>>
  BY DEF Scaling!Begin, Scaling!cluster
<1>4. at'[p] \in {"look", "enter"} /\ Rest(p)
  BY <1>1 DEF ScalingInv, ScalingCalls, Rest
<1>5. ScalingCalls'
  BY <1>1, <1>2, <1>3 DEF ScalingInv, ScalingCalls, ServingSteps, LockedSteps
<1> QED BY <1>3, <1>4, <1>5, ScalingQuiet DEF ScalingInv

LEMMA ScalingStops ==
  ASSUME ScalingInv, NEW p \in Procs, Scaling!Finish(p), UNCHANGED <<scale, noted, intact>>
  PROVE  ScalingInv'
<1>1. Rest(p) /\ at'[p] = "idle"
  BY DEF ScalingInv, ScalingCalls, Rest, Scaling!Finish, Scaling!Go, Scaling!Call
<1> QED BY <1>1, ScalingEnds, ScalingQuiet DEF ScalingInv

\* Looking for an answer, taking the lock and forgetting a forward.
LEMMA ScalingPasses ==
  ASSUME ScalingInv, NEW p \in Procs,
         \/ Scaling!Look(p) \/ Scaling!Reattach(p) \/ Scaling!port_forward(p) \/ Scaling!Record(p)
         \/ Scaling!Ask(p) \/ Scaling!Enter(p) \/ Scaling!Forget(p)
  PROVE  ScalingInv'
<1> USE DEF Scaling!Go, Scaling!Call, ServingSteps, LockedSteps
<1>1. CASE Scaling!Ask(p) /\ Scaling!Finish(p)
  BY <1>1, ScalingStops DEF Scaling!Ask, Scaling!cluster
<1>2. CASE ~(Scaling!Ask(p) /\ Scaling!Finish(p))
  <2>1. UNCHANGED <<scale, noted, intact>>
    BY DEF Scaling!Look, Scaling!Reattach, Scaling!port_forward, Scaling!Record, Scaling!Ask,
       Scaling!Enter, Scaling!Forget, Scaling!cluster
  <2>2. \E l \in ServingSteps \ {"up"} :
          /\ at' = [at EXCEPT ![p] = l]
          /\ \/ wlock' = wlock /\ (l \in LockedSteps => at[p] \in LockedSteps)
             \/ wlock' = [wlock EXCEPT ![call[p].work] = p] /\ wlock[call[p].work] = Free
    <3>1. CASE Scaling!Look(p) \/ Scaling!Reattach(p) \/ Scaling!Record(p) \/ Scaling!Forget(p)
      BY <3>1 DEF Scaling!Look, Scaling!Reattach, Scaling!Record, Scaling!Forget
    <3>2. CASE Scaling!port_forward(p)
      <4>1. UNCHANGED wlock
        BY <3>2 DEF Scaling!port_forward
      <4>2. \E l \in {"record", "ask"} : at' = [at EXCEPT ![p] = l]
        BY <3>2 DEF Scaling!port_forward, Scaling!Got
      <4> QED BY <4>1, <4>2
    <3>3. CASE Scaling!Ask(p)
      <4>1. at[p] = "ask" /\ UNCHANGED wlock /\ \E l \in {"served", "look"} : at' = [at EXCEPT ![p] = l]
        BY <1>2, <3>3 DEF Scaling!Ask
      <4> QED BY <4>1
    <3>4. CASE Scaling!Enter(p)
      BY <3>4 DEF Scaling!Enter, Scaling!Work
    <3> QED BY <3>1, <3>2, <3>3, <3>4
  <2>3. at[p] # "idle"
    BY DEF Scaling!Look, Scaling!Reattach, Scaling!port_forward, Scaling!Record, Scaling!Ask,
       Scaling!Enter, Scaling!Forget
  <2>4. \/ call' = call
        \/ \E x : call' = [call EXCEPT ![p] = [call[p] EXCEPT !.pid = x]]
        \/ \E x : call' = [call EXCEPT ![p] = [call[p] EXCEPT !.strikes = x]]
    BY <1>2 DEF Scaling!Look, Scaling!Reattach, Scaling!port_forward, Scaling!Record, Scaling!Ask,
       Scaling!Enter, Scaling!Forget, Scaling!Got
  <2>5. call' = call \/ \E c : /\ call' = [call EXCEPT ![p] = c]
                              /\ CallFields \subseteq DOMAIN c /\ c.work = call[p].work
    <3>1. CASE \E x : call' = [call EXCEPT ![p] = [call[p] EXCEPT !.pid = x]]
      <4>1. PICK x : call' = [call EXCEPT ![p] = [call[p] EXCEPT !.pid = x]]
        BY <3>1
      <4>2. LET c == [call[p] EXCEPT !.pid = x] IN CallFields \subseteq DOMAIN c /\ c.work = call[p].work
        BY <2>3, ScalingRevised DEF ScalingInv
      <4> QED BY <4>1, <4>2
    <3>2. CASE \E x : call' = [call EXCEPT ![p] = [call[p] EXCEPT !.strikes = x]]
      <4>1. PICK x : call' = [call EXCEPT ![p] = [call[p] EXCEPT !.strikes = x]]
        BY <3>2
      <4>2. LET c == [call[p] EXCEPT !.strikes = x] IN CallFields \subseteq DOMAIN c /\ c.work = call[p].work
        BY <2>3, ScalingRevised DEF ScalingInv
      <4> QED BY <4>1, <4>2
    <3> QED BY <2>4, <3>1, <3>2
  <2>7. ScalingCalls'
    BY <2>2, <2>3, <2>5, ScalingMoves DEF ScalingInv
  <2>6. Rest(p) /\ at'[p] # "up"
    BY <2>2, <2>4 DEF ScalingInv, ScalingCalls, Rest
  <2> QED BY <2>1, <2>6, <2>7, ScalingQuiet DEF ScalingInv
<1> QED BY <1>1, <1>2

\* A step of p at which it holds its workspace moves only that one's counts.
LEMMA ScalingHolds ==
  ASSUME ScalingInv, NEW p \in Procs, at[p] \in LockedSteps, Rest(p),
         \A w \in Scaled.works \ {call[p].work} : scale'[w] = scale[w] /\ (w \in intact' => w \in intact)
  PROVE  \A u \in Procs \ {p} : CountsComeIn(u)'
<1> SUFFICES ASSUME NEW u \in Procs \ {p}, at'[u] = "up", call'[u].work \in intact'
             PROVE  /\ call'[u].before = Scaled.counts
                    /\ \A l \in Scaling!LoadSet : \/ \E i \in 1..Len(call'[u].left) : call'[u].left[i] = l
                                                  \/ scale'[call'[u].work][l] = Scaled.counts[l]
  BY DEF CountsComeIn
<1>1. at[u] = "up" /\ call'[u] = call[u] /\ call[u].work \in Scaled.works
  BY DEF Rest, ScalingInv, ScalingCalls
<1>2. call[u].work # call[p].work
  BY <1>1, ScalingAlone DEF ScalingInv, LockedSteps
<1> QED BY <1>1, <1>2 DEF ScalingInv, CountsComeIn

\* Counting nothing is no count of every workload.
LEMMA NoCountIsAll == << >> # Scaled.counts
<1>1. 1 \in 1..Len(Scaled.loads)
  BY ScaledIs
<1>2. Scaled.loads[1] \in DOMAIN Scaled.counts
  BY <1>1, ScaledIs DEF Scaling!LoadSet
<1> QED BY <1>2

\* A stop notes the counts whole, or the workspace is no longer said to be.
LEMMA ScalingAnnotates == ASSUME ScalingInv, NEW p \in Procs, Scaling!Annotate(p) PROVE ScalingInv'
<1> DEFINE w == call[p].work
<1>1. /\ at[p] = "count" /\ at' = [at EXCEPT ![p] = "down"]
      /\ UNCHANGED <<scale, wlock, call>> /\ w \in Scaled.works
  BY DEF Scaling!Annotate, Scaling!Go, ScalingInv, ScalingCalls
<1>2. Rest(p) /\ at'[p] = "down"
  BY <1>1 DEF ScalingInv, ScalingCalls, Rest
<1>3. ScalingCalls'
  BY <1>1, ScalingMoves DEF ScalingInv, ServingSteps, LockedSteps
<1>4. /\ DOMAIN noted' = Scaled.works
      /\ \A v \in Scaled.works \ {w} : noted'[v] = noted[v] /\ (v \in intact' => v \in intact)
  BY <1>1 DEF Scaling!Annotate, Scaling!Note, Scaling!Work, ScalingInv, CountsAreKept
<1>5. w \in intact' => noted'[w] = Scaled.counts
  <2>1. PICK before :
          \/ /\ Scaling!Note(w, before)
             /\ intact' = CASE before = Scaled.counts -> intact \cup {w}
                            [] before = << >> -> intact
                            [] OTHER -> intact \ {w}
          \/ intact' = intact \ {w}
    BY DEF Scaling!Annotate, Scaling!Work
  <2>2. CASE before = << >>
    <3>1. before # Scaled.counts
      BY <2>2, NoCountIsAll
    <3>2. (noted' = noted /\ intact' = intact) \/ intact' = intact \ {w}
      BY <2>1, <2>2, <3>1 DEF Scaling!Note
    <3> QED BY <1>1, <3>2 DEF ScalingInv, CountsAreKept
  <2>3. CASE before # << >> /\ before = Scaled.counts
    BY <1>1, <2>1, <2>3 DEF Scaling!Note, ScalingInv, CountsAreKept
  <2>4. CASE before # << >> /\ before # Scaled.counts
    BY <2>1, <2>4
  <2> QED BY <2>2, <2>3, <2>4
<1>6. CountsAreKept'
  BY <1>1, <1>2, <1>4, <1>5 DEF ScalingInv, CountsAreKept, Rest
<1>7. CountsComeIn(p)'
  BY <1>2 DEF CountsComeIn
<1>8. \A u \in Procs \ {p} : CountsComeIn(u)'
  BY <1>1, <1>2, <1>4, ScalingHolds DEF LockedSteps
<1> QED BY <1>3, <1>6, <1>7, <1>8 DEF ScalingInv

LEMMA ScalingGoesDown == ASSUME ScalingInv, NEW p \in Procs, Scaling!ScaleDown(p) PROVE ScalingInv'
<1> DEFINE w == call[p].work
<1>1. PICK done \in SUBSET Scaling!LoadSet :
        /\ at[p] = "down" /\ UNCHANGED <<noted, wlock, call, intact>> /\ w \in Scaled.works
        /\ scale' = [scale EXCEPT ![w] = [l \in Scaling!LoadSet |-> IF l \in done THEN 0 ELSE scale[w][l]]]
        /\ at' = [at EXCEPT ![p] = IF done = Scaling!LoadSet THEN "forget" ELSE "leave"]
  BY DEF Scaling!ScaleDown, Scaling!Go, Scaling!Work, ScalingInv, ScalingCalls
<1>2. Rest(p) /\ at'[p] \in {"forget", "leave"}
  BY <1>1 DEF ScalingInv, ScalingCalls, Rest
<1>3. ScalingCalls'
  BY <1>1, ScalingMoves DEF ScalingInv, ServingSteps, LockedSteps
<1>4. DOMAIN scale' = Scaled.works /\ \A v \in Scaled.works \ {w} : scale'[v] = scale[v]
  BY <1>1 DEF ScalingInv, CountsAreKept
<1>5. scale'[w] = [l \in Scaling!LoadSet |-> scale'[w][l]]
  BY <1>1 DEF ScalingInv, CountsAreKept
<1>6. CountsAreKept'
  BY <1>1, <1>2, <1>4, <1>5 DEF ScalingInv, CountsAreKept, Rest
<1>7. CountsComeIn(p)'
  BY <1>2 DEF CountsComeIn
<1>8. \A u \in Procs \ {p} : CountsComeIn(u)'
  BY <1>1, <1>2, <1>4, ScalingHolds DEF LockedSteps
<1> QED BY <1>3, <1>6, <1>7, <1>8 DEF ScalingInv

LEMMA ScalingReads == ASSUME ScalingInv, NEW p \in Procs, Scaling!ReadNote(p) PROVE ScalingInv'
<1> DEFINE w == call[p].work
<1>1. PICK x : /\ call' = [call EXCEPT ![p] = [call[p] EXCEPT !.before = x, !.left = Scaled.loads]]
               /\ \/ x = noted[w] /\ intact' = intact
                  \/ intact' = intact \ {w}
  BY DEF Scaling!ReadNote, Scaling!Call, Scaling!Work
<1>2. at[p] = "read" /\ at' = [at EXCEPT ![p] = "up"] /\ UNCHANGED <<scale, noted, wlock>> /\ w \in Scaled.works
  BY DEF Scaling!ReadNote, Scaling!Go, Scaling!cluster, ScalingInv, ScalingCalls
<1>3. /\ Rest(p) /\ at'[p] = "up"
      /\ call'[p] = [call[p] EXCEPT !.before = x, !.left = Scaled.loads]
  BY <1>1, <1>2 DEF ScalingInv, ScalingCalls, Rest
<1>4. /\ CallFields \subseteq DOMAIN call'[p] /\ call'[p].work = w
      /\ call'[p].before = x /\ call'[p].left = Scaled.loads
  BY <1>2, <1>3, ScalingNoted DEF ScalingInv
<1>5. ScalingCalls'
  <2>1. \E c : /\ call' = [call EXCEPT ![p] = c]
              /\ CallFields \subseteq DOMAIN c /\ c.work = call[p].work
    BY <1>1, <1>3, <1>4
  <2> QED BY <1>2, <2>1, ScalingMoves DEF ScalingInv, ServingSteps, LockedSteps
<1>6. CountsAreKept'
  BY <1>1, <1>2, <1>3, <1>4, ScaledIs DEF ScalingInv, CountsAreKept, Rest
<1>7. CountsComeIn(p)'
  <2>1. w \in intact' => x = Scaled.counts
    BY <1>1, <1>2 DEF ScalingInv, CountsAreKept
  <2>2. \A l \in Scaling!LoadSet : \E i \in 1..Len(Scaled.loads) : Scaled.loads[i] = l
    BY DEF Scaling!LoadSet
  <2> QED BY <1>4, <2>1, <2>2 DEF CountsComeIn
<1>8. \A u \in Procs \ {p} : CountsComeIn(u)'
  BY <1>1, <1>2, <1>3, ScalingHolds DEF LockedSteps
<1> QED BY <1>5, <1>6, <1>7, <1>8 DEF ScalingInv


\* The workload that is scaled has its count, those before it keep theirs, and
\* those after it are still left.
LEMMA ScaledSoFar ==
  ASSUME ScalingInv, NEW p \in Procs, at[p] = "up", call[p].work \in intact, NEW k \in Scaling!LoadSet,
         LET w == call[p].work l == Head(call[p].left) counts == call[p].before IN
           /\ scale' = [scale EXCEPT ![w][l] = IF l \in DOMAIN counts THEN counts[l] ELSE 1]
           /\ call' = [call EXCEPT ![p] = [call[p] EXCEPT !.left = Tail(call[p].left)]]
  PROVE  \/ \E i \in 1..Len(call'[p].left) : call'[p].left[i] = k
         \/ scale'[call[p].work][k] = Scaled.counts[k]
<1> DEFINE w == call[p].work
           left == call[p].left
           l == Head(left)
<1>1. /\ at[p] = "up" /\ w \in Scaled.works /\ left \in Seq(Scaling!LoadSet) /\ left # << >>
  BY DEF ScalingInv, ScalingCalls, CountsAreKept
<1>2. /\ scale' = [scale EXCEPT ![w][l] = IF l \in DOMAIN call[p].before THEN call[p].before[l] ELSE 1]
      /\ call' = [call EXCEPT ![p] = [call[p] EXCEPT !.left = Tail(left)]]
  OBVIOUS
<1>3. /\ l \in Scaling!LoadSet /\ l = left[1] /\ Len(left) \in Nat \ {0}
      /\ Len(Tail(left)) = Len(left) - 1
      /\ \A i \in 1..Len(Tail(left)) : Tail(left)[i] = left[i + 1]
  BY <1>1, HeadTailProperties, EmptySeq
<1>4. call[p].before = Scaled.counts /\ DOMAIN Scaled.counts = Scaling!LoadSet
  BY <1>1, ScaledIs DEF ScalingInv, CountsComeIn
<1>5. call'[p].left = Tail(left)
  <2>1. call'[p] = [call[p] EXCEPT !.left = Tail(left)]
    BY <1>2 DEF ScalingInv, ScalingCalls
  <2>2. "left" \in DOMAIN call[p]
    BY <1>1 DEF ScalingInv, ScalingCalls, CallFields
  <2> QED BY <2>1, <2>2
<1>6. /\ scale'[w][l] = Scaled.counts[l]
      /\ \A m \in Scaling!LoadSet \ {l} : scale'[w][m] = scale[w][m]
  <2>1. scale'[w] = [scale[w] EXCEPT ![l] = Scaled.counts[l]]
    BY <1>1, <1>2, <1>3, <1>4 DEF ScalingInv, CountsAreKept
  <2> QED BY <1>1, <1>3, <2>1 DEF ScalingInv, CountsAreKept
<1>7. CASE k = l
  BY <1>6, <1>7
<1>8. CASE k # l /\ scale[w][k] = Scaled.counts[k]
  BY <1>6, <1>8
<1>9. CASE k # l /\ \E i \in 1..Len(left) : left[i] = k
  <2>1. PICK i \in 1..Len(left) : left[i] = k
    BY <1>9
  <2>2. i # 1 /\ i - 1 \in 1..Len(Tail(left))
    BY <1>3, <1>9, <2>1
  <2>3. Tail(left)[i - 1] = k
    BY <1>3, <2>1, <2>2
  <2> QED BY <1>5, <2>2, <2>3
<1> QED BY <1>1, <1>7, <1>8, <1>9 DEF ScalingInv, CountsComeIn

\* One workload after another gets its count.
LEMMA ScalingGoesUp == ASSUME ScalingInv, NEW p \in Procs, Scaling!ScaleUp(p) PROVE ScalingInv'
<1> DEFINE w == call[p].work
           left == call[p].left
           l == Head(left)
<1>1. /\ at[p] = "up" /\ w \in Scaled.works /\ UNCHANGED <<noted, wlock, intact>>
      /\ left \in Seq(Scaling!LoadSet) /\ left # << >>
  BY DEF Scaling!ScaleUp, ScalingInv, ScalingCalls, CountsAreKept
<1>2. l \in Scaling!LoadSet /\ l = left[1] /\ Len(left) \in Nat \ {0}
  BY <1>1, HeadTailProperties, EmptySeq
<1>3. CASE UNCHANGED <<scale, call>> /\ at' = [at EXCEPT ![p] = "leave"]
  <2>1. ScalingCalls'
    BY <1>1, <1>3, ScalingMoves DEF ScalingInv, ServingSteps, LockedSteps
  <2>2. Rest(p) /\ at'[p] = "leave"
    BY <1>3 DEF ScalingInv, ScalingCalls, Rest
  <2> QED BY <1>1, <1>3, <2>1, <2>2, ScalingQuiet DEF ScalingInv
<1>4. CASE /\ scale' = [scale EXCEPT ![w][l] = IF l \in DOMAIN call[p].before THEN call[p].before[l] ELSE 1]
           /\ call' = [call EXCEPT ![p] = [call[p] EXCEPT !.left = Tail(left)]]
           /\ at' = [at EXCEPT ![p] = IF Len(left) = 1 THEN "leave" ELSE "up"]
  <2>1. /\ CallFields \subseteq DOMAIN call'[p] /\ call'[p].work = w
        /\ call'[p].before = call[p].before /\ call'[p].left = Tail(left)
        /\ call' = [call EXCEPT ![p] = call'[p]]
    BY <1>1, <1>4, ScalingRevised DEF ScalingInv, ScalingCalls
  <2>2. /\ Rest(p) /\ at'[p] \in {"leave", "up"} /\ (at'[p] = "up" => Len(left) # 1)
    BY <1>4 DEF ScalingInv, ScalingCalls, Rest
  <2>3. ScalingCalls'
    <3>1. \E s \in {"leave", "up"} : at' = [at EXCEPT ![p] = s]
      BY <1>4
    <3> QED BY <1>1, <2>1, <3>1, ScalingMoves DEF ScalingInv, ServingSteps, LockedSteps
  <2>4. /\ Tail(left) \in Seq(Scaling!LoadSet) /\ Len(Tail(left)) = Len(left) - 1
        /\ \A i \in 1..Len(Tail(left)) : Tail(left)[i] = left[i + 1]
    BY <1>1, HeadTailProperties
  <2>5. /\ DOMAIN scale' = Scaled.works /\ \A v \in Scaled.works \ {w} : scale'[v] = scale[v]
        /\ scale'[w] = [scale[w] EXCEPT ![l] = IF l \in DOMAIN call[p].before THEN call[p].before[l] ELSE 1]
    BY <1>1, <1>4 DEF ScalingInv, CountsAreKept
  <2>6. /\ scale'[w] = [k \in Scaling!LoadSet |-> scale'[w][k]]
        /\ scale'[w][l] = IF l \in DOMAIN call[p].before THEN call[p].before[l] ELSE 1
        /\ \A k \in Scaling!LoadSet \ {l} : scale'[w][k] = scale[w][k]
    BY <1>1, <1>2, <2>5 DEF ScalingInv, CountsAreKept
  <2>7. at'[p] = "up" => call'[p].left # << >>
    <3>1. at'[p] = "up" => Len(Tail(left)) # 0
      BY <1>2, <2>2, <2>4
    <3> QED BY <2>1, <2>4, <3>1, EmptySeq
  <2>8. CountsAreKept'
    <3>1. /\ DOMAIN noted' = Scaled.works
          /\ \A v \in Scaled.works : v \in intact' => noted'[v] = Scaled.counts
      BY <1>1 DEF ScalingInv, CountsAreKept
    <3>2. \A v \in Scaled.works : scale'[v] = [k \in Scaling!LoadSet |-> scale'[v][k]]
      BY <2>5, <2>6 DEF ScalingInv, CountsAreKept
    <3>3. \A u \in Procs : at'[u] = "up" => call'[u].left \in Seq(Scaling!LoadSet) /\ call'[u].left # << >>
      BY <2>1, <2>2, <2>4, <2>7 DEF ScalingInv, CountsAreKept, Rest
    <3> QED BY <2>5, <3>1, <3>2, <3>3 DEF CountsAreKept
  <2>9. CountsComeIn(p)'
    <3>1. w \in intact' => call[p].before = Scaled.counts
      BY <1>1 DEF ScalingInv, CountsComeIn
    <3>2. ASSUME w \in intact, NEW k \in Scaling!LoadSet
          PROVE  \/ \E i \in 1..Len(call'[p].left) : call'[p].left[i] = k
                 \/ scale'[w][k] = Scaled.counts[k]
      BY <1>1, <1>4, <3>2, ScaledSoFar
    <3> QED BY <1>1, <2>1, <3>1, <3>2 DEF CountsComeIn
  <2>10. \A u \in Procs \ {p} : CountsComeIn(u)'
    BY <1>1, <2>2, <2>5, ScalingHolds DEF LockedSteps
  <2> QED BY <2>3, <2>8, <2>9, <2>10 DEF ScalingInv
<1> QED BY <1>3, <1>4 DEF Scaling!ScaleUp, Scaling!Go, Scaling!Call, Scaling!Work

LEMMA ScalingNext == ASSUME ScalingInv, Scaling!Next PROVE ScalingInv'
<1>1. ASSUME NEW p \in Procs, Scaling!Step(p) PROVE ScalingInv'
  <2>1. CASE Scaling!GiveUp(p) \/ Scaling!Leave(p)
    BY <2>1, ScalingStops DEF Scaling!GiveUp, Scaling!Leave, Scaling!cluster
  <2> QED BY <1>1, <2>1, ScalingBegin, ScalingPasses, ScalingAnnotates, ScalingGoesDown, ScalingReads,
             ScalingGoesUp DEF Scaling!Step
<1>2. CASE Scaling!Kill
  BY <1>2, ScalingStops DEF Scaling!Kill, Scaling!cluster
<1>3. CASE Scaling!PodUp \/ Scaling!PodCrashes \/ Scaling!Exit \/ Scaling!OtherStarts
  <2>1. UNCHANGED <<scale, noted, wlock, at, call, intact>>
    BY <1>3 DEF Scaling!PodUp, Scaling!PodCrashes, Scaling!Exit, Scaling!OtherStarts, Scaling!World,
         Scaling!cluster
  <2> QED BY <2>1 DEF ScalingInv, ScalingCalls, CountsAreKept, CountsComeIn
<1> QED BY <1>1, <1>2, <1>3 DEF Scaling!Next

LEMMA ScalingInit == ASSUME Scaling!Init PROVE ScalingInv
BY ScaledIs DEF Scaling!Init, ScalingInv, ScalingCalls, CountsAreKept, CountsComeIn, ServingSteps, LockedSteps

LEMMA BringsBack == ASSUME ScalingInv, [Scaling!Next]_served PROVE Scaling!BringsCountsBack
<1> SUFFICES ASSUME NEW p \in Procs, at[p] = "up", at'[p] = "leave", call'[p].left = << >>,
                    call[p].work \in intact
             PROVE  scale'[call[p].work] = Scaled.counts
  BY DEF Scaling!BringsCountsBack, Scaling!Work
<1>1. ASSUME NEW u \in Procs, Scaling!Step(u) PROVE u = p
  BY <1>1 DEF ScalingInv, ScalingCalls, Scaling!Step, Scaling!Begin, Scaling!GiveUp, Scaling!Look,
     Scaling!Reattach, Scaling!port_forward, Scaling!Got, Scaling!Record, Scaling!Ask, Scaling!Enter,
     Scaling!Annotate, Scaling!ScaleDown, Scaling!Forget, Scaling!ReadNote, Scaling!ScaleUp,
     Scaling!Leave, Scaling!Go, Scaling!Finish
<1>2. Scaling!Step(p)
  BY <1>1 DEF Scaling!Next, served, Scaling!PodUp, Scaling!PodCrashes, Scaling!Exit,
     Scaling!OtherStarts, Scaling!World, Scaling!Kill, Scaling!Finish, Scaling!Go, ScalingInv, ScalingCalls
<1>3. Scaling!ScaleUp(p)
  BY <1>2 DEF Scaling!Step, Scaling!Begin, Scaling!GiveUp, Scaling!Look, Scaling!Reattach,
     Scaling!port_forward, Scaling!Record, Scaling!Ask, Scaling!Enter, Scaling!Annotate,
     Scaling!ScaleDown, Scaling!Forget, Scaling!ReadNote, Scaling!Leave
<1>4. ScalingInv' /\ call[p].work \in Scaled.works
  BY <1>3, ScalingGoesUp DEF ScalingInv, ScalingCalls
<1>5. call[p].left # << >>
  BY DEF ScalingInv, CountsAreKept
<1>6. LET w == call[p].work l == Head(call[p].left) counts == call[p].before IN
        /\ scale' = [scale EXCEPT ![w][l] = IF l \in DOMAIN counts THEN counts[l] ELSE 1]
        /\ call' = [call EXCEPT ![p] = [call[p] EXCEPT !.left = Tail(call[p].left)]]
  BY <1>3, <1>5 DEF Scaling!ScaleUp, Scaling!Call, Scaling!Work
<1>7. \A k \in Scaling!LoadSet : scale'[call[p].work][k] = Scaled.counts[k]
  <2>1. ~\E i \in 1..Len(call'[p].left) : TRUE
    OBVIOUS
  <2> QED BY <1>6, <2>1, ScaledSoFar
<1>8. scale'[call[p].work] = [l \in Scaling!LoadSet |-> scale'[call[p].work][l]]
  BY <1>4 DEF ScalingInv, CountsAreKept
<1> QED BY <1>7, <1>8, ScaledIs

\* A start brings back the replicas the workspace had, whatever stops, starts
\* and restarts came before and wherever they were killed or kubectl failed,
\* unless the stop before it found the workspace only partly up
\* (k8s.py:4422-4427).
THEOREM ReplicasComeBack == MCSpec => CountsComeBack
<1>1. MCInit => (part = "scaling" => ScalingInv)
  BY ScalingInit DEF MCInit
<1>2. (part = "scaling" => ScalingInv) /\ [MCNext]_partVars => (part = "scaling" => ScalingInv)'
  <2> SUFFICES ASSUME part = "scaling" => ScalingInv, [MCNext]_partVars, part' = "scaling" PROVE ScalingInv'
    OBVIOUS
  <2>1. ScalingInv /\ (Scaling!Next \/ UNCHANGED served)
    BY DEF MCNext, InCluster, InServing, InScaling, partVars
  <2>2. CASE UNCHANGED served
    BY <2>1, <2>2 DEF served, ScalingInv, ScalingCalls, CountsAreKept, CountsComeIn
  <2> QED BY <2>1, <2>2, ScalingNext
<1>3. (part = "scaling" => ScalingInv) /\ [MCNext]_partVars
        => [part = "scaling" => Scaling!BringsCountsBack]_partVars
  <2> SUFFICES ASSUME ScalingInv, part = "scaling", [MCNext]_partVars PROVE Scaling!BringsCountsBack
    OBVIOUS
  <2>1. [Scaling!Next]_served
    BY DEF MCNext, InCluster, InServing, InScaling, partVars
  <2> QED BY <2>1, BringsBack
<1> QED BY <1>1, <1>2, <1>3, PTL DEF MCSpec, CountsComeBack
=============================================================================
