---------------------------- MODULE MCCreateFlow ----------------------------
(****************************************************************************)
(* Eight crews at work on a workspace, the gates in front of it, and what   *)
(* is written of it, of which a behaviour has one:                          *)
(*   killed  two job threads of a `serve` that may be killed;               *)
(*   still   a job thread and a CLI command, every step of which may fail;  *)
(*   alone   a CLI command that may be killed;                              *)
(*   gates   creates on hosts of every kind, and what the hosts are said to *)
(*           have room for (Admission);                                     *)
(*   ports   the ports of two Compose workspaces, and                       *)
(*   plans   the name, the environment and the layout of one (Blueprint);   *)
(*   owners  people who make, hand over and delete workspaces (Ownership),  *)
(*   bench   benchmarks, with workspaces of their own, beside one (Bench).  *)
(****************************************************************************)
EXTENDS Naturals, Sequences, TLC

CONSTANTS
  Crews,                          \* the crews of this run
  Jobs, Callers, Clis, ProcOf,    \* who creates: of `killed`, of `still`, the commands among these
  Procs, Serves, MaxRuns,         \* processes, and those that are a `serve`
  Boxes, Creates, Memories,
  NamesOf, AsksOf, SettableOf,    \* of `ports` and of `plans`
  Pairings, SidePorts, MonitorPorts, Busy, MaxPort,
  People, Asserting, Roles, Unnamed, Base, Words, Shells, MaxSpaces,
  NoTask, Nothing

VARIABLES crew, pc, kind, req, knew, seeds, lock, notes, ws, configured, seeded,
          recorded, awaited, asked,
          box, made, told, answer,
          record, doc, route, state,
          spaces, role, policy, task,
          bench, boxes, benchNotes, benchAt, run, rec, runs, before, scars

\* The requests that wait for Rocket.Chat, as those of a preset with a post_ready.
Waiting == {r \in [seed : BOOLEAN, wait : BOOLEAN] : r.wait}

\* These failures leave no workspace half made.
Killed == INSTANCE CreateFlow WITH
  Tasks <- Jobs, Clis <- {}, Readies <- Jobs, Offered <- Waiting,
  Failures <- {"check", "seed", "readback"}, MayDie <- TRUE

Still == INSTANCE CreateFlow WITH
  Tasks <- Callers, Readies <- Callers, Offered <- {r \in [seed : BOOLEAN, wait : BOOLEAN] : r.seed => r.wait},
  Failures <- {"check", "compose", "ready", "seed", "readback"}, MayDie <- FALSE

Alone == INSTANCE CreateFlow WITH
  Tasks <- Clis, Readies <- Clis, Offered <- Waiting, Failures <- {}, MayDie <- TRUE

Gates == INSTANCE Admission WITH Requests <- Creates

Claims == INSTANCE Blueprint WITH
  Names <- NamesOf["ports"], Asks <- AsksOf["ports"], Settable <- SettableOf["ports"]

Plans == INSTANCE Blueprint WITH
  Names <- NamesOf["plans"], Asks <- AsksOf["plans"], Settable <- SettableOf["plans"]

Owners == INSTANCE Ownership

Benches == INSTANCE Bench WITH record <- bench, notes <- benchNotes, pc <- benchAt

planVars == <<record, doc, route, state>>
flowVars == <<pc, kind, req, knew, seeds, lock, notes, ws, configured, seeded, recorded,
              awaited, asked>>
gateVars == <<box, made, told, answer>>
ownerVars == <<spaces, role, policy, task>>
benchVars == <<bench, boxes, benchNotes, benchAt, run, rec, runs, before, scars>>
crewVars == <<crew, pc, kind, req, knew, seeds, lock, notes, ws, configured, seeded, recorded,
              awaited, asked, box, made, told, answer, record, doc, route, state,
              spaces, role, policy, task, bench, boxes, benchNotes, benchAt, run, rec, runs,
              before, scars>>

MCInit == /\ crew \in Crews
          /\ crew = "killed" => Killed!Init
          /\ crew = "still" => Still!Init
          /\ crew \in {"alone", "gates", "ports", "plans", "owners", "bench"} => Alone!Init
          /\ IF crew = "gates" THEN Gates!Init
             ELSE box = (CHOOSE b \in Boxes : TRUE) /\ made = {} /\ told = << >> /\ answer = << >>
          /\ IF crew = "ports" THEN Claims!Init ELSE Plans!Init
          /\ Owners!Init /\ Benches!Init
          /\ crew # "owners" => policy = "owner"

KilledCrew == crew = "killed" /\ Killed!Next /\ UNCHANGED <<crew, gateVars, planVars, ownerVars, benchVars>>
StillCrew == crew = "still" /\ Still!Next /\ UNCHANGED <<crew, gateVars, planVars, ownerVars, benchVars>>
AloneCrew == crew = "alone" /\ Alone!Next /\ UNCHANGED <<crew, gateVars, planVars, ownerVars, benchVars>>
GatesCrew == crew = "gates" /\ Gates!Next /\ UNCHANGED <<crew, flowVars, planVars, ownerVars, benchVars>>
PortsCrew == crew = "ports" /\ Claims!Next /\ UNCHANGED <<crew, flowVars, gateVars, ownerVars, benchVars>>
PlansCrew == crew = "plans" /\ Plans!Next /\ UNCHANGED <<crew, flowVars, gateVars, ownerVars, benchVars>>
OwnersCrew == crew = "owners" /\ Owners!Next /\ UNCHANGED <<crew, flowVars, gateVars, planVars, benchVars>>
BenchCrew == crew = "bench" /\ Benches!Next /\ UNCHANGED <<crew, flowVars, gateVars, planVars, ownerVars>>

MCNext == \/ KilledCrew \/ StillCrew \/ AloneCrew \/ GatesCrew
          \/ PortsCrew \/ PlansCrew \/ OwnersCrew \/ BenchCrew
MCSpec == MCInit /\ [][MCNext]_crewVars

\* The properties, each stated and explained in CreateFlow,
\* Admission, Blueprint, Ownership and Bench.
TypesOK == /\ crew = "killed" => Killed!TypeOK
           /\ crew = "still" => Still!TypeOK
           /\ crew = "alone" => Alone!TypeOK
           /\ crew = "gates" => Gates!TypeOK
           /\ crew = "ports" => Claims!TypeOK
           /\ crew = "plans" => Plans!TypeOK
           /\ crew = "owners" => Owners!TypeOK
           /\ crew = "bench" => Benches!TypeOK

WorkIsNoted == /\ crew = "killed" => Killed!ConfigurationIsNoted
               /\ crew = "bench" => Benches!BenchesAreNoted
\* `up` seeds outside the lock, so the first holds of the threads of serve; a call
\* that is killed leaves a pending seed that its retry adds to its own, so the
\* second holds where nothing is.
SeedsComeOneByOne ==
  /\ crew = "killed" => Killed!SeedsAreSerialised
  /\ crew = "still" => Still!OneSeedPerCall
ReadyFinishesTheSeed == [][crew = "killed" => Killed!FinishesTheSeed]_crewVars
AdmissionIsForetold == [][crew = "gates" => Gates!KeepsRoom /\ Gates!Foretells]_crewVars
PortsNeverMeet == [][crew = "ports" => Claims!PortsStayApart]_crewVars
OwnersKeepTheirs ==
  [][/\ crew = "owners" => Owners!NamesFindTheirs' /\ Owners!DestroysItsOwn
     /\ crew = "bench" => Benches!OwnWorkspacesStay]_crewVars
UpGivesBack == [][crew = "plans" => Plans!GivesBack]_crewVars

\* The same of the seed that a CLI command would have done by itself
\* (cli.py:406-417): it does not hold.
ReadyFinishesUpsSeed == [][crew = "alone" => Alone!FinishesTheSeed]_crewVars
-----------------------------------------------------------------------------
(* What the constants are.                                                 *)
\* Who creates is somebody.
ASSUME CreatorsAre == NoTask \notin Jobs

\* A CLI command runs in a process of its own.
ASSUME CommandsAre ==
  /\ Clis \subseteq Callers
  /\ \A t \in Clis, u \in Callers : ProcOf[u] = ProcOf[t] => u = t

ASSUME HostsAre == Boxes \subseteq Gates!Box /\ Creates \subseteq Gates!Request /\ Memories \subseteq Nat

\* Requests, records, documents and routes, as far as they tell.
Values == [Plans!Keys -> {"mine", "gone", "unsaid"}]
Settings == [Plans!Keys -> {"mine", "unset", "base", "preset", "given", "public", "local"}]
Hosts == STRING \cup {""}
RecordSet ==
  [n : Nat, port : Nat, sidecar_ports : SUBSET Nat, monitoring_ports : SUBSET Nat,
   tls : [mode : {"no", "acme", "local"}, host : Hosts], env : Values, version : DOMAIN Pairings, mongo : Nat]
DocSet ==
  [rc : SUBSET Nat, ports : SUBSET [port : Nat, of : {"entry", "instance", "side", "monitor"}, bind : STRING],
   env : Settings, mongo : {"official", "bitnami-legacy"}]
RouteSet == [host : Hosts, to : SUBSET Nat, local : BOOLEAN]
AskSet ==
  [runtime : STRING, deployment : STRING, preset : DOMAIN SidePorts \cup {"multi-instance"}, replicas : Nat,
   instances : Nat, port : Nat, version : DOMAIN Pairings, mongo : Nat, offline : BOOLEAN, https : BOOLEAN,
   domain : Hosts, email : BOOLEAN, remembered : BOOLEAN, dns : STRING, root_url : BOOLEAN, bind : STRING,
   env : SUBSET Plans!Keys, monitor : BOOLEAN, force : BOOLEAN]

\* No preset's port is one of monitoring's (config.py:44-55).
ASSUME BlueprintsAre ==
  /\ \A crews \in {"ports", "plans"} : AsksOf[crews] \subseteq AskSet
  /\ \A v \in DOMAIN Pairings : LET p == Pairings[v] IN
       p.rule \in Nat /\ p.listed \subseteq Nat /\ (p.listed # {} => \E n \in p.listed : \A m \in p.listed : m <= n)
  /\ "default" \in DOMAIN SidePorts /\ MonitorPorts \subseteq Nat /\ MonitorPorts # {}
  /\ \A s \in DOMAIN SidePorts : SidePorts[s] \subseteq Nat /\ SidePorts[s] \cap MonitorPorts = {}
  /\ Nothing \notin RecordSet /\ Nothing \notin DocSet /\ Nothing \notin RouteSet

\* Names are told apart by what is between their dashes.
NamesAre == Seq(STRING)
ASSUME PeopleAre == /\ People \subseteq NamesAre \ {<< >>} /\ Base \in NamesAre
                    /\ \A w \in Words : w.parts \in NamesAre

\* What the code does not see to, and two of the theorems need: all jobs are of
\* one `serve`; nobody sets the variable of the metrics; and no account's name is
\* what another's begins with.
OneServe == \A t, u \in Jobs : ProcOf[t] = ProcOf[u]
NobodySetsMetrics ==
  "METRICS" \notin SettableOf["plans"] /\ \A a \in AsksOf["plans"] : "METRICS" \notin a.env
AccountsAreApart == \A p, q \in People : Owners!IsPrefix(p, q) => p = q
-----------------------------------------------------------------------------
(* The instance.                                                           *)
CONSTANTS serve, cli, job1, job2, up, w1, w2

MCProcOf == (job1 :> serve) @@ (job2 :> serve) @@ (up :> cli)

\* With 1600 MB kept back, room for none, one, two, two and four Compose workspaces.
Few == {2699, 2700, 3800, 4600, 7000}
Small ==
  [docker |-> TRUE, compose |-> 2, kernel |-> "old", total |-> 8000, available |-> 4700,
  ports |-> TRUE, cpus |-> 4, engine |-> 7900, kind |-> "absent", kubectl |-> "absent", helm |-> "absent",
  own |-> "none", active |-> "none", storage |-> "default"]
Fits == {"absent", "old", "fit"}

\* Compose hosts; own clusters and memory; tools of every age; clusters of every
\* kind; engines with few CPUs, of 5.5 GiB, and that do not answer.
MCBoxes ==
  {[Small EXCEPT !.docker = d, !.compose = c, !.kernel = k, !.available = m, !.ports = p] :
     d \in BOOLEAN, c \in {1, 2}, k \in {"old", "new"}, m \in {2700, 3800}, p \in BOOLEAN}
  \cup {[Small EXCEPT !.kind = "fit", !.kubectl = "fit", !.helm = "fit", !.own = o, !.available = m] :
     o \in {"none", "up"}, m \in Few}
  \cup {[Small EXCEPT !.kind = k, !.kubectl = u, !.helm = h, !.own = o, !.active = "up"] :
     k \in Fits, u \in Fits, h \in Fits, o \in {"none", "up"}}
  \cup {[Small EXCEPT !.kind = k, !.kubectl = "fit", !.helm = "fit", !.own = o, !.active = a, !.storage = s] :
     k \in {"absent", "fit"}, o \in {"none", "dead", "elsewhere", "up"},
     a \in {"none", "dead", "up"}, s \in {"default", "none", "refused"}}
  \cup {[Small EXCEPT !.kind = "fit", !.kubectl = "fit", !.helm = "fit", !.own = o, !.cpus = c[1], !.engine = c[2]] :
     o \in {"none", "up"}, c \in {<<2, 7900>>, <<4, 5632>>, <<0, 0>>}}

Ask(k) == [kind |-> k, preset |-> "default", monitor |-> FALSE, mongo8 |-> FALSE,
           force |-> FALSE, again |-> FALSE, odd |-> FALSE]
MCCreates ==
  {Ask(k) : k \in {"docker", "kubernetes-monolith", "kubernetes-microservices"}}
  \cup {[Ask("docker") EXCEPT !.preset = "saml", !.monitor = TRUE, !.mongo8 = TRUE], [Ask("docker") EXCEPT !.again = TRUE],
        [Ask("kubernetes-microservices") EXCEPT !.force = TRUE],
        [Ask("kubernetes-monolith") EXCEPT !.again = TRUE], [Ask("kubernetes-monolith") EXCEPT !.odd = TRUE]}
\* Two versions: one that takes an oplog and lists more than the rule of its
\* series, one that lists nothing.
MCPairings == [seven |-> [oplog |-> TRUE, rule |-> 7, listed |-> {5, 6, 7}],
          eight |-> [oplog |-> FALSE, rule |-> 8, listed |-> {}]]
MCSidePorts == [default |-> {}, email |-> {3}]

Plain ==
  [runtime |-> "", deployment |-> "", preset |-> "default", replicas |-> 0, instances |-> 0,
   port |-> 0, version |-> "seven", mongo |-> 0, offline |-> FALSE, https |-> FALSE, domain |-> "",
   email |-> FALSE, remembered |-> FALSE, dns |-> "none", root_url |-> FALSE, bind |-> "loopback",
   env |-> {}, monitor |-> FALSE, force |-> FALSE]
Forced == [Plain EXCEPT !.force = TRUE]

MCNamesOf == [ports |-> {w1, w2}, plans |-> {w1}]
MCSettableOf == [ports |-> {}, plans |-> {"PLAIN", "TRANSPORTER"}]
MCAsksOf ==
 [ports |->
   {Plain, [Forced EXCEPT !.preset = "email"], [Forced EXCEPT !.deployment = "multi-instance"],
           [Plain EXCEPT !.preset = "email", !.bind = "every", !.port = 4],
           [Plain EXCEPT !.preset = "multi-instance", !.replicas = 3],
           [Forced EXCEPT !.port = 2, !.monitor = TRUE]},
  plans |->
   {Plain, [Forced EXCEPT !.version = "eight"], [Forced EXCEPT !.preset = "email", !.root_url = TRUE],
           [Forced EXCEPT !.deployment = "multi-instance"], [Plain EXCEPT !.replicas = 2],
           [Plain EXCEPT !.deployment = "monolith", !.instances = 2], [Plain EXCEPT !.deployment = "microservices"],
           [Plain EXCEPT !.preset = "multi-instance", !.replicas = 3, !.offline = TRUE],
           [Forced EXCEPT !.preset = "multi-instance", !.replicas = 3, !.instances = 2],
           [Plain EXCEPT !.preset = "multi-instance", !.deployment = "monolith"],
           [Plain EXCEPT !.preset = "email", !.deployment = "multi-instance"],
           [Plain EXCEPT !.runtime = "docker", !.domain = "d", !.email = TRUE],
           [Forced EXCEPT !.domain = "d"], [Forced EXCEPT !.https = TRUE, !.dns = "unclear"],
           [Forced EXCEPT !.remembered = TRUE, !.bind = "every"],
           [Forced EXCEPT !.port = 2, !.monitor = TRUE, !.env = {"TRANSPORTER"}, !.mongo = 8]}]

\* Ann signs in, or works before there are accounts; Bob has RC_REPRO_USER set.
ann == <<"ann">>
bob == <<"bob">>
Word(p, o) == [parts |-> p, odd |-> o]
MCRoles == (ann :> {"none", "member", "admin"}) @@ (bob :> {"none", "member"})
MCPeople == {ann, bob}
MCAsserting == {bob}
MCUnnamed == Word(<<>>, FALSE)
MCBase == <<"test">>
MCWords == {Word(<<>>, FALSE), Word(<<"test">>, FALSE), Word(<<"test">>, TRUE), Word(<<"ann", "test">>, FALSE)}
=============================================================================
