----------------------------- MODULE Blueprint -----------------------------
(****************************************************************************)
(* What a Compose workspace is made of: how `up` turns its flags, the       *)
(* record of the workspace that is already there and the records of the     *)
(* others into host ports, an https name, an environment, a compose         *)
(* document and a new record (services/lifecycle.py, services/topology.py,  *)
(* versions.py, compose.py), and what `env` and `monitor` make of the       *)
(* document and the record afterwards.  A command is one step: what happens *)
(* between its calls is ComposeHost's, and docker's only refusal here is of *)
(* a port that is taken.  The presets are the built-in ones.                *)
(****************************************************************************)
EXTENDS Naturals, FiniteSets

CONSTANTS Names,        \* workspaces
          Asks,         \* requests: CreateReq, and what the world answers it
          Pairings,     \* Pairings[v]: what is known of the MongoDB of version v
          SidePorts,    \* SidePorts[s]: the host ports preset s always publishes
          MonitorPorts, \* those of the monitoring add-on
          Busy,         \* ports of other programs
          MaxPort,      \* the last host port
          Settable,     \* bound: the variables `env` sets and removes
          Nothing

VARIABLES record,   \* record[w]: repro.json, or Nothing
          doc,      \* doc[w]: its compose document, or Nothing
          route,    \* route[w]: its route at the edge, or Nothing
          state     \* state[w]: its containers

vars == <<record, doc, route, state>>

Keys == {"ROOT_URL", "PLAIN", "PRESET", "MONGO_OPLOG_URL", "TRANSPORTER", "METRICS"}
States == {"absent", "stopped", "running"}

Init == /\ record = [w \in Names |-> Nothing] /\ doc = [w \in Names |-> Nothing]
        /\ route = [w \in Names |-> Nothing] /\ state = [w \in Names |-> "absent"]

Exists(w) == record[w] # Nothing
Recorded == {w \in Names : Exists(w)}

-----------------------------------------------------------------------------
(* Axes: runtime, deployment, replicas and preset (topology.py)            *)

DEPLOYMENTS == [docker |-> <<"monolith", "multi-instance">>,
                kubernetes |-> <<"microservices", "monolith">>]

\* A workspace that exists keeps its runtime; only Compose ones do here.
Runtime(w, a) ==
  CASE a.runtime # "" -> a.runtime
    [] a.runtime = "" /\ Exists(w) -> "docker"
    [] a.runtime = "" /\ ~Exists(w) -> IF a.deployment = "microservices" THEN "kubernetes" ELSE "docker"

Legacy(a) == a.preset = "multi-instance"

Deployment(w, a) ==
  CASE Legacy(a) -> "multi-instance"
    [] ~Legacy(a) /\ a.deployment # "" -> a.deployment
    [] ~Legacy(a) /\ a.deployment = "" -> DEPLOYMENTS[Runtime(w, a)][1]
Scenario(a) == IF Legacy(a) THEN "default" ELSE a.preset
Multi(w, a) == Deployment(w, a) = "multi-instance"

\* --replicas, or the `--set instances=N` it replaced.
Replicas(w, a) ==
  LET want == IF a.replicas # 0 THEN a.replicas ELSE a.instances
  IN IF want # 0 THEN want ELSE IF Multi(w, a) THEN 2 ELSE 1

resolve_axes(w, a) ==
  LET legal == DEPLOYMENTS[Runtime(w, a)]
  IN  /\ Legacy(a) => a.deployment \in {"", "multi-instance"}
      /\ Deployment(w, a) \in {legal[1], legal[2]}
      /\ Multi(w, a) => Scenario(a) = "default"
      /\ Deployment(w, a) = "monolith" => Replicas(w, a) = 1

\* How many the multi-instance preset builds, which is not told of --replicas
\* where --set instances was given too.
Instances(w, a) ==
  LET n == IF a.instances # 0 THEN a.instances ELSE Replicas(w, a)
  IN IF ~Multi(w, a) THEN 1 ELSE IF n < 2 THEN 2 ELSE IF n > 5 THEN 5 ELSE n

\* The other presets know no parameter of that name.
_unknown_params(w, a) == ~Multi(w, a) /\ a.instances # 0

-----------------------------------------------------------------------------
(* The MongoDB that goes with a version (versions.py)                      *)

\* The newest of those the release lists; without the live answer, or where it
\* lists none, the rule of the series.
resolve(a) ==
  LET p == Pairings[a.version]
  IN CASE a.mongo # 0 -> a.mongo
       [] a.mongo = 0 /\ (a.offline \/ p.listed = {}) -> p.rule
       [] a.mongo = 0 /\ ~a.offline /\ p.listed # {} ->
            CHOOSE n \in p.listed : \A m \in p.listed : m <= n
_flavor(n) == IF n >= 8 THEN "official" ELSE "bitnami-legacy"

-----------------------------------------------------------------------------
(* Host ports (runner.py, lifecycle.py)                                    *)

Span(n, port) == IF n > 1 THEN port .. port + n ELSE {port}

\* What a record claims; own_ports of one, used_ports of all.
Claims(r) == Span(r.n, r.port) \cup r.sidecar_ports \cup r.monitoring_ports
own_ports(w) == IF Exists(w) THEN Claims(record[w]) ELSE {}

\* Mutant of used_ports: the ports of the single instances are nobody's.
used_ports_of_front(without) ==
  (UNION {{record[w].port} \cup record[w].sidecar_ports \cup record[w].monitoring_ports : w \in Recorded}) \ without

used_ports(without) == (UNION {Claims(record[w]) : w \in Recorded}) \ without

Published(d) == {m.port : m \in d.ports}
Listening == Busy \cup UNION {Published(doc[w]) : w \in {x \in Names : state[x] = "running"}}
port_free(p) == p \notin Listening

\* check_sidecar_ports and check_monitor_ports: against what others claim of
\* the same kind, and against what listens.
Claimable(w, wanted, kind) ==
  /\ \A v \in Recorded \ {w} : record[v][kind] \cap wanted = {}
  /\ \A p \in wanted \ (IF Exists(w) THEN record[w][kind] ELSE {}) : port_free(p)

\* pick_host_port: the port asked for, or the lowest from which all are unclaimed
\* and free, of which a workspace keeps none of its own.
Fits(w, a, n, port) ==
  /\ Span(n, port) \subseteq 1 .. MaxPort
  /\ IF a.port # 0
     THEN \A p \in Span(n, port) : p \notin used_ports(own_ports(w)) /\ (p \in own_ports(w) \/ port_free(p))
     ELSE \A p \in Span(n, port) : p \notin used_ports({}) /\ port_free(p)
Ports(w, a, n) ==
  LET fit == {p \in (IF a.port # 0 THEN {a.port} ELSE 1 .. MaxPort) : Fits(w, a, n, p)}
  IN {p \in fit : \A q \in fit : p <= q}

-----------------------------------------------------------------------------
(* The https name (lifecycle._resolve_tls)                                 *)

Named(a) == a.https \/ a.domain # "" \/ a.email
NoName == [mode |-> "no", host |-> ""]

\* Mutant of _tls_from_record: a workspace that is there had no name.
NothingFromRecord(w) == NoName

\* What the workspace was created with.
_tls_from_record(w) == IF Exists(w) THEN record[w].tls ELSE NoName

\* Nothing about a name asked for: the one it has.  A domain is Let's Encrypt's,
\* anything else, an address for mail alone among it, the local authority's.
_resolve_tls(w, a) ==
  IF ~Named(a) THEN _tls_from_record(w)
  ELSE [mode |-> IF a.domain # "" THEN "acme" ELSE "local", host |-> a.domain]

\* Let's Encrypt takes an address, given or configured, and where there is a
\* file of credentials for DNS, one that says whose they are.
Certifiable(a, tls) ==
  tls.mode = "acme" => (a.email \/ a.remembered) /\ a.dns # "unclear"

rc_service_names(n) == IF n = 1 THEN {0} ELSE 1 .. n
Route(n, tls) == [host |-> tls.host, to |-> rc_service_names(n), local |-> tls.mode = "local"]

-----------------------------------------------------------------------------
(* The document (compose.py)                                               *)

\* What the user set or removed, in this request and before it.
Overrides(w, a) ==
  [k \in Keys |-> IF k \in a.env THEN "mine" ELSE IF Exists(w) THEN record[w].env[k] ELSE "unsaid"]

Given(k, a, tls) ==
  CASE k = "ROOT_URL" -> IF a.root_url THEN "given" ELSE IF tls.mode # "no" THEN "public" ELSE "local"
    [] k = "MONGO_OPLOG_URL" /\ Pairings[a.version].oplog -> "base"
    [] k = "PRESET" /\ Scenario(a) # "default" -> "preset"
    [] OTHER -> "unset"

Said(over, k, otherwise) ==
  CASE over[k] = "mine" -> "mine" [] over[k] = "gone" -> "unset" [] over[k] = "unsaid" -> otherwise

\* The instances' transport and the metrics are written over what the user set.
_rc_environment(w, a, n, tls) ==
  [k \in Keys |->
     CASE k = "TRANSPORTER" /\ n > 1 -> "base"
       [] k = "METRICS" /\ a.monitor -> "base"
       [] OTHER -> Said(Overrides(w, a), k, Given(k, a, tls))]

Mapping(ports, of, bind) == {[port |-> p, of |-> of, bind |-> bind] : p \in ports}

\* Where there are several, the load balancer has the workspace's port and each
\* one of its own after it.
build(w, a, n, port, tls) ==
  [rc |-> rc_service_names(n),
   ports |-> Mapping({port}, "entry", a.bind) \cup Mapping(Span(n, port) \ {port}, "instance", a.bind)
             \cup Mapping(SidePorts[Scenario(a)], "side", a.bind)
             \cup Mapping(IF a.monitor THEN MonitorPorts ELSE {}, "monitor", a.bind),
   env |-> _rc_environment(w, a, n, tls), mongo |-> _flavor(resolve(a))]

Metadata(w, a, n, port, tls) ==
  [n |-> n, port |-> port, sidecar_ports |-> SidePorts[Scenario(a)],
   monitoring_ports |-> IF a.monitor THEN MonitorPorts ELSE {},
   tls |-> tls, env |-> Overrides(w, a), version |-> a.version, mongo |-> resolve(a)]

-----------------------------------------------------------------------------
(* Commands                                                                *)

\* docker publishes no port twice.
Publishable(w, d) ==
  /\ \A m, o \in d.ports : m.port = o.port => m = o
  /\ Published(d) \cap (Busy \cup UNION {Published(doc[v]) : v \in {x \in Names \ {w} : state[x] = "running"}}) = {}
Up(w, d) == [state EXCEPT ![w] = IF Publishable(w, d) THEN "running" ELSE "stopped"]

\* What create_repro checks whatever becomes of it.
Sound(w, a) == resolve_axes(w, a) /\ Runtime(w, a) = "docker" /\ ~_unknown_params(w, a)
Reuses(w, a) == Exists(w) /\ ~a.force

\* A new workspace, or one that is there, torn down and made again.
Create(w, a) ==
  LET n == Instances(w, a)
      tls == _resolve_tls(w, a)
  IN  /\ Sound(w, a) /\ ~Reuses(w, a)
      /\ Claimable(w, SidePorts[Scenario(a)], "sidecar_ports")
      /\ a.monitor => Claimable(w, MonitorPorts, "monitoring_ports")
      /\ Certifiable(a, tls)
      /\ \E port \in Ports(w, a, n) :
           LET d == build(w, a, n, port, tls)
           IN  /\ record' = [record EXCEPT ![w] = Metadata(w, a, n, port, tls)]
               /\ doc' = [doc EXCEPT ![w] = d]
               /\ state' = Up(w, d)
      /\ route' = IF tls.mode = "no" THEN route ELSE [route EXCEPT ![w] = Route(n, tls)]

\* _restore_route: with the instances of the record.
_restore_route(w) ==
  route' = IF record[w].tls.mode = "no" THEN route
           ELSE [route EXCEPT ![w] = Route(record[w].n, record[w].tls)]

\* A workspace that is there and not forced is brought up as it is.
_reuse(w, a) ==
  /\ Sound(w, a) /\ Reuses(w, a)
  /\ IF state[w] = "running" \/ Publishable(w, doc[w])
     THEN state' = [state EXCEPT ![w] = "running"] /\ _restore_route(w)
     ELSE state' = [state EXCEPT ![w] = "stopped"] /\ UNCHANGED route
  /\ UNCHANGED <<record, doc>>

Start(w) == /\ state[w] = "stopped" /\ state' = Up(w, doc[w]) /\ UNCHANGED <<record, doc, route>>
Stop(w) == /\ state[w] = "running" /\ state' = [state EXCEPT ![w] = "stopped"]
           /\ UNCHANGED <<record, doc, route>>

\* down, and down --volumes.
Down(w) ==
  /\ Exists(w) /\ state' = [state EXCEPT ![w] = "absent"] /\ route' = [route EXCEPT ![w] = Nothing]
  /\ \/ UNCHANGED <<record, doc>>
     \/ record' = [record EXCEPT ![w] = Nothing] /\ doc' = [doc EXCEPT ![w] = Nothing]

\* env: a variable is set or removed, in the record and in the document; what
\* was said before is written again.  --no-restart leaves the containers.
_set_env(w, k, said) ==
  LET over == [record[w].env EXCEPT ![k] = said]
      d == [doc[w] EXCEPT !.env = [j \in Keys |-> Said(over, j, doc[w].env[j])]]
  IN  /\ record' = [record EXCEPT ![w].env = over] /\ doc' = [doc EXCEPT ![w] = d]
      /\ state' \in {state, Up(w, d)}
      /\ UNCHANGED route
SetEnv(w) == Exists(w) /\ \E k \in Settable, said \in {"mine", "gone"} : _set_env(w, k, said)

\* _detect_bind: the interface of the ports that are published already.
_detect_bind(d) == CHOOSE b \in {m.bind : m \in d.ports} : TRUE

Monitored(d) == [d EXCEPT !.ports = @ \cup Mapping(MonitorPorts, "monitor", _detect_bind(d))]
Unmonitored(d) == [d EXCEPT !.ports = {m \in @ : m.of # "monitor"}]

\* monitor, which asks Rocket.Chat first, and monitor --off, which need not.
Attach(w) ==
  /\ state[w] = "running" /\ Claimable(w, MonitorPorts, "monitoring_ports")
  /\ record' = [record EXCEPT ![w].monitoring_ports = MonitorPorts]
  /\ doc' = [doc EXCEPT ![w] = Monitored(@)]
  /\ state' = Up(w, Monitored(doc[w])) /\ UNCHANGED route
Detach(w) ==
  /\ Exists(w) /\ record' = [record EXCEPT ![w].monitoring_ports = {}]
  /\ doc' = [doc EXCEPT ![w] = Unmonitored(@)] /\ UNCHANGED <<route, state>>

Next == \E w \in Names :
          \/ \E a \in Asks : Create(w, a) \/ _reuse(w, a)
          \/ Start(w) \/ Stop(w) \/ Down(w) \/ SetEnv(w) \/ Attach(w) \/ Detach(w)

Spec == Init /\ [][Next]_vars

-----------------------------------------------------------------------------
(* Properties                                                              *)

Fixed(w) == record'[w].sidecar_ports \cup record'[w].monitoring_ports
Front(v) == Span(record[v].n, record[v].port)
New(w) == {p \in (IF doc'[w] = Nothing THEN {} ELSE Published(doc'[w])) :
             doc[w] = Nothing \/ p \notin Published(doc[w])}

\* No command makes a workspace publish a port that another one has in its
\* document, running or not, so both can run: the ports of every instance, of
\* the presets' services and of monitoring are claimed in the record, and every
\* choice looks at the claims (used_ports, runner.py:236-252).  What the code
\* does not look at is a fixed port that a workspace which is not running
\* already has for Rocket.Chat.
PortsStayApart ==
  \A w \in Names : \A v \in Recorded \ {w} : \A p \in New(w) \cap Published(doc[v]) :
    p \in Fixed(w) /\ p \in Front(v) /\ state[v] # "running"
PortsNeverMeet == [][PortsStayApart]_vars

\* An `up` that says nothing of names gives a workspace back the https name it
\* had, routed to the Rocket.Chats it has now (lifecycle.py:896-905, :1669-1675),
\* and whatever environment was set and not set anew ("`up --force` keeps them",
\* README.md:361), except that an instance's transport and the metrics of
\* monitoring are written over it.
NameIsBack(w, a) ==
  /\ ~Named(a) => record'[w].tls = record[w].tls
  /\ record'[w].tls.mode # "no" /\ state'[w] = "running" =>
       /\ route'[w] # Nothing
       /\ route'[w].to = doc'[w].rc /\ route'[w].host = record'[w].tls.host
EnvironmentIsBack(w, a) ==
  \A k \in Keys \ a.env :
    /\ record'[w].env[k] = record[w].env[k]
    /\ \/ k = "TRANSPORTER" /\ record'[w].n > 1
       \/ k = "METRICS" /\ record'[w].monitoring_ports # {}
       \/ doc'[w].env[k] = Said(record[w].env, k, doc'[w].env[k])
GivesBack == \A w \in Recorded : \A a \in Asks :
               Create(w, a) \/ _reuse(w, a) => NameIsBack(w, a) /\ EnvironmentIsBack(w, a)
UpGivesBack == [][GivesBack]_vars

TypeOK ==
  /\ \A w \in Names : (record[w] = Nothing) = (doc[w] = Nothing)
  /\ state \in [Names -> States]
=============================================================================
