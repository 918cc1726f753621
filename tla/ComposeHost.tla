---------------------------- MODULE ComposeHost ----------------------------
(***************************************************************************)
(* Compose workspaces on one host (services/lifecycle.py, runner.py) and   *)
(* the edge they share (services/edge.py): one Traefik that holds :443,    *)
(* finds each https workspace by a route file, and reaches its containers  *)
(* only while it is joined to their network.  Every process runs one       *)
(* command at a time; between two docker calls, or a docker call and a     *)
(* file, any other process may take a step.  With "refused" in Faults a    *)
(* docker call may fail.                                                   *)
(***************************************************************************)
EXTENDS Naturals, FiniteSets

CONSTANTS Names,      \* workspaces
          Procs,      \* processes that share one RC_REPRO_HOME
          Calls,      \* Calls[p]: the commands p may run
          Ports,      \* host ports pick_port looks at
          Faults,     \* {} or {"refused"}
          MaxKills,   \* bound: processes killed
          Free,       \* no process
          Nothing     \* no record

VARIABLES
  record,    \* record[w]: the port and the tls mode in repro.json
  cont,      \* cont[w]: its containers; "net" is a network that down left behind
  data,      \* the workspaces whose volume exists
  route,     \* the workspaces with a route file
  spec,      \* the edge's files: with a certificate resolver ("acme") or "plain"
  edge,      \* the edge's container: "down", or the spec it was started with
  attached,  \* the networks the edge's container has joined
  unjoined,  \* history: the networks it lacks, refused by docker or not reached
  lock,      \* lock[w]: holder of the workspace's repro_lock
  pc, job,   \* the next step of each process, and its command
  hurt,      \* the workspaces whose last command failed or died
  kills

docker == <<cont, data, edge, attached, unjoined>>
files == <<record, route, spec>>
world == <<docker, files>>
vars == <<world, lock, pc, job, hurt, kills>>

NoJob == [op |-> "none"]

Init ==
  /\ record = [w \in Names |-> Nothing] /\ cont = [w \in Names |-> "absent"]
  /\ data = {} /\ route = {} /\ spec = "none" /\ edge = "down"
  /\ attached = {} /\ unjoined = {}
  /\ lock = [w \in Names |-> Free]
  /\ pc = [p \in Procs |-> "idle"] /\ job = [p \in Procs |-> NoJob]
  /\ hurt = {} /\ kills = 0

Exists(w) == record[w] # Nothing
Network(w) == cont[w] # "absent"
Refusable == "refused" \in Faults

-----------------------------------------------------------------------------
(* The control of a process.                                               *)

\* The record f with the fields of g that it does not have.
With(f, g) == [x \in DOMAIN f \cup DOMAIN g |-> IF x \in DOMAIN f THEN f[x] ELSE g[x]]

Name(p) == job[p].name
At(p, l) == pc[p] = l
Go(p, l) == pc' = [pc EXCEPT ![p] = l] /\ UNCHANGED <<job, lock, hurt, kills>>

\* The command returns (ok) or raises; its lock goes with it.
Return(p, ok) ==
  /\ pc' = [pc EXCEPT ![p] = "idle"] /\ job' = [job EXCEPT ![p] = NoJob]
  /\ lock' = [w \in Names |-> IF lock[w] = p THEN Free ELSE lock[w]]
  /\ hurt' = IF job[p].op \in {"edge", "prune"} THEN hurt
             ELSE IF ok THEN hurt \ {Name(p)} ELSE hurt \cup {Name(p)}
  /\ UNCHANGED kills

\* prune skips a workspace and goes on where another command would fail.
Fail(p) ==
  IF job[p].op # "prune" THEN Return(p, FALSE)
  ELSE /\ pc' = [pc EXCEPT ![p] = "next"]
       /\ lock' = [lock EXCEPT ![Name(p)] = Free]
       /\ hurt' = hurt \cup {Name(p)}
       /\ UNCHANGED <<job, kills>>

\* The commands.  A name may be gone by the time its lock is held; `up` makes
\* it, brings it back as it is with the https name it has, or, forced, rebuilds.
Call(p) ==
  \E c \in Calls[p] :
    /\ At(p, "idle")
    /\ IF c.op \in {"edge", "prune"} THEN UNCHANGED lock
       ELSE lock[c.name] = Free /\ lock' = [lock EXCEPT ![c.name] = p]
    /\ LET reuse == c.op = "up" /\ ~c.force /\ Exists(c.name)
           tls == IF reuse \/ (Exists(c.name) /\ c.tls = "no") THEN record[c.name].tls ELSE c.tls
       IN  /\ job' = [job EXCEPT ![p] =
                        IF c.op = "up"
                        THEN With([c EXCEPT !.tls = tls], [reuse |-> reuse, port |-> 0, todo |-> {}])
                        ELSE With(c, [todo |-> {}])]
           /\ pc' = [pc EXCEPT ![p] =
                       CASE c.op = "up" -> IF reuse THEN "up" ELSE "port"
                         [] c.op = "edge" -> IF c.do = "stop" THEN "stop" ELSE "read"
                         [] c.op = "down" -> "detach"
                         [] OTHER -> c.op]
    /\ UNCHANGED <<world, hurt, kills>>

-----------------------------------------------------------------------------
(* Ports.                                                                  *)

Used == {record[w].port : w \in {x \in Names : Exists(x)}}
Bound == {record[w].port : w \in {x \in Names : Exists(x) /\ cont[x] = "running"}}

\* pick_host_port: the lowest port that no record claims and nothing listens
\* on.  The box-wide lock covers this step and not the write of the record.
PickPort(p) ==
  /\ At(p, "port")
  /\ LET free == Ports \ (Used \cup Bound)
     IN  \/ free = {} /\ Return(p, Name(p) \notin hurt)      \* refused, nothing touched
         \/ \E n \in free :
              /\ \A m \in free : n <= m
              /\ job' = [job EXCEPT ![p].port = n]
              /\ pc' = [pc EXCEPT ![p] = IF job[p].tls = "no" THEN "clear" ELSE "edge"]
              /\ UNCHANGED <<lock, hurt, kills>>
  /\ UNCHANGED world

-----------------------------------------------------------------------------
(* The edge: ensure_running, up, down, reattach_all, and `edge start`.     *)

Wants(p) == IF job[p].op = "up" THEN job[p].tls ELSE "no"

\* What follows the edge's part of a command.
AfterEdge(p) == IF job[p].op = "up" THEN Go(p, "route") ELSE Return(p, TRUE)

\* A new name needs a running edge, and one with a resolver if it is public; a
\* name brought back needs a running one.
EdgeNeeded(p) ==
  LET lacks == ~job[p].reuse /\ Wants(p) = "acme" /\ spec # "acme" IN
  /\ At(p, "edge")
  /\ \/ edge # "down" /\ ~lacks /\ Go(p, "route")
     \/ (edge = "down" \/ lacks \/ Refusable) /\ Go(p, "write")
  /\ UNCHANGED world

\* An edge that lacks the resolver is rewritten and stopped, so that the new
\* flags are applied.
WriteSpec(p) ==
  /\ At(p, "write")
  /\ spec' = IF Wants(p) = "acme" THEN "acme" ELSE IF spec = "none" THEN "plain" ELSE spec
  /\ Go(p, IF spec # "none" /\ spec # spec' THEN "stop" ELSE "start")
  /\ UNCHANGED <<docker, record, route>>

\* `edge start` and `edge restart` write back the spec they read.
ReadSpec(p) ==
  /\ At(p, "read")
  /\ job' = [job EXCEPT ![p] = With([spec |-> IF spec = "none" THEN "plain" ELSE spec], @)]
  /\ pc' = [pc EXCEPT ![p] = "rewrite"]
  /\ UNCHANGED <<world, lock, hurt, kills>>

RewriteSpec(p) ==
  /\ At(p, "rewrite")
  /\ spec' = job[p].spec
  /\ Go(p, IF job[p].do = "restart" THEN "stop" ELSE "start")
  /\ UNCHANGED <<docker, record, route>>

EdgeDown(p) ==
  /\ At(p, "stop")
  /\ \/ edge' = "down" /\ attached' = {} /\ unjoined' = {}
     \/ Refusable /\ UNCHANGED <<edge, attached, unjoined>>
  /\ IF job[p].op = "edge" /\ job[p].do = "stop" THEN Return(p, TRUE) ELSE Go(p, "start")
  /\ UNCHANGED <<files, cont, data>>

\* Mutant of EdgeUp: the routes are not gone through.
EdgeUpAlone(p) ==
  /\ At(p, "start")
  /\ edge' = spec
  /\ attached' = IF edge = spec THEN attached ELSE {}
  /\ AfterEdge(p)
  /\ UNCHANGED <<files, cont, data, unjoined>>

\* `docker compose up -d` recreates a container whose configuration changed,
\* and a new container has joined nothing: the routes are gone through.
EdgeUp(p) ==
  /\ At(p, "start")
  /\ \/ /\ edge' = spec
        /\ IF edge = spec THEN UNCHANGED <<attached, unjoined>> ELSE attached' = {} /\ unjoined' = {}
        /\ job' = [job EXCEPT ![p].todo = route]
        /\ pc' = [pc EXCEPT ![p] = "reattach"]
        /\ UNCHANGED <<lock, hurt, kills>>
     \/ Refusable /\ AfterEdge(p) /\ UNCHANGED <<edge, attached, unjoined>>
  /\ UNCHANGED <<files, cont, data>>

\* attach: the edge joins w's network if both are there.  No caller looks at what
\* it returns.
Join(w) ==
  IF edge # "down" /\ Network(w)
  THEN \/ attached' = attached \cup {w} /\ unjoined' = unjoined \ {w}
       \/ Refusable /\ unjoined' = unjoined \cup ({w} \ attached) /\ UNCHANGED attached
  ELSE UNCHANGED <<attached, unjoined>>

Reattach(p) ==
  /\ At(p, "reattach")
  /\ \/ \E w \in job[p].todo :
          /\ Join(w)
          /\ job' = [job EXCEPT ![p].todo = @ \ {w}]
          /\ UNCHANGED <<pc, lock, hurt, kills>>
     \/ job[p].todo = {} /\ AfterEdge(p) /\ UNCHANGED <<attached, unjoined>>
  /\ UNCHANGED <<files, cont, data, edge>>

-----------------------------------------------------------------------------
(* create_repro and _reuse.                                                *)

\* register: the route file, then the network.
Register(p) ==
  /\ At(p, "route")
  /\ route' = route \cup {Name(p)}
  /\ Go(p, "join")
  /\ UNCHANGED <<docker, record, spec>>

JoinFirst(p) ==
  /\ At(p, "join")
  /\ Join(Name(p))
  /\ IF job[p].reuse THEN Return(p, TRUE) ELSE Go(p, "clear")
  /\ UNCHANGED <<files, cont, data, edge>>

\* `docker compose down`: a network that somebody has joined cannot go.
ComposeDown(w, volumes) ==
  /\ w \notin attached /\ unjoined' = unjoined \ {w}
  /\ cont' = [cont EXCEPT ![w] = "absent"]
  /\ data' = IF volumes THEN data \ {w} ELSE data

ComposeDownFails(w) ==
  /\ w \in attached \/ Refusable
  /\ cont' = [cont EXCEPT ![w] = IF @ = "absent" THEN @ ELSE "net"]
  /\ UNCHANGED <<data, unjoined>>

\* A forced create takes the old containers down, the edge still joined.
Clear(p) ==
  LET w == Name(p) IN
  /\ At(p, "clear")
  /\ \/ Exists(w) /\ ComposeDown(w, job[p].wipe) /\ Go(p, "record")
     \/ Exists(w) /\ ComposeDownFails(w) /\ Fail(p)
     \/ ~Exists(w) /\ Go(p, "record") /\ UNCHANGED <<cont, data, unjoined>>
  /\ UNCHANGED <<files, edge, attached>>

Write(p) ==
  /\ At(p, "record")
  /\ record' = [record EXCEPT ![Name(p)] = [port |-> job[p].port, tls |-> job[p].tls]]
  /\ Go(p, "up")
  /\ UNCHANGED <<docker, route, spec>>

\* `docker compose up -d`.  A port that another workspace publishes leaves the
\* containers created and not started.
ComposeUp(p) ==
  LET w == Name(p)
      taken == cont[w] # "running" /\ record[w].port \in Bound
  IN
  /\ At(p, "up")
  /\ data' = data \cup {w}
  /\ \/ /\ ~taken
        /\ cont' = [cont EXCEPT ![w] = "running"]
        /\ IF job[p].tls = "no" THEN Return(p, w \notin hurt)   \* no route looked at
           ELSE Go(p, IF job[p].reuse THEN "edge" ELSE "rejoin")
     \/ /\ taken \/ Refusable
        /\ cont' = [cont EXCEPT ![w] = IF @ = "running" THEN @ ELSE "stopped"]
        /\ Fail(p)
  /\ UNCHANGED <<files, edge, attached, unjoined>>

\* The network exists only now.
JoinAgain(p) ==
  /\ At(p, "rejoin")
  /\ Join(Name(p)) /\ Return(p, TRUE)
  /\ UNCHANGED <<files, cont, data, edge>>

-----------------------------------------------------------------------------
(* set_state, teardown and prune.                                          *)

SetState(p) ==
  LET w == Name(p) IN
  /\ At(p, "set")
  /\ \/ /\ cont[w] \in {"running", "stopped"}
        /\ cont' = [cont EXCEPT ![w] = IF job[p].do = "stop" THEN "stopped" ELSE "running"]
        /\ job[p].do = "start" /\ cont[w] = "stopped" => record[w].port \notin Bound
     \/ UNCHANGED cont
  /\ Return(p, w \notin hurt)
  /\ UNCHANGED <<files, data, edge, attached, unjoined>>

\* The edge leaves first: compose cannot remove a network with it inside.
Detach(p) ==
  /\ At(p, "detach")
  /\ \/ attached' = attached \ {Name(p)}
     \/ Refusable /\ UNCHANGED attached
  /\ Go(p, "down")
  /\ UNCHANGED <<files, cont, data, edge, unjoined>>

Volumes(p) == IF job[p].op = "prune" THEN TRUE ELSE job[p].volumes

\* Mutant of Down: what `docker compose down` returns is not looked at.
DownUnchecked(p) ==
  LET w == Name(p) IN
  /\ At(p, "down")
  /\ \/ Exists(w) /\ ComposeDown(w, Volumes(p)) /\ Go(p, "unroute")
     \/ Exists(w) /\ ComposeDownFails(w) /\ Go(p, "unroute")
     \/ ~Exists(w) /\ Return(p, FALSE) /\ UNCHANGED <<cont, data, unjoined>>
  /\ UNCHANGED <<files, edge, attached>>

Down(p) ==
  LET w == Name(p) IN
  /\ At(p, "down")
  /\ \/ Exists(w) /\ ComposeDown(w, Volumes(p)) /\ Go(p, "unroute")
     \/ Exists(w) /\ ComposeDownFails(w) /\ Fail(p)
     \/ ~Exists(w) /\ Return(p, FALSE) /\ UNCHANGED <<cont, data, unjoined>>   \* no directory to run it in
  /\ UNCHANGED <<files, edge, attached>>

\* deregister.  A workspace whose volume was to go loses its record as well.
Deregister(p) ==
  /\ At(p, "unroute")
  /\ route' = route \ {Name(p)}
  /\ IF Volumes(p) THEN Go(p, "forget") ELSE Return(p, TRUE)
  /\ UNCHANGED <<docker, record, spec>>

Forget(p) ==
  /\ At(p, "forget")
  /\ record' = [record EXCEPT ![Name(p)] = Nothing]
  /\ IF job[p].op # "prune" THEN Return(p, TRUE)
     ELSE /\ pc' = [pc EXCEPT ![p] = "next"]
          /\ lock' = [lock EXCEPT ![Name(p)] = Free]
          /\ hurt' = hurt \ {Name(p)}
          /\ UNCHANGED <<job, kills>>
  /\ UNCHANGED <<docker, route, spec>>

\* prunable: the recorded workspaces whose project is not running, by an answer
\* of docker that this process may have kept for a moment (_cached_query): any of
\* them may have been started since.
Prunable(p) ==
  /\ At(p, "prune")
  /\ \E running \in SUBSET {w \in Names : cont[w] \in {"running", "stopped"}} :
       job' = [job EXCEPT ![p].todo = {w \in Names : Exists(w) /\ w \notin running}]
  /\ pc' = [pc EXCEPT ![p] = "next"]
  /\ UNCHANGED <<world, lock, hurt, kills>>

\* Each under its own lock; one that is in use is skipped.
PruneNext(p) ==
  /\ At(p, "next")
  /\ \/ \E w \in job[p].todo :
          /\ job' = [job EXCEPT ![p] = [op |-> "prune", name |-> w, todo |-> @.todo \ {w}]]
          /\ IF lock[w] = Free
             THEN lock' = [lock EXCEPT ![w] = p] /\ pc' = [pc EXCEPT ![p] = "detach"]
             ELSE UNCHANGED <<lock, pc>>
          /\ UNCHANGED <<hurt, kills>>
     \/ job[p].todo = {} /\ Return(p, TRUE)
  /\ UNCHANGED world

-----------------------------------------------------------------------------
Kill(p) ==
  /\ pc[p] # "idle" /\ kills < MaxKills
  /\ pc' = [pc EXCEPT ![p] = "idle"] /\ job' = [job EXCEPT ![p] = NoJob]
  /\ lock' = [w \in Names |-> IF lock[w] = p THEN Free ELSE lock[w]]
  /\ hurt' = hurt \cup {w \in Names : lock[w] = p}
  /\ unjoined' = IF At(p, "reattach") /\ edge # "down"
                 THEN unjoined \cup {w \in job[p].todo \ attached : Network(w)} ELSE unjoined
  /\ kills' = kills + 1
  /\ UNCHANGED <<files, cont, data, edge, attached>>

Create(p) == \/ PickPort(p) \/ Register(p) \/ JoinFirst(p) \/ Clear(p) \/ Write(p)
             \/ ComposeUp(p) \/ JoinAgain(p)

Edge(p) == \/ EdgeNeeded(p) \/ WriteSpec(p) \/ ReadSpec(p) \/ RewriteSpec(p)
           \/ EdgeDown(p) \/ EdgeUp(p) \/ Reattach(p)

Remove(p) == \/ Detach(p) \/ Down(p) \/ Deregister(p) \/ Forget(p)
             \/ Prunable(p) \/ PruneNext(p)

Next == \E p \in Procs :
          Call(p) \/ Create(p) \/ Edge(p) \/ Remove(p) \/ SetState(p) \/ Kill(p)

Spec == Init /\ [][Next]_vars

-----------------------------------------------------------------------------
(* Properties.                                                             *)

Specs == {"none", "plain", "acme"}

TypeOK ==
  /\ record \in [Names -> [port : Ports, tls : {"no", "local", "acme"}] \cup {Nothing}]
  /\ cont \in [Names -> {"absent", "net", "stopped", "running"}]
  /\ data \subseteq Names /\ route \subseteq Names
  /\ attached \subseteq Names /\ unjoined \subseteq Names \ attached
  /\ spec \in Specs /\ edge \in (Specs \ {"none"}) \cup {"down"}
  /\ lock \in [Names -> Procs \cup {Free}]
  /\ hurt \subseteq Names /\ kills \in 0..MaxKills
  /\ \A w \in attached : edge # "down" /\ Network(w)

\* Whatever compose has made of a workspace is written down in the state
\* directory (runner.write before `up`; runner.remove after `down -v`).
Records == INSTANCE Ledger WITH
             held <- data \cup {w \in Names : Network(w)},
             recorded <- {w \in Names : Exists(w)}
ComposeIsRecorded == Records!Spec

\* Once every command has ended, the edge has a route for exactly the https
\* workspaces that have containers and, if it runs, has joined their networks,
\* however creates, restarts of the edge and teardowns were interleaved; except
\* for a workspace whose last command failed or died (`hurt`).  The edge may still
\* lack the network of one that docker refused it, or of one that a command killed
\* while it went through the routes had not come to, whether or not the commands
\* of the workspace succeeded (`unjoined`: edge.register, edge.up's reattach_all,
\* the second attach of create_repro discard what attach returns).
RunningIsServed ==
  (\A p \in Procs : pc[p] = "idle") =>
    \A w \in Names \ hurt :
      LET https == Exists(w) /\ cont[w] \in {"running", "stopped"} /\ record[w].tls # "no"
      IN  /\ w \in route <=> https
          /\ https /\ edge # "down" => w \in attached \cup unjoined
=============================================================================
