------------------------------- MODULE MCHost -------------------------------
(****************************************************************************)
(* Six parts of one host that share no state, checked side by side: the     *)
(* compose workspaces and their edge, the accounts and sessions of          *)
(* `serve`, its settings, what it shows of docker, a seed and its readback, *)
(* and a capacity search.  A behaviour runs one of them, so that the states *)
(* are the sum of the parts' and not their product.                         *)
(****************************************************************************)
EXTENDS Integers, FiniteSets, Sequences, TLC

CONSTANTS Names, Procs, Calls, Ports, Faults, MaxKills, Free, Nothing,
          People, Sids, UserOf, Threads, ProcOf, Offers, Nobody, Unlocked,
          Plan, Kind, Parent, Want, Outcomes, MaxPages, Earlier,
          Starts, Maxima, Latencies, Rates, MaxP95, MinRps, NotMeasured,
          Tabs, Asks, Instances, QUERY_TTL, DOCKER_TTL, MaxTime, MaxChanges,
          Settings, Environment

VARIABLES record, cont, data, route, spec, edge, attached, unjoined, lock, pc, job, hurt, kills
VARIABLES users, rows, made, aged, kept, old, ulock, flock, mutex, stage, req, copy, torn, late, unread
VARIABLES there, content, inTeam, step, at, sent, rid, teamIds, failed, blank, counted, before, fact, unowned, paged
VARIABLES start, max, phase, n, lo, hi, lastPass, firstFail, tries, steps
VARIABLES config, cmutex, cflock, cstage, ask, cfg, passed
VARIABLES clock, past, cache, tab, acting, settled
VARIABLE part      \* the part that runs

hostVars ==
  <<record, cont, data, route, spec, edge, attached, unjoined, lock, pc, job, hurt, kills>>
consoleVars ==
  <<users, rows, made, aged, kept, old, ulock, flock, mutex, stage, req, copy, torn, late, unread>>
seedVars ==
  <<there, content, inTeam, step, at, sent, rid, teamIds, failed, blank, counted, before, fact, unowned, paged>>
capacityVars == <<start, max, phase, n, lo, hi, lastPass, firstFail, tries, steps>>
viewVars == <<clock, past, cache, tab, acting, settled>>
configVars == <<config, cmutex, cflock, cstage, ask, cfg, passed>>
vars == <<part, hostVars, consoleVars, seedVars, capacityVars, viewVars, configVars>>

Host == INSTANCE ComposeHost
Console == INSTANCE Accounts
Seed == INSTANCE SeedRooms
Capacity == INSTANCE Search
View == INSTANCE DockerView
Config == INSTANCE ConfigFile WITH
  mutex <- cmutex, flock <- cflock, at <- cstage, NoThread <- Nobody, Offers <- Settings, Env <- Environment

-----------------------------------------------------------------------------
Init ==
  /\ part \in {"workspaces", "accounts", "seed", "capacity", "view", "config"}
  /\ Host!Init /\ Console!Init /\ Seed!Init /\ Capacity!Init /\ View!Init /\ Config!Init
  /\ part # "seed" => there = {} /\ unowned = {}
  /\ part # "capacity" => start = 1 /\ max = 2
  /\ part # "view" => past = <<[at |-> 0, answers |-> TRUE]>>

Workspaces == /\ part = "workspaces" /\ Host!Next
              /\ UNCHANGED <<part, consoleVars, seedVars, capacityVars, viewVars, configVars>>
Accounting == /\ part = "accounts" /\ Console!Next
              /\ UNCHANGED <<part, hostVars, seedVars, capacityVars, viewVars, configVars>>
Seeding == /\ part = "seed" /\ Seed!Next
           /\ UNCHANGED <<part, hostVars, consoleVars, capacityVars, viewVars, configVars>>
Searching == /\ part = "capacity" /\ Capacity!Next
             /\ UNCHANGED <<part, hostVars, consoleVars, seedVars, viewVars, configVars>>
Looking == /\ part = "view" /\ View!Next
           /\ UNCHANGED <<part, hostVars, consoleVars, seedVars, capacityVars, configVars>>
Setting == /\ part = "config" /\ Config!Next
           /\ UNCHANGED <<part, hostVars, consoleVars, seedVars, capacityVars, viewVars>>

Next == Workspaces \/ Accounting \/ Seeding \/ Searching \/ Looking \/ Setting

Spec == Init /\ [][Next]_vars

-----------------------------------------------------------------------------
(* The properties of the parts, each stated and explained in its module.   *)

RunningIsServed == Host!RunningIsServed
ComposeIsRecorded == Host!ComposeIsRecorded
\* The files that several processes read, change and write back.
FilesChangeOneByOne == Console!AccountsChangeOneByOne /\ [][Config!SettingsChangeOneByOne]_configVars
SessionsStayEnded == Console!SessionsStayEnded
SeedReportIsTrue == Seed!SeedReportIsTrue
CapacityWasMeasured == Capacity!CapacityWasMeasured
ViewsAreHonest == part = "view" => View!ViewsAreHonest
TypeOK == Host!TypeOK /\ Console!TypeOK /\ Seed!TypeOK /\ Capacity!TypeOK /\ View!TypeOK /\ Config!TypeOK

-----------------------------------------------------------------------------
(* What is taken of the constants.                                         *)

\* The loads, the latencies and the rates are numbers, and a metric that is
\* missing is none of these.
SearchConstants ==
  /\ Starts \subseteq Int /\ Maxima \subseteq Int
  /\ Latencies \subseteq Int /\ Rates \subseteq Int /\ MaxP95 \in Int /\ MinRps \in Int
  /\ NotMeasured \notin Latencies \cup Rates

Commands == {"add", "passwd", "remove", "role"}

\* A request names an account and asks for what there is, and the null thread and
\* the missing account are neither.
AccountConstants ==
  /\ Unlocked \notin Threads /\ Nobody \notin Console!Entries
  /\ \A t \in Threads : \A r \in Offers[t] :
       /\ r.op \in Commands \cup {"request", "signout", "signin"}
       /\ r.op \in Commands => r.name \in People
       /\ r.op = "passwd" => r.pw \in {1, 2}
       /\ r.op = "role" => r.role \in {"admin", "member"}

\* A change of the settings is one of the four there are.
SettingConstants ==
  /\ Nobody \notin Threads
  /\ \A t \in Threads : \A r \in Settings[t] : r.op \in {"set", "remember", "unset", "removed"}

\* A plan has a room, and a discussion comes after its parent, which is no dm.
\* Earlier seeds left rooms of the plan, a discussion of theirs is another one.
PlanConstants ==
  /\ Want \in Nat /\ MaxPages \in Nat /\ Plan \in Seq(Seed!Rooms) /\ Plan # << >>
  /\ \A i \in 1..Len(Plan) : Kind[Plan[i]] = "discussion" =>
       \E j \in 1..(i - 1) : Plan[j] = Parent[Plan[i]] /\ Kind[Plan[j]] # "dm"
  /\ \A left \in Earlier : /\ DOMAIN left \subseteq Seed!Rooms \ Seed!Discussions
                           /\ \A r \in DOMAIN left : left[r] \in Nat

\* A tab asks for something, and docker has something to list.
ViewConstants ==
  /\ \A t \in Tabs : Asks[t] \in Seq(View!Queries) /\ Asks[t] # << >>
  /\ QUERY_TTL \in Int /\ DOCKER_TTL \in Int
  /\ Instances \in Seq({Instances[i] : i \in DOMAIN Instances}) /\ Instances # << >>

\* The commands of a process are those there are, and no process and no record are
\* neither.
Modes == {"no", "local", "acme"}
Asked == [op : {"up"}, name : Names, tls : Modes, force : BOOLEAN, wipe : BOOLEAN]
    \cup [op : {"down"}, name : Names, volumes : BOOLEAN]
    \cup [op : {"set"}, name : Names, do : {"stop", "start"}]
    \cup [op : {"edge"}, do : {"stop", "start", "restart"}] \cup [op : {"prune"}]
WorkspaceConstants ==
  /\ Free \notin Procs /\ Nothing \notin [port : Ports, tls : Modes]
  /\ \A p \in Procs : Calls[p] \subseteq Asked

ASSUME HostConstants == WorkspaceConstants /\
  SearchConstants /\ AccountConstants /\ SettingConstants /\ PlanConstants /\ ViewConstants

-----------------------------------------------------------------------------
(* The instance.  Two processes share two workspaces, one of them public;  *)
(* one makes, the other stops, removes, prunes and handles the edge.  Two  *)
(* requests of `serve` and a command line work on two accounts and one     *)
(* person's sessions.  The plan has a room of every kind that matters.     *)
CONSTANTS a, b, maker, taker, ann, bob, s1, s2, t1, t2, c1, serve, cli,
          team, chan, dm, topic, list, prune

Up(w, tls, force) == [op : {"up"}, name : {w}, tls : {tls}, force : force, wipe : {TRUE}]
MCCalls ==
  (maker :> (Up(a, "local", {TRUE}) \cup Up(b, "acme", {FALSE})))
  @@ (taker :> ([op : {"down"}, name : {a}, volumes : {FALSE}]
              \cup [op : {"set"}, name : {a}, do : {"stop", "start"}]
              \cup [op : {"prune"}]
              \cup [op : {"edge"}, do : {"stop", "restart"}]))

MCProcOf == (t1 :> serve) @@ (t2 :> serve) @@ (c1 :> cli)
MCUserOf == (s1 :> ann) @@ (s2 :> ann)
MCOffers ==
  (t1 :> ([op : {"request"}, sid : {s1}] \cup [op : {"signin"}, name : {ann}, pw : {1}]))
  @@ (t2 :> ([op : {"passwd"}, name : {ann}, pw : {2}]
           \cup [op : {"signout"}, sid : {s1}]
           \cup [op : {"role"}, name : {bob}, role : {"admin"}]
           \cup [op : {"remove"}, name : {bob}]))
  @@ (c1 :> ([op : {"add"}, name : {ann, bob}]
           \cup [op : {"role"}, name : {ann}, role : {"member"}]))

\* Settings made in the console and on the command line, and a `serve` that
\* remembers an address while its environment has a token.
MCEnvironment ==
  LET keys == {"default_repro", "acme_email", "bind_host", "reg_token"}
  IN  (serve :> [k \in keys |-> IF k = "reg_token" THEN "token" ELSE ""]) @@ (cli :> [k \in keys |-> ""])
MCSettings ==
  (t1 :> [op : {"set"}, key : {"default_repro"}, value : {"a", "b"}] \cup [op : {"removed"}, name : {"a"}])
  @@ (t2 :> [op : {"remember"}, key : {"acme_email"}, value : {"ann"}] \cup [op : {"removed"}, name : {"b"}])
  @@ (c1 :> [op : {"set"}, key : {"bind_host", "default_repro"}, value : {"a"}]
          \cup [op : {"unset"}, key : {"bind_host", "acme_email"}])

\* The list in one tab, with one query of the three that are cached alike, and
\* another request that shares it.
MCInstances == <<"rocketchat-1", "rocketchat-2">>
MCAsks == (list :> <<"info", "services">>) @@ (prune :> <<"services">>)

MCEarlier == {<<>>, (team :> 1), (team :> 1) @@ (chan :> 0),
              (team :> 0) @@ (chan :> 1) @@ (dm :> 1)}
MCPlan == <<team, chan, dm, topic>>
MCKind == (team :> "team") @@ (chan :> "teamroom") @@ (dm :> "dm") @@ (topic :> "discussion")
MCParent == (chan :> team) @@ (topic :> chan)
=============================================================================
