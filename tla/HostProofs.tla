----------------------------- MODULE HostProofs -----------------------------
(****************************************************************************)
(* Proofs about the parts of one host (MCHost), for any processes, names,   *)
(* accounts and requests.  The parts share no state, so that each is proved *)
(* about on its own: a step of the host is a step of one part, which leaves *)
(* the others' state alone.                                                 *)
(****************************************************************************)
EXTENDS MCHost, TLAPS

-----------------------------------------------------------------------------
(* The compose workspaces and their edge.                                  *)

Written == [port : Ports, tls : Modes]
Creating == {"port", "edge", "write", "stop", "start", "reattach", "route", "join",
             "clear", "record", "up", "rejoin"}
Edging == {"read", "rewrite", "stop", "start", "reattach"}
Removing == {"detach", "down", "unroute", "forget"}

\* The record of a command, by what it does.
UpJobs == [op : {"up"}, name : Names, tls : Modes, force : BOOLEAN, wipe : BOOLEAN,
           reuse : BOOLEAN, port : Ports \cup {0}, todo : SUBSET Names]
DownJobs == [op : {"down"}, name : Names, volumes : BOOLEAN, todo : SUBSET Names]
SetJobs == [op : {"set"}, name : Names, do : {"stop", "start"}, todo : SUBSET Names]
EdgeJobs == [op : {"edge"}, do : {"stop", "start", "restart"}, todo : SUBSET Names]
       \cup [op : {"edge"}, do : {"stop", "start", "restart"}, todo : SUBSET Names, spec : Host!Specs]
PruneJobs == [op : {"prune"}, todo : SUBSET Names]
        \cup [op : {"prune"}, name : Names, todo : SUBSET Names]

\* A process is somewhere in the command it runs, and has the lock of the
\* workspace it works on.
Locks(p) == pc[p] # "idle" /\ (job[p].op \in {"up", "down", "set"} \/ pc[p] \in Removing)
Placed(p) ==
  \/ pc[p] = "idle" /\ job[p] = Host!NoJob
  \/ pc[p] \in Creating /\ job[p] \in UpJobs
  \/ pc[p] \in Removing /\ job[p] \in DownJobs
  \/ pc[p] = "set" /\ job[p] \in SetJobs
  \/ /\ pc[p] \in Edging /\ job[p] \in EdgeJobs
     /\ pc[p] = "rewrite" => job[p].spec \in Host!Specs
  \/ pc[p] \in {"prune", "next"} /\ job[p] \in PruneJobs
  \/ pc[p] \in Removing /\ job[p] \in PruneJobs /\ Host!Name(p) \in Names
HasLock(p) == \A w \in Names : lock[w] = p <=> Locks(p) /\ Host!Name(p) = w

WorldShape ==
  /\ record \in [Names -> Written \cup {Nothing}]
  /\ cont \in [Names -> {"absent", "net", "stopped", "running"}]
  /\ data \subseteq Names /\ route \subseteq Names /\ attached \subseteq Names
  /\ spec \in Host!Specs
ControlShape ==
  /\ hurt \subseteq Names /\ lock \in [Names -> Procs \cup {Free}]
  /\ DOMAIN pc = Procs /\ DOMAIN job = Procs

\* The workspaces whose last command succeeded have the route that they should have,
\* and the network, unless it was refused or will be joined by a process that goes
\* through the routes.
Https(w) == Host!Exists(w) /\ cont[w] \in {"running", "stopped"} /\ record[w].tls # "no"
Coming(w) == \E q \in Procs : pc[q] = "reattach" /\ w \in job[q].todo
Served(w) == /\ w \in route <=> Https(w)
             /\ Https(w) /\ edge # "down" => w \in attached \/ w \in unjoined \/ Coming(w)

\* What a command has done so far to the workspace it has the lock of.
MidUp(p, w, tls, reuse) ==
  /\ tls = "no" => pc[p] \in {"port", "clear", "record", "up"}
  /\ pc[p] # "port" /\ ~reuse => job[p].port \in Ports
  /\ reuse => /\ pc[p] \in Creating \ {"port", "clear", "record", "rejoin"}
              /\ Host!Exists(w) /\ record[w].tls = tls
              /\ pc[p] # "up" => cont[w] = "running"
  /\ pc[p] \in {"up", "rejoin"} => Host!Exists(w) /\ record[w].tls = tls
  /\ pc[p] = "rejoin" => cont[w] = "running"
  /\ ~reuse /\ pc[p] = "port" /\ tls = "no" /\ Host!Exists(w) => record[w].tls = "no"
  /\ ~reuse /\ pc[p] # "port" /\ tls = "no" /\ w \notin hurt => w \notin route
  /\ ~reuse /\ pc[p] = "up" /\ tls # "no" => w \in route
  /\ pc[p] \in {"join", "clear", "record", "rejoin"} /\ tls # "no" => w \in route
  /\ (pc[p] = "port" \/ (reuse /\ pc[p] = "up")) /\ w \notin hurt => Served(w)
Mid(p) ==
  LET w == Host!Name(p)
  IN  /\ job[p].op = "up" => MidUp(p, w, job[p].tls, job[p].reuse)
      /\ job[p].op = "set" /\ w \notin hurt => Served(w)
      /\ pc[p] \in {"detach", "down"} /\ ~Host!Exists(w) /\ w \notin hurt => w \notin route
      /\ pc[p] \in {"unroute", "forget"} => cont[w] = "absent" /\ (Host!Volumes(p) => w \notin data)
      /\ pc[p] = "forget" => Host!Volumes(p) /\ w \notin route

HostInv ==
  /\ WorldShape /\ ControlShape
  /\ \A p \in Procs : Placed(p) /\ HasLock(p) /\ Mid(p)
  /\ \A w \in Names : lock[w] = Free /\ w \notin hurt => Served(w)

LEMMA HostInit == ASSUME WorkspaceConstants, Init PROVE HostInv
<1>1. WorldShape /\ ControlShape
  BY DEF Init, Host!Init, WorldShape, ControlShape, Host!Specs
<1>2. \A p \in Procs : Placed(p) /\ HasLock(p) /\ Mid(p)
  BY DEF Init, Host!Init, Placed, HasLock, Locks, Mid, Host!NoJob, WorkspaceConstants
<1>3. \A w \in Names : Served(w)
  BY DEF Init, Host!Init, Served, Https, Host!Exists
<1> QED
  BY <1>1, <1>2, <1>3 DEF HostInv

\* The record of a command, and what a process changes in it.
LEMMA UpJob ==
  ASSUME NEW c \in [op : {"up"}, name : Names, tls : Modes, force : BOOLEAN, wipe : BOOLEAN],
         NEW tls \in Modes, NEW reuse \in BOOLEAN
  PROVE  LET j == Host!With([c EXCEPT !.tls = tls], [reuse |-> reuse, port |-> 0, todo |-> {}])
         IN  j \in UpJobs /\ j.op = "up" /\ j.name = c.name /\ j.tls = tls /\ j.reuse = reuse /\ j.todo = {}
  BY DEF Host!With, UpJobs

LEMMA OtherJob ==
  ASSUME NEW c \in Asked, c.op # "up"
  PROVE  LET j == Host!With(c, [todo |-> {}])
         IN  /\ j.op = c.op /\ j.todo = {}
             /\ c.op = "down" => j \in DownJobs /\ j.name = c.name
             /\ c.op = "set" => j \in SetJobs /\ j.name = c.name
             /\ c.op = "edge" => j \in EdgeJobs
             /\ c.op = "prune" => j \in PruneJobs
<1>1. CASE c \in [op : {"down"}, name : Names, volumes : BOOLEAN]
  BY <1>1 DEF Host!With, DownJobs
<1>2. CASE c \in [op : {"set"}, name : Names, do : {"stop", "start"}]
  BY <1>2 DEF Host!With, SetJobs
<1>3. CASE c \in [op : {"edge"}, do : {"stop", "start", "restart"}]
  BY <1>3 DEF Host!With, EdgeJobs
<1>4. CASE c \in [op : {"prune"}]
  BY <1>4 DEF Host!With, PruneJobs
<1> QED
  BY <1>1, <1>2, <1>3, <1>4 DEF Asked

LEMMA SpecJob ==
  ASSUME NEW j \in EdgeJobs, NEW s \in Host!Specs
  PROVE  LET k == Host!With([spec |-> s], j) IN k \in EdgeJobs /\ k.spec = s
<1>1. CASE j \in [op : {"edge"}, do : {"stop", "start", "restart"}, todo : SUBSET Names]
  BY <1>1 DEF Host!With, EdgeJobs
<1>2. CASE j \in [op : {"edge"}, do : {"stop", "start", "restart"}, todo : SUBSET Names, spec : Host!Specs]
  BY <1>2 DEF Host!With, EdgeJobs
<1> QED
  BY <1>1, <1>2 DEF EdgeJobs

LEMMA PortJob ==
  ASSUME NEW j \in UpJobs, NEW x \in Ports
  PROVE  LET k == [j EXCEPT !.port = x]
         IN  /\ k \in UpJobs /\ k.port = x
             /\ k.name = j.name /\ k.tls = j.tls /\ k.reuse = j.reuse /\ k.todo = j.todo
  BY DEF UpJobs

LEMMA TodoJob ==
  ASSUME NEW j \in UpJobs \cup EdgeJobs \cup PruneJobs, NEW S \in SUBSET Names
  PROVE  LET k == [j EXCEPT !.todo = S]
         IN  /\ k.op = j.op /\ k.todo = S
             /\ j \in UpJobs => /\ k \in UpJobs
                                /\ k.name = j.name /\ k.tls = j.tls /\ k.reuse = j.reuse /\ k.port = j.port
             /\ j \in EdgeJobs => k \in EdgeJobs
             /\ j \in PruneJobs => k \in PruneJobs
<1>1. CASE j \in UpJobs
  BY <1>1 DEF UpJobs, EdgeJobs, PruneJobs
<1>2. CASE j \in EdgeJobs
  BY <1>2 DEF UpJobs, EdgeJobs, PruneJobs
<1>3. CASE j \in PruneJobs
  BY <1>3 DEF UpJobs, EdgeJobs, PruneJobs
<1> QED
  BY <1>1, <1>2, <1>3

-----------------------------------------------------------------------------
(* A step of one process.  It leaves alone what another has the lock of, and *)
(* whatever has its route and network keeps them.                          *)

Others(p) == \A q \in Procs \ {p} : pc'[q] = pc[q] /\ job'[q] = job[q]
SameFor(v) ==
  /\ record'[v] = record[v] /\ cont'[v] = cont[v]
  /\ (v \in route' <=> v \in route) /\ (v \in data' <=> v \in data)
  /\ v \notin hurt' => v \notin hurt /\ (Served(v) => Served(v)')
Aside(p) == \A v \in Names : lock[v] # p => SameFor(v)

\* What the step does to the locks: the process takes one that is free, or lets go
\* of its own when the workspace has all it should, or is known not to.
Lets(p) == \A w \in Names :
  \/ lock'[w] = lock[w]
  \/ lock[w] = Free /\ lock'[w] = p
  \/ lock[w] = p /\ lock'[w] = Free /\ (w \notin hurt' => Served(w)')

LEMMA JobKinds ==
  ASSUME NEW j, j \in UpJobs \cup DownJobs \cup SetJobs \cup EdgeJobs \cup PruneJobs
  PROVE  /\ j.op = "up" <=> j \in UpJobs
         /\ j.op = "down" <=> j \in DownJobs
         /\ j.op = "set" <=> j \in SetJobs
         /\ j.op = "edge" <=> j \in EdgeJobs
         /\ j.op = "prune" <=> j \in PruneJobs
         /\ j.op # "none" /\ j.todo \in SUBSET Names
  BY DEF UpJobs, DownJobs, SetJobs, EdgeJobs, PruneJobs

\* The places of each kind of command.
LEMMA Places ==
  ASSUME NEW p \in Procs, Placed(p)
  PROVE  /\ pc[p] = "idle" => job[p] = Host!NoJob
         /\ pc[p] # "idle" => job[p] \in UpJobs \cup DownJobs \cup SetJobs \cup EdgeJobs \cup PruneJobs
         /\ pc[p] \in Creating \ Edging <=> job[p].op = "up" /\ pc[p] \notin Edging
         /\ pc[p] \in {"read", "rewrite"} => job[p].op = "edge"
         /\ pc[p] \in Edging => job[p].op \in {"up", "edge"}
         /\ pc[p] = "set" <=> job[p].op = "set"
         /\ pc[p] \in {"prune", "next"} => job[p].op = "prune" /\ ~Locks(p)
         /\ pc[p] \in Removing => job[p].op \in {"down", "prune"}
         /\ job[p].op = "up" => pc[p] \in Creating
         /\ job[p].op = "down" => pc[p] \in Removing
         /\ job[p].op = "edge" => pc[p] \in Edging /\ ~Locks(p)
         /\ job[p].op = "prune" => pc[p] \in Removing \cup {"prune", "next"}
         /\ Locks(p) => Host!Name(p) \in Names
<1>1. CASE pc[p] = "idle" /\ job[p] = Host!NoJob
  BY <1>1 DEF Host!NoJob, Locks, Creating, Edging, Removing
<1>2. CASE pc[p] \in Creating /\ job[p] \in UpJobs
  BY <1>2 DEF UpJobs, Locks, Creating, Edging, Removing, Host!Name
<1>3. CASE pc[p] \in Removing /\ job[p] \in DownJobs
  BY <1>3 DEF DownJobs, Locks, Creating, Edging, Removing, Host!Name
<1>4. CASE pc[p] = "set" /\ job[p] \in SetJobs
  BY <1>4 DEF SetJobs, Locks, Creating, Edging, Removing, Host!Name
<1>5. CASE pc[p] \in Edging /\ job[p] \in EdgeJobs
  BY <1>5 DEF EdgeJobs, Locks, Creating, Edging, Removing
<1>6. CASE pc[p] \in {"prune", "next"} /\ job[p] \in PruneJobs
  BY <1>6 DEF PruneJobs, Locks, Creating, Edging, Removing
<1>7. CASE pc[p] \in Removing /\ job[p] \in PruneJobs /\ Host!Name(p) \in Names
  BY <1>7 DEF PruneJobs, Locks, Creating, Edging, Removing
<1> QED
  BY <1>1, <1>2, <1>3, <1>4, <1>5, <1>6, <1>7 DEF Placed

\* The others' facts are about workspaces that this process has no lock of.
LEMMA OthersKeep ==
  ASSUME HostInv, NEW p \in Procs, Others(p), Aside(p), Lets(p), NEW q \in Procs \ {p}, WorkspaceConstants
  PROVE  (Placed(q) /\ HasLock(q) /\ Mid(q))'
<1>1. pc'[q] = pc[q] /\ job'[q] = job[q] /\ Placed(q) /\ HasLock(q) /\ Mid(q)
  BY DEF HostInv, Others
<1>2. Placed(q)' /\ (Locks(q)' <=> Locks(q)) /\ Host!Name(q)' = Host!Name(q)
  BY <1>1 DEF Placed, Locks, Host!Name
<1>3. HasLock(q)'
  BY <1>1, <1>2 DEF HasLock, Lets, WorkspaceConstants
<1>4. Mid(q)'
  <2>1. CASE ~Locks(q)
    <3>1. job[q].op \notin {"up", "set"} /\ pc[q] \notin Removing
      BY <1>1, <2>1, Places DEF Locks, Removing, Host!NoJob
    <3> QED
      BY <1>1, <3>1 DEF Mid, Removing
  <2>2. CASE Locks(q)
    <3> SUFFICES ASSUME NEW w, w = Host!Name(q) PROVE Mid(q)'
      OBVIOUS
    <3>1. w \in Names /\ lock[w] = q /\ SameFor(w)
      BY <1>1, <2>2, Places DEF HasLock, Aside
    <3>2. record'[w] = record[w] /\ cont'[w] = cont[w] /\ (w \in route' <=> w \in route)
          /\ (w \in data' <=> w \in data) /\ (w \notin hurt' => w \notin hurt /\ (Served(w) => Served(w)'))
      BY <3>1 DEF SameFor
    <3>3. (Host!Exists(w) <=> Host!Exists(w)')
      BY <3>2 DEF Host!Exists
    <3>4. Host!Volumes(q) = Host!Volumes(q)' /\ w = Host!Name(q)'
      BY <1>1, <1>2 DEF Host!Volumes
    <3>5. ASSUME NEW tls, NEW reuse, MidUp(q, w, tls, reuse) PROVE MidUp(q, w, tls, reuse)'
      BY <1>1, <3>2, <3>3, <3>5 DEF MidUp
    <3>6. w \notin hurt' => w \notin hurt
      BY <3>2
    <3> QED
      BY <1>1, <3>2, <3>3, <3>4, <3>5, <3>6 DEF Mid
  <2> QED
    BY <2>1, <2>2
<1> QED
  BY <1>2, <1>3, <1>4

LEMMA Combines ==
  ASSUME HostInv, WorkspaceConstants, NEW p \in Procs, Others(p), Aside(p), Lets(p),
         WorldShape', ControlShape', (Placed(p) /\ HasLock(p) /\ Mid(p))'
  PROVE  HostInv'
<1>1. \A q \in Procs : (Placed(q) /\ HasLock(q) /\ Mid(q))'
  BY OthersKeep
<1>2. ASSUME NEW w \in Names, lock'[w] = Free, w \notin hurt' PROVE Served(w)'
  <2>1. CASE lock[w] = Free
    <3>1. lock[w] # p
      BY <2>1 DEF WorkspaceConstants
    <3> QED
      BY <1>2, <2>1, <3>1 DEF HostInv, Aside, SameFor
  <2>2. CASE lock[w] # Free
    BY <1>2, <2>2 DEF Lets
  <2> QED
    BY <2>1, <2>2
<1> QED
  BY <1>1, <1>2 DEF HostInv

\* A step that does nothing to a workspace, or to the edge, keeps it served.
LEMMA Calm ==
  ASSUME NEW p \in Procs, Others(p), pc[p] # "reattach" \/ job[p].todo = {}, NEW v \in Names, edge' = edge,
         record'[v] = record[v], cont'[v] = cont[v], v \in route' <=> v \in route,
         (v \in attached \cup unjoined) => (v \in attached \cup unjoined)'
  PROVE  Served(v) => Served(v)'
<1>1. Coming(v) => Coming(v)'
  BY DEF Coming, Others
<1>2. Https(v) <=> Https(v)'
  BY DEF Https, Host!Exists
<1> QED
  BY <1>1, <1>2 DEF Served

-----------------------------------------------------------------------------
(* The control of a process.                                               *)

LEMMA Owner ==
  ASSUME HostInv, NEW p \in Procs
  PROVE  /\ Placed(p) /\ HasLock(p) /\ Mid(p)
         /\ \A w \in Names : lock[w] = p => w = Host!Name(p) /\ Locks(p)
         /\ Locks(p) => Host!Name(p) \in Names /\ lock[Host!Name(p)] = p
  BY Places DEF HostInv, HasLock

\* Where nothing is said of a workspace.
LEMMA MidNowhere ==
  ASSUME NEW p, pc'[p] \notin Removing, job'[p].op \notin {"up", "set"}
  PROVE  Mid(p)'
  BY DEF Mid, Removing

LEMMA MidCreating ==
  ASSUME NEW p, job'[p] \in UpJobs, pc'[p] \in Creating, NEW w, w = job'[p].name,
         MidUp(p, w, job[p].tls, job[p].reuse)'
  PROVE  Mid(p)'
<1>1. job'[p].op = "up" /\ pc'[p] \notin Removing
  BY DEF UpJobs, Creating, Removing
<1> QED
  BY <1>1 DEF Mid, Removing, Host!Name

LEMMA GoneOn ==
  ASSUME HostInv, WorkspaceConstants, NEW p \in Procs, pc[p] # "idle", NEW l, Host!Go(p, l),
         \/ l \in Creating /\ job[p].op = "up"
         \/ l \in Edging \ {"rewrite"} /\ job[p].op = "edge"
         \/ l \in Removing /\ pc[p] \in Removing
  PROVE  /\ Others(p) /\ ControlShape' /\ Lets(p) /\ (Placed(p) /\ HasLock(p))'
         /\ pc'[p] = l /\ job'[p] = job[p] /\ hurt' = hurt
         /\ job[p].op = "edge" => Mid(p)'
<1>1. pc' = [pc EXCEPT ![p] = l] /\ UNCHANGED <<job, lock, hurt>>
  BY DEF Host!Go
<1>2. Others(p) /\ ControlShape' /\ pc'[p] = l /\ job'[p] = job[p] /\ Lets(p)
  BY <1>1 DEF HostInv, ControlShape, Others, Lets
<1>3. Placed(p) /\ HasLock(p)
  BY DEF HostInv
<1>4. Locks(p)' <=> Locks(p)
  BY <1>1, <1>2, <1>3, Places DEF Locks, Creating, Edging, Removing
<1>5. HasLock(p)'
  BY <1>1, <1>2, <1>3, <1>4 DEF HasLock, Host!Name
<1>6. Placed(p)'
  <2>1. CASE l \in Creating /\ job[p].op = "up"
    BY <1>2, <1>3, <2>1, Places, JobKinds DEF Placed
  <2>2. CASE l \in Edging \ {"rewrite"} /\ job[p].op = "edge"
    BY <1>2, <1>3, <2>2, Places, JobKinds DEF Placed
  <2>3. CASE l \in Removing /\ pc[p] \in Removing
    BY <1>2, <1>3, <2>3 DEF Placed, Removing, Creating, Edging, Host!Name
  <2> QED
    BY <2>1, <2>2, <2>3
<1>7. job[p].op = "edge" => Mid(p)'
  <2>1. job[p].op = "edge" => pc'[p] \notin Removing
    BY <1>2, <1>3, Places DEF Edging, Creating, Removing
  <2> QED
    BY <1>2, <2>1, MidNowhere
<1> QED
  BY <1>1, <1>2, <1>5, <1>6, <1>7

LEMMA Returned ==
  ASSUME HostInv, WorkspaceConstants, NEW p \in Procs, pc[p] # "idle", NEW ok, Host!Return(p, ok)
  PROVE  /\ Others(p) /\ ControlShape' /\ (Placed(p) /\ HasLock(p) /\ Mid(p))'
         /\ \A v \in Names : lock[v] # p => lock'[v] = lock[v] /\ (v \in hurt' <=> v \in hurt)
         /\ \A v \in Names : lock[v] = p => lock'[v] = Free
         /\ job[p].op \notin {"edge", "prune"} => (Host!Name(p) \in hurt' <=> ~ok)
         /\ job[p].op \in {"edge", "prune"} => hurt' = hurt
         /\ pc'[p] = "idle"
<1>1. /\ pc' = [pc EXCEPT ![p] = "idle"] /\ job' = [job EXCEPT ![p] = Host!NoJob]
      /\ lock' = [w \in Names |-> IF lock[w] = p THEN Free ELSE lock[w]]
      /\ hurt' = IF job[p].op \in {"edge", "prune"} THEN hurt
                 ELSE IF ok THEN hurt \ {Host!Name(p)} ELSE hurt \cup {Host!Name(p)}
  BY DEF Host!Return
<1>2. Placed(p) /\ ControlShape
  BY DEF HostInv
<1>3. job[p].op \notin {"edge", "prune"} => Locks(p)
  BY <1>2, Places DEF Locks, Creating, Edging, Removing, Host!NoJob, Placed, UpJobs, DownJobs, SetJobs, EdgeJobs, PruneJobs
<1>4. Others(p) /\ ControlShape' /\ pc'[p] = "idle" /\ job'[p] = Host!NoJob
  BY <1>1, <1>2, <1>3, Owner DEF ControlShape, Others
<1>5. Placed(p)' /\ HasLock(p)'
  BY <1>1, <1>2, <1>4 DEF Placed, HasLock, Locks, WorkspaceConstants, ControlShape
<1>6. Mid(p)'
  BY <1>4, MidNowhere DEF Host!NoJob, Removing
<1>7. \A v \in Names : lock[v] # p => lock'[v] = lock[v] /\ (v \in hurt' <=> v \in hurt)
  BY <1>1, <1>3, Owner
<1> QED
  BY <1>1, <1>4, <1>5, <1>6, <1>7

\* A command that fails leaves its workspace to be looked at.
LEMMA Failed ==
  ASSUME HostInv, WorkspaceConstants, NEW p \in Procs, Locks(p), Host!Fail(p)
  PROVE  /\ Others(p) /\ ControlShape' /\ Lets(p) /\ (Placed(p) /\ HasLock(p) /\ Mid(p))'
         /\ \A v \in Names : lock[v] # p => (v \in hurt' <=> v \in hurt)
<1>1. CASE job[p].op # "prune"
  <2>1. Host!Return(p, FALSE) /\ pc[p] # "idle" /\ job[p].op \notin {"edge", "prune"}
    BY <1>1, Owner, Places DEF Host!Fail, Locks
  <2> QED
    BY <2>1, Owner, Returned DEF Lets
<1>2. CASE job[p].op = "prune"
  <2> DEFINE w == Host!Name(p)
  <2>1. /\ pc' = [pc EXCEPT ![p] = "next"] /\ lock' = [lock EXCEPT ![w] = Free]
        /\ hurt' = hurt \cup {w} /\ job' = job
    BY <1>2 DEF Host!Fail
  <2>2. w \in Names /\ lock[w] = p /\ \A v \in Names : lock[v] = p => v = w
    BY Owner
  <2>3. Others(p) /\ ControlShape' /\ pc'[p] = "next" /\ job'[p] = job[p]
    BY <2>1, <2>2 DEF HostInv, ControlShape, Others
  <2>4. Placed(p)'
    BY <1>2, <2>3, Owner, JobKinds, Places DEF Placed, Locks
  <2>5. ~Locks(p)'
    BY <1>2, <2>3 DEF Locks, Removing
  <2>6. HasLock(p)'
    BY <2>1, <2>2, <2>5 DEF HasLock, WorkspaceConstants, HostInv, ControlShape
  <2>7. Mid(p)'
    BY <1>2, <2>3, MidNowhere DEF Removing
  <2>8. Lets(p)
    BY <2>1, <2>2 DEF Lets, HostInv, ControlShape
  <2>9. \A v \in Names : lock[v] # p => (v \in hurt' <=> v \in hurt)
    BY <2>1, <2>2
  <2> QED
    BY <2>3, <2>4, <2>6, <2>7, <2>8, <2>9
<1> QED
  BY <1>1, <1>2

\* A step that changes no workspace but the one its process has the lock of, and
\* takes the edge from no other.
LEMMA Apart ==
  ASSUME NEW p \in Procs, Others(p), pc[p] # "reattach" \/ job[p].todo = {}, edge' = edge,
         \A v \in Names : lock[v] # p =>
           /\ record'[v] = record[v] /\ cont'[v] = cont[v]
           /\ (v \in route' <=> v \in route) /\ (v \in data' <=> v \in data)
           /\ ((v \in attached \cup unjoined) => (v \in attached \cup unjoined)') /\ (v \in hurt' <=> v \in hurt)
  PROVE  Aside(p)
  BY Calm DEF Aside, SameFor

-----------------------------------------------------------------------------
(* The actions.                                                            *)

LEMMA CallKeeps ==
  ASSUME HostInv, WorkspaceConstants, NEW p \in Procs, Host!Call(p)
  PROVE  HostInv'
<1>0. PICK c \in Calls[p] :
        /\ Host!At(p, "idle")
        /\ IF c.op \in {"edge", "prune"} THEN UNCHANGED lock
           ELSE lock[c.name] = Free /\ lock' = [lock EXCEPT ![c.name] = p]
        /\ LET reuse == c.op = "up" /\ ~c.force /\ Host!Exists(c.name)
               tls == IF reuse \/ (Host!Exists(c.name) /\ c.tls = "no") THEN record[c.name].tls ELSE c.tls
           IN  /\ job' = [job EXCEPT ![p] =
                            IF c.op = "up"
                            THEN Host!With([c EXCEPT !.tls = tls], [reuse |-> reuse, port |-> 0, todo |-> {}])
                            ELSE Host!With(c, [todo |-> {}])]
               /\ pc' = [pc EXCEPT ![p] =
                           CASE c.op = "up" -> IF reuse THEN "up" ELSE "port"
                             [] c.op = "edge" -> IF c.do = "stop" THEN "stop" ELSE "read"
                             [] c.op = "down" -> "detach"
                             [] OTHER -> c.op]
        /\ UNCHANGED <<Host!world, hurt, kills>>
  BY DEF Host!Call
<1>1. c \in Asked
  BY <1>0 DEF WorkspaceConstants
<1>2. pc[p] = "idle" /\ ~Locks(p) /\ \A w \in Names : lock[w] # p
  BY <1>0, Owner DEF Host!At, Locks
<1>3. UNCHANGED <<record, cont, data, route, spec, edge, attached, unjoined, hurt>>
  BY <1>0 DEF Host!world, Host!docker, Host!files
<1>4. WorldShape /\ ControlShape /\ WorldShape'
  BY <1>3 DEF HostInv, WorldShape
<1>5. Others(p)
  BY <1>0, <1>4 DEF Others, ControlShape
<1>6. \A v \in Names : Served(v) => Served(v)'
  BY <1>2, <1>3, <1>5, Calm
<1>7. Aside(p)
  BY <1>3, <1>6 DEF Aside, SameFor
<1>8. CASE c.op \in {"edge", "prune"}
  <2>1. /\ job'[p] = Host!With(c, [todo |-> {}]) /\ lock' = lock
        /\ c.op = "edge" => pc'[p] \in {"stop", "read"}
        /\ c.op = "prune" => pc'[p] = "prune"
    BY <1>0, <1>4, <1>8 DEF ControlShape
  <2>2. /\ job'[p].op = c.op
        /\ c.op = "edge" => job'[p] \in EdgeJobs
        /\ c.op = "prune" => job'[p] \in PruneJobs
    BY <1>1, <1>8, <2>1, OtherJob
  <2>3. Placed(p)' /\ ~Locks(p)'
    BY <1>8, <2>1, <2>2 DEF Placed, Locks, Edging, Removing
  <2>4. HasLock(p)' /\ Lets(p) /\ ControlShape'
    BY <1>0, <1>2, <1>3, <1>4, <2>1, <2>3 DEF HasLock, Lets, ControlShape
  <2>5. Mid(p)'
    BY <1>8, <2>1, <2>2, MidNowhere DEF Removing
  <2> QED
    BY <1>4, <1>5, <1>7, <2>3, <2>4, <2>5, Combines
<1>9. ASSUME c.op \notin {"edge", "prune"}, c.name \in Names, job'[p].op = c.op, job'[p].name = c.name,
             Placed(p)', Locks(p)', Mid(p)'
      PROVE  HostInv'
  <2>1. lock[c.name] = Free /\ lock' = [lock EXCEPT ![c.name] = p]
    BY <1>0, <1>9
  <2>2. HasLock(p)'
    BY <1>2, <1>4, <1>9, <2>1 DEF HasLock, ControlShape, Host!Name
  <2>3. Lets(p)
    BY <1>4, <2>1 DEF Lets, ControlShape
  <2>4. ControlShape'
    BY <1>0, <1>3, <1>4, <2>1 DEF ControlShape
  <2> QED
    BY <1>4, <1>5, <1>7, <1>9, <2>2, <2>3, <2>4, Combines
<1>10. CASE c.op = "up"
  <2> DEFINE reuse == ~c.force /\ Host!Exists(c.name)
             tls == IF reuse \/ (Host!Exists(c.name) /\ c.tls = "no") THEN record[c.name].tls ELSE c.tls
             j == Host!With([c EXCEPT !.tls = tls], [reuse |-> reuse, port |-> 0, todo |-> {}])
  <2>1. /\ c \in [op : {"up"}, name : Names, tls : Modes, force : BOOLEAN, wipe : BOOLEAN]
        /\ c.name \in Names /\ c.force \in BOOLEAN /\ c.tls \in Modes
    BY <1>1, <1>10 DEF Asked
  <2>2. job'[p] = j /\ pc'[p] = (IF reuse THEN "up" ELSE "port") /\ lock[c.name] = Free
    BY <1>0, <1>4, <1>10, <2>1 DEF ControlShape
  <2>3. tls \in Modes /\ reuse \in BOOLEAN
    BY <1>4, <2>1 DEF WorldShape, Written, Host!Exists
  <2>4. j \in UpJobs /\ j.op = "up" /\ j.name = c.name /\ j.tls = tls /\ j.reuse = reuse /\ j.todo = {}
    <3> HIDE DEF reuse, tls
    <3> QED
      BY <2>1, <2>3, UpJob
  <2>5. Placed(p)' /\ Locks(p)'
    BY <2>2, <2>4 DEF Placed, Locks, Creating
  <2>6. c.name \notin hurt' => Served(c.name)'
    BY <1>3, <1>6, <2>1, <2>2 DEF HostInv
  <2> SUFFICES ASSUME NEW w, w = c.name, NEW t, t = tls, NEW r, r = reuse PROVE HostInv'
    OBVIOUS
  <2>7. Mid(p)'
    <3>1. /\ w \notin hurt' => Served(w)'
          /\ pc'[p] = (IF r THEN "up" ELSE "port") /\ job'[p] \in UpJobs
          /\ job'[p].tls = t /\ job'[p].reuse = r /\ job'[p].name = w /\ r \in BOOLEAN
          /\ r => (Host!Exists(w) /\ record[w].tls = t)
          /\ t = "no" /\ Host!Exists(w) => record[w].tls = "no"
          /\ Host!Exists(w) => Host!Exists(w)'
          /\ Host!Exists(w)' => Host!Exists(w)
      BY <1>3, <2>2, <2>3, <2>4, <2>6 DEF Host!Exists
    <3>2. MidUp(p, w, t, r)'
      BY <1>3, <3>1 DEF MidUp, Creating
    <3>3. job'[p].op = "up" /\ pc'[p] \notin Removing
      BY <3>1 DEF UpJobs, Removing
    <3> QED
      BY <3>1, <3>2, <3>3 DEF Mid, Host!Name, Removing
  <2> QED
    BY <1>9, <1>10, <2>1, <2>2, <2>4, <2>5, <2>7
<1>11. CASE c.op \in {"down", "set"}
  <2>1. /\ job'[p] = Host!With(c, [todo |-> {}]) /\ lock[c.name] = Free
        /\ c.op = "down" => pc'[p] = "detach"
        /\ c.op = "set" => pc'[p] = "set"
    BY <1>0, <1>4, <1>11 DEF ControlShape
  <2>2. /\ job'[p].op = c.op /\ job'[p].name = c.name /\ c.name \in Names
        /\ c.op = "down" => job'[p] \in DownJobs
        /\ c.op = "set" => job'[p] \in SetJobs
    BY <1>1, <1>11, <2>1, OtherJob DEF Asked
  <2>3. Placed(p)' /\ Locks(p)'
    BY <1>11, <2>1, <2>2 DEF Placed, Locks, Removing
  <2>4. c.name \notin hurt' => Served(c.name) /\ Served(c.name)'
    BY <1>3, <1>6, <2>1, <2>2 DEF HostInv
  <2> SUFFICES ASSUME NEW w, w = c.name PROVE HostInv'
    OBVIOUS
  <2>5. Mid(p)'
    BY <1>3, <1>11, <2>1, <2>2, <2>4 DEF Mid, Host!Name, Served, Https, Host!Exists
  <2> QED
    BY <1>9, <1>11, <2>2, <2>3, <2>5
<1> QED
  BY <1>1, <1>8, <1>10, <1>11 DEF Asked

\* The end of a step of a process that runs a command.
Keeps(p) ==
  Others(p) /\ (\A v \in Names : lock[v] # p => (v \in hurt' <=> v \in hurt)) => Aside(p)
Near(p) ==
  /\ (pc[p] # "reattach" \/ job[p].todo = {}) /\ edge' = edge
  /\ \A v \in Names : lock[v] # p =>
       /\ record'[v] = record[v] /\ cont'[v] = cont[v]
       /\ (v \in route' <=> v \in route) /\ (v \in data' <=> v \in data)
       /\ ((v \in attached \cup unjoined) => (v \in attached \cup unjoined)')

LEMMA NearKeeps == ASSUME NEW p \in Procs, Near(p) PROVE Keeps(p)
  BY Apart DEF Near, Keeps

LEMMA GoesOn ==
  ASSUME HostInv, WorkspaceConstants, NEW p \in Procs, job[p].op = "up", NEW l \in Creating, Host!Go(p, l),
         Keeps(p), WorldShape', NEW w, w = Host!Name(p), NEW tls, tls = job[p].tls, NEW reuse, reuse = job[p].reuse,
         pc'[p] = l /\ job'[p] = job[p] /\ hurt' = hurt => MidUp(p, w, tls, reuse)'
  PROVE  HostInv'
<1>1. pc[p] # "idle" /\ job[p] \in UpJobs
  BY Owner, Places, JobKinds DEF Creating
<1>2. /\ Others(p) /\ ControlShape' /\ Lets(p) /\ (Placed(p) /\ HasLock(p))'
      /\ pc'[p] = l /\ job'[p] = job[p] /\ hurt' = hurt
  BY <1>1, GoneOn
<1>3. MidUp(p, w, tls, reuse)'
  BY <1>2
<1>4. Mid(p)'
  <2>1. job'[p].op = "up" /\ pc'[p] \notin Removing
    BY <1>1, <1>2 DEF Removing, Creating
  <2> QED
    BY <1>2, <1>3, <2>1 DEF Mid, Host!Name, Removing
<1> QED
  BY <1>2, <1>4, Combines DEF Keeps

LEMMA CommandReturns ==
  ASSUME HostInv, WorkspaceConstants, NEW p \in Procs, pc[p] # "idle", NEW ok, Host!Return(p, ok),
         Keeps(p), WorldShape',
         \A w \in Names : Others(p) /\ w = Host!Name(p) /\ lock[w] = p /\ w \notin hurt' => Served(w)'
  PROVE  HostInv'
<1>1. /\ Others(p) /\ ControlShape' /\ (Placed(p) /\ HasLock(p) /\ Mid(p))'
      /\ \A v \in Names : lock[v] # p => lock'[v] = lock[v] /\ (v \in hurt' <=> v \in hurt)
      /\ \A v \in Names : lock[v] = p => lock'[v] = Free
  BY Returned
<1>2. Lets(p)
  BY <1>1, Owner DEF Lets
<1> QED
  BY <1>1, <1>2, Combines DEF Keeps

LEMMA CommandFails ==
  ASSUME HostInv, WorkspaceConstants, NEW p \in Procs, Locks(p), Host!Fail(p), Keeps(p), WorldShape'
  PROVE  HostInv'
  BY Failed, Combines DEF Keeps

LEMMA Moved ==
  ASSUME HostInv, WorkspaceConstants, NEW p \in Procs, NEW l, NEW j,
         pc' = [pc EXCEPT ![p] = l] \/ (UNCHANGED pc /\ pc[p] = l),
         job' = [job EXCEPT ![p] = j], UNCHANGED lock, hurt' \subseteq Names,
         Locks(p)' <=> Locks(p), Locks(p) => j.name = Host!Name(p)
  PROVE  Others(p) /\ ControlShape' /\ Lets(p) /\ HasLock(p)' /\ pc'[p] = l /\ job'[p] = j
<1>1. Others(p) /\ ControlShape' /\ Lets(p) /\ pc'[p] = l /\ job'[p] = j
  BY DEF HostInv, ControlShape, Others, Lets
<1>2. HasLock(p)
  BY DEF HostInv
<1> QED
  BY <1>1, <1>2 DEF HasLock, Host!Name

\* What is so of a creating process.
LEMMA Creates ==
  ASSUME HostInv, NEW p \in Procs, pc[p] \in Creating \ Edging
  PROVE  /\ job[p].op = "up" /\ job[p] \in UpJobs /\ Locks(p) /\ pc[p] # "idle"
         /\ Host!Name(p) \in Names /\ lock[Host!Name(p)] = p
         /\ \A v \in Names : lock[v] = p => v = Host!Name(p)
         /\ MidUp(p, Host!Name(p), job[p].tls, job[p].reuse)
<1>1. job[p].op = "up" /\ job[p] \in UpJobs /\ pc[p] # "idle"
  BY Owner, Places, JobKinds DEF Creating
<1>2. Locks(p)
  BY <1>1 DEF Locks
<1> QED
  BY <1>1, <1>2, Owner DEF Mid

LEMMA PickPortKeeps ==
  ASSUME HostInv, WorkspaceConstants, NEW p \in Procs, Host!PickPort(p)
  PROVE  HostInv'
<1>1. pc[p] = "port" /\ UNCHANGED <<record, cont, data, route, spec, edge, attached, unjoined>>
  BY DEF Host!PickPort, Host!At, Host!world, Host!docker, Host!files
<1>2. WorldShape' /\ Near(p) /\ Keeps(p)
  BY <1>1, NearKeeps DEF HostInv, WorldShape, Near
<1>3. /\ job[p].op = "up" /\ job[p] \in UpJobs /\ Locks(p) /\ pc[p] # "idle"
      /\ Host!Name(p) \in Names /\ lock[Host!Name(p)] = p
      /\ \A v \in Names : lock[v] = p => v = Host!Name(p)
      /\ MidUp(p, Host!Name(p), job[p].tls, job[p].reuse)
  BY <1>1, Creates DEF Creating, Edging
<1>4. CASE Host!Return(p, Host!Name(p) \notin hurt)
  <2>1. ASSUME NEW w \in Names, Others(p), w = Host!Name(p), lock[w] = p, w \notin hurt'
        PROVE  Served(w)'
    <3>1. w \notin hurt
      BY <1>3, <1>4, <2>1, Returned
    <3> QED
      BY <1>1, <1>3, <2>1, <3>1, Calm DEF MidUp
  <2> QED
    BY <1>2, <1>3, <1>4, <2>1, CommandReturns
<1>5. ASSUME NEW port \in Ports, job' = [job EXCEPT ![p].port = port],
             pc' = [pc EXCEPT ![p] = IF job[p].tls = "no" THEN "clear" ELSE "edge"],
             UNCHANGED <<lock, hurt, kills>>
      PROVE  HostInv'
  <2> SUFFICES ASSUME NEW l, l = (IF job[p].tls = "no" THEN "clear" ELSE "edge"),
                      NEW j, j = [job[p] EXCEPT !.port = port],
                      NEW w, w = Host!Name(p), NEW t, t = job[p].tls, NEW r, r = job[p].reuse
               PROVE HostInv'
    OBVIOUS
  <2>1. /\ j \in UpJobs /\ j.port = port /\ j.op = "up"
        /\ j.name = w /\ j.tls = t /\ j.reuse = r
    BY <1>3, PortJob DEF Host!Name, UpJobs
  <2>2. pc' = [pc EXCEPT ![p] = l] /\ job' = [job EXCEPT ![p] = j] /\ hurt' = hurt /\ lock' = lock
    BY <1>5
  <2>3. pc'[p] = l /\ job'[p] = j
    BY <2>2 DEF HostInv, ControlShape
  <2>4. (Locks(p)' <=> Locks(p)) /\ hurt' \subseteq Names /\ l \in Creating
    BY <1>3, <2>1, <2>2, <2>3 DEF Locks, HostInv, ControlShape, Creating
  <2>5. Others(p) /\ ControlShape' /\ Lets(p) /\ HasLock(p)'
    BY <2>1, <2>2, <2>4, Moved
  <2>6. Placed(p)'
    BY <2>1, <2>3, <2>4 DEF Placed
  <2>7. r = FALSE /\ (w \notin hurt => Served(w))
    BY <1>1, <1>3 DEF MidUp, UpJobs
  <2>8. MidUp(p, w, t, r)'
    <3>1. t = "no" /\ w \notin hurt => w \notin route
      BY <1>1, <1>3, <2>7 DEF MidUp, Served, Https
    <3>2. l = IF t = "no" THEN "clear" ELSE "edge"
      OBVIOUS
    <3>3. pc'[p] = l /\ job'[p].port \in Ports /\ route' = route /\ hurt' = hurt
      BY <1>1, <2>1, <2>2, <2>3
    <3> QED
      BY <2>7, <3>1, <3>2, <3>3 DEF MidUp
  <2>9. Mid(p)'
    BY <2>1, <2>3, <2>4, <2>8 DEF Mid, Host!Name, Creating, Removing
  <2>10. Aside(p)
    BY <1>2, <2>2, <2>5 DEF Keeps
  <2> QED
    BY <1>2, <2>5, <2>6, <2>9, <2>10, Combines
<1> QED
  BY <1>4, <1>5 DEF Host!PickPort


\* What is so of a process that works on the edge.
Between == {"edge", "write", "stop", "start", "reattach"}

LEMMA Edges ==
  ASSUME HostInv, NEW p \in Procs, pc[p] \in Between
  PROVE  /\ job[p].op \in {"up", "edge"} /\ pc[p] # "idle"
         /\ job[p].op = "up" => job[p] \in UpJobs /\ Locks(p) /\ MidUp(p, Host!Name(p), job[p].tls, job[p].reuse)
         /\ job[p].op = "edge" => job[p] \in EdgeJobs /\ \A w \in Names : lock[w] # p
<1>1. job[p].op \in {"up", "edge"} /\ pc[p] # "idle"
  BY Owner, Places DEF Creating, Edging, Between
<1>2. job[p].op = "up" => job[p] \in UpJobs /\ Locks(p)
  BY <1>1, Owner, Places, JobKinds DEF Locks
<1>3. job[p].op = "edge" => job[p] \in EdgeJobs /\ ~Locks(p)
  BY <1>1, Owner, Places, JobKinds
<1> QED
  BY <1>1, <1>2, <1>3, Owner DEF Mid

LEMMA EdgeGoesOn ==
  ASSUME HostInv, WorkspaceConstants, NEW p \in Procs, pc[p] \in Between, Keeps(p), WorldShape',
         NEW l \in Between \cup {"route"}, Host!Go(p, l), UNCHANGED <<record, cont>>,
         l \in {"edge", "write", "route"} => job[p].op = "up"
  PROVE  HostInv'
<1>1. CASE job[p].op = "up"
  <2> SUFFICES ASSUME NEW w, w = Host!Name(p), NEW t, t = job[p].tls, NEW r, r = job[p].reuse PROVE HostInv'
    OBVIOUS
  <2>1. MidUp(p, w, t, r) /\ job[p] \in UpJobs
    BY <1>1, Edges
  <2>2. ASSUME pc'[p] = l, job'[p] = job[p], hurt' = hurt PROVE MidUp(p, w, t, r)'
    BY <2>1, <2>2 DEF MidUp, Between, Creating, Host!Exists
  <2> QED
    BY <1>1, <2>2, GoesOn DEF Between, Creating
<1>2. CASE job[p].op = "edge"
  BY <1>2, Edges, GoneOn, Combines DEF Keeps, Between, Edging
<1> QED
  BY <1>1, <1>2, Edges

LEMMA EdgeEnds ==
  ASSUME HostInv, WorkspaceConstants, NEW p \in Procs, pc[p] \in Between, Keeps(p), WorldShape',
         job[p].op = "edge", Host!Return(p, TRUE)
  PROVE  HostInv'
  BY Edges, CommandReturns

LEMMA AfterEdgeKeeps ==
  ASSUME HostInv, WorkspaceConstants, NEW p \in Procs, pc[p] \in Between, Keeps(p), WorldShape',
         Host!AfterEdge(p), UNCHANGED <<record, cont>>
  PROVE  HostInv'
<1>1. CASE job[p].op = "up"
  BY <1>1, EdgeGoesOn DEF Host!AfterEdge
<1>2. CASE job[p].op = "edge"
  BY <1>2, EdgeEnds DEF Host!AfterEdge
<1> QED
  BY <1>1, <1>2, Edges

LEMMA EdgeNeededKeeps ==
  ASSUME HostInv, WorkspaceConstants, NEW p \in Procs, Host!EdgeNeeded(p)
  PROVE  HostInv'
<1>1. pc[p] = "edge" /\ UNCHANGED <<record, cont, data, route, spec, edge, attached, unjoined>>
  BY DEF Host!EdgeNeeded, Host!At, Host!world, Host!docker, Host!files
<1>2. WorldShape' /\ Keeps(p) /\ pc[p] \in Between
  BY <1>1, NearKeeps DEF HostInv, WorldShape, Near, Between
<1>3. job[p].op = "up"
  BY <1>1, Creates DEF Creating, Edging
<1>4. Host!Go(p, "route") \/ Host!Go(p, "write")
  BY DEF Host!EdgeNeeded
<1> QED
  BY <1>1, <1>2, <1>3, <1>4, EdgeGoesOn DEF Between

LEMMA WriteSpecKeeps ==
  ASSUME HostInv, WorkspaceConstants, NEW p \in Procs, Host!WriteSpec(p)
  PROVE  HostInv'
<1>1. /\ pc[p] = "write" /\ UNCHANGED <<record, cont, data, route, edge, attached, unjoined>>
      /\ spec' = IF Host!Wants(p) = "acme" THEN "acme" ELSE IF spec = "none" THEN "plain" ELSE spec
      /\ Host!Go(p, IF spec # "none" /\ spec # spec' THEN "stop" ELSE "start")
  BY DEF Host!WriteSpec, Host!At, Host!docker
<1>2. WorldShape' /\ Keeps(p) /\ pc[p] \in Between
  BY <1>1, NearKeeps DEF HostInv, WorldShape, Near, Between, Host!Specs
<1>3. Host!Go(p, "stop") \/ Host!Go(p, "start")
  BY <1>1
<1> QED
  BY <1>1, <1>2, <1>3, EdgeGoesOn DEF Between

\* `edge start` and `edge restart` before they touch the container.
LEMMA Rereads ==
  ASSUME HostInv, NEW p \in Procs, pc[p] \in {"read", "rewrite"}
  PROVE  /\ job[p].op = "edge" /\ job[p] \in EdgeJobs /\ pc[p] # "idle" /\ ~Locks(p)
         /\ pc[p] = "rewrite" => job[p].spec \in Host!Specs
<1>1. job[p].op = "edge" /\ job[p] \in EdgeJobs /\ pc[p] # "idle" /\ ~Locks(p)
  BY Owner, Places, JobKinds DEF Edging
<1>2. pc[p] = "rewrite" => job[p].spec \in Host!Specs
  BY <1>1, Owner, Places DEF Placed, Creating, Removing, Edging
<1> QED
  BY <1>1, <1>2

LEMMA ReadSpecKeeps ==
  ASSUME HostInv, WorkspaceConstants, NEW p \in Procs, Host!ReadSpec(p)
  PROVE  HostInv'
<1> SUFFICES ASSUME NEW s, s = (IF spec = "none" THEN "plain" ELSE spec) PROVE HostInv'
  OBVIOUS
<1>1. /\ pc[p] = "read" /\ UNCHANGED <<record, cont, data, route, spec, edge, attached, unjoined, lock, hurt>>
      /\ job' = [job EXCEPT ![p] = Host!With([spec |-> s], job[p])]
      /\ pc' = [pc EXCEPT ![p] = "rewrite"]
  BY DEF Host!ReadSpec, Host!At, Host!world, Host!docker, Host!files
<1>2. WorldShape' /\ Keeps(p) /\ s \in Host!Specs /\ hurt' \subseteq Names
  BY <1>1, NearKeeps DEF HostInv, WorldShape, ControlShape, Near, Host!Specs
<1>3. PICK j : j = Host!With([spec |-> s], job[p])
  OBVIOUS
<1>4. j \in EdgeJobs /\ j.spec = s /\ ~Locks(p)
  BY <1>1, <1>2, <1>3, SpecJob, Rereads
<1>5. job' = [job EXCEPT ![p] = j] /\ pc'[p] = "rewrite" /\ job'[p] = j /\ job'[p].op = "edge"
  BY <1>1, <1>3, <1>4, JobKinds DEF HostInv, ControlShape
<1>6. ~Locks(p)'
  BY <1>5 DEF Locks, Removing
<1>7. Others(p) /\ ControlShape' /\ Lets(p) /\ HasLock(p)'
  BY <1>1, <1>2, <1>4, <1>5, <1>6, Moved
<1>8. Placed(p)' /\ Mid(p)'
  BY <1>2, <1>4, <1>5, MidNowhere DEF Placed, Edging, Removing
<1> QED
  BY <1>1, <1>2, <1>7, <1>8, Combines DEF Keeps

LEMMA RewriteSpecKeeps ==
  ASSUME HostInv, WorkspaceConstants, NEW p \in Procs, Host!RewriteSpec(p)
  PROVE  HostInv'
<1>1. /\ pc[p] = "rewrite" /\ UNCHANGED <<record, cont, data, route, edge, attached, unjoined>>
      /\ spec' = job[p].spec
      /\ Host!Go(p, IF job[p].do = "restart" THEN "stop" ELSE "start")
  BY DEF Host!RewriteSpec, Host!At, Host!docker
<1>2. WorldShape' /\ Keeps(p)
  BY <1>1, NearKeeps, Rereads DEF HostInv, WorldShape, Near
<1>3. Host!Go(p, "stop") \/ Host!Go(p, "start")
  BY <1>1
<1> QED
  BY <1>1, <1>2, <1>3, Rereads, GoneOn, Combines DEF Keeps, Edging

LEMMA EdgeDownKeeps ==
  ASSUME HostInv, WorkspaceConstants, NEW p \in Procs, Host!EdgeDown(p)
  PROVE  HostInv'
<1>1. /\ pc[p] = "stop" /\ UNCHANGED <<record, cont, data, route, spec>>
      /\ \/ edge' = "down" /\ attached' = {}
         \/ UNCHANGED <<edge, attached, unjoined>>
      /\ IF job[p].op = "edge" /\ job[p].do = "stop" THEN Host!Return(p, TRUE) ELSE Host!Go(p, "start")
  BY DEF Host!EdgeDown, Host!At, Host!files
<1>2. WorldShape' /\ pc[p] \in Between
  BY <1>1 DEF HostInv, WorldShape, Between
<1>3. Keeps(p)
  <2>1. CASE edge' = "down"
    <3>1. \A v \in Names : Served(v) => Served(v)'
      BY <1>1, <2>1 DEF Served, Https, Host!Exists
    <3> QED
      BY <1>1, <3>1 DEF Keeps, Aside, SameFor
  <2>2. CASE UNCHANGED <<edge, attached, unjoined>>
    BY <1>1, <2>2, NearKeeps DEF Near
  <2> QED
    BY <1>1, <2>1, <2>2
<1> QED
  BY <1>1, <1>2, <1>3, EdgeGoesOn, EdgeEnds DEF Between

\* A process sets down which routes it still has to go through.
LEMMA Listing ==
  ASSUME HostInv, WorkspaceConstants, NEW p \in Procs, pc[p] \in {"start", "reattach"}, Aside(p), WorldShape',
         NEW S \in SUBSET Names, job' = [job EXCEPT ![p].todo = S],
         pc' = [pc EXCEPT ![p] = "reattach"] \/ (UNCHANGED pc /\ pc[p] = "reattach"), UNCHANGED <<lock, record, cont>>,
         hurt' = hurt
  PROVE  HostInv'
<1>0. /\ job[p].op \in {"up", "edge"} /\ pc[p] # "idle"
      /\ job[p].op = "up" => job[p] \in UpJobs /\ Locks(p) /\ MidUp(p, Host!Name(p), job[p].tls, job[p].reuse)
      /\ job[p].op = "edge" => job[p] \in EdgeJobs /\ ~Locks(p)
  BY Edges, Places, Owner DEF Between
<1> SUFFICES ASSUME NEW j, j = [job[p] EXCEPT !.todo = S], NEW w, w = Host!Name(p),
                    NEW t, t = job[p].tls, NEW r, r = job[p].reuse
             PROVE  HostInv'
  OBVIOUS
<1>1. /\ j.op = job[p].op
      /\ job[p].op = "up" => j \in UpJobs /\ j.name = w /\ j.tls = t /\ j.reuse = r /\ j.port = job[p].port
      /\ job[p].op = "edge" => j \in EdgeJobs
  BY <1>0, TodoJob DEF Host!Name
<1>2. job' = [job EXCEPT ![p] = j]
  OBVIOUS
<1>3. pc'[p] = "reattach" /\ job'[p] = j
  BY <1>2 DEF HostInv, ControlShape
<1>4. (Locks(p)' <=> Locks(p)) /\ (Locks(p) => j.name = w)
  BY <1>0, <1>1, <1>3 DEF Locks, Removing
<1>9. hurt' \subseteq Names
  BY DEF HostInv, ControlShape
<1>5. Others(p) /\ ControlShape' /\ Lets(p) /\ HasLock(p)'
  BY <1>2, <1>4, <1>9, Moved
<1>6. Placed(p)'
  BY <1>0, <1>1, <1>3 DEF Placed, Creating, Edging
<1>7. CASE job[p].op = "up"
  <2>1. MidUp(p, w, t, r)'
    BY <1>0, <1>1, <1>3, <1>7 DEF MidUp, Creating, Host!Exists
  <2>2. job'[p].op = "up" /\ pc'[p] \notin Removing /\ w = Host!Name(p)'
        /\ t = job'[p].tls /\ r = job'[p].reuse
    BY <1>1, <1>3, <1>7 DEF Removing, Host!Name
  <2>3. Mid(p)'
    BY <2>1, <2>2 DEF Mid, Removing
  <2> QED
    BY <1>5, <1>6, <2>3, Combines
<1>8. CASE job[p].op = "edge"
  BY <1>1, <1>3, <1>5, <1>6, <1>8, MidNowhere, Combines DEF Removing
<1> QED
  BY <1>0, <1>7, <1>8

LEMMA EdgeUpKeeps ==
  ASSUME HostInv, WorkspaceConstants, NEW p \in Procs, Host!EdgeUp(p)
  PROVE  HostInv'
<1>1. /\ pc[p] = "start" /\ UNCHANGED <<record, cont, data, route, spec>>
      /\ \/ /\ edge' = spec /\ (attached' = attached \/ attached' = {})
            /\ job' = [job EXCEPT ![p].todo = route]
            /\ pc' = [pc EXCEPT ![p] = "reattach"]
            /\ UNCHANGED <<lock, hurt, kills>>
         \/ Host!AfterEdge(p) /\ UNCHANGED <<edge, attached, unjoined>>
  BY DEF Host!EdgeUp, Host!At, Host!files
<1>2. WorldShape' /\ pc[p] \in Between /\ route \in SUBSET Names
  BY <1>1 DEF HostInv, WorldShape, Between
<1>3. CASE Host!AfterEdge(p) /\ UNCHANGED <<edge, attached, unjoined>>
  <2>1. Keeps(p)
    BY <1>1, <1>3, NearKeeps DEF Near
  <2> QED
    BY <1>1, <1>2, <1>3, <2>1, AfterEdgeKeeps
<1>4. CASE /\ job' = [job EXCEPT ![p].todo = route] /\ pc' = [pc EXCEPT ![p] = "reattach"]
           /\ UNCHANGED <<lock, hurt, kills>>
  <2>0. DOMAIN pc = Procs /\ DOMAIN job = Procs /\ hurt \subseteq Names
    BY DEF HostInv, ControlShape
  <2>1. pc'[p] = "reattach" /\ job'[p] = [job[p] EXCEPT !.todo = route]
    BY <1>4, <2>0
  <2>2. job'[p].todo = route
    BY <1>2, <2>1, Edges, TodoJob, JobKinds
  <2>3. \A v \in Names : v \in route => Coming(v)'
    BY <2>1, <2>2 DEF Coming
  <2>4. \A v \in Names : Served(v) => Served(v)'
    BY <1>1, <2>3 DEF Served, Https, Host!Exists
  <2>5. Aside(p)
    BY <1>1, <1>4, <2>4 DEF Aside, SameFor
  <2> QED
    BY <1>1, <1>2, <1>4, <2>0, <2>5, Listing
<1> QED
  BY <1>1, <1>3, <1>4

LEMMA ReattachKeeps ==
  ASSUME HostInv, WorkspaceConstants, NEW p \in Procs, Host!Reattach(p)
  PROVE  HostInv'
<1>1. /\ pc[p] = "reattach" /\ UNCHANGED <<record, cont, data, route, spec, edge>>
      /\ \/ \E w \in job[p].todo :
              /\ Host!Join(w)
              /\ job' = [job EXCEPT ![p].todo = @ \ {w}]
              /\ UNCHANGED <<pc, lock, hurt, kills>>
         \/ job[p].todo = {} /\ Host!AfterEdge(p) /\ UNCHANGED <<attached, unjoined>>
  BY DEF Host!Reattach, Host!At, Host!files
<1>2. pc[p] \in Between /\ job[p] \in UpJobs \cup EdgeJobs /\ job[p].todo \in SUBSET Names
      /\ WorldShape /\ ControlShape
  BY <1>1, Edges, JobKinds DEF Between, HostInv
<1>3. CASE job[p].todo = {} /\ Host!AfterEdge(p) /\ UNCHANGED <<attached, unjoined>>
  <2>1. Keeps(p) /\ WorldShape'
    BY <1>1, <1>2, <1>3, NearKeeps DEF Near, WorldShape
  <2> QED
    BY <1>1, <1>2, <1>3, <2>1, AfterEdgeKeeps
<1>4. ASSUME NEW w \in job[p].todo, Host!Join(w),
             job' = [job EXCEPT ![p].todo = @ \ {w}], UNCHANGED <<pc, lock, hurt, kills>>
      PROVE  HostInv'
  <2>1. /\ w \in Names /\ attached \subseteq attached' /\ attached' \subseteq attached \cup {w}
        /\ \A v \in Names \ {w} : v \in unjoined => v \in unjoined'
        /\ edge # "down" /\ Host!Network(w) => w \in attached' \/ w \in unjoined'
    BY <1>2, <1>4 DEF Host!Join
  <2>2. WorldShape'
    BY <1>1, <1>2, <2>1 DEF WorldShape
  <2> SUFFICES ASSUME NEW S, S = job[p].todo \ {w} PROVE HostInv'
    OBVIOUS
  <2>3. S \in SUBSET Names /\ job' = [job EXCEPT ![p].todo = S]
    BY <1>2, <1>4
  <2>4. job'[p] = [job[p] EXCEPT !.todo = S] /\ pc'[p] = "reattach"
    BY <1>1, <1>2, <1>4, <2>3 DEF ControlShape
  <2>5. job'[p].todo = S
    BY <1>2, <2>3, <2>4, TodoJob
  <2>6. Others(p)
    BY <1>2, <1>4 DEF Others, ControlShape
  <2>7. \A v \in Names : v # w /\ Coming(v) => Coming(v)'
    BY <1>1, <2>4, <2>5, <2>6 DEF Coming, Others
  <2>8. ASSUME NEW v \in Names, Served(v) PROVE Served(v)'
    <3>1. Https(v) <=> Https(v)'
      BY <1>1 DEF Https, Host!Exists
    <3>2. Https(v) => Host!Network(v)
      BY DEF Https, Host!Network
    <3> QED
      BY <1>1, <2>1, <2>7, <2>8, <3>1, <3>2 DEF Served
  <2>9. Aside(p)
    BY <1>1, <1>4, <2>8 DEF Aside, SameFor
  <2> QED
    BY <1>1, <1>2, <1>4, <2>2, <2>3, <2>4, <2>9, Listing
<1> QED
  BY <1>1, <1>3, <1>4

LEMMA RegisterKeeps ==
  ASSUME HostInv, WorkspaceConstants, NEW p \in Procs, Host!Register(p)
  PROVE  HostInv'
<1>1. /\ pc[p] = "route" /\ route' = route \cup {Host!Name(p)} /\ Host!Go(p, "join")
      /\ UNCHANGED <<cont, data, edge, attached, unjoined, record, spec>>
  BY DEF Host!Register, Host!At, Host!docker
<1>2. /\ job[p].op = "up" /\ job[p] \in UpJobs /\ Locks(p) /\ pc[p] # "idle"
      /\ Host!Name(p) \in Names /\ lock[Host!Name(p)] = p
      /\ MidUp(p, Host!Name(p), job[p].tls, job[p].reuse)
  BY <1>1, Creates DEF Creating, Edging
<1>3. WorldShape' /\ Keeps(p)
  BY <1>1, <1>2, NearKeeps DEF HostInv, WorldShape, Near
<1> SUFFICES ASSUME NEW w, w = Host!Name(p), NEW t, t = job[p].tls, NEW r, r = job[p].reuse PROVE HostInv'
  OBVIOUS
<1>4. ASSUME pc'[p] = "join", job'[p] = job[p], hurt' = hurt PROVE MidUp(p, w, t, r)'
  BY <1>1, <1>2, <1>4 DEF MidUp, Creating, Host!Exists
<1> QED
  BY <1>1, <1>2, <1>3, <1>4, GoesOn DEF Creating

LEMMA JoinFirstKeeps ==
  ASSUME HostInv, WorkspaceConstants, NEW p \in Procs, Host!JoinFirst(p)
  PROVE  HostInv'
<1>1. /\ pc[p] = "join" /\ UNCHANGED <<record, route, spec, cont, data, edge>>
      /\ Host!Join(Host!Name(p))
      /\ IF job[p].reuse THEN Host!Return(p, TRUE) ELSE Host!Go(p, "clear")
  BY DEF Host!JoinFirst, Host!At, Host!files
<1>2. /\ job[p].op = "up" /\ job[p] \in UpJobs /\ Locks(p) /\ pc[p] # "idle"
      /\ Host!Name(p) \in Names /\ lock[Host!Name(p)] = p
      /\ MidUp(p, Host!Name(p), job[p].tls, job[p].reuse)
  BY <1>1, Creates DEF Creating, Edging
<1>3. attached \subseteq attached' /\ attached' \subseteq Names /\ WorldShape' /\ Keeps(p)
  BY <1>1, <1>2, NearKeeps DEF HostInv, WorldShape, Near, Host!Join
<1> SUFFICES ASSUME NEW w, w = Host!Name(p), NEW t, t = job[p].tls, NEW r, r = job[p].reuse PROVE HostInv'
  OBVIOUS
<1>4. CASE r
  <2>1. Host!Return(p, TRUE) /\ Host!Join(w)
    BY <1>1, <1>4
  <2>2. Https(w)' /\ w \in route' /\ (edge' # "down" => w \in attached' \/ w \in unjoined')
    BY <1>1, <1>2, <1>4, <2>1 DEF MidUp, Https, Host!Exists, Host!Join, Host!Network
  <2> QED
    BY <1>2, <1>3, <2>1, <2>2, CommandReturns DEF Served
<1>5. CASE ~r
  <2>1. ASSUME pc'[p] = "clear", job'[p] = job[p], hurt' = hurt PROVE MidUp(p, w, t, r)'
    BY <1>1, <1>2, <1>5, <2>1 DEF MidUp, Creating, Host!Exists
  <2> QED
    BY <1>1, <1>2, <1>3, <1>5, <2>1, GoesOn DEF Creating
<1> QED
  BY <1>4, <1>5

LEMMA ClearKeeps ==
  ASSUME HostInv, WorkspaceConstants, NEW p \in Procs, Host!Clear(p)
  PROVE  HostInv'
<1> SUFFICES ASSUME NEW w, w = Host!Name(p), NEW t, t = job[p].tls, NEW r, r = job[p].reuse PROVE HostInv'
  OBVIOUS
<1>1. /\ pc[p] = "clear" /\ UNCHANGED <<record, route, spec, edge, attached>>
      /\ \/ Host!ComposeDown(w, job[p].wipe) /\ Host!Go(p, "record")
         \/ Host!ComposeDownFails(w) /\ Host!Fail(p)
         \/ Host!Go(p, "record") /\ UNCHANGED <<cont, data, unjoined>>
  BY DEF Host!Clear, Host!At, Host!files
<1>2. /\ job[p].op = "up" /\ job[p] \in UpJobs /\ Locks(p) /\ pc[p] # "idle"
      /\ w \in Names /\ lock[w] = p
      /\ MidUp(p, w, t, r)
  BY <1>1, Creates DEF Creating, Edging
<1>3. /\ WorldShape'
      /\ \A v \in Names : v # w => cont'[v] = cont[v] /\ (v \in data' <=> v \in data)
      /\ \A v \in Names : v # w /\ v \in unjoined => v \in unjoined'
  BY <1>1, <1>2 DEF HostInv, WorldShape, Host!ComposeDown, Host!ComposeDownFails
<1>4. Keeps(p)
  BY <1>1, <1>2, <1>3, NearKeeps DEF Near
<1>5. CASE Host!Fail(p)
  BY <1>2, <1>3, <1>4, <1>5, CommandFails
<1>6. CASE Host!Go(p, "record")
  <2>1. ASSUME pc'[p] = "record", job'[p] = job[p], hurt' = hurt PROVE MidUp(p, w, t, r)'
    BY <1>1, <1>2, <2>1 DEF MidUp, Creating, Host!Exists
  <2> QED
    BY <1>2, <1>3, <1>4, <1>6, <2>1, GoesOn DEF Creating
<1> QED
  BY <1>1, <1>5, <1>6

LEMMA WriteKeeps ==
  ASSUME HostInv, WorkspaceConstants, NEW p \in Procs, Host!Write(p)
  PROVE  HostInv'
<1> SUFFICES ASSUME NEW w, w = Host!Name(p), NEW t, t = job[p].tls, NEW r, r = job[p].reuse PROVE HostInv'
  OBVIOUS
<1>1. /\ pc[p] = "record" /\ UNCHANGED <<route, spec, edge, attached, unjoined, cont, data>>
      /\ record' = [record EXCEPT ![w] = [port |-> job[p].port, tls |-> t]] /\ Host!Go(p, "up")
  BY DEF Host!Write, Host!At, Host!docker
<1>2. /\ job[p].op = "up" /\ job[p] \in UpJobs /\ Locks(p) /\ pc[p] # "idle"
      /\ w \in Names /\ lock[w] = p
      /\ MidUp(p, w, t, r)
  BY <1>1, Creates DEF Creating, Edging
<1>3. job[p].port \in Ports /\ t \in Modes /\ r = FALSE
  BY <1>1, <1>2 DEF MidUp, UpJobs, Creating
<1>4. [port |-> job[p].port, tls |-> t] \in Written
  BY <1>3 DEF Written
<1>5. WorldShape' /\ record'[w] \in Written /\ record'[w].tls = t
  BY <1>1, <1>2, <1>4 DEF HostInv, WorldShape
<1>6. Host!Exists(w)'
  BY <1>5 DEF Host!Exists, Written, WorkspaceConstants
<1>7. Keeps(p)
  BY <1>1, <1>2, NearKeeps DEF Near, HostInv, WorldShape
<1>8. ASSUME pc'[p] = "up", job'[p] = job[p], hurt' = hurt PROVE MidUp(p, w, t, r)'
  BY <1>1, <1>2, <1>3, <1>5, <1>6, <1>8 DEF MidUp, Creating
<1> QED
  BY <1>1, <1>2, <1>5, <1>7, <1>8, GoesOn DEF Creating

LEMMA ComposeUpKeeps ==
  ASSUME HostInv, WorkspaceConstants, NEW p \in Procs, Host!ComposeUp(p)
  PROVE  HostInv'
<1> SUFFICES ASSUME NEW w, w = Host!Name(p), NEW t, t = job[p].tls, NEW r, r = job[p].reuse PROVE HostInv'
  OBVIOUS
<1>1. /\ pc[p] = "up" /\ UNCHANGED <<record, route, spec, edge, attached, unjoined>> /\ data' = data \cup {w}
      /\ \/ /\ cont' = [cont EXCEPT ![w] = "running"]
            /\ IF t = "no" THEN Host!Return(p, w \notin hurt) ELSE Host!Go(p, IF r THEN "edge" ELSE "rejoin")
         \/ cont' = [cont EXCEPT ![w] = IF @ = "running" THEN @ ELSE "stopped"] /\ Host!Fail(p)
  BY DEF Host!ComposeUp, Host!At, Host!files
<1>2. /\ job[p].op = "up" /\ job[p] \in UpJobs /\ Locks(p) /\ pc[p] # "idle"
      /\ w \in Names /\ lock[w] = p
      /\ MidUp(p, w, t, r)
  BY <1>1, Creates DEF Creating, Edging
<1>3. /\ WorldShape'
      /\ \A v \in Names : v # w => cont'[v] = cont[v] /\ (v \in data' <=> v \in data)
  BY <1>1, <1>2 DEF HostInv, WorldShape
<1>4. Keeps(p)
  BY <1>1, <1>2, <1>3, NearKeeps DEF Near
<1>5. CASE Host!Fail(p)
  BY <1>2, <1>3, <1>4, <1>5, CommandFails
<1>6. ASSUME cont' = [cont EXCEPT ![w] = "running"], t = "no", Host!Return(p, w \notin hurt) PROVE HostInv'
  <2>1. ASSUME w \notin hurt' PROVE Served(w)'
    <3>1. w \notin hurt
      BY <1>2, <1>6, <2>1, Returned
    <3>2. w \notin route /\ record[w].tls = "no"
      BY <1>1, <1>2, <1>6, <3>1 DEF MidUp, Served, Https, UpJobs
    <3> QED
      BY <1>1, <3>2 DEF Served, Https
  <2> QED
    BY <1>2, <1>3, <1>4, <1>6, <2>1, CommandReturns
<1>7. ASSUME cont' = [cont EXCEPT ![w] = "running"], t # "no", Host!Go(p, IF r THEN "edge" ELSE "rejoin")
      PROVE  HostInv'
  <2> SUFFICES ASSUME NEW l, l = (IF r THEN "edge" ELSE "rejoin") PROVE HostInv'
    OBVIOUS
  <2>1. cont'[w] = "running" /\ r \in BOOLEAN /\ Host!Go(p, l) /\ l \in Creating
    BY <1>2, <1>7 DEF HostInv, WorldShape, UpJobs, Creating
  <2>2. ASSUME pc'[p] = l, job'[p] = job[p], hurt' = hurt PROVE MidUp(p, w, t, r)'
    BY <1>1, <1>2, <1>7, <2>1, <2>2 DEF MidUp, Creating, Host!Exists
  <2> QED
    BY <1>2, <1>3, <1>4, <2>1, <2>2, GoesOn
<1> QED
  BY <1>1, <1>5, <1>6, <1>7

LEMMA JoinAgainKeeps ==
  ASSUME HostInv, WorkspaceConstants, NEW p \in Procs, Host!JoinAgain(p)
  PROVE  HostInv'
<1> SUFFICES ASSUME NEW w, w = Host!Name(p) PROVE HostInv'
  OBVIOUS
<1>1. /\ pc[p] = "rejoin" /\ UNCHANGED <<record, route, spec, cont, data, edge>>
      /\ Host!Join(w) /\ Host!Return(p, TRUE)
  BY DEF Host!JoinAgain, Host!At, Host!files
<1>2. /\ job[p].op = "up" /\ job[p] \in UpJobs /\ Locks(p) /\ pc[p] # "idle"
      /\ w \in Names /\ lock[w] = p
      /\ MidUp(p, w, job[p].tls, job[p].reuse)
  BY <1>1, Creates DEF Creating, Edging
<1>3. attached \subseteq attached' /\ attached' \subseteq Names /\ WorldShape' /\ Keeps(p)
  BY <1>1, <1>2, NearKeeps DEF HostInv, WorldShape, Near, Host!Join
<1>4. Https(w)' /\ w \in route' /\ (edge' # "down" => w \in attached' \/ w \in unjoined')
  BY <1>1, <1>2 DEF MidUp, Https, Host!Exists, Host!Join, Host!Network
<1> QED
  BY <1>1, <1>2, <1>3, <1>4, CommandReturns DEF Served

LEMMA SetStateKeeps ==
  ASSUME HostInv, WorkspaceConstants, NEW p \in Procs, Host!SetState(p)
  PROVE  HostInv'
<1> SUFFICES ASSUME NEW w, w = Host!Name(p) PROVE HostInv'
  OBVIOUS
<1>1. /\ pc[p] = "set" /\ UNCHANGED <<record, route, spec, data, edge, attached, unjoined>>
      /\ \/ /\ cont[w] \in {"running", "stopped"}
            /\ cont' = [cont EXCEPT ![w] = IF job[p].do = "stop" THEN "stopped" ELSE "running"]
         \/ UNCHANGED cont
      /\ Host!Return(p, w \notin hurt)
  BY DEF Host!SetState, Host!At, Host!files
<1>2. /\ job[p].op = "set" /\ Locks(p) /\ w \in Names /\ lock[w] = p
      /\ w \notin hurt => Served(w)
  BY <1>1, Owner, Places DEF Locks, Mid
<1>3. /\ WorldShape' /\ \A v \in Names : v # w => cont'[v] = cont[v]
      /\ cont'[w] \in {"running", "stopped"} <=> cont[w] \in {"running", "stopped"}
  BY <1>1, <1>2 DEF HostInv, WorldShape
<1>4. Keeps(p)
  BY <1>1, <1>2, <1>3, NearKeeps DEF Near
<1>5. ASSUME Others(p), w \notin hurt' PROVE Served(w)'
  <2>1. w \notin hurt
    BY <1>1, <1>2, <1>5, Returned
  <2>2. Https(w) <=> Https(w)'
    BY <1>1, <1>3 DEF Https, Host!Exists
  <2>3. Coming(w) => Coming(w)'
    BY <1>1, <1>5 DEF Coming, Others
  <2> QED
    BY <1>1, <1>2, <2>1, <2>2, <2>3 DEF Served
<1> QED
  BY <1>1, <1>3, <1>4, <1>5, CommandReturns

\* What is so of a removing process.
LEMMA Removes ==
  ASSUME HostInv, NEW p \in Procs, pc[p] \in Removing
  PROVE  /\ job[p].op \in {"down", "prune"} /\ Locks(p) /\ pc[p] # "idle"
         /\ Host!Name(p) \in Names /\ lock[Host!Name(p)] = p
         /\ \A v \in Names : lock[v] = p => v = Host!Name(p)
         /\ Mid(p) /\ (job[p].op = "prune" => job[p] \in PruneJobs)
<1>1. job[p].op \in {"down", "prune"} /\ pc[p] # "idle" /\ (job[p].op = "prune" => job[p] \in PruneJobs)
  BY Owner, Places, JobKinds DEF Removing
<1>2. Locks(p)
  BY <1>1 DEF Locks
<1> QED
  BY <1>1, <1>2, Owner

LEMMA RemoveGoesOn ==
  ASSUME HostInv, WorkspaceConstants, NEW p \in Procs, pc[p] \in Removing, NEW l \in Removing, Host!Go(p, l),
         Keeps(p), WorldShape', pc'[p] = l /\ job'[p] = job[p] /\ hurt' = hurt => Mid(p)'
  PROVE  HostInv'
  BY Removes, GoneOn, Combines DEF Keeps

LEMMA DetachKeeps ==
  ASSUME HostInv, WorkspaceConstants, NEW p \in Procs, Host!Detach(p)
  PROVE  HostInv'
<1> SUFFICES ASSUME NEW w, w = Host!Name(p) PROVE HostInv'
  OBVIOUS
<1>1. /\ pc[p] = "detach" /\ UNCHANGED <<record, route, spec, cont, data, edge>>
      /\ attached' = attached \ {w} \/ UNCHANGED attached
      /\ UNCHANGED unjoined
      /\ Host!Go(p, "down")
  BY DEF Host!Detach, Host!At, Host!files
<1>2. /\ job[p].op \in {"down", "prune"} /\ Locks(p) /\ w \in Names /\ lock[w] = p /\ Mid(p)
      /\ pc[p] \in Removing
  BY <1>1, Removes DEF Removing
<1>3. WorldShape' /\ Keeps(p)
  BY <1>1, <1>2, NearKeeps DEF HostInv, WorldShape, Near
<1>4. ASSUME pc'[p] = "down", job'[p] = job[p], hurt' = hurt PROVE Mid(p)'
  BY <1>1, <1>2, <1>4 DEF Mid, Host!Name, Host!Exists
<1> QED
  BY <1>1, <1>2, <1>3, <1>4, RemoveGoesOn DEF Removing

LEMMA DownKeeps ==
  ASSUME HostInv, WorkspaceConstants, NEW p \in Procs, Host!Down(p)
  PROVE  HostInv'
<1> SUFFICES ASSUME NEW w, w = Host!Name(p) PROVE HostInv'
  OBVIOUS
<1>1. /\ pc[p] = "down" /\ UNCHANGED <<record, route, spec, edge, attached>>
      /\ \/ Host!ComposeDown(w, Host!Volumes(p)) /\ Host!Go(p, "unroute")
         \/ Host!ComposeDownFails(w) /\ Host!Fail(p)
         \/ ~Host!Exists(w) /\ Host!Return(p, FALSE) /\ UNCHANGED <<cont, data, unjoined>>
  BY DEF Host!Down, Host!At, Host!files
<1>2. /\ job[p].op \in {"down", "prune"} /\ Locks(p) /\ w \in Names /\ lock[w] = p /\ Mid(p)
      /\ pc[p] \in Removing /\ pc[p] # "idle"
  BY <1>1, Removes DEF Removing
<1>3. /\ WorldShape'
      /\ \A v \in Names : v # w => cont'[v] = cont[v] /\ (v \in data' <=> v \in data)
      /\ \A v \in Names : v # w /\ v \in unjoined => v \in unjoined'
  BY <1>1, <1>2 DEF HostInv, WorldShape, Host!ComposeDown, Host!ComposeDownFails
<1>4. Keeps(p)
  BY <1>1, <1>2, <1>3, NearKeeps DEF Near
<1>5. CASE Host!Fail(p)
  BY <1>2, <1>3, <1>4, <1>5, CommandFails
<1>6. CASE Host!ComposeDown(w, Host!Volumes(p)) /\ Host!Go(p, "unroute")
  <2>1. cont'[w] = "absent" /\ (Host!Volumes(p) => w \notin data')
    BY <1>2, <1>6 DEF HostInv, WorldShape, Host!ComposeDown
  <2>2. ASSUME pc'[p] = "unroute", job'[p] = job[p], hurt' = hurt PROVE Mid(p)'
    BY <1>1, <1>2, <2>1, <2>2 DEF Mid, Host!Name, Host!Volumes
  <2> QED
    BY <1>2, <1>3, <1>4, <1>6, <2>2, RemoveGoesOn DEF Removing
<1>7. CASE ~Host!Exists(w) /\ Host!Return(p, FALSE)
  <2>1. ASSUME w \notin hurt' PROVE Served(w)'
    <3>1. w \notin hurt
      BY <1>2, <1>7, <2>1, Returned
    <3>2. w \notin route'
      BY <1>1, <1>2, <1>7, <3>1 DEF Mid
    <3> QED
      BY <1>1, <1>7, <3>2 DEF Served, Https, Host!Exists
  <2> QED
    BY <1>2, <1>3, <1>4, <1>7, <2>1, CommandReturns
<1> QED
  BY <1>1, <1>5, <1>6, <1>7

LEMMA DeregisterKeeps ==
  ASSUME HostInv, WorkspaceConstants, NEW p \in Procs, Host!Deregister(p)
  PROVE  HostInv'
<1> SUFFICES ASSUME NEW w, w = Host!Name(p) PROVE HostInv'
  OBVIOUS
<1>1. /\ pc[p] = "unroute" /\ UNCHANGED <<record, spec, cont, data, edge, attached, unjoined>> /\ route' = route \ {w}
      /\ IF Host!Volumes(p) THEN Host!Go(p, "forget") ELSE Host!Return(p, TRUE)
  BY DEF Host!Deregister, Host!At, Host!docker
<1>2. /\ job[p].op \in {"down", "prune"} /\ Locks(p) /\ w \in Names /\ lock[w] = p /\ Mid(p)
      /\ pc[p] \in Removing /\ pc[p] # "idle"
  BY <1>1, Removes DEF Removing
<1>3. WorldShape' /\ Keeps(p)
  BY <1>1, <1>2, NearKeeps DEF HostInv, WorldShape, Near
<1>4. cont[w] = "absent" /\ w \notin route' /\ (Host!Volumes(p) => w \notin data)
  BY <1>1, <1>2 DEF Mid
<1>5. CASE Host!Volumes(p)
  <2>1. ASSUME pc'[p] = "forget", job'[p] = job[p], hurt' = hurt PROVE Mid(p)'
    BY <1>1, <1>2, <1>4, <1>5, <2>1 DEF Mid, Host!Name, Host!Volumes
  <2> QED
    BY <1>1, <1>2, <1>3, <1>5, <2>1, RemoveGoesOn DEF Removing
<1>6. CASE ~Host!Volumes(p)
  <2>1. Served(w)'
    BY <1>1, <1>4 DEF Served, Https
  <2> QED
    BY <1>1, <1>2, <1>3, <1>6, <2>1, CommandReturns
<1> QED
  BY <1>5, <1>6

LEMMA ForgetKeeps ==
  ASSUME HostInv, WorkspaceConstants, NEW p \in Procs, Host!Forget(p)
  PROVE  HostInv'
<1> SUFFICES ASSUME NEW w, w = Host!Name(p) PROVE HostInv'
  OBVIOUS
<1>1. /\ pc[p] = "forget" /\ UNCHANGED <<route, spec, cont, data, edge, attached, unjoined>>
      /\ record' = [record EXCEPT ![w] = Nothing]
      /\ IF job[p].op # "prune" THEN Host!Return(p, TRUE)
         ELSE /\ pc' = [pc EXCEPT ![p] = "next"] /\ lock' = [lock EXCEPT ![w] = Free]
              /\ hurt' = hurt \ {w} /\ UNCHANGED <<job, kills>>
  BY DEF Host!Forget, Host!At, Host!docker
<1>2. /\ job[p].op \in {"down", "prune"} /\ Locks(p) /\ w \in Names /\ lock[w] = p /\ Mid(p)
      /\ \A v \in Names : lock[v] = p => v = w
      /\ pc[p] \in Removing /\ pc[p] # "idle" /\ (job[p].op = "prune" => job[p] \in PruneJobs)
  BY <1>1, Removes DEF Removing
<1>3. WorldShape' /\ Keeps(p)
  BY <1>1, <1>2, NearKeeps DEF HostInv, WorldShape, Near
<1>4. Served(w)'
  BY <1>1, <1>2 DEF Mid, HostInv, WorldShape, Served, Https, Host!Exists
<1>5. CASE job[p].op # "prune"
  BY <1>1, <1>2, <1>3, <1>4, <1>5, CommandReturns
<1>6. CASE job[p].op = "prune"
  <2>1. /\ pc' = [pc EXCEPT ![p] = "next"] /\ lock' = [lock EXCEPT ![w] = Free]
        /\ hurt' = hurt \ {w} /\ job' = job /\ ControlShape
    BY <1>1, <1>6 DEF HostInv
  <2>2. Others(p) /\ ControlShape' /\ pc'[p] = "next" /\ job'[p] = job[p]
    BY <1>2, <2>1 DEF ControlShape, Others
  <2>3. Placed(p)'
    BY <1>2, <1>6, <2>2 DEF Placed
  <2>4. ~Locks(p)'
    BY <1>6, <2>2 DEF Locks, Removing
  <2>5. HasLock(p)' /\ Lets(p)
    BY <1>2, <1>4, <2>1, <2>4 DEF HasLock, Lets, WorkspaceConstants, ControlShape
  <2>6. Mid(p)'
    BY <1>6, <2>2, MidNowhere DEF Removing
  <2>7. Aside(p)
    BY <1>2, <1>3, <2>1, <2>2 DEF Keeps
  <2> QED
    BY <1>3, <2>2, <2>3, <2>5, <2>6, <2>7, Combines
<1> QED
  BY <1>5, <1>6

LEMMA Prunes ==
  ASSUME HostInv, NEW p \in Procs, pc[p] \in {"prune", "next"}
  PROVE  /\ job[p].op = "prune" /\ job[p] \in PruneJobs /\ job[p].todo \in SUBSET Names
         /\ ~Locks(p) /\ pc[p] # "idle" /\ \A v \in Names : lock[v] # p
  BY Owner, Places, JobKinds DEF Locks

LEMMA PrunableKeeps ==
  ASSUME HostInv, WorkspaceConstants, NEW p \in Procs, Host!Prunable(p)
  PROVE  HostInv'
<1>1. PICK running \in SUBSET {w \in Names : cont[w] \in {"running", "stopped"}} :
        job' = [job EXCEPT ![p].todo = {w \in Names : Host!Exists(w) /\ w \notin running}]
  BY DEF Host!Prunable
<1>2. /\ pc[p] = "prune" /\ UNCHANGED <<record, cont, data, route, spec, edge, attached, unjoined, lock, hurt>>
      /\ pc' = [pc EXCEPT ![p] = "next"]
  BY DEF Host!Prunable, Host!At, Host!world, Host!docker, Host!files
<1> SUFFICES ASSUME NEW S, S = {w \in Names : Host!Exists(w) /\ w \notin running},
                    NEW j, j = [job[p] EXCEPT !.todo = S]
             PROVE  HostInv'
  OBVIOUS
<1>3. S \in SUBSET Names /\ job' = [job EXCEPT ![p] = j]
  BY <1>1
<1>4. j \in PruneJobs /\ j.op = "prune" /\ ~Locks(p)
  BY <1>2, <1>3, Prunes, TodoJob
<1>5. pc'[p] = "next" /\ job'[p] = j /\ hurt' \subseteq Names
  BY <1>2, <1>3 DEF HostInv, ControlShape
<1>6. ~Locks(p)'
  BY <1>4, <1>5 DEF Locks, Removing
<1>7. Others(p) /\ ControlShape' /\ Lets(p) /\ HasLock(p)'
  BY <1>2, <1>3, <1>4, <1>5, <1>6, Moved
<1>8. Placed(p)' /\ Mid(p)'
  BY <1>4, <1>5, MidNowhere DEF Placed, Removing
<1>9. WorldShape' /\ Keeps(p)
  BY <1>2, NearKeeps DEF HostInv, WorldShape, Near
<1> QED
  BY <1>2, <1>7, <1>8, <1>9, Combines DEF Keeps

LEMMA PruneNextKeeps ==
  ASSUME HostInv, WorkspaceConstants, NEW p \in Procs, Host!PruneNext(p)
  PROVE  HostInv'
<1>1. pc[p] = "next" /\ UNCHANGED <<record, cont, data, route, spec, edge, attached, unjoined>>
  BY DEF Host!PruneNext, Host!At, Host!world, Host!docker, Host!files
<1>2. /\ job[p].op = "prune" /\ job[p] \in PruneJobs /\ job[p].todo \in SUBSET Names
      /\ ~Locks(p) /\ pc[p] # "idle" /\ \A v \in Names : lock[v] # p
  BY <1>1, Prunes
<1>3. WorldShape' /\ Keeps(p) /\ ControlShape
  BY <1>1, NearKeeps DEF HostInv, WorldShape, Near
<1>4. CASE Host!Return(p, TRUE)
  BY <1>2, <1>3, <1>4, CommandReturns
<1>5. ASSUME NEW w \in job[p].todo,
             job' = [job EXCEPT ![p] = [op |-> "prune", name |-> w, todo |-> @.todo \ {w}]],
             IF lock[w] = Free
             THEN lock' = [lock EXCEPT ![w] = p] /\ pc' = [pc EXCEPT ![p] = "detach"]
             ELSE UNCHANGED <<lock, pc>>,
             UNCHANGED <<hurt, kills>>
      PROVE  HostInv'
  <2> SUFFICES ASSUME NEW j, j = [op |-> "prune", name |-> w, todo |-> job[p].todo \ {w}] PROVE HostInv'
    OBVIOUS
  <2>1. job' = [job EXCEPT ![p] = j] /\ j.op = "prune" /\ j.name = w /\ w \in Names /\ j \in PruneJobs
    BY <1>2, <1>5 DEF PruneJobs
  <2>2. job'[p] = j /\ hurt' \subseteq Names
    BY <1>3, <1>5, <2>1 DEF ControlShape
  <2>3. CASE lock[w] = Free
    <3>1. lock' = [lock EXCEPT ![w] = p] /\ pc' = [pc EXCEPT ![p] = "detach"]
      BY <1>5, <2>3
    <3>2. Others(p) /\ ControlShape' /\ pc'[p] = "detach" /\ Lets(p)
      BY <1>3, <1>5, <2>1, <2>3, <3>1 DEF ControlShape, Others, Lets
    <3>3. Placed(p)' /\ Locks(p)'
      BY <2>1, <2>2, <3>2 DEF Placed, Locks, Removing, Host!Name
    <3>4. HasLock(p)'
      BY <1>2, <1>3, <2>1, <2>2, <3>1, <3>3 DEF HasLock, ControlShape, Host!Name
    <3>5. w \notin hurt /\ ~Host!Exists(w) => w \notin route
      BY <2>1, <2>3 DEF HostInv, Served, Https
    <3>6. Mid(p)'
      BY <1>1, <1>5, <2>1, <2>2, <3>2, <3>5 DEF Mid, Host!Name, Host!Exists
    <3> QED
      BY <1>3, <1>5, <3>2, <3>3, <3>4, <3>6, Combines DEF Keeps
  <2>4. CASE lock[w] # Free
    <3>1. UNCHANGED <<lock, pc>>
      BY <1>5, <2>4
    <3>2. ~Locks(p)' /\ pc'[p] = "next"
      BY <1>1, <2>1, <2>2, <3>1 DEF Locks, Removing
    <3>3. Others(p) /\ ControlShape' /\ Lets(p) /\ HasLock(p)'
      BY <1>1, <1>2, <2>1, <2>2, <3>1, <3>2, Moved
    <3>4. Placed(p)' /\ Mid(p)'
      BY <2>1, <2>2, <3>2, MidNowhere DEF Placed, Removing
    <3> QED
      BY <1>3, <1>5, <3>3, <3>4, Combines DEF Keeps
  <2> QED
    BY <2>3, <2>4
<1> QED
  BY <1>4, <1>5 DEF Host!PruneNext

LEMMA HostKillKeeps ==
  ASSUME HostInv, WorkspaceConstants, NEW p \in Procs, Host!Kill(p)
  PROVE  HostInv'
<1>1. /\ pc[p] # "idle" /\ pc' = [pc EXCEPT ![p] = "idle"] /\ job' = [job EXCEPT ![p] = Host!NoJob]
      /\ lock' = [w \in Names |-> IF lock[w] = p THEN Free ELSE lock[w]]
      /\ hurt' = hurt \cup {w \in Names : lock[w] = p}
      /\ unjoined' = IF pc[p] = "reattach" /\ edge # "down"
                     THEN unjoined \cup {w \in job[p].todo \ attached : Host!Network(w)} ELSE unjoined
      /\ UNCHANGED <<record, cont, data, route, spec, edge, attached>>
  BY DEF Host!Kill, Host!At, Host!files
<1>2. ControlShape /\ job[p].todo \in SUBSET Names /\ WorldShape'
  BY <1>1, Owner, Places, JobKinds DEF HostInv, WorldShape
<1>3. Others(p) /\ ControlShape' /\ pc'[p] = "idle" /\ job'[p] = Host!NoJob
  BY <1>1, <1>2 DEF ControlShape, Others
<1>4. Placed(p)' /\ HasLock(p)' /\ Lets(p)
  BY <1>1, <1>2, <1>3 DEF Placed, HasLock, Lets, Locks, WorkspaceConstants, ControlShape
<1>5. Mid(p)'
  BY <1>3, MidNowhere DEF Host!NoJob, Removing
<1>6. ASSUME NEW v \in Names, Served(v) PROVE Served(v)'
  <2>1. v \in unjoined => v \in unjoined'
    BY <1>1
  <2>2. Https(v) /\ edge # "down" /\ Coming(v) => Coming(v)' \/ v \in unjoined' \/ v \in attached
    BY <1>1, <1>3 DEF Coming, Others, Https, Host!Network
  <2> QED
    BY <1>1, <1>6, <2>1, <2>2 DEF Served, Https, Host!Exists
<1>7. Aside(p)
  BY <1>1, <1>6 DEF Aside, SameFor
<1> QED
  BY <1>2, <1>3, <1>4, <1>5, <1>7, Combines

LEMMA HostAside == ASSUME HostInv, UNCHANGED hostVars PROVE HostInv'
<1>1. UNCHANGED <<record, cont, data, route, spec, edge, attached, unjoined, lock, pc, job, hurt>>
  BY DEF hostVars
<1>2. WorldShape' /\ ControlShape'
  BY <1>1 DEF HostInv, WorldShape, ControlShape
<1>3. \A v : Served(v)' <=> Served(v)
  BY <1>1 DEF Served, Https, Coming, Host!Exists
<1>4. ASSUME NEW p \in Procs PROVE (Placed(p) /\ HasLock(p) /\ Mid(p))'
  BY <1>1, <1>3 DEF HostInv, Placed, HasLock, Locks, Mid, MidUp, Host!Name, Host!Exists, Host!Volumes
<1> QED
  BY <1>1, <1>2, <1>3, <1>4 DEF HostInv

LEMMA HostStep == ASSUME HostInv, WorkspaceConstants, [Next]_vars PROVE HostInv'
<1>1. CASE UNCHANGED hostVars
  BY <1>1, HostAside
<1>2. CASE Host!Next
  <2>1. PICK p \in Procs : \/ Host!Call(p) \/ Host!Create(p) \/ Host!Edge(p) \/ Host!Remove(p)
                           \/ Host!SetState(p) \/ Host!Kill(p)
    BY <1>2 DEF Host!Next
  <2>2. CASE Host!Create(p)
    BY <2>2, PickPortKeeps, RegisterKeeps, JoinFirstKeeps, ClearKeeps, WriteKeeps, ComposeUpKeeps,
       JoinAgainKeeps DEF Host!Create
  <2>3. CASE Host!Edge(p)
    BY <2>3, EdgeNeededKeeps, WriteSpecKeeps, ReadSpecKeeps, RewriteSpecKeeps, EdgeDownKeeps, EdgeUpKeeps,
       ReattachKeeps DEF Host!Edge
  <2>4. CASE Host!Remove(p)
    BY <2>4, DetachKeeps, DownKeeps, DeregisterKeeps, ForgetKeeps, PrunableKeeps, PruneNextKeeps DEF Host!Remove
  <2> QED
    BY <2>1, <2>2, <2>3, <2>4, CallKeeps, SetStateKeeps, HostKillKeeps
<1> QED
  BY <1>1, <1>2 DEF Next, Workspaces, Accounting, Seeding, Searching, Looking, Setting, vars

LEMMA IdleIsServed == ASSUME HostInv, WorkspaceConstants PROVE RunningIsServed
<1> SUFFICES ASSUME \A p \in Procs : pc[p] = "idle", NEW w \in Names, w \notin hurt PROVE Served(w) /\ ~Coming(w)
  BY DEF RunningIsServed, Host!RunningIsServed, Served, Https
<1>1. ~Coming(w)
  BY DEF Coming
<1>2. \A p \in Procs : lock[w] # p
  BY Owner DEF Locks
<1> QED
  BY <1>1, <1>2 DEF HostInv, ControlShape

-----------------------------------------------------------------------------
(* What compose has made is written down (Ledger).                         *)

Made == data \cup {w \in Names : Host!Network(w)}
Noted == {w \in Names : Host!Exists(w)}

LedgerStep ==
  \/ \E w \in Names : \/ Noted' = Noted \cup {w} /\ Made' = Made
                      \/ w \in Noted /\ Made' = Made \cup {w} /\ Noted' = Noted
                      \/ w \notin Made /\ Noted' = Noted \ {w} /\ Made' = Made
  \/ \E S \in SUBSET Names : Made' = Made \ S /\ Noted' = Noted
  \/ UNCHANGED <<Made, Noted>>

LEMMA SameBooks == ASSUME UNCHANGED <<record, cont, data>> PROVE LedgerStep
  BY DEF LedgerStep, Made, Noted, Host!Network, Host!Exists

\* A workspace's containers go: with a network left behind nothing is released.
LEMMA Released ==
  ASSUME HostInv, NEW w \in Names, UNCHANGED record, NEW volumes,
         Host!ComposeDown(w, volumes) \/ Host!ComposeDownFails(w)
  PROVE  LedgerStep
<1>1. Noted' = Noted /\ WorldShape
  BY DEF Noted, Host!Exists, HostInv
<1>2. CASE Host!ComposeDown(w, volumes)
  <2>1. (\A v \in Names : Host!Network(v)' <=> (v # w /\ Host!Network(v))) /\ (data' = data \/ data' = data \ {w})
    BY <1>1, <1>2 DEF Host!ComposeDown, Host!Network, WorldShape
  <2>2. Made' = Made \/ Made' = Made \ {w}
    BY <1>1, <2>1 DEF Made, WorldShape
  <2> QED
    BY <1>1, <2>2 DEF LedgerStep
<1>3. CASE Host!ComposeDownFails(w)
  <2>1. (\A v \in Names : Host!Network(v)' <=> Host!Network(v)) /\ data' = data
    BY <1>1, <1>3 DEF Host!ComposeDownFails, Host!Network, WorldShape
  <2>2. Made' = Made
    BY <2>1 DEF Made
  <2> QED
    BY <1>1, <2>2 DEF LedgerStep
<1> QED
  BY <1>2, <1>3

LEMMA WriteIsNoted == ASSUME HostInv, WorkspaceConstants, NEW p \in Procs, Host!Write(p) PROVE LedgerStep
<1> SUFFICES ASSUME NEW w, w = Host!Name(p), NEW j, j = [port |-> job[p].port, tls |-> job[p].tls] PROVE LedgerStep
  OBVIOUS
<1>1. pc[p] = "record" /\ record' = [record EXCEPT ![w] = j] /\ UNCHANGED <<cont, data>>
  BY DEF Host!Write, Host!At, Host!docker
<1>2. job[p] \in UpJobs /\ w \in Names /\ MidUp(p, w, job[p].tls, job[p].reuse)
  BY <1>1, Creates DEF Creating, Edging
<1>3. j \in Written
  BY <1>1, <1>2 DEF MidUp, UpJobs, Creating, Written
<1>4. \A v \in Names : Host!Exists(v)' <=> (v = w \/ Host!Exists(v))
  BY <1>1, <1>2, <1>3 DEF Host!Exists, HostInv, WorldShape, Written, WorkspaceConstants
<1>5. Noted' = Noted \cup {w} /\ Made' = Made
  BY <1>1, <1>2, <1>4 DEF Noted, Made, Host!Network
<1> QED
  BY <1>2, <1>5 DEF LedgerStep

LEMMA UpIsNoted == ASSUME HostInv, WorkspaceConstants, NEW p \in Procs, Host!ComposeUp(p) PROVE LedgerStep
<1> SUFFICES ASSUME NEW w, w = Host!Name(p) PROVE LedgerStep
  OBVIOUS
<1>1. /\ pc[p] = "up" /\ data' = data \cup {w} /\ UNCHANGED record
      /\ \/ cont' = [cont EXCEPT ![w] = "running"]
         \/ cont' = [cont EXCEPT ![w] = IF @ = "running" THEN @ ELSE "stopped"]
  BY DEF Host!ComposeUp, Host!At, Host!files
<1>2. w \in Names /\ Host!Exists(w) /\ WorldShape
  BY <1>1, Creates DEF Creating, Edging, MidUp, HostInv
<1>3. \A v \in Names : Host!Network(v)' <=> (v = w \/ Host!Network(v))
  BY <1>1, <1>2 DEF Host!Network, WorldShape
<1>4. Noted' = Noted /\ Made' = Made \cup {w}
  BY <1>1, <1>2, <1>3 DEF Noted, Made, Host!Exists
<1>5. w \in Noted
  BY <1>2 DEF Noted
<1> QED
  BY <1>2, <1>4, <1>5 DEF LedgerStep

LEMMA SetIsNoted == ASSUME HostInv, NEW p \in Procs, Host!SetState(p) PROVE LedgerStep
<1> SUFFICES ASSUME NEW w, w = Host!Name(p) PROVE LedgerStep
  OBVIOUS
<1>1. /\ pc[p] = "set" /\ UNCHANGED <<record, data>>
      /\ \/ /\ cont[w] \in {"running", "stopped"}
            /\ cont' = [cont EXCEPT ![w] = IF job[p].do = "stop" THEN "stopped" ELSE "running"]
         \/ UNCHANGED cont
  BY DEF Host!SetState, Host!At, Host!files
<1>2. WorldShape
  BY DEF HostInv
<1>3. \A v \in Names : Host!Network(v)' <=> Host!Network(v)
  BY <1>1, <1>2 DEF Host!Network, WorldShape
<1>4. Noted' = Noted /\ Made' = Made
  BY <1>1, <1>3 DEF Noted, Made, Host!Exists
<1> QED
  BY <1>4 DEF LedgerStep

LEMMA ForgetIsNoted == ASSUME HostInv, WorkspaceConstants, NEW p \in Procs, Host!Forget(p) PROVE LedgerStep
<1> SUFFICES ASSUME NEW w, w = Host!Name(p) PROVE LedgerStep
  OBVIOUS
<1>1. pc[p] = "forget" /\ record' = [record EXCEPT ![w] = Nothing] /\ UNCHANGED <<cont, data>>
  BY DEF Host!Forget, Host!At, Host!docker
<1>2. w \in Names /\ cont[w] = "absent" /\ w \notin data /\ WorldShape
  BY <1>1, Removes DEF Removing, Mid, HostInv
<1>3. w \notin Made
  BY <1>2 DEF Made, Host!Network
<1>4. Noted' = Noted \ {w} /\ Made' = Made
  BY <1>1, <1>2 DEF Noted, Made, Host!Network, Host!Exists, WorldShape
<1> QED
  BY <1>2, <1>3, <1>4 DEF LedgerStep

LEMMA DownIsNoted ==
  ASSUME HostInv, NEW p \in Procs, Host!Clear(p) \/ Host!Down(p)
  PROVE  LedgerStep
<1> SUFFICES ASSUME NEW w, w = Host!Name(p) PROVE LedgerStep
  OBVIOUS
<1>1. w \in Names
  BY Creates, Removes DEF Host!Clear, Host!Down, Host!At, Creating, Edging, Removing
<1>2. UNCHANGED record
  BY DEF Host!Clear, Host!Down, Host!files
<1>3. \/ \E volumes : Host!ComposeDown(w, volumes)
      \/ Host!ComposeDownFails(w)
      \/ UNCHANGED <<cont, data>>
  BY DEF Host!Clear, Host!Down
<1> QED
  BY <1>1, <1>2, <1>3, Released, SameBooks

LEMMA StepIsNoted == ASSUME HostInv, WorkspaceConstants, [Next]_vars PROVE LedgerStep
<1>1. CASE UNCHANGED hostVars
  BY <1>1, SameBooks DEF hostVars
<1>2. ASSUME NEW p \in Procs, \/ Host!Call(p) \/ Host!Create(p) \/ Host!Edge(p) \/ Host!Remove(p)
                              \/ Host!SetState(p) \/ Host!Kill(p)
      PROVE  LedgerStep
  <2>1. CASE \/ Host!Call(p) \/ Host!Kill(p) \/ Host!PickPort(p) \/ Host!EdgeNeeded(p) \/ Host!ReadSpec(p)
             \/ Host!Prunable(p) \/ Host!PruneNext(p)
    BY <2>1, SameBooks DEF Host!Call, Host!Kill, Host!PickPort, Host!EdgeNeeded, Host!ReadSpec, Host!Prunable,
       Host!PruneNext, Host!world, Host!docker, Host!files
  <2>2. CASE \/ Host!WriteSpec(p) \/ Host!RewriteSpec(p) \/ Host!EdgeDown(p) \/ Host!EdgeUp(p) \/ Host!Reattach(p)
             \/ Host!Register(p) \/ Host!JoinFirst(p) \/ Host!JoinAgain(p) \/ Host!Detach(p) \/ Host!Deregister(p)
    BY <2>2, SameBooks DEF Host!WriteSpec, Host!RewriteSpec, Host!EdgeDown, Host!EdgeUp, Host!Reattach,
       Host!Register, Host!JoinFirst, Host!JoinAgain, Host!Detach, Host!Deregister, Host!docker, Host!files
  <2> QED
    BY <1>2, <2>1, <2>2, WriteIsNoted, UpIsNoted, SetIsNoted, ForgetIsNoted, DownIsNoted
       DEF Host!Create, Host!Edge, Host!Remove
<1>3. CASE Host!Next
  BY <1>2, <1>3 DEF Host!Next
<1> QED
  BY <1>1, <1>3 DEF Next, Workspaces, Accounting, Seeding, Searching, Looking, Setting, vars

LEMMA LedgerSteps == ASSUME LedgerStep PROVE [Host!Records!Next]_(Host!Records!vars)
  BY DEF LedgerStep, Made, Noted, Host!Records!Next, Host!Records!vars, Host!Records!Record, Host!Records!Take,
         Host!Records!Forget, Host!Records!Release

LEMMA LedgerInit == ASSUME Init PROVE Host!Records!Init
  BY DEF Init, Host!Init, Host!Records!Init, Host!Network, Host!Exists

\* Once every command has ended, the edge serves exactly the https workspaces that
\* have containers, except those whose last command failed or died, for any number
\* of workspaces, processes and kills and whatever docker refuses (edge.py:
\* register, up, reattach_all; lifecycle.py: _create_repro_locked, teardown).
THEOREM EdgeServesWhatRuns == Spec => []RunningIsServed
<1>1. Init => HostInv
  BY HostConstants, HostInit
<1>2. HostInv /\ [Next]_vars => HostInv'
  BY HostConstants, HostStep
<1>3. HostInv => RunningIsServed
  BY HostConstants, IdleIsServed
<1> QED
  BY <1>1, <1>2, <1>3, PTL DEF Spec

\* The compose workspaces implement the ledger: nothing compose has made is ever
\* without its record, for any number of workspaces and processes (lifecycle.py:
\* _create_repro_locked writes it before `up`, teardown removes it after `down -v`).
THEOREM ComposeKeepsTheLedger == Spec => ComposeIsRecorded
<1>1. Init => HostInv /\ Host!Records!Init
  BY HostConstants, HostInit, LedgerInit
<1>2. HostInv /\ [Next]_vars => HostInv' /\ [Host!Records!Next]_(Host!Records!vars)
  BY HostConstants, HostStep, StepIsNoted, LedgerSteps
<1>3. Spec => Host!Records!Init /\ [][Host!Records!Next]_(Host!Records!vars)
  BY <1>1, <1>2, PTL DEF Spec
<1> QED
  BY <1>3, PTL DEF ComposeIsRecorded, Host!ComposeIsRecorded, Host!Records!Spec

-----------------------------------------------------------------------------
(* The capacity search.                                                    *)

StepRecord == [vus : Int, ok : BOOLEAN, summary : Capacity!Summaries]

\* Every load is measured once, and what is said of it is what was measured.
Sound ==
  /\ steps \in Seq(StepRecord)
  /\ \A i \in 1..Len(steps) : steps[i].ok = Capacity!Holds(steps[i].summary)
  /\ \A i, j \in 1..Len(steps) : steps[i].vus = steps[j].vus => i = j

\* Whatever has been measured below hold has been measured and held; the step at
\* fail failed.
Bracket(pass, fail) ==
  /\ pass # 0 => \E i \in 1..Len(steps) : steps[i].vus = pass /\ steps[i].ok
  /\ fail # 0 => \E i \in 1..Len(steps) : steps[i].vus = fail /\ ~steps[i].ok

\* While the load is doubled nothing above the last pass has been measured;
\* while the gap is bisected nothing inside it has, and each bisection has left at
\* most the larger half of it.
Narrowed ==
  /\ 0 < lastPass /\ lastPass < firstFail /\ firstFail <= max
  /\ \A i \in 1..Len(steps) : ~(lastPass < steps[i].vus /\ steps[i].vus < firstFail)

Gap == firstFail - lastPass
SearchInv ==
  /\ start \in Int /\ max \in Int /\ n \in Int /\ lo \in Int /\ hi \in Int
  /\ lastPass \in Int /\ firstFail \in Int /\ tries \in 0..2
  /\ phase \in {"double", "bisect", "done", "refused"}
  /\ Sound /\ Bracket(lastPass, firstFail)
  /\ phase = "double" =>
       /\ firstFail = 0 /\ tries = 2 /\ 0 <= lastPass /\ lastPass <= max
       /\ 0 < n /\ (lastPass # 0 => n = 2 * lastPass)
       /\ \A i \in 1..Len(steps) : steps[i].vus <= lastPass
  /\ phase = "bisect" =>
       /\ lo = lastPass /\ hi = firstFail /\ Narrowed
       /\ tries = 2 => Gap <= lastPass
       /\ tries = 1 => 2 * Gap <= lastPass + 1
       /\ tries = 0 => 4 * Gap <= lastPass + 3
  /\ phase = "done" =>
       /\ 0 <= lastPass /\ lastPass <= max /\ 0 <= firstFail /\ firstFail <= max
       /\ lastPass # 0 /\ firstFail # 0 => Narrowed /\ 4 * Gap <= lastPass + 3

LEMMA SearchInit == ASSUME SearchConstants, Init PROVE SearchInv
  BY DEF Init, Capacity!Init, SearchConstants, SearchInv, Sound, Bracket, Capacity!NoStep

LEMMA Rows ==
  ASSUME NEW q \in Seq(StepRecord)
  PROVE  \A i \in 1..Len(q) :
           /\ q[i].vus \in Int /\ q[i].ok \in BOOLEAN
           /\ q[i].summary.p95 \in Latencies \cup {NotMeasured}
           /\ q[i].summary.rps \in Rates \cup {NotMeasured}
<1>1. \A i \in 1..Len(q) : q[i] \in StepRecord
  OBVIOUS
<1>2. \A r \in StepRecord : r.vus \in Int /\ r.ok \in BOOLEAN /\ r.summary \in Capacity!Summaries
  BY DEF StepRecord
<1>3. \A s \in Capacity!Summaries : /\ s.p95 \in Latencies \cup {NotMeasured}
                                    /\ s.rps \in Rates \cup {NotMeasured}
  BY DEF Capacity!Summaries
<1> QED
  BY <1>1, <1>2, <1>3

\* A step that is measured at a load that was not measured before.
LEMMA Measuring ==
  ASSUME SearchConstants, Sound, NEW load \in Int, NEW s \in Capacity!Summaries,
         \A i \in 1..Len(steps) : steps[i].vus # load,
         Capacity!RunStep(load, s)
  PROVE  /\ Sound'
         /\ Len(steps') = Len(steps) + 1
         /\ \A i \in 1..Len(steps) : steps'[i] = steps[i]
         /\ steps'[Len(steps')].vus = load
         /\ steps'[Len(steps')].ok = Capacity!Holds(s)
<1> DEFINE row == [vus |-> load, ok |-> Capacity!Holds(s), summary |-> s]
<1>1. row \in StepRecord
  BY DEF StepRecord, Capacity!Holds
<1>2. steps' = Append(steps, row)
  BY DEF Capacity!RunStep
<1>3. steps' \in Seq(StepRecord)
  BY <1>1, <1>2 DEF Sound
<1>4. /\ Len(steps) \in Nat /\ Len(steps') = Len(steps) + 1
      /\ \A i \in 1..Len(steps) : steps'[i] = steps[i]
      /\ steps'[Len(steps')] = row
  BY <1>1, <1>2 DEF Sound
<1>5. /\ row.vus = load /\ row.ok = Capacity!Holds(s) /\ row.summary = s
  OBVIOUS
<1> HIDE DEF row
<1>6. \A i \in 1..Len(steps') : i \in 1..Len(steps) \/ i = Len(steps')
  BY <1>4
<1>7. \A i \in 1..Len(steps') : steps'[i].ok = Capacity!Holds(steps'[i].summary)
  BY <1>4, <1>5, <1>6 DEF Sound
<1>8. \A i, j \in 1..Len(steps') : steps'[i].vus = steps'[j].vus => i = j
  BY <1>4, <1>5, <1>6 DEF Sound
<1>9. (\A i \in 1..Len(steps) : steps[i].ok = Capacity!Holds(steps[i].summary))' <=>
      (\A i \in 1..Len(steps') : steps'[i].ok = Capacity!Holds(steps'[i].summary))
  BY DEF Capacity!Holds
<1> QED
  BY <1>3, <1>4, <1>5, <1>7, <1>8, <1>9 DEF Sound

\* What a step that held, or failed, leaves of the bracket.
LEMMA Bracketing ==
  ASSUME SearchConstants, Sound, Bracket(lastPass, firstFail),
         NEW load \in Int, NEW s \in Capacity!Summaries,
         \A i \in 1..Len(steps) : steps[i].vus # load,
         Capacity!RunStep(load, s),
         \/ Capacity!Holds(s) /\ lastPass' = load /\ firstFail' = firstFail
         \/ ~Capacity!Holds(s) /\ lastPass' = lastPass /\ firstFail' = load
  PROVE  Bracket(lastPass, firstFail)'
<1>1. /\ Len(steps') = Len(steps) + 1 /\ Len(steps) \in Nat
      /\ \A i \in 1..Len(steps) : steps'[i] = steps[i]
      /\ steps'[Len(steps')].vus = load
      /\ steps'[Len(steps')].ok = Capacity!Holds(s)
  BY Measuring DEF Sound
<1>2. /\ \A i \in 1..Len(steps) : i \in 1..Len(steps')
      /\ Len(steps') \in 1..Len(steps')
  BY <1>1
<1> QED
  BY <1>1, <1>2 DEF Bracket

LEMMA DoubleKeeps == ASSUME SearchConstants, SearchInv, Capacity!Double PROVE SearchInv'
<1>1. PICK s \in Capacity!Summaries :
        /\ Capacity!RunStep(n, s)
        /\ IF Capacity!Holds(s)
           THEN lastPass' = n /\ n' = 2 * n /\ UNCHANGED <<firstFail, phase, lo, hi>>
           ELSE firstFail' = n /\ Capacity!Bisect(lastPass, n) /\ UNCHANGED <<lastPass, n>>
  BY DEF Capacity!Double
<1>2. /\ phase = "double" /\ n <= max /\ UNCHANGED <<start, max, tries>>
      /\ n \in Int /\ 0 < n /\ lastPass \in Int /\ max \in Int /\ tries = 2
      /\ lastPass < n /\ 0 <= lastPass /\ (lastPass # 0 => n = 2 * lastPass)
  BY DEF Capacity!Double, SearchInv
<1>3. /\ \A i \in 1..Len(steps) : steps[i].vus <= lastPass
      /\ \A i \in 1..Len(steps) : steps[i].vus \in Int
  BY <1>2, Rows DEF SearchInv, Sound
<1>4. \A i \in 1..Len(steps) : steps[i].vus # n
  BY <1>2, <1>3
<1>5. /\ Sound' /\ Len(steps') = Len(steps) + 1 /\ Len(steps) \in Nat
      /\ \A i \in 1..Len(steps) : steps'[i] = steps[i]
      /\ steps'[Len(steps')].vus = n
  <2>1. Sound
    BY DEF SearchInv
  <2>2. Len(steps) \in Nat
    BY <2>1 DEF Sound
  <2> QED
    BY <1>1, <1>2, <1>4, <2>1, <2>2, Measuring
<1>6. Bracket(lastPass, firstFail)'
  BY <1>1, <1>2, <1>4, Bracketing DEF SearchInv
<1>7. \A i \in 1..Len(steps') : i \in 1..Len(steps) \/ i = Len(steps')
  BY <1>5
<1>8. \A i \in 1..Len(steps') : steps'[i].vus <= lastPass \/ steps'[i].vus = n
  BY <1>3, <1>5, <1>7
<1>11. \A i \in 1..Len(steps') : steps'[i].vus \in Int
  BY <1>5, Rows DEF Sound
<1>9. CASE Capacity!Holds(s)
  <2>1. \A i \in 1..Len(steps') : steps'[i].vus <= n
    BY <1>2, <1>8, <1>11
  <2> QED
    BY <1>1, <1>2, <1>5, <1>6, <1>9, <2>1 DEF SearchInv
<1>10. CASE ~Capacity!Holds(s)
  <2>1. \A i \in 1..Len(steps') : ~(lastPass < steps'[i].vus /\ steps'[i].vus < n)
    BY <1>2, <1>8, <1>11
  <2>2. /\ firstFail' = n /\ lastPass' = lastPass /\ n' = n /\ firstFail' # 0
        /\ IF lastPass # 0 THEN phase' = "bisect" /\ lo' = lastPass /\ hi' = n
           ELSE phase' = "done" /\ lo' = lo /\ hi' = hi
    BY <1>1, <1>2, <1>10 DEF Capacity!Bisect, Capacity!NoStep
  <2>3. CASE lastPass # 0
    <3>1. Narrowed'
      BY <1>2, <2>1, <2>2, <2>3 DEF Narrowed
    <3>2. Gap' <= lastPass'
      BY <1>2, <2>2, <2>3 DEF Gap
    <3> QED
      BY <1>2, <1>5, <1>6, <2>2, <2>3, <3>1, <3>2 DEF SearchInv
  <2>4. CASE lastPass = 0
    BY <1>2, <1>5, <1>6, <2>2, <2>4 DEF SearchInv
  <2> QED
    BY <2>3, <2>4
<1> QED
  BY <1>9, <1>10

LEMMA EndKeeps == ASSUME SearchConstants, SearchInv, Capacity!EndDoubling PROVE SearchInv'
<1>1. /\ phase = "double" /\ firstFail = 0
      /\ UNCHANGED <<start, max, n, lastPass, firstFail, tries, steps>>
      /\ phase' = "done" /\ UNCHANGED <<lo, hi>>
  BY DEF Capacity!EndDoubling, Capacity!Bisect, Capacity!NoStep, SearchInv
<1>2. Sound' /\ Bracket(lastPass, firstFail)'
  BY <1>1 DEF SearchInv, Sound, Bracket, Capacity!Holds
<1> QED
  BY <1>1, <1>2 DEF SearchInv

LEMMA Halves ==
  ASSUME NEW x \in Int, NEW y \in Int, x < y
  PROVE  LET m == (x + y) \div 2
         IN  /\ m \in Int /\ x <= m /\ m < y
             /\ 2 * (m - x) <= y - x /\ 2 * (y - m) <= y - x + 1
  OBVIOUS

LEMMA TwiceHalved ==
  ASSUME NEW g \in Int, NEW h \in Int, NEW p \in Int, NEW q \in Int, 2 * h <= g + 1, p <= q
  PROVE  /\ g <= p => 2 * h <= q + 1
         /\ 2 * g <= p + 1 => 4 * h <= q + 3
  OBVIOUS

LEMMA HalveKeeps == ASSUME SearchConstants, SearchInv, Capacity!Halve PROVE SearchInv'
<1> DEFINE mid == (lo + hi) \div 2
<1>1. /\ phase = "bisect" /\ lo = lastPass /\ hi = firstFail /\ Narrowed
      /\ lastPass \in Int /\ firstFail \in Int /\ tries \in 0..2 /\ max \in Int
      /\ 0 < lastPass /\ lastPass < firstFail /\ firstFail <= max
      /\ UNCHANGED <<start, max, n>>
  BY DEF Capacity!Halve, SearchInv, Narrowed
<1>2. /\ mid \in Int /\ lastPass <= mid /\ mid < firstFail
      /\ 2 * (mid - lastPass) <= firstFail - lastPass
      /\ 2 * (firstFail - mid) <= firstFail - lastPass + 1
  BY <1>1, Halves
<1>3. IF tries = 0 \/ mid <= lo \/ mid >= hi
      THEN phase' = "done" /\ UNCHANGED <<lo, hi, lastPass, firstFail, tries, steps>>
      ELSE /\ \E s \in Capacity!Summaries :
                /\ Capacity!RunStep(mid, s)
                /\ IF Capacity!Holds(s) THEN lo' = mid /\ lastPass' = mid /\ UNCHANGED <<hi, firstFail>>
                   ELSE hi' = mid /\ firstFail' = mid /\ UNCHANGED <<lo, lastPass>>
           /\ tries' = tries - 1 /\ UNCHANGED phase
  BY DEF Capacity!Halve
<1> HIDE DEF mid
<1>4. CASE tries = 0 \/ mid <= lo \/ mid >= hi
  <2>1. phase' = "done" /\ UNCHANGED <<lo, hi, lastPass, firstFail, tries, steps>>
    BY <1>3, <1>4
  <2>2. 4 * Gap <= lastPass + 3
    <3>1. CASE tries = 0
      BY <1>1, <3>1 DEF SearchInv
    <3>2. CASE mid <= lo \/ mid >= hi
      BY <1>1, <1>2, <3>2 DEF Gap
    <3> QED
      BY <1>4, <3>1, <3>2
  <2>3. Sound' /\ Bracket(lastPass, firstFail)' /\ Narrowed' /\ Gap' = Gap
    BY <1>1, <2>1 DEF SearchInv, Sound, Bracket, Narrowed, Gap, Capacity!Holds
  <2> QED
    BY <1>1, <2>1, <2>2, <2>3 DEF SearchInv
<1>5. CASE ~(tries = 0 \/ mid <= lo \/ mid >= hi)
  <2>1. PICK s \in Capacity!Summaries :
                /\ Capacity!RunStep(mid, s)
                /\ IF Capacity!Holds(s) THEN lo' = mid /\ lastPass' = mid /\ UNCHANGED <<hi, firstFail>>
                   ELSE hi' = mid /\ firstFail' = mid /\ UNCHANGED <<lo, lastPass>>
    BY <1>3, <1>5
  <2>2. tries' = tries - 1 /\ UNCHANGED phase /\ tries \in {1, 2} /\ lo < mid
    BY <1>1, <1>2, <1>3, <1>5
  <2>3. \A i \in 1..Len(steps) : steps[i].vus # mid /\ steps[i].vus \in Int
    <3>1. \A i \in 1..Len(steps) : steps[i].vus \in Int
      BY Rows DEF SearchInv, Sound
    <3> QED
      BY <1>1, <1>2, <2>2, <3>1 DEF Narrowed
  <2>4. /\ Sound' /\ Len(steps') = Len(steps) + 1 /\ Len(steps) \in Nat
        /\ \A i \in 1..Len(steps) : steps'[i] = steps[i]
        /\ steps'[Len(steps')].vus = mid
    <3>1. Sound
      BY DEF SearchInv
    <3>2. Len(steps) \in Nat
      BY <3>1 DEF Sound
    <3> QED
      BY <1>2, <2>1, <2>3, <3>1, <3>2, Measuring
  <2>5. Bracket(lastPass, firstFail)'
    BY <1>2, <2>1, <2>3, Bracketing DEF SearchInv
  <2>6. \A i \in 1..Len(steps') : i \in 1..Len(steps) \/ i = Len(steps')
    BY <2>4
  <2>7. \A i \in 1..Len(steps') :
           steps'[i].vus = mid \/ ~(lastPass < steps'[i].vus /\ steps'[i].vus < firstFail)
    BY <1>1, <2>4, <2>6 DEF Narrowed
  <2>8. \A i \in 1..Len(steps') : steps'[i].vus \in Int
    BY <2>4, Rows DEF Sound
  <2>9. /\ \/ lastPass' = mid /\ firstFail' = firstFail
           \/ lastPass' = lastPass /\ firstFail' = mid
        /\ lo' = lastPass' /\ hi' = firstFail'
    BY <1>1, <2>1
  <2>10. /\ 0 < lastPass' /\ lastPass' < firstFail' /\ firstFail' <= max'
         /\ lastPass' \in Int /\ firstFail' \in Int /\ lastPass <= lastPass'
    BY <1>1, <1>2, <2>2, <2>9
  <2>11. Narrowed'
    <3>1. \A i \in 1..Len(steps') : ~(lastPass' < steps'[i].vus /\ steps'[i].vus < firstFail')
      BY <1>1, <1>2, <2>2, <2>7, <2>8, <2>9
    <3> QED
      BY <2>10, <3>1 DEF Narrowed
  <2>12. 2 * Gap' <= Gap + 1
    BY <1>1, <1>2, <2>9 DEF Gap
  <2>13. /\ tries' = 1 => 2 * Gap' <= lastPass' + 1
         /\ tries' = 0 => 4 * Gap' <= lastPass' + 3
         /\ tries' \in 0..1
    <3>1. Gap \in Int /\ Gap' \in Int
      BY <1>1, <2>10 DEF Gap
    <3>2. /\ tries = 2 => Gap <= lastPass
          /\ tries = 1 => 2 * Gap <= lastPass + 1
      BY <1>1 DEF SearchInv
    <3>3. lastPass \in Int /\ lastPass' \in Int /\ lastPass <= lastPass'
      BY <1>1, <2>10
    <3>4. /\ Gap <= lastPass => 2 * Gap' <= lastPass' + 1
          /\ 2 * Gap <= lastPass + 1 => 4 * Gap' <= lastPass' + 3
      BY <2>12, <3>1, <3>3, TwiceHalved
    <3> QED
      BY <2>2, <3>2, <3>4
  <2> QED
    BY <1>1, <2>2, <2>4, <2>5, <2>9, <2>10, <2>11, <2>13 DEF SearchInv
<1> QED
  BY <1>4, <1>5

LEMMA SearchStep == ASSUME SearchConstants, SearchInv, [Next]_vars PROVE SearchInv'
<1>1. CASE UNCHANGED capacityVars
  <2>1. Sound' /\ Bracket(lastPass, firstFail)' /\ Narrowed' = Narrowed /\ Gap' = Gap
    BY <1>1 DEF SearchInv, Sound, Bracket, Narrowed, Gap, Capacity!Holds, capacityVars
  <2> QED
    BY <1>1, <2>1 DEF SearchInv, capacityVars
<1>2. CASE Capacity!Next
  BY <1>1, <1>2, DoubleKeeps, EndKeeps, HalveKeeps
     DEF Capacity!Next, Capacity!Done, Capacity!vars, capacityVars
<1> QED
  BY <1>1, <1>2 DEF Next, Workspaces, Accounting, Seeding, Searching, Looking, Setting, vars

\* The reason that is given is of the one step at that load.
LEMMA TheBreachFailed ==
  ASSUME Sound, NEW i \in 1..Len(steps), steps[i].vus = firstFail, ~steps[i].ok
  PROVE  ~Capacity!Breach.ok
<1> DEFINE First(k) == steps[k].vus = firstFail /\ \A j \in 1..(k - 1) : steps[j].vus # firstFail
<1>1. \A k \in 1..Len(steps) : steps[k].vus = firstFail => k = i
  BY DEF Sound
<1>2. \A j \in 1..(i - 1) : j \in 1..Len(steps) /\ j # i
  OBVIOUS
<1>3. First(i)
  BY <1>1, <1>2
<1>4. (CHOOSE k \in 1..Len(steps) : First(k)) = i
  BY <1>1, <1>3
<1> QED
  BY <1>4 DEF Capacity!Breach

LEMMA SearchInvSuffices == ASSUME SearchConstants, SearchInv PROVE CapacityWasMeasured
<1> SUFFICES ASSUME phase = "done" PROVE Capacity!CapacityWasMeasured
  BY DEF CapacityWasMeasured, Capacity!CapacityWasMeasured
<1>1. \A i \in 1..Len(steps) :
         (/\ steps[i].summary.p95 \in Latencies /\ steps[i].summary.p95 <= MaxP95
          /\ steps[i].summary.rps \in Rates /\ steps[i].summary.rps >= MinRps) = steps[i].ok
  <2> SUFFICES ASSUME NEW i \in 1..Len(steps)
               PROVE  (/\ steps[i].summary.p95 \in Latencies /\ steps[i].summary.p95 <= MaxP95
                       /\ steps[i].summary.rps \in Rates /\ steps[i].summary.rps >= MinRps) = steps[i].ok
    OBVIOUS
  <2>1. /\ steps[i].ok = Capacity!Holds(steps[i].summary)
        /\ steps[i].summary.p95 \in Latencies \cup {NotMeasured}
        /\ steps[i].summary.rps \in Rates \cup {NotMeasured}
    BY Rows DEF SearchInv, Sound
  <2> QED
    BY <2>1 DEF Capacity!Holds, SearchConstants
<1>2. ASSUME lastPass # 0 PROVE Capacity!Measured(lastPass, TRUE)
  BY <1>1, <1>2 DEF SearchInv, Bracket, Capacity!Measured
<1>3. ASSUME firstFail # 0 PROVE Capacity!Measured(firstFail, FALSE) /\ ~Capacity!Breach.ok
  <2>1. PICK i \in 1..Len(steps) : steps[i].vus = firstFail /\ ~steps[i].ok
    BY <1>3 DEF SearchInv, Bracket
  <2>2. steps[i].ok = FALSE
    BY <2>1, Rows DEF SearchInv, Sound
  <2>3. Capacity!Measured(firstFail, FALSE)
    BY <1>1, <2>1, <2>2 DEF Capacity!Measured
  <2> QED
    BY <2>1, <2>3, TheBreachFailed DEF SearchInv
<1> QED
  BY <1>2, <1>3 DEF SearchInv, Narrowed, Gap, Capacity!CapacityWasMeasured, Capacity!NoStep

\* What the search reports was measured, for any loads asked for and any
\* measurements (run_capacity, services/perf.py): "holds at n, breaks at m" of two
\* steps of the search with none between them, within about a quarter of n.
THEOREM SearchMeasures == Spec => []CapacityWasMeasured
<1>1. Init => SearchInv
  BY HostConstants, SearchInit
<1>2. SearchInv /\ [Next]_vars => SearchInv'
  BY HostConstants, SearchStep
<1>3. SearchInv => CapacityWasMeasured
  BY HostConstants, SearchInvSuffices
<1> QED
  BY <1>1, <1>2, <1>3, PTL DEF Spec

-----------------------------------------------------------------------------
(* The accounts file.                                                      *)

Asking(r) == /\ r.op \in Commands /\ r.name \in People
             /\ r.op = "passwd" => r.pw \in {1, 2}
             /\ r.op = "role" => r.role \in {"admin", "member"}

AccountsShape ==
  /\ users \in [People -> Console!Entries \cup {Nobody}]
  /\ DOMAIN stage = Threads /\ DOMAIN req = Threads /\ DOMAIN copy = Threads
  /\ \A t \in Threads : stage[t] \in {"account", "change"} => Asking(req[t])

\* Whoever is about to replace the file holds its lock, has read what is still in
\* it, and may do what was asked; and an account is an admin's while there is one.
Booked ==
  /\ \A t \in Threads : stage[t] = "change" =>
       ulock = t /\ copy[t] = users /\ Console!Allowed(req[t], users)
  /\ (\E m \in People : users[m] # Nobody) => Console!Admins(users) # {}

LEMMA PasswordChanged ==
  ASSUME NEW e \in Console!Entries, NEW p \in {1, 2}
  PROVE  [e EXCEPT !.pw = p] \in Console!Entries /\ [e EXCEPT !.pw = p].role = e.role
  BY DEF Console!Entries

LEMMA RoleChanged ==
  ASSUME NEW e \in Console!Entries, NEW o \in {"admin", "member"}
  PROVE  [e EXCEPT !.role = o] \in Console!Entries /\ [e EXCEPT !.role = o].role = o
  BY DEF Console!Entries

LEMMA AccountsInit == ASSUME Init PROVE AccountsShape /\ Booked
  BY DEF Init, Console!Init, AccountsShape, Booked

\* One command on a book that it may change.
LEMMA OneChange ==
  ASSUME AccountConstants, NEW book \in [People -> Console!Entries \cup {Nobody}], NEW r,
         Asking(r), Console!Allowed(r, book),
         (\E m \in People : book[m] # Nobody) => Console!Admins(book) # {}
  PROVE  /\ Console!Changed(r, book) \in [People -> Console!Entries \cup {Nobody}]
         /\ \A m \in People \ {r.name} : Console!Changed(r, book)[m] = book[m]
         /\ Console!Admins(Console!Changed(r, book)) # {} 
            
<1> DEFINE new == Console!Changed(r, book)
<1>1. r.name \in People /\ r.op \in Commands
  BY DEF Asking
<1>3. CASE r.op = "add"
  <2> DEFINE role == IF \A m \in People : book[m] = Nobody THEN "admin" ELSE "member"
  <2>1. new = [book EXCEPT ![r.name] = [role |-> role, pw |-> 1]]
    BY <1>3 DEF Console!Changed
  <2>2. [role |-> role, pw |-> 1] \in Console!Entries /\ [role |-> role, pw |-> 1].role = role
    BY DEF Console!Entries
  <2>3. CASE \A m \in People : book[m] = Nobody
    <3>1. r.name \in Console!Admins(new)
      BY <1>1, <2>1, <2>2, <2>3 DEF Console!Admins, AccountConstants
    <3> QED
      BY <1>1, <2>1, <2>2, <3>1
  <2>4. CASE \E m \in People : book[m] # Nobody
    <3>1. PICK m \in People : m \in Console!Admins(book)
      BY <2>4 DEF Console!Admins
    <3>2. m # r.name
      BY <1>3, <3>1 DEF Console!Admins, Console!Allowed
    <3>3. m \in Console!Admins(new)
      BY <2>1, <3>1, <3>2 DEF Console!Admins
    <3> QED
      BY <1>1, <2>1, <2>2, <3>3
  <2> QED
    BY <2>3, <2>4
<1>4. ASSUME r.op # "add" PROVE book[r.name] \in Console!Entries /\ Console!Admins(book) # {}
  BY <1>1, <1>4 DEF Console!Allowed, Commands
<1>5. CASE r.op = "passwd"
  <2>1. new = [book EXCEPT ![r.name] = [book[r.name] EXCEPT !.pw = r.pw]]
    BY <1>5 DEF Console!Changed
  <2>2. r.pw \in {1, 2}
    BY <1>5 DEF Asking
  <2>3. /\ [book[r.name] EXCEPT !.pw = r.pw] \in Console!Entries
        /\ [book[r.name] EXCEPT !.pw = r.pw].role = book[r.name].role
    BY <1>4, <1>5, <2>2, PasswordChanged
  <2>4. Console!Admins(book) \subseteq Console!Admins(new)
    BY <1>1, <2>1, <2>3 DEF Console!Admins, AccountConstants
  <2> QED
    BY <1>1, <1>4, <1>5, <2>1, <2>3, <2>4
<1>6. CASE r.op = "remove"
  <2>1. new = [book EXCEPT ![r.name] = Nobody]
    BY <1>6 DEF Console!Changed
  <2>2. Console!Admins(book) # {r.name}
    BY <1>6 DEF Console!Allowed
  <2>3. PICK m \in Console!Admins(book) : m # r.name
    BY <1>4, <1>6, <2>2
  <2>4. m \in Console!Admins(new)
    BY <2>1, <2>3 DEF Console!Admins
  <2> QED
    BY <1>1, <2>1, <2>4
<1>7. CASE r.op = "role"
  <2>1. new = [book EXCEPT ![r.name] = [book[r.name] EXCEPT !.role = r.role]]
    BY <1>7 DEF Console!Changed
  <2>2. r.role \in {"admin", "member"}
    BY <1>7 DEF Asking
  <2>3. /\ [book[r.name] EXCEPT !.role = r.role] \in Console!Entries
        /\ [book[r.name] EXCEPT !.role = r.role].role = r.role
    <3>1. book[r.name] \in Console!Entries
      BY <1>4, <1>7
    <3>2. /\ [book[r.name] EXCEPT !.role = r.role] \in Console!Entries
      BY <2>2, <3>1, RoleChanged
    <3>3. [book[r.name] EXCEPT !.role = r.role].role = r.role
      BY <2>2, <3>1, RoleChanged
    <3> QED
      BY <3>2, <3>3
  <2>4. CASE r.role = "admin"
    <3>1. r.name \in Console!Admins(new)
      BY <1>1, <2>1, <2>3, <2>4 DEF Console!Admins, AccountConstants
    <3> QED
      BY <1>1, <2>1, <2>3, <3>1
  <2>5. CASE r.role # "admin"
    <3>1. Console!Admins(book) # {r.name}
      BY <1>7, <2>5 DEF Console!Allowed
    <3>2. PICK m \in Console!Admins(book) : m # r.name
      BY <1>4, <1>7, <3>1
    <3>3. m \in Console!Admins(new)
      BY <2>1, <3>2 DEF Console!Admins
    <3> QED
      BY <1>1, <2>1, <2>3, <3>3
  <2> QED
    BY <2>4, <2>5
<1> QED
  BY <1>1, <1>3, <1>5, <1>6, <1>7 DEF Commands

\* The steps that leave the accounts alone: none goes to "change", and none
\* takes the accounts' lock from its holder.
Elsewhere(t) ==
  /\ UNCHANGED users
  /\ DOMAIN stage' = Threads /\ DOMAIN req' = Threads /\ DOMAIN copy' = Threads
  /\ \A u \in Threads : stage'[u] = "change" => stage[u] = "change" /\ req'[u] = req[u] /\ copy'[u] = copy[u]
  /\ \A u \in Threads : stage'[u] = "account" => Asking(req'[u])
  /\ \A u \in Threads : stage'[u] = "change" /\ ulock = u => ulock' = u

LEMMA ElsewhereKeeps ==
  ASSUME AccountsShape, Booked, NEW t, Elsewhere(t)
  PROVE  AccountsShape' /\ Booked'
<1>1. AccountsShape'
  BY DEF AccountsShape, Elsewhere, Asking
<1>2. users' = users
  BY DEF Elsewhere
<1>3. ASSUME NEW u \in Threads, stage'[u] = "change"
      PROVE  ulock' = u /\ copy'[u] = users' /\ Console!Allowed(req'[u], users')
  BY <1>2, <1>3 DEF Booked, Elsewhere
<1>4. (\E m \in People : users'[m] # Nobody) => Console!Admins(users') # {}
  BY <1>2 DEF Booked
<1>5. Booked'
  BY <1>3, <1>4 DEF Booked
<1> QED
  BY <1>1, <1>5

\* What a step does to where a thread is, and to what it knows.
LEMMA Gone ==
  ASSUME AccountsShape, NEW t \in Threads, NEW l, Console!Go(t, l)
  PROVE  /\ DOMAIN stage' = Threads /\ stage'[t] = l
         /\ \A u \in Threads \ {t} : stage'[u] = stage[u]
  BY DEF AccountsShape, Console!Go

LEMMA Finished ==
  ASSUME AccountsShape, NEW t \in Threads, Console!Done(t)
  PROVE  /\ DOMAIN stage' = Threads /\ DOMAIN req' = Threads /\ DOMAIN copy' = Threads
         /\ stage'[t] = "idle"
         /\ \A u \in Threads \ {t} : stage'[u] = stage[u] /\ req'[u] = req[u] /\ copy'[u] = copy[u]
  BY DEF AccountsShape, Console!Go, Console!Done

LEMMA AccountsReads ==
  ASSUME AccountConstants, AccountsShape, Booked, NEW t \in Threads, Console!ReadUsers(t)
  PROVE  AccountsShape' /\ Booked'
<1>1. stage[t] = "account" /\ ulock = Unlocked /\ users' = users
  BY DEF Console!ReadUsers, Console!At, Console!files
<1>2. CASE Console!Allowed(req[t], users)
  <2>1. /\ ulock' = t /\ copy' = [copy EXCEPT ![t] = users] /\ Console!Go(t, "change")
        /\ req' = req
    BY <1>2 DEF Console!ReadUsers
  <2>2. /\ DOMAIN stage' = Threads /\ stage'[t] = "change"
        /\ \A u \in Threads \ {t} : stage'[u] = stage[u]
    BY <2>1, Gone
  <2>3. AccountsShape'
    BY <1>1, <2>1, <2>2 DEF AccountsShape, Asking
  <2>4. \A u \in Threads : stage[u] # "change"
    BY <1>1 DEF Booked, AccountConstants
  <2>5. ASSUME NEW u \in Threads, stage'[u] = "change"
        PROVE  ulock' = u /\ copy'[u] = users' /\ Console!Allowed(req'[u], users')
    BY <1>1, <1>2, <2>1, <2>2, <2>4, <2>5 DEF AccountsShape
  <2>6. (\E m \in People : users'[m] # Nobody) => Console!Admins(users') # {}
    BY <1>1 DEF Booked
  <2> QED
    BY <2>3, <2>5, <2>6 DEF Booked
<1>3. CASE ~Console!Allowed(req[t], users)
  <2>1. Console!Done(t) /\ ulock' = ulock
    BY <1>3 DEF Console!ReadUsers
  <2>2. Elsewhere(t)
    BY <1>1, <2>1, Finished DEF AccountsShape, Elsewhere
  <2> QED
    BY <2>2, ElsewhereKeeps
<1> QED
  BY <1>2, <1>3

LEMMA AccountsWrites ==
  ASSUME AccountConstants, AccountsShape, Booked, NEW t \in Threads, Console!WriteUsers(t)
  PROVE  /\ AccountsShape' /\ Booked'
         /\ \E m \in People : \A o \in People \ {m} : users'[o] = users[o]
         /\ Console!Admins(users') # {}
<1>1. /\ stage[t] = "change" /\ Asking(req[t])
      /\ users' = Console!Changed(req[t], users) /\ Console!Allowed(req[t], users)
      /\ ulock = t
  BY DEF Console!WriteUsers, Console!At, AccountsShape, Booked
<1>2. /\ users' \in [People -> Console!Entries \cup {Nobody}]
      /\ \A o \in People \ {req[t].name} : users'[o] = users[o]
      /\ Console!Admins(users') # {} /\ req[t].name \in People
  <2>1. Asking(req[t]) => req[t].name \in People
    BY DEF Asking
  <2> QED
    BY <1>1, <2>1, OneChange DEF AccountsShape, Booked
<1>3. /\ DOMAIN stage' = Threads /\ DOMAIN req' = Threads /\ DOMAIN copy' = Threads
      /\ stage'[t] \in {"idle", "enter"}
      /\ \A u \in Threads \ {t} : stage'[u] = stage[u] /\ req'[u] = req[u]
  <2>1. CASE req[t].op = "add"
    BY <2>1, Finished DEF Console!WriteUsers
  <2>2. CASE req[t].op # "add"
    <3>1. Console!Go(t, "enter") /\ copy' = [copy EXCEPT ![t] = {}] /\ req' = req
      BY <2>2 DEF Console!WriteUsers
    <3> QED
      BY <3>1, Gone DEF AccountsShape
  <2> QED
    BY <2>1, <2>2
<1>4. \A u \in Threads : stage'[u] # "change"
  BY <1>1, <1>3 DEF Booked
<1>5. AccountsShape'
  BY <1>2, <1>3 DEF AccountsShape, Asking
<1>6. Booked'
  BY <1>2, <1>4 DEF Booked
<1> QED
  BY <1>2, <1>5, <1>6

AccountsChange ==
  users' # users => /\ \E m \in People : \A o \in People \ {m} : users'[o] = users[o]
                    /\ Console!Admins(users') # {}

LEMMA AccountsStep ==
  ASSUME AccountConstants, AccountsShape, Booked, Console!Next
  PROVE  /\ AccountsShape' /\ Booked'
         /\ AccountsChange
<1>1. ASSUME NEW t \in Threads, Console!Begin(t) PROVE Elsewhere(t)
  <2>1. PICK r \in Offers[t] :
          /\ stage[t] = "idle" /\ req' = [req EXCEPT ![t] = r] /\ copy' = copy
          /\ ulock' = ulock /\ users' = users
          /\ Console!Go(t, CASE r.op = "request" -> "stamp" [] r.op = "signout" -> "enter"
                             [] r.op = "signin" -> "password" [] OTHER -> "account")
    BY <1>1 DEF Console!Begin, Console!At, Console!locks, Console!files
  <2>2. (CASE r.op = "request" -> "stamp" [] r.op = "signout" -> "enter"
          [] r.op = "signin" -> "password" [] OTHER -> "account")
        \in {"stamp", "enter", "password", "account"}
    OBVIOUS
  <2>3. stage'[t] = "account" => Asking(r)
    BY <2>1, Gone DEF AccountConstants, Asking
  <2>4. stage'[t] # "change"
    BY <2>1, <2>2, Gone
  <2> QED
    BY <2>1, <2>3, <2>4, Gone DEF AccountsShape, Elsewhere, Asking
<1>2. ASSUME NEW t \in Threads, Console!Password(t) PROVE Elsewhere(t)
  <2>1. /\ UNCHANGED <<users, ulock>>
        /\ \/ Console!Done(t)
           \/ UNCHANGED <<req, copy>> /\ Console!Go(t, "enter")
    BY <1>2 DEF Console!Password, Console!files, Console!locks, Console!local
  <2> QED
    BY <2>1, Gone, Finished DEF AccountsShape, Elsewhere
<1>3. ASSUME NEW t \in Threads, Console!Enter(t) PROVE Elsewhere(t)
  BY <1>3 DEF Console!Enter, Console!At, Console!Go, Console!files, AccountsShape, Elsewhere
<1>4. ASSUME NEW t \in Threads, Console!Rewrite(t) PROVE Elsewhere(t)
  <2>1. /\ UNCHANGED <<users, ulock>>
        /\ \/ Console!Go(t, "idle") /\ req' = [req EXCEPT ![t] = Console!NoRequest] /\ copy' = [copy EXCEPT ![t] = {}]
           \/ Console!Go(t, "answer") /\ UNCHANGED <<req, copy>>
    BY <1>4 DEF Console!Rewrite
  <2> QED
    BY <2>1, Gone DEF AccountsShape, Elsewhere
<1>5. ASSUME NEW t \in Threads, Console!Stamp(t) PROVE Elsewhere(t)
  <2>1. UNCHANGED <<users, ulock, req, copy>> /\ (Console!Go(t, "look") \/ Console!Go(t, "text"))
    BY <1>5 DEF Console!Stamp, Console!files
  <2> QED
    BY <2>1, Gone DEF AccountsShape, Elsewhere
<1>6. ASSUME NEW t \in Threads, Console!Text(t) PROVE Elsewhere(t)
  <2>1. UNCHANGED <<users, ulock, req, copy>> /\ Console!Go(t, "look")
    BY <1>6 DEF Console!Text, Console!files, Console!locks
  <2> QED
    BY <2>1, Gone DEF AccountsShape, Elsewhere
<1>7. ASSUME NEW t \in Threads, Console!Look(t) PROVE Elsewhere(t)
  <2>1. /\ UNCHANGED <<users, ulock>>
        /\ \/ Console!Done(t)
           \/ UNCHANGED <<req, copy>> /\ (Console!Go(t, "enter") \/ Console!Go(t, "answer"))
    BY <1>7 DEF Console!Look, Console!files, Console!local, Console!Go
  <2> QED
    BY <2>1, Gone, Finished DEF AccountsShape, Elsewhere
<1>8. ASSUME NEW t \in Threads, Console!Answer(t) PROVE Elsewhere(t)
  <2>1. UNCHANGED <<users, ulock>> /\ Console!Done(t)
    BY <1>8 DEF Console!Answer, Console!files, Console!locks
  <2> QED
    BY <2>1, Finished DEF AccountsShape, Elsewhere
<1>9. ASSUME NEW s \in Sids, Console!Age(s) PROVE Elsewhere(s)
  BY <1>9 DEF Console!Age, Console!locks, Console!local, AccountsShape, Elsewhere
<1>10. ASSUME NEW P \in Console!Processes, Console!Kill(P) PROVE Elsewhere(P)
  BY <1>10 DEF Console!Kill, Console!files, AccountsShape, Elsewhere
<1>11. CASE \E t : Elsewhere(t)
  BY <1>11, ElsewhereKeeps DEF Elsewhere, AccountsChange
<1>12. ASSUME NEW t \in Threads, Console!ReadUsers(t)
       PROVE  AccountsShape' /\ Booked' /\ users' = users
  BY <1>12, AccountsReads DEF Console!ReadUsers, Console!files
<1>13. CASE \E t \in Threads : Console!ReadUsers(t) \/ Console!WriteUsers(t)
  BY <1>12, <1>13, AccountsWrites DEF AccountsChange
<1> QED
  BY <1>1, <1>2, <1>3, <1>4, <1>5, <1>6, <1>7, <1>8, <1>9, <1>10, <1>11, <1>13
     DEF Console!Next, Console!Step, AccountsChange

-----------------------------------------------------------------------------
(* The sessions.                                                           *)

\* Whoever is about to replace the file holds its lock and has read what is still
\* in it, if it could; a process whose stamp is current has what is in the file; and
\* a request that came too late is not answered yet, of a session that is in neither
\* the file nor what its process has just looked at, unless it could not read.
SessionsShape ==
  /\ rows \subseteq made /\ \A P \in Console!Processes : kept[P] \subseteq made
  /\ DOMAIN stage = Threads /\ DOMAIN req = Threads /\ DOMAIN copy = Threads /\ DOMAIN late = Threads
  /\ DOMAIN unread = Threads
  /\ DOMAIN kept = Console!Processes /\ DOMAIN old = Console!Processes

LateShape == \A t \in Threads : late[t] \in BOOLEAN /\ unread[t] \in BOOLEAN

Rewriting == \A t \in Threads : stage[t] = "rewrite" =>
  /\ flock = t /\ copy[t] \subseteq made
  /\ unread[t] \/ copy[t] = rows

Stamped == \A P \in Console!Processes : old[P] = FALSE => kept[P] = rows

Unanswered(t) == /\ stage[t] \in {"stamp", "text", "look"}
                 /\ stage[t] = "look" => req[t].sid \notin kept[ProcOf[t]]

TooLate == \A t \in Threads : late[t] =>
  /\ req[t].op = "request" /\ req[t].sid \in made \ rows
  /\ unread[t] \/ Unanswered(t)

SessionsInv == SessionsShape /\ LateShape /\ Rewriting /\ Stamped /\ TooLate

SessionsKept ==
  /\ (rows' \ rows) \cap made # {} => \E t \in Threads : Console!At(t, "rewrite") /\ unread[t]
  /\ \A t \in Threads : late[t] /\ Console!Answered(t)' => unread[t]

LEMMA SessionsInit == ASSUME Init PROVE SessionsInv
  BY DEF Init, Console!Init, SessionsInv, SessionsShape, LateShape, Rewriting, Stamped, TooLate

\* A step that leaves the files, what is kept and the locks alone, and takes nobody
\* to a place where one of them matters.
Waiting(t) ==
  /\ UNCHANGED <<rows, kept, old, flock>> /\ made \subseteq made'
  /\ DOMAIN stage' = Threads /\ DOMAIN req' = Threads /\ DOMAIN copy' = Threads /\ DOMAIN late' = Threads
  /\ DOMAIN unread' = Threads
  /\ \A u \in Threads : late'[u] \in BOOLEAN /\ unread'[u] \in BOOLEAN
  /\ \A u \in Threads : stage'[u] = "rewrite" =>
       stage[u] = "rewrite" /\ copy'[u] = copy[u] /\ unread'[u] = unread[u]
  /\ \A u \in Threads : late'[u] =>
       /\ req'[u].op = "request" /\ req'[u].sid \in made \ rows
       /\ unread'[u] \/ Unanswered(u)'
  /\ \A u \in Threads : stage'[u] = "answer" => ~late[u] \/ unread[u]

LEMMA WaitingKeeps ==
  ASSUME SessionsInv, NEW t, Waiting(t)
  PROVE  SessionsInv' /\ SessionsKept
<1>1. SessionsShape' /\ LateShape'
  BY DEF Waiting, SessionsInv, SessionsShape, LateShape
<1>2. Rewriting' /\ Stamped' /\ TooLate'
  BY DEF Waiting, SessionsInv, Rewriting, Stamped, TooLate
<1>3. SessionsKept
  BY DEF Waiting, SessionsKept, Console!Answered, Console!At
<1> QED
  BY <1>1, <1>2, <1>3 DEF SessionsInv

\* The whole of the file is written by the holder of its lock: nothing comes in
\* that was there before and is not now.
LEMMA Replacing ==
  ASSUME SessionsInv, Unlocked \notin Threads, NEW t \in Threads, NEW l \in {"idle", "answer"}, NEW new,
         stage[t] = "rewrite", unread[t] \/ (new \cap made \subseteq rows), new \subseteq made', made \subseteq made',
         Console!Replace(t, new), Console!Go(t, l), DOMAIN req' = Threads, DOMAIN copy' = Threads,
         DOMAIN unread' = Threads, unread'[t] \in BOOLEAN,
         \A u \in Threads \ {t} : req'[u] = req[u] /\ copy'[u] = copy[u] /\ unread'[u] = unread[u],
         late' = [u \in Threads |-> late[u] /\ req[u].sid \notin rows'],
         late[t] => req'[t] = req[t] /\ unread'[t] = unread[t]
  PROVE  SessionsInv' /\ SessionsKept
<1>1. /\ rows' \subseteq new /\ kept' = [kept EXCEPT ![ProcOf[t]] = rows']
      /\ old' = [P \in Console!Processes |-> P # ProcOf[t]]
  BY DEF Console!Replace
<1>2. /\ DOMAIN stage' = Threads /\ stage'[t] = l
      /\ \A u \in Threads \ {t} : stage'[u] = stage[u]
  BY DEF SessionsInv, SessionsShape, Console!Go
<1>3. \A u \in Threads \ {t} : stage[u] # "rewrite"
  BY DEF SessionsInv, Rewriting
<1>4. late[t] => unread[t]
  BY DEF SessionsInv, TooLate, Unanswered
<1>5. SessionsShape' /\ LateShape'
  BY <1>1, <1>2 DEF SessionsInv, SessionsShape, LateShape
<1>6. Rewriting'
  BY <1>2, <1>3 DEF Rewriting
<1>7. Stamped'
  BY <1>1 DEF Stamped, SessionsInv, SessionsShape
<1>8. \A u \in Threads : late'[u] => late[u] /\ req[u].sid \in made \ rows'
  BY DEF SessionsInv, TooLate
<1>9. TooLate'
  <2> SUFFICES ASSUME NEW u \in Threads, late'[u]
               PROVE  /\ req'[u].op = "request" /\ req'[u].sid \in made' \ rows'
                      /\ unread'[u] \/ Unanswered(u)'
    BY DEF TooLate
  <2>1. late[u] /\ req'[u] = req[u] /\ req[u].op = "request" /\ req[u].sid \in made \ rows'
    BY <1>8 DEF SessionsInv, TooLate
  <2>2. CASE u = t
    BY <1>4, <2>1, <2>2
  <2>3. CASE u # t
    <3>1. kept'[ProcOf[u]] \in {kept[ProcOf[u]], rows'}
      BY <1>1 DEF SessionsInv, SessionsShape
    <3>2. stage'[u] = stage[u] /\ unread'[u] = unread[u] /\ (unread[u] \/ Unanswered(u))
      BY <1>2, <2>1, <2>3 DEF SessionsInv, TooLate
    <3> QED
      BY <2>1, <3>1, <3>2 DEF Unanswered
  <2> QED
    BY <2>1, <2>2, <2>3
<1>10. SessionsKept
  <2>1. (rows' \ rows) \cap made # {} => Console!At(t, "rewrite") /\ unread[t]
    BY <1>1 DEF Console!At
  <2>2. ASSUME NEW u \in Threads, late[u], stage'[u] = "answer" PROVE unread[u]
    BY <1>2, <1>4, <2>2 DEF SessionsInv, TooLate, Unanswered
  <2> QED
    BY <2>1, <2>2 DEF SessionsKept, Console!Answered, Console!At
<1> QED
  BY <1>5, <1>6, <1>7, <1>9, <1>10 DEF SessionsInv

LEMMA Going ==
  ASSUME SessionsShape, NEW t \in Threads, NEW l, Console!Go(t, l)
  PROVE  /\ DOMAIN stage' = Threads /\ stage'[t] = l
         /\ \A u \in Threads \ {t} : stage'[u] = stage[u]
  BY DEF SessionsShape, Console!Go

LEMMA Ended ==
  ASSUME SessionsShape, NEW t \in Threads, Console!Done(t)
  PROVE  /\ DOMAIN stage' = Threads /\ DOMAIN req' = Threads /\ DOMAIN copy' = Threads /\ DOMAIN late' = Threads
         /\ DOMAIN unread' = Threads
         /\ stage'[t] = "idle" /\ late'[t] = FALSE /\ unread'[t] = FALSE
         /\ \A u \in Threads \ {t} : /\ stage'[u] = stage[u] /\ req'[u] = req[u]
                                      /\ copy'[u] = copy[u] /\ late'[u] = late[u]
                                      /\ unread'[u] = unread[u]
  BY DEF SessionsShape, Console!Go, Console!Done

LEMMA DoneWaits ==
  ASSUME SessionsInv, NEW t \in Threads, Console!Done(t), UNCHANGED <<rows, made, kept, old, flock>>
  PROVE  Waiting(t)
<1>1. /\ DOMAIN stage' = Threads /\ DOMAIN req' = Threads /\ DOMAIN copy' = Threads /\ DOMAIN late' = Threads
      /\ DOMAIN unread' = Threads
      /\ stage'[t] = "idle" /\ late'[t] = FALSE /\ unread'[t] = FALSE
      /\ \A u \in Threads \ {t} : /\ stage'[u] = stage[u] /\ req'[u] = req[u]
                                   /\ copy'[u] = copy[u] /\ late'[u] = late[u]
                                   /\ unread'[u] = unread[u]
  BY Ended DEF SessionsInv
<1> QED
  BY <1>1 DEF Waiting, SessionsInv, SessionsShape, LateShape, TooLate, Unanswered

\* A thread that is not late goes on, and not to the file.
LEMMA GoWaits ==
  ASSUME SessionsInv, NEW t \in Threads, NEW l, Console!Go(t, l), l # "rewrite", ~late[t] \/ unread[t],
         UNCHANGED <<rows, made, kept, old, flock, req, late, unread>>, DOMAIN copy' = Threads,
         \A u \in Threads \ {t} : copy'[u] = copy[u]
  PROVE  Waiting(t)
<1>1. /\ DOMAIN stage' = Threads /\ stage'[t] = l
      /\ \A u \in Threads \ {t} : stage'[u] = stage[u]
  BY Going DEF SessionsInv
<1> QED
  BY <1>1 DEF Waiting, SessionsInv, SessionsShape, LateShape, TooLate, Unanswered

LEMMA BeginWaits ==
  ASSUME SessionsInv, NEW t \in Threads, Console!Begin(t)
  PROVE  Waiting(t)
<1>1. PICK r \in Offers[t] :
        /\ stage[t] = "idle" /\ (r.op \in {"request", "signout"} => r.sid \in made)
        /\ req' = [req EXCEPT ![t] = r]
        /\ late' = [late EXCEPT ![t] = r.op = "request" /\ r.sid \notin rows]
        /\ Console!Go(t, CASE r.op = "request" -> "stamp" [] r.op = "signout" -> "enter"
                           [] r.op = "signin" -> "password" [] OTHER -> "account")
        /\ UNCHANGED <<rows, made, kept, old, flock, copy, unread>>
  BY DEF Console!Begin, Console!At, Console!files, Console!caches, Console!locks
<1> DEFINE l == CASE r.op = "request" -> "stamp" [] r.op = "signout" -> "enter"
                  [] r.op = "signin" -> "password" [] OTHER -> "account"
<1>2. l # "rewrite" /\ l # "answer" /\ (r.op = "request" => l = "stamp")
  OBVIOUS
<1>3. /\ DOMAIN stage' = Threads /\ stage'[t] = l
      /\ \A u \in Threads \ {t} : stage'[u] = stage[u]
  BY <1>1, Going DEF SessionsInv
<1> HIDE DEF l
<1>4. late'[t] = (r.op = "request" /\ r.sid \notin rows)
  BY <1>1 DEF SessionsInv, SessionsShape
<1>5. late'[t] \in BOOLEAN
  BY <1>4
<1>6. ASSUME late'[t]
      PROVE  stage'[t] = "stamp" /\ req'[t].op = "request" /\ req'[t].sid \in made \ rows
  BY <1>1, <1>2, <1>3, <1>4, <1>6 DEF SessionsInv, SessionsShape
<1>7. \A u \in Threads \ {t} : req'[u] = req[u] /\ late'[u] = late[u]
  BY <1>1
<1> QED
  BY <1>1, <1>2, <1>3, <1>5, <1>6, <1>7
     DEF Waiting, SessionsInv, SessionsShape, LateShape, TooLate, Unanswered

LEMMA StampWaits ==
  ASSUME SessionsInv, NEW t \in Threads, ProcOf[t] \in Console!Processes, Console!Stamp(t)
  PROVE  Waiting(t)
<1>1. /\ stage[t] = "stamp" /\ UNCHANGED <<rows, made, kept, old, flock, req, copy, late, unread>>
      /\ \/ ~old[ProcOf[t]] /\ Console!Go(t, "look")
         \/ Console!Go(t, "text")
  BY DEF Console!Stamp, Console!At, Console!files, Console!caches
<1>2. PICK l \in {"look", "text"} : /\ Console!Go(t, l)
                                    /\ l = "look" => ~old[ProcOf[t]]
  BY <1>1
<1>3. /\ DOMAIN stage' = Threads /\ stage'[t] = l
      /\ \A u \in Threads \ {t} : stage'[u] = stage[u]
  BY <1>2, Going DEF SessionsInv
<1>4. l = "look" => kept[ProcOf[t]] = rows
  BY <1>2 DEF SessionsInv, Stamped
<1> QED
  BY <1>1, <1>3, <1>4 DEF Waiting, SessionsInv, SessionsShape, LateShape, TooLate, Unanswered

LEMMA LookWaits ==
  ASSUME SessionsInv, NEW t \in Threads, Console!Look(t)
  PROVE  Waiting(t)
<1>1. stage[t] = "look" /\ UNCHANGED <<rows, made, kept, old, flock>>
  BY DEF Console!Look, Console!At, Console!files, Console!caches
<1>2. CASE req[t].sid \in kept[ProcOf[t]] \ aged
  <2>1. /\ Console!Go(t, "enter") \/ Console!Go(t, "answer")
        /\ UNCHANGED <<req, copy, late, unread>>
    BY <1>2 DEF Console!Look, Console!Go, Console!local
  <2>2. ~late[t] \/ unread[t]
    BY <1>1, <1>2 DEF SessionsInv, TooLate, Unanswered
  <2> QED
    BY <1>1, <2>1, <2>2, GoWaits DEF SessionsInv, SessionsShape
<1>3. CASE req[t].sid \notin kept[ProcOf[t]] \ aged
  BY <1>1, <1>3, DoneWaits DEF Console!Look
<1> QED
  BY <1>2, <1>3

\* Reading the file again, and the copy with it.
LEMMA Rereading ==
  ASSUME SessionsInv, NEW t \in Threads, NEW l \in {"rewrite", "look"}, Console!Go(t, l),
         UNCHANGED <<rows, made, req, late, unread>>, DOMAIN copy' = Threads,
         \A u \in Threads \ {t} : copy'[u] = copy[u],
         kept' = [kept EXCEPT ![ProcOf[t]] = rows], DOMAIN old' = Console!Processes,
         \A P \in Console!Processes \ {ProcOf[t]} : old'[P] = old[P],
         l = "rewrite" => /\ late[t] => unread[t]
                          /\ flock' = t /\ copy'[t] = rows /\ flock \notin Threads,
         l = "look" => flock' = flock /\ (late[t] => stage[t] = "text")
  PROVE  SessionsInv' /\ SessionsKept
<1>1. /\ DOMAIN stage' = Threads /\ stage'[t] = l
      /\ \A u \in Threads \ {t} : stage'[u] = stage[u]
  BY Going DEF SessionsInv
<1>2. SessionsShape' /\ LateShape'
  BY <1>1 DEF SessionsInv, SessionsShape, LateShape
<1>3. Rewriting'
  <2> SUFFICES ASSUME NEW u \in Threads, stage'[u] = "rewrite"
               PROVE  flock' = u /\ copy'[u] \subseteq made' /\ (unread'[u] \/ copy'[u] = rows')
    BY DEF Rewriting
  <2>1. CASE u = t
    BY <1>1, <2>1 DEF SessionsInv, SessionsShape
  <2>2. CASE u # t
    <3>1. /\ flock = u /\ copy[u] \subseteq made
          /\ unread[u] \/ copy[u] = rows
      BY <1>1, <2>2 DEF SessionsInv, Rewriting
    <3>2. l = "look"
      BY <3>1
    <3> QED
      BY <2>2, <3>1, <3>2
  <2> QED
    BY <2>1, <2>2
<1>4. Stamped'
  BY DEF SessionsInv, SessionsShape, Stamped
<1>5. \A u \in Threads : kept'[ProcOf[u]] \in {kept[ProcOf[u]], rows}
  BY DEF SessionsInv, SessionsShape
<1>6. \A P \in Console!Processes : P = ProcOf[t] => kept'[P] = rows
  BY DEF SessionsInv, SessionsShape
<1>7. ProcOf[t] \in Console!Processes
  BY DEF Console!Processes
<1>8. TooLate'
  BY <1>1, <1>5, <1>6, <1>7 DEF SessionsInv, TooLate, Unanswered
<1>9. SessionsKept
  BY <1>1 DEF SessionsInv, TooLate, Unanswered, SessionsKept, Console!Answered, Console!At
<1> QED
  BY <1>2, <1>3, <1>4, <1>8, <1>9 DEF SessionsInv

\* The file cannot be read, and what the process has kept of it is used.
LEMMA NotReading ==
  ASSUME SessionsInv, NEW t \in Threads, NEW l \in {"rewrite", "look"}, Console!Go(t, l),
         UNCHANGED <<rows, made, req, late, kept, old>>, unread' = [unread EXCEPT ![t] = TRUE],
         DOMAIN copy' = Threads, \A u \in Threads \ {t} : copy'[u] = copy[u],
         l = "rewrite" => flock' = t /\ copy'[t] \subseteq made /\ flock \notin Threads,
         l = "look" => flock' = flock
  PROVE  SessionsInv' /\ SessionsKept
<1>1. /\ DOMAIN stage' = Threads /\ stage'[t] = l
      /\ \A u \in Threads \ {t} : stage'[u] = stage[u]
  BY Going DEF SessionsInv
<1>2. unread'[t] = TRUE /\ \A u \in Threads \ {t} : unread'[u] = unread[u]
  BY DEF SessionsInv, SessionsShape
<1>3. SessionsShape' /\ LateShape'
  BY <1>1, <1>2 DEF SessionsInv, SessionsShape, LateShape
<1>4. Rewriting' /\ Stamped'
  BY <1>1, <1>2 DEF SessionsInv, Rewriting, Stamped
<1>5. TooLate'
  BY <1>1, <1>2 DEF SessionsInv, TooLate, Unanswered
<1>6. SessionsKept
  BY <1>1 DEF SessionsInv, TooLate, Unanswered, SessionsKept, Console!Answered, Console!At
<1> QED
  BY <1>3, <1>4, <1>5, <1>6 DEF SessionsInv

LEMMA EnterKeeps ==
  ASSUME SessionsInv, Unlocked \notin Threads, NEW t \in Threads, Console!Enter(t)
  PROVE  SessionsInv' /\ SessionsKept
<1> DEFINE P == ProcOf[t]
<1>1. /\ stage[t] = "enter" /\ flock = Unlocked /\ flock' = t
      /\ copy' = [copy EXCEPT ![t] = kept'[P]] /\ Console!Load(t, P, TRUE)
      /\ Console!Go(t, "rewrite") /\ UNCHANGED <<rows, made, req, late>>
  BY DEF Console!Enter, Console!At, Console!files
<1>2. /\ P \in Console!Processes /\ DOMAIN copy' = Threads /\ copy'[t] = kept'[P]
      /\ \A u \in Threads \ {t} : copy'[u] = copy[u]
      /\ late[t] => unread[t]
  BY <1>1 DEF SessionsInv, SessionsShape, TooLate, Unanswered, Console!Processes
<1>3. CASE /\ kept' = [kept EXCEPT ![P] = rows] /\ old' = [old EXCEPT ![P] = FALSE]
           /\ UNCHANGED unread
  <2>1. /\ copy'[t] = rows /\ DOMAIN old' = Console!Processes
        /\ \A Q \in Console!Processes \ {P} : old'[Q] = old[Q]
    BY <1>2, <1>3 DEF SessionsInv, SessionsShape
  <2> QED
    BY <1>1, <1>2, <1>3, <2>1, Rereading
<1>4. CASE UNCHANGED <<kept, old>> /\ unread' = [unread EXCEPT ![t] = TRUE]
  <2>1. copy'[t] \subseteq made
    BY <1>2, <1>4 DEF SessionsInv, SessionsShape
  <2> QED
    BY <1>1, <1>2, <1>4, <2>1, NotReading
<1> QED
  BY <1>1, <1>3, <1>4 DEF Console!Load, Console!caches

LEMMA TextKeeps ==
  ASSUME SessionsInv, NEW t \in Threads, Console!Text(t)
  PROVE  SessionsInv' /\ SessionsKept
<1>1. /\ stage[t] = "text" /\ Console!Load(t, ProcOf[t], ~torn[t])
      /\ Console!Go(t, "look") /\ UNCHANGED <<rows, made, flock, req, copy, late>>
  BY DEF Console!Text, Console!At, Console!files, Console!locks
<1>2. DOMAIN copy' = Threads /\ \A u \in Threads \ {t} : copy'[u] = copy[u]
  BY <1>1 DEF SessionsInv, SessionsShape
<1>3. CASE \E current : /\ kept' = [kept EXCEPT ![ProcOf[t]] = rows]
                        /\ old' = [old EXCEPT ![ProcOf[t]] = current]
                        /\ UNCHANGED unread
  <2>1. /\ DOMAIN old' = Console!Processes
        /\ \A P \in Console!Processes \ {ProcOf[t]} : old'[P] = old[P]
    BY <1>3 DEF SessionsInv, SessionsShape
  <2> QED
    BY <1>1, <1>2, <1>3, <2>1, Rereading
<1>4. CASE UNCHANGED <<kept, old>> /\ unread' = [unread EXCEPT ![t] = TRUE]
  BY <1>1, <1>2, <1>4, NotReading
<1> QED
  BY <1>1, <1>3, <1>4 DEF Console!Load, Console!caches

\* The lock is given back, and nothing written.
LEMMA LeavingKeeps ==
  ASSUME SessionsInv, Unlocked \notin Threads, NEW t \in Threads, NEW l \in {"idle", "answer"},
         stage[t] = "rewrite", Console!Go(t, l), UNCHANGED <<rows, made, kept, old>>,
         late' = [u \in Threads |-> late[u] /\ req[u].sid \notin rows'],
         late[t] => req'[t] = req[t] /\ unread'[t] = unread[t],
         DOMAIN unread' = Threads, unread'[t] \in BOOLEAN,
         flock' = IF flock = t THEN Unlocked ELSE flock,
         DOMAIN req' = Threads, DOMAIN copy' = Threads,
         \A u \in Threads \ {t} : req'[u] = req[u] /\ copy'[u] = copy[u] /\ unread'[u] = unread[u]
  PROVE  SessionsInv' /\ SessionsKept
<1>1. /\ DOMAIN stage' = Threads /\ stage'[t] = l
      /\ \A u \in Threads \ {t} : stage'[u] = stage[u]
  BY Going DEF SessionsInv
<1>2. SessionsShape' /\ LateShape' /\ Stamped'
  BY <1>1 DEF SessionsInv, SessionsShape, LateShape, Stamped
<1>3. Rewriting'
  BY <1>1 DEF SessionsInv, Rewriting
<1>4. TooLate' /\ SessionsKept
  <2>1. late[t] => unread[t]
    BY DEF SessionsInv, TooLate, Unanswered
  <2>2. TooLate'
    BY <1>1, <2>1 DEF SessionsInv, TooLate, Unanswered
  <2>3. SessionsKept
    BY <1>1, <2>1 DEF SessionsInv, TooLate, Unanswered, SessionsKept, Console!Answered, Console!At
  <2> QED
    BY <2>2, <2>3
<1> QED
  BY <1>2, <1>3, <1>4 DEF SessionsInv

LEMMA RewriteKeeps ==
  ASSUME SessionsInv, Unlocked \notin Threads, NEW t \in Threads, Console!Rewrite(t)
  PROVE  SessionsInv' /\ SessionsKept
<1> DEFINE r == req[t]
           ending == IF r.op = "signout" THEN {r.sid}
                     ELSE {s \in Sids : r.op # "signin" /\ r.op # "request" /\ UserOf[s] = r.name}
           Stops == /\ Console!Go(t, "idle") /\ req' = [req EXCEPT ![t] = Console!NoRequest]
                    /\ copy' = [copy EXCEPT ![t] = {}] /\ unread' = [unread EXCEPT ![t] = FALSE]
                    /\ r.op # "request"
           Goes == Console!Go(t, "answer") /\ UNCHANGED <<req, copy, unread>>
<1>1. /\ stage[t] = "rewrite" /\ (unread[t] \/ copy[t] = rows) /\ copy[t] \subseteq made
      /\ late' = [u \in Threads |-> late[u] /\ req[u].sid \notin rows']
      /\ flock' = IF flock = t THEN Unlocked ELSE flock
  BY DEF Console!Rewrite, Console!Leave, Console!At, SessionsInv, Rewriting, SessionsShape
<1>2. \/ /\ \E s \in Sids \ made : /\ UserOf[s] = r.name
                                    /\ made' = made \cup {s} /\ UNCHANGED aged
                                    /\ Console!Replace(t, copy[t] \cup {s})
         /\ Stops
      \/ /\ made' = made
         /\ IF r.sid \in copy[t]
            THEN aged' = aged \ {r.sid} /\ Console!Replace(t, copy[t])
            ELSE UNCHANGED <<aged, rows, kept, old, torn>>
         /\ Goes
      \/ /\ UNCHANGED <<made, aged>>
         /\ IF copy[t] \cap ending # {} THEN Console!Replace(t, copy[t] \ ending)
            ELSE UNCHANGED <<rows, kept, old, torn>>
         /\ Stops
  BY DEF Console!Rewrite
<1>3. ASSUME Stops \/ Goes
      PROVE  /\ DOMAIN req' = Threads /\ DOMAIN copy' = Threads
             /\ DOMAIN unread' = Threads /\ unread'[t] \in BOOLEAN
             /\ \A u \in Threads \ {t} : req'[u] = req[u] /\ copy'[u] = copy[u] /\ unread'[u] = unread[u]
             /\ late[t] => req'[t] = req[t] /\ unread'[t] = unread[t]
             /\ \E l \in {"idle", "answer"} : Console!Go(t, l)
  BY <1>3 DEF SessionsInv, SessionsShape, LateShape, TooLate
<1>4. Stops \/ Goes
  BY <1>2
<1> HIDE DEF Stops, Goes, ending
<1>5. CASE \E new : /\ Console!Replace(t, new) /\ (unread[t] \/ (new \cap made \subseteq rows))
                    /\ new \subseteq made' /\ made \subseteq made'
  BY <1>1, <1>3, <1>4, <1>5, Replacing
<1>6. CASE UNCHANGED <<rows, made, kept, old>>
  BY <1>1, <1>3, <1>4, <1>6, LeavingKeeps
<1>7. ASSUME NEW s \in Sids \ made, made' = made \cup {s}, Console!Replace(t, copy[t] \cup {s})
      PROVE  SessionsInv' /\ SessionsKept
  <2>1. /\ unread[t] \/ ((copy[t] \cup {s}) \cap made \subseteq rows)
        /\ copy[t] \cup {s} \subseteq made' /\ made \subseteq made'
    BY <1>1, <1>7
  <2> QED
    BY <1>5, <1>7, <2>1
<1>8. ASSUME made' = made, Console!Replace(t, copy[t]) PROVE SessionsInv' /\ SessionsKept
  <2>1. (unread[t] \/ (copy[t] \cap made \subseteq rows)) /\ copy[t] \subseteq made' /\ made \subseteq made'
    BY <1>1, <1>8
  <2> QED
    BY <1>5, <1>8, <2>1
<1>9. ASSUME made' = made, Console!Replace(t, copy[t] \ ending) PROVE SessionsInv' /\ SessionsKept
  <2>1. /\ unread[t] \/ ((copy[t] \ ending) \cap made \subseteq rows)
        /\ copy[t] \ ending \subseteq made' /\ made \subseteq made'
    BY <1>1, <1>9
  <2> QED
    BY <1>5, <1>9, <2>1
<1> QED
  BY <1>2, <1>6, <1>7, <1>8, <1>9

LEMMA KillKeeps ==
  ASSUME SessionsInv, Unlocked \notin Threads, NEW P \in Console!Processes, Console!Kill(P)
  PROVE  SessionsInv' /\ SessionsKept
<1> DEFINE dead == {t \in Threads : ProcOf[t] = P}
<1>1. /\ UNCHANGED <<rows, made>>
      /\ stage' = [t \in Threads |-> IF t \in dead THEN "idle" ELSE stage[t]]
      /\ req' = [t \in Threads |-> IF t \in dead THEN Console!NoRequest ELSE req[t]]
      /\ copy' = [t \in Threads |-> IF t \in dead THEN {} ELSE copy[t]]
      /\ late' = [t \in Threads |-> t \notin dead /\ late[t]]
      /\ unread' = [t \in Threads |-> t \notin dead /\ unread[t]]
      /\ kept' = [kept EXCEPT ![P] = {}] /\ old' = [old EXCEPT ![P] = TRUE]
      /\ flock' = IF flock \in dead THEN Unlocked ELSE flock
  BY DEF Console!Kill, Console!files
<1> HIDE DEF dead
<1>2. SessionsShape' /\ LateShape'
  BY <1>1 DEF SessionsInv, SessionsShape, LateShape
<1>3. Rewriting'
  BY <1>1 DEF SessionsInv, SessionsShape, Rewriting
<1>4. Stamped'
  BY <1>1 DEF SessionsInv, SessionsShape, Stamped
<1>5. \A t \in Threads : kept'[ProcOf[t]] \in {kept[ProcOf[t]], {}}
  BY <1>1 DEF SessionsInv, SessionsShape
<1>6. TooLate'
  BY <1>1, <1>5 DEF SessionsInv, TooLate, Unanswered
<1>7. SessionsKept
  BY <1>1 DEF SessionsInv, TooLate, Unanswered, SessionsKept, Console!Answered, Console!At
<1> QED
  BY <1>2, <1>3, <1>4, <1>6, <1>7 DEF SessionsInv

LEMMA SessionsStep ==
  ASSUME Unlocked \notin Threads, SessionsInv, Console!Next
  PROVE  SessionsInv' /\ SessionsKept
<1>1. ASSUME NEW t \in Threads, Console!ReadUsers(t) PROVE Waiting(t)
  <2>1. /\ stage[t] = "account" /\ UNCHANGED <<rows, made, kept, old, flock>>
        /\ \/ Console!Done(t)
           \/ /\ copy' = [copy EXCEPT ![t] = users] /\ Console!Go(t, "change")
              /\ UNCHANGED <<req, late, unread>>
    BY <1>1 DEF Console!ReadUsers, Console!At, Console!files, Console!caches
  <2> QED
    BY <2>1, DoneWaits, GoWaits DEF SessionsInv, SessionsShape, TooLate, Unanswered
<1>2. ASSUME NEW t \in Threads, Console!WriteUsers(t) PROVE Waiting(t)
  <2>1. /\ stage[t] = "change" /\ UNCHANGED <<rows, made, kept, old, flock>>
        /\ \/ Console!Done(t)
           \/ /\ copy' = [copy EXCEPT ![t] = {}] /\ Console!Go(t, "enter")
              /\ UNCHANGED <<req, late, unread>>
    BY <1>2 DEF Console!WriteUsers, Console!At, Console!caches
  <2> QED
    BY <2>1, DoneWaits, GoWaits DEF SessionsInv, SessionsShape, TooLate, Unanswered
<1>3. ASSUME NEW t \in Threads, Console!Password(t) PROVE Waiting(t)
  <2>1. /\ stage[t] = "password" /\ UNCHANGED <<rows, made, kept, old, flock>>
        /\ \/ Console!Done(t)
           \/ Console!Go(t, "enter") /\ UNCHANGED <<req, copy, late, unread>>
    BY <1>3 DEF Console!Password, Console!At, Console!files, Console!caches, Console!locks, Console!local
  <2> QED
    BY <2>1, DoneWaits, GoWaits DEF SessionsInv, SessionsShape, TooLate, Unanswered
<1>4. ASSUME NEW t \in Threads, Console!Answer(t) PROVE Waiting(t)
  BY <1>4, DoneWaits DEF Console!Answer, Console!files, Console!caches, Console!locks
<1>5. ASSUME NEW s \in Sids, Console!Age(s) PROVE Waiting(s)
  BY <1>5 DEF Console!Age, Console!caches, Console!locks, Console!local,
              Waiting, SessionsInv, SessionsShape, LateShape, TooLate, Unanswered
<1>6. \A t \in Threads : ProcOf[t] \in Console!Processes
  BY DEF Console!Processes
<1>7. CASE \E t : Waiting(t)
  BY <1>7, WaitingKeeps
<1> QED
  BY <1>1, <1>2, <1>3, <1>4, <1>5, <1>6, <1>7, BeginWaits, StampWaits, LookWaits,
     EnterKeeps, TextKeeps, RewriteKeeps, KillKeeps DEF Console!Next, Console!Step

LEMMA SessionsAside ==
  ASSUME UNCHANGED consoleVars, SessionsInv
  PROVE  SessionsInv' /\ SessionsKept
<1>1. SessionsShape' /\ LateShape' /\ Rewriting' /\ Stamped' /\ TooLate'
  BY DEF consoleVars, SessionsInv, SessionsShape, LateShape, Rewriting, Stamped, TooLate, Unanswered
<1>2. SessionsKept
  BY DEF consoleVars, SessionsInv, TooLate, Unanswered, SessionsKept, Console!Answered, Console!At
<1> QED
  BY <1>1, <1>2 DEF SessionsInv

LEMMA AccountsAside ==
  ASSUME UNCHANGED consoleVars, AccountsShape, Booked
  PROVE  AccountsShape' /\ Booked'
<1>1. /\ UNCHANGED <<users, stage, req, copy, ulock>>
  BY DEF consoleVars
<1>2. Elsewhere(0)
  BY <1>1 DEF AccountsShape, Elsewhere
<1> QED
  BY <1>2, ElsewhereKeeps

\* A session that has ended does not come back, and a request that begins after
\* its end is not answered for it (services/sessions.py: _load, verify, _write),
\* for any threads, processes, accounts and requests.
THEOREM EndedSessionsStayEnded == Spec => SessionsStayEnded
<1>1. Init => SessionsInv
  BY SessionsInit
<1>2. SessionsInv /\ [Next]_vars => SessionsInv' /\ SessionsKept
  BY HostConstants, SessionsStep, SessionsAside
     DEF AccountConstants, Next, Workspaces, Accounting, Seeding, Searching, Looking, Setting, vars
<1>3. Spec => [][SessionsKept]_(Console!vars)
  BY <1>1, <1>2, PTL DEF Spec
<1>4. (Spec => [][SessionsKept]_(Console!vars)) => (Spec => SessionsStayEnded)
  BY DEF SessionsStayEnded, Console!SessionsStayEnded, SessionsKept
<1> QED
  BY <1>3, <1>4, PTL

-----------------------------------------------------------------------------
(* The settings.                                                           *)

Stages == {"idle", "recall", "mutex", "flock", "load", "save"}
OnKeys(f) == f = [k \in Config!Keys |-> f[k]]

SettingsShape ==
  /\ OnKeys(config)
  /\ DOMAIN cstage = Threads /\ DOMAIN ask = Threads /\ DOMAIN cfg = Threads
  /\ \A t \in Threads :
       /\ cstage[t] \in Stages /\ OnKeys(cfg[t])
       /\ cstage[t] # "idle" => ask[t].op \in {"set", "remember", "unset", "removed"}
       /\ cstage[t] = "recall" => ask[t].op = "remember"

\* Whoever reads or writes the file under the locks has the one of the file.
UnderFlock == \A t \in Threads :
  cstage[t] \in {"load", "save"} /\ ask[t].op # "remember" => cflock = t

\* What such a thread has loaded is what the file is, until serve overtakes it.
LoadedIsCurrent == \A t \in Threads :
  cstage[t] = "save" /\ ask[t].op # "remember" => t \in passed \/ cfg[t] = config

SettingsInv == SettingsShape /\ UnderFlock /\ LoadedIsCurrent

LEMMA LoadedOnKeys == ASSUME NEW t, NEW e PROVE OnKeys(Config!Loaded(t, e))
  BY DEF Config!Loaded, OnKeys

\* A request changes keys of the file and adds none.
LEMMA MutatedOnKeys ==
  ASSUME NEW c, OnKeys(c), NEW request,
         request.op \in {"set", "remember", "unset", "removed"}
  PROVE  OnKeys(Config!Mutated(request, c))
<1>1. \A key, value : OnKeys([c EXCEPT ![key] = value])
  BY DEF OnKeys
<1>2. CASE request.op \in {"set", "remember"}
  BY <1>1, <1>2 DEF Config!Mutated
<1>3. CASE request.op = "unset"
  BY <1>1, <1>3 DEF Config!Mutated
<1>4. CASE request.op = "removed"
  BY <1>1, <1>4 DEF Config!Mutated
<1> QED
  BY <1>2, <1>3, <1>4

\* The invariant holds where nobody has asked for anything.
LEMMA SettingsInit == Config!Init => SettingsInv
  BY DEF Config!Init, SettingsInv, SettingsShape, UnderFlock, LoadedIsCurrent, Stages, OnKeys, Config!Empty

LEMMA SaveKeeps ==
  ASSUME SettingConstants, SettingsInv, NEW t \in Threads, Config!Save(t)
  PROVE  SettingsInv'
<1>1. OnKeys(config')
  BY MutatedOnKeys DEF Config!Save, SettingsInv, SettingsShape
<1>2. SettingsShape'
  <2>1. OnKeys(Config!Empty)
    BY DEF Config!Empty, OnKeys
  <2>2. \A u \in Threads : OnKeys(cfg'[u])
    BY <2>1 DEF Config!Save, SettingsInv, SettingsShape
  <2> QED
    BY <1>1, <2>2 DEF Config!Save, SettingsInv, SettingsShape, Stages
<1>3. UnderFlock'
  BY DEF Config!Save, SettingsInv, SettingsShape, UnderFlock
<1>4. LoadedIsCurrent'
  <2> SUFFICES ASSUME NEW u \in Threads, cstage'[u] = "save", ask'[u].op # "remember"
               PROVE  u \in passed' \/ cfg'[u] = config'
    BY DEF LoadedIsCurrent
  <2>1. u # t /\ cstage[u] = "save" /\ ask[u] = ask'[u]
    BY DEF Config!Save, SettingsInv, SettingsShape
  <2>2. ask[t].op = "remember"
    BY <2>1 DEF Config!Save, SettingsInv, UnderFlock
  <2> QED
    BY <2>1, <2>2 DEF Config!Save
<1> QED
  BY <1>2, <1>3, <1>4 DEF SettingsInv

LEMMA SettingsNext ==
  ASSUME SettingConstants, SettingsInv, [Config!Next]_configVars
  PROVE  SettingsInv'
<1>1. ASSUME NEW t \in Threads, Config!Call(t) PROVE SettingsInv'
  <2>1. SettingsShape'
    BY <1>1 DEF Config!Call, SettingConstants, SettingsInv, SettingsShape, Stages
  <2> QED
    BY <2>1, <1>1 DEF Config!Call, SettingsInv, SettingsShape, UnderFlock, LoadedIsCurrent
<1>2. ASSUME NEW t \in Threads, Config!Recall(t) PROVE SettingsInv'
  <2>1. ask[t].op = "remember"
    BY <1>2 DEF Config!Recall, SettingsInv, SettingsShape
  <2>2. OnKeys(Config!Loaded(t, TRUE))
    BY LoadedOnKeys
  <2>3. SettingsShape'
    <3>1. CASE Config!Loaded(t, TRUE)[ask[t].key] = ask[t].value
      BY <1>2, <3>1 DEF Config!Recall, SettingsInv, SettingsShape, Stages
    <3>2. CASE Config!Loaded(t, TRUE)[ask[t].key] # ask[t].value
      BY <1>2, <2>1, <2>2, <3>2 DEF Config!Recall, SettingsInv, SettingsShape, Stages
    <3> QED
      BY <3>1, <3>2
  <2> QED
    BY <2>1, <2>3, <1>2 DEF Config!Recall, SettingsInv, SettingsShape, UnderFlock, LoadedIsCurrent
<1>3. ASSUME NEW t \in Threads, Config!TakeMutex(t) PROVE SettingsInv'
  BY <1>3 DEF Config!TakeMutex, SettingsInv, SettingsShape, UnderFlock, LoadedIsCurrent, Stages
<1>4. ASSUME NEW t \in Threads, Config!TakeFlock(t) PROVE SettingsInv'
  <2>1. SettingsShape' /\ LoadedIsCurrent'
    BY <1>4 DEF Config!TakeFlock, SettingsInv, SettingsShape, LoadedIsCurrent, Stages
  <2>2. UnderFlock'
    BY <1>4 DEF Config!TakeFlock, SettingConstants, SettingsInv, SettingsShape, UnderFlock
  <2> QED
    BY <2>1, <2>2 DEF SettingsInv
<1>5. ASSUME NEW t \in Threads, Config!Load(t) PROVE SettingsInv'
  <2>1. Config!Loaded(t, FALSE) = config
    BY DEF Config!Loaded, SettingsInv, SettingsShape, OnKeys
  <2>2. SettingsShape'
    BY <1>5, LoadedOnKeys DEF Config!Load, SettingsInv, SettingsShape, Stages
  <2> QED
    BY <2>1, <2>2, <1>5 DEF Config!Load, SettingsInv, SettingsShape, UnderFlock, LoadedIsCurrent
<1>6. ASSUME NEW t \in Threads, Config!Save(t) PROVE SettingsInv'
  BY <1>6, SaveKeeps
<1>7. ASSUME NEW p \in Config!Processes, Config!Kill(p) PROVE SettingsInv'
  <2>1. OnKeys(Config!Empty)
    BY DEF Config!Empty, OnKeys
  <2>2. SettingsShape'
    BY <1>7, <2>1 DEF Config!Kill, SettingsInv, SettingsShape, Stages
  <2>3. UnderFlock' /\ LoadedIsCurrent'
    BY <1>7 DEF Config!Kill, SettingsInv, SettingsShape, UnderFlock, LoadedIsCurrent
  <2> QED
    BY <2>2, <2>3 DEF SettingsInv
<1>8. CASE UNCHANGED configVars
  BY <1>8 DEF configVars, SettingsInv, SettingsShape, UnderFlock, LoadedIsCurrent
<1> QED
  BY <1>1, <1>2, <1>3, <1>4, <1>5, <1>6, <1>7, <1>8 DEF Config!Next

LEMMA SettingsChange ==
  ASSUME SettingsInv, [Config!Next]_configVars
  PROVE  Config!SettingsChangeOneByOne
<1> SUFFICES ASSUME config' # config
             PROVE  \E t \in Threads :
                      /\ cstage[t] = "save"
                      /\ \/ ask[t].op = "remember"
                         \/ t \in passed
                         \/ config' = Config!Mutated(ask[t], config)
  BY DEF Config!SettingsChangeOneByOne
<1>1. PICK t \in Threads : Config!Save(t)
  BY DEF Config!Next, configVars, Config!Call, Config!Recall, Config!TakeMutex, Config!TakeFlock, Config!Load, Config!Kill
<1> QED
  BY <1>1 DEF Config!Save, SettingsInv, LoadedIsCurrent

\* A step of the host is a step of the settings, or leaves them alone.
LEMMA SettingsStep ==
  ASSUME SettingConstants, SettingsInv, [Next]_vars
  PROVE  SettingsInv' /\ [Config!SettingsChangeOneByOne]_configVars
<1>1. [Config!Next]_configVars
  BY DEF Next, Workspaces, Accounting, Seeding, Searching, Looking, Setting, vars, configVars
<1> QED
  BY <1>1, SettingsNext, SettingsChange

\* The accounts change by one command at a time, done to what they are, and keep an
\* admin while there is an account (services/users.py: _locked,
\* _require_not_last_admin); the settings change by one request at a time
\* (update_config, config.py), for any threads, processes and requests.
THEOREM FilesAreNotOverwritten == Spec => FilesChangeOneByOne
<1>1. Init => AccountsShape /\ Booked /\ SettingsInv
  BY AccountsInit, SettingsInit DEF Init
<1>2. AccountsShape /\ Booked /\ [Next]_vars => AccountsShape' /\ Booked' /\ AccountsChange
  <2> SUFFICES ASSUME AccountsShape, Booked, [Next]_vars
               PROVE  AccountsShape' /\ Booked' /\ AccountsChange
    OBVIOUS
  <2>1. CASE UNCHANGED consoleVars
    BY <2>1, AccountsAside DEF consoleVars, AccountsChange
  <2> QED
    BY <2>1, HostConstants, AccountsStep
       DEF Next, Workspaces, Accounting, Seeding, Searching, Looking, Setting, vars
<1>3. SettingsInv /\ [Next]_vars => SettingsInv' /\ [Config!SettingsChangeOneByOne]_configVars
  BY HostConstants, SettingsStep
<1>4. Spec => [][AccountsChange]_(Console!vars) /\ [][Config!SettingsChangeOneByOne]_configVars
  BY <1>1, <1>2, <1>3, PTL DEF Spec
<1>5. ([][AccountsChange]_(Console!vars) /\ [][Config!SettingsChangeOneByOne]_configVars) => FilesChangeOneByOne
  BY DEF AccountsChange, FilesChangeOneByOne, Console!AccountsChangeOneByOne
<1> QED
  BY <1>4, <1>5, PTL

-----------------------------------------------------------------------------
(* A seed and its readback.                                                *)

FactRecord == [found : BOOLEAN, unreadable : BOOLEAN, messages : Nat, inTeam : BOOLEAN]

SeedShape ==
  /\ step \in {"create", "fill", "discuss", "read", "done"} /\ at \in 1..Len(Plan)
  /\ content \in [Seed!Rooms -> Nat] /\ counted \in [Seed!Rooms -> Nat]
  /\ before \in [Seed!Rooms -> Nat] /\ fact \in [Seed!Rooms -> FactRecord]
  /\ unowned \subseteq Seed!Dms

\* What a page has said is left out.
Paged(what, r) == <<what, r>> \in paged

\* The rooms the seed has an id for are there, a discussion has its parent, and
\* no message is counted that did not arrive.
Arrived ==
  /\ (rid \ unowned) \subseteq there
  /\ \A r \in there \cap Seed!Discussions : Parent[r] \in there
  /\ \A r \in Seed!Rooms \ unowned : counted[r] + before[r] <= content[r] \/ Paged("sent", r)

\* The rooms that have been read back.
Known(r) == \/ step = "done"
            \/ step = "read" /\ \E i \in 1..(at - 1) : Plan[i] = r

Readable(r) == ~fact[r].unreadable

\* What has been read of a room is so, and before that there is nothing; a room
\* that was read, and not found, is not there.
ReadTruly ==
  /\ step \in {"create", "fill", "discuss"} => \A r \in Seed!Rooms : fact[r] = Seed!Unread
  /\ \A r \in Seed!Rooms :
       /\ fact[r].found /\ Readable(r) =>
            /\ r \in there /\ fact[r].messages <= content[r]
            /\ fact[r].messages = content[r] \/ Paged("read", r)
            /\ fact[r].inTeam => (r \in Seed!TeamRooms => r \in inTeam)
       /\ r \notin Seed!TeamRooms => fact[r].inTeam
       /\ Known(r) /\ Readable(r) /\ ~fact[r].found => r \notin there \/ Paged("read", r)

SeedInv == SeedShape /\ Arrived /\ ReadTruly

LEMMA UnreadIsNothing ==
  /\ Seed!Unread \in FactRecord
  /\ ~Seed!Unread.found /\ ~Seed!Unread.unreadable /\ Seed!Unread.inTeam
  BY DEF Seed!Unread, FactRecord

LEMMA SeedInit == ASSUME PlanConstants, Init PROVE SeedInv
<1>1. SeedShape
  <2>1. content \in [Seed!Rooms -> Nat] /\ there \subseteq Seed!Rooms \ Seed!Discussions
    <3>1. PICK left \in Earlier :
            /\ there = DOMAIN left
            /\ content = [r \in Seed!Rooms |-> IF r \in DOMAIN left THEN left[r] ELSE 0]
      BY DEF Init, Seed!Init
    <3> QED
      BY <3>1 DEF PlanConstants
  <2>2. 1 \in 1..Len(Plan)
    BY DEF PlanConstants
  <2> QED
    BY <2>1, <2>2, UnreadIsNothing DEF Init, Seed!Init, SeedShape
<1>2. Arrived
  <2>1. there \cap Seed!Discussions = {}
    <3>1. PICK left \in Earlier : there = DOMAIN left
      BY DEF Init, Seed!Init
    <3> QED
      BY <3>1 DEF PlanConstants
  <2> QED
    BY <1>1, <2>1 DEF Init, Seed!Init, SeedShape, Arrived
<1>3. ReadTruly
  BY UnreadIsNothing DEF Init, Seed!Init, ReadTruly, Readable, Known
<1> QED
  BY <1>1, <1>2, <1>3 DEF SeedInv

\* A message that is counted has arrived, unless a page said so.
Grows == \A r \in Seed!Rooms :
           counted'[r] - counted[r] <= content'[r] - content[r] \/ r \in unowned \/ Paged("sent", r)'

\* A step of the seed itself: rooms are made, and never taken away.
Working ==
  /\ step \in {"create", "fill", "discuss"} /\ UNCHANGED <<before, fact, unowned>>
  /\ there \subseteq there' /\ (rid' \ unowned) \subseteq there' /\ paged \subseteq paged'
  /\ \A r \in there' \cap Seed!Discussions : r \in there \/ Parent[r] \in there
  /\ content' \in [Seed!Rooms -> Nat] /\ counted' \in [Seed!Rooms -> Nat]
  /\ Grows
  /\ at' \in 1..Len(Plan)
  /\ step' = step \/ step' \in {"fill", "discuss"} \/ (step' = "read" /\ at' = 1)

LEMMA WorkingKeeps == ASSUME PlanConstants, SeedInv, Working PROVE SeedInv'
<1>1. SeedShape'
  BY DEF Working, SeedInv, SeedShape
<1>2. Arrived'
  <2>1. (rid' \ unowned') \subseteq there'
    BY DEF Working
  <2>2. \A r \in there' \cap Seed!Discussions : Parent[r] \in there'
    BY DEF Working, SeedInv, Arrived
  <2>3. \A r \in Seed!Rooms \ unowned' : counted'[r] + before'[r] <= content'[r] \/ Paged("sent", r)'
    <3> SUFFICES ASSUME NEW r \in Seed!Rooms, r \notin unowned, ~Paged("sent", r)'
                 PROVE counted'[r] + before'[r] <= content'[r]
      BY DEF Working
    <3>1. /\ counted'[r] \in Nat /\ before[r] \in Nat /\ content'[r] \in Nat /\ counted[r] \in Nat /\ content[r] \in Nat
          /\ before'[r] = before[r] /\ counted[r] + before[r] <= content[r]
          /\ counted'[r] - counted[r] <= content'[r] - content[r]
      BY DEF Working, Grows, Paged, SeedInv, SeedShape, Arrived
    <3> QED
      BY <3>1
  <2> QED
    BY <2>1, <2>2, <2>3 DEF Arrived
<1>3. ReadTruly'
  <2>1. \A r \in Seed!Rooms : fact'[r] = Seed!Unread
    BY DEF Working, SeedInv, ReadTruly
  <2>2. \A r \in Seed!Rooms : ~Known(r)'
    <3>1. CASE step' = "read" /\ at' = 1
      <4>1. \A i \in 1..(at' - 1) : FALSE
        BY <3>1
      <4> QED
        BY <3>1, <4>1 DEF Known
    <3>2. CASE step' \in {"create", "fill", "discuss"}
      BY <3>2 DEF Known
    <3> QED
      BY <3>1, <3>2 DEF Working
  <2> QED
    BY <2>1, <2>2, UnreadIsNothing DEF ReadTruly, Readable
<1> QED
  BY <1>1, <1>2, <1>3 DEF SeedInv

LEMMA Advancing ==
  ASSUME PlanConstants, SeedShape, Seed!Advance
  PROVE  /\ at' \in 1..Len(Plan)
         /\ \/ step' = step /\ at' = at + 1
            \/ /\ at' = 1 /\ at = Len(Plan)
               /\ step = "create" => step' = "fill"
               /\ step = "fill" => step' = "discuss"
               /\ step = "discuss" => step' = "read"
               /\ step = "read" => step' = "done"
<1>1. Len(Plan) \in Nat /\ 1 \in 1..Len(Plan)
  BY DEF PlanConstants
<1>2. CASE at < Len(Plan)
  BY <1>1, <1>2 DEF Seed!Advance, Seed!NextRoom, SeedShape
<1>3. CASE ~(at < Len(Plan))
  <2>1. at' = 1 /\ step' = Seed!After(step) /\ at = Len(Plan)
    BY <1>1, <1>3 DEF Seed!Advance, Seed!NextRoom, SeedShape
  <2>2. /\ Seed!After("create") = "fill" /\ Seed!After("fill") = "discuss"
        /\ Seed!After("discuss") = "read" /\ Seed!After("read") = "done"
    BY DEF Seed!After
  <2> QED
    BY <1>1, <2>1, <2>2
<1> QED
  BY <1>2, <1>3

LEMMA RoomOfPlan == ASSUME PlanConstants, SeedShape PROVE Seed!Room \in Seed!Rooms /\ Seed!Room = Plan[at]
  BY DEF PlanConstants, SeedShape, Seed!Room

LEMMA CreateWorks == ASSUME PlanConstants, SeedInv, Seed!Create PROVE Working
<1>1. /\ step = "create" /\ Seed!Advance /\ UNCHANGED <<content, counted, before, fact, unowned, paged>>
      /\ at' \in 1..Len(Plan) /\ (step' = step \/ step' = "fill")
  BY Advancing DEF Seed!Create, SeedInv
<1>2. /\ there \subseteq there' /\ (rid' \ unowned) \subseteq there'
      /\ \A r \in there' \cap Seed!Discussions : r \in there
  <2>4. CASE Seed!Room \notin Seed!Discussions /\ Seed!NoId(Seed!Room)
    BY <2>4 DEF Seed!NoId, Seed!Make, Seed!Discussions, SeedInv, Arrived
  <2>1. CASE Kind[Seed!Room] = "discussion" /\ UNCHANGED <<there, rid>>
    BY <2>1 DEF SeedInv, Arrived
  <2>2. CASE Kind[Seed!Room] = "dm" /\ Seed!MakeDm(Seed!Room)
    BY <2>2 DEF Seed!MakeDm, Seed!Make, Seed!Answered, Seed!Discussions, SeedInv, Arrived
  <2>3. CASE Kind[Seed!Room] \notin {"discussion", "dm"} /\ Seed!MakeRoom(Seed!Room)
    BY <2>3 DEF Seed!MakeRoom, Seed!Make, Seed!Answered, Seed!Reuse, Seed!Discussions, SeedInv, Arrived
  <2> QED
    BY <2>1, <2>2, <2>3, <2>4 DEF Seed!Create
<1>3. Grows
  BY <1>1 DEF Grows, SeedInv, SeedShape
<1> QED
  BY <1>1, <1>2, <1>3 DEF Working, SeedInv, SeedShape

LEMMA FillWorks == ASSUME PlanConstants, SeedInv, Seed!Fill PROVE Working
<1> DEFINE room == Seed!Room
<1>1. /\ step \in {"fill", "discuss"} /\ Seed!Send(room) /\ room \in Seed!Rooms
      /\ UNCHANGED <<there, inTeam, step, at, rid, teamIds, failed, before, fact, unowned>>
  BY RoomOfPlan DEF Seed!Fill, SeedInv
<1> HIDE DEF room
<1>2. content' \in [Seed!Rooms -> Nat] /\ counted' \in [Seed!Rooms -> Nat] /\ Grows /\ paged \subseteq paged'
  <2>1. content \in [Seed!Rooms -> Nat] /\ counted \in [Seed!Rooms -> Nat]
    BY DEF SeedInv, SeedShape
  <2>2. ASSUME Seed!Arrives(room)
        PROVE  /\ content' \in [Seed!Rooms -> Nat]
               /\ \A r \in Seed!Rooms \ {room} : content'[r] = content[r]
               /\ content'[room] = content[room] + 1 \/ (room \in unowned /\ content'[room] = content[room])
    BY <1>1, <2>1, <2>2 DEF Seed!Arrives
  <2>3. ASSUME Seed!Counts(room)
        PROVE  /\ counted' \in [Seed!Rooms -> Nat] /\ counted'[room] = counted[room] + 1
               /\ \A r \in Seed!Rooms \ {room} : counted'[r] = counted[r]
    BY <1>1, <2>1, <2>3 DEF Seed!Counts
  <2>4. CASE Seed!Arrives(room) /\ Seed!Counts(room) /\ UNCHANGED paged
    BY <1>1, <2>1, <2>2, <2>3, <2>4 DEF Grows
  <2>5. CASE Seed!Arrives(room) /\ UNCHANGED <<counted, paged>>
    BY <1>1, <2>1, <2>2, <2>5 DEF Grows
  <2>6. CASE UNCHANGED <<content, counted, paged>>
    BY <1>1, <2>1, <2>6 DEF Grows
  <2>7. CASE /\ Seed!Counts(room) /\ (Seed!Arrives(room) \/ UNCHANGED content)
             /\ paged' = paged \cup {<<"sent", room>>}
    BY <1>1, <2>1, <2>2, <2>3, <2>7 DEF Grows, Paged
  <2> QED
    BY <1>1, <2>4, <2>5, <2>6, <2>7 DEF Seed!Send
<1> QED
  BY <1>1, <1>2 DEF Working, SeedInv, SeedShape, Arrived

LEMMA FilledWorks == ASSUME PlanConstants, SeedInv, Seed!Filled PROVE Working
<1>1. /\ step \in {"fill", "discuss"} /\ Seed!Advance
      /\ UNCHANGED <<there, inTeam, content, rid, teamIds, failed, counted, before, fact, unowned, paged>>
  BY DEF Seed!Filled, Seed!server, Seed!report
<1>2. /\ at' \in 1..Len(Plan)
      /\ step' = step \/ step' \in {"fill", "discuss"} \/ (step' = "read" /\ at' = 1)
  BY <1>1, Advancing DEF SeedInv
<1>3. Grows
  BY <1>1 DEF Grows, SeedInv, SeedShape
<1> QED
  BY <1>1, <1>2, <1>3 DEF Working, SeedInv, SeedShape, Arrived

LEMMA DiscussWorks == ASSUME PlanConstants, SeedInv, Seed!Discuss PROVE Working
<1>1. /\ step = "discuss" /\ UNCHANGED <<content, step, at, counted, before, fact, unowned, paged>>
      /\ \/ /\ Parent[Seed!Room] \in rid /\ there' = there \cup ({Seed!Room} \ unowned)
            /\ (rid' = rid \cup {Seed!Room} \/ rid' = rid)
         \/ UNCHANGED <<there, rid>>
  BY DEF Seed!Discuss, Seed!Make, Seed!Answered, Seed!NoId
<1>4. Parent[Seed!Room] \notin unowned
  <2>1. Seed!Room = Plan[at] /\ at \in 1..Len(Plan) /\ Kind[Seed!Room] = "discussion"
    BY RoomOfPlan DEF Seed!Discuss, Seed!Discussions, SeedInv, SeedShape
  <2>2. Kind[Parent[Seed!Room]] # "dm"
    BY <2>1 DEF PlanConstants
  <2> QED
    BY <2>2 DEF SeedInv, SeedShape, Seed!Dms
<1>2. /\ there \subseteq there' /\ (rid' \ unowned) \subseteq there'
      /\ \A r \in there' \cap Seed!Discussions : r \in there \/ Parent[r] \in there
  BY <1>1, <1>4 DEF SeedInv, Arrived
<1>3. Grows
  BY <1>1 DEF Grows, SeedInv, SeedShape
<1> QED
  BY <1>1, <1>2, <1>3 DEF Working, SeedInv, SeedShape

\* What a read of r may say of it; if a page was among its answers, or among those
\* about its parent, it may say less than there is.
Says(f, r, pages) ==
  /\ f \in FactRecord
  /\ f.found /\ ~f.unreadable =>
       /\ r \in there /\ f.messages <= content[r]
       /\ f.messages = content[r] \/ <<"read", r>> \in pages
       /\ f.inTeam => (r \in Seed!TeamRooms => r \in inTeam)
  /\ r \notin Seed!TeamRooms => f.inTeam
  /\ ~f.unreadable /\ ~f.found => r \notin there \/ <<"read", r>> \in pages

LEMMA FactsOfAPage ==
  ASSUME PlanConstants, SeedInv, NEW r \in Seed!Rooms, NEW pages, <<"read", r>> \in pages,
         NEW f, f \in (IF r \in there THEN Seed!PagedFacts(r) ELSE {Seed!Unread})
  PROVE  Says(f, r, pages)
<1>1. content[r] \in Nat
  BY DEF SeedInv, SeedShape
<1>2. CASE f = Seed!Unread
  BY <1>2, UnreadIsNothing DEF Says
<1>3. CASE f # Seed!Unread
  <2>1. r \in there /\ f \in Seed!PagedFacts(r)
    BY <1>3
  <2>2. PICK m \in {0, content[r]}, in \in {r \notin Seed!TeamRooms, r \notin Seed!TeamRooms \/ r \in inTeam} :
          f = [found |-> TRUE, unreadable |-> FALSE, messages |-> m, inTeam |-> in]
    BY <1>3, <2>1 DEF Seed!PagedFacts
  <2>3. m \in Nat /\ m <= content[r]
    BY <1>1, <2>2
  <2>4. in \in BOOLEAN /\ (in => r \notin Seed!TeamRooms \/ r \in inTeam) /\ (r \notin Seed!TeamRooms => in)
    <3>1. CASE in = (r \notin Seed!TeamRooms)
      BY <3>1, Zenon
    <3>2. CASE in = (r \notin Seed!TeamRooms \/ r \in inTeam)
      BY <3>2, Zenon
    <3> QED
      BY <2>2, <3>1, <3>2
  <2>5. f \in FactRecord /\ f.found /\ ~f.unreadable /\ f.messages = m /\ f.inTeam = in
    BY <2>2, <2>3, <2>4 DEF FactRecord
  <2> QED
    BY <2>1, <2>3, <2>4, <2>5 DEF Says
<1> QED
  BY <1>2, <1>3

LEMMA FactsAreTrue ==
  ASSUME PlanConstants, SeedInv, step = "read", NEW r \in Seed!Rooms,
         Kind[r] = "discussion" => Known(Parent[r]) /\ Parent[r] \in Seed!Rooms,
         NEW pages, Seed!Orphan(r) /\ Paged("read", Parent[r]) => <<"read", r>> \in pages,
         NEW f \in Seed!Facts(r)
  PROVE  Says(f, r, pages)
<1> DEFINE lost == [Seed!Unread EXCEPT !.unreadable = TRUE]
           full == [Seed!Unread EXCEPT !.found = TRUE, !.messages = content[r],
                                       !.inTeam = r \notin Seed!TeamRooms \/ r \in inTeam]
<1>1. content[r] \in Nat
  BY DEF SeedInv, SeedShape
<1>2. /\ lost \in FactRecord /\ lost.unreadable /\ lost.inTeam
      /\ [lost EXCEPT !.found = TRUE] \in FactRecord /\ [lost EXCEPT !.found = TRUE].unreadable
      /\ [lost EXCEPT !.found = TRUE].inTeam
  BY DEF Seed!Unread, FactRecord
<1>3. /\ full \in FactRecord /\ full.found /\ ~full.unreadable /\ full.messages = content[r]
      /\ full.inTeam = (r \notin Seed!TeamRooms \/ r \in inTeam)
  BY <1>1 DEF Seed!Unread, FactRecord
<1>4. /\ [full EXCEPT !.inTeam = FALSE] \in FactRecord /\ [full EXCEPT !.inTeam = FALSE].found
      /\ ~[full EXCEPT !.inTeam = FALSE].unreadable /\ ~[full EXCEPT !.inTeam = FALSE].inTeam
      /\ [full EXCEPT !.inTeam = FALSE].messages = content[r]
  BY <1>1 DEF Seed!Unread, FactRecord
<1>5. Seed!Facts(r) =
        IF Seed!Orphan(r) THEN {IF fact[Parent[r]].unreadable THEN lost ELSE Seed!Unread}
        ELSE (IF r \in there THEN {full} ELSE {Seed!Unread})
             \cup (IF "refused" \in Outcomes THEN {lost} ELSE {})
             \cup (IF "refused" \in Outcomes /\ r \in there
                   THEN {[lost EXCEPT !.found = TRUE]} ELSE {})
             \cup (IF "refused" \in Outcomes /\ r \in there \cap Seed!TeamRooms
                   THEN {[full EXCEPT !.inTeam = FALSE]} ELSE {})
  BY DEF Seed!Facts
<1> HIDE DEF lost, full
<1>6. ASSUME Seed!Orphan(r), ~fact[Parent[r]].unreadable PROVE r \notin there \/ Paged("read", Parent[r])
  <2>1. Parent[r] \notin there \/ Paged("read", Parent[r])
    BY <1>6 DEF Seed!Orphan, SeedInv, ReadTruly, Readable
  <2> QED
    BY <1>6, <2>1 DEF Seed!Orphan, SeedInv, Arrived, Seed!Discussions
<1>7. \/ f = lost
      \/ f = Seed!Unread /\ (r \notin there \/ <<"read", r>> \in pages)
      \/ f = full /\ r \in there
      \/ f = [lost EXCEPT !.found = TRUE]
      \/ f = [full EXCEPT !.inTeam = FALSE] /\ r \in there /\ r \in Seed!TeamRooms
  BY <1>5, <1>6
<1>8. CASE f = lost \/ f = [lost EXCEPT !.found = TRUE]
  BY <1>2, <1>8 DEF Says
<1>9. CASE f = Seed!Unread /\ (r \notin there \/ <<"read", r>> \in pages)
  BY <1>9, UnreadIsNothing DEF Says
<1>10. CASE f = full /\ r \in there
  <2>1. /\ full.inTeam => (r \in Seed!TeamRooms => r \in inTeam)
        /\ r \notin Seed!TeamRooms => full.inTeam
    BY <1>3, Zenon
  <2>2. full \in FactRecord /\ full.found /\ ~full.unreadable /\ full.messages = content[r]
    BY <1>3
  <2> QED
    BY <1>1, <1>10, <2>1, <2>2 DEF Says
<1>11. CASE f = [full EXCEPT !.inTeam = FALSE] /\ r \in there /\ r \in Seed!TeamRooms
  BY <1>1, <1>4, <1>11 DEF Says
<1> QED
  BY <1>7, <1>8, <1>9, <1>10, <1>11

LEMMA ReadbackKeeps == ASSUME PlanConstants, SeedInv, Seed!Readback PROVE SeedInv'
<1> DEFINE room == Seed!Room
<1>1. /\ step = "read" /\ Seed!Advance /\ room \in Seed!Rooms /\ room = Plan[at]
      /\ UNCHANGED <<there, content, inTeam, rid, teamIds, failed, counted, before, unowned>>
      /\ at \in 1..Len(Plan) /\ Len(Plan) \in Nat
  BY RoomOfPlan DEF Seed!Readback, Seed!server, Seed!report, SeedInv, SeedShape, PlanConstants
<1>3. /\ at' \in 1..Len(Plan)
      /\ (step' = "read" /\ at' = at + 1) \/ (step' = "done" /\ at = Len(Plan))
  BY <1>1, Advancing DEF SeedInv
<1>4. ASSUME Kind[room] = "discussion" PROVE Known(Parent[room]) /\ Parent[room] \in Seed!Rooms
  <2>1. PICK j \in 1..(at - 1) : Plan[j] = Parent[room]
    BY <1>1, <1>4 DEF PlanConstants
  <2>2. j \in 1..Len(Plan)
    BY <1>1
  <2> QED
    BY <1>1, <2>1, <2>2 DEF Known, PlanConstants
<1>12. \/ /\ fact' \in {[fact EXCEPT ![room] = f] : f \in Seed!Facts(room)}
          /\ paged' = IF Seed!Orphan(room) /\ <<"read", Parent[room]>> \in paged
                      THEN paged \cup {<<"read", room>>} ELSE paged
       \/ /\ fact' \in {[fact EXCEPT ![room] = f] :
                         f \in IF room \in there THEN Seed!PagedFacts(room) ELSE {Seed!Unread}}
          /\ paged' = paged \cup {<<"read", room>>}
  BY DEF Seed!Readback
<1> HIDE DEF room
<1>13. PICK pages : pages = paged'
  OBVIOUS
<1>2. \E f : fact' = [fact EXCEPT ![room] = f] /\ Says(f, room, pages) /\ paged \subseteq pages
  <2>1. CASE /\ fact' \in {[fact EXCEPT ![room] = f] : f \in Seed!Facts(room)}
             /\ paged' = IF Seed!Orphan(room) /\ <<"read", Parent[room]>> \in paged
                         THEN paged \cup {<<"read", room>>} ELSE paged
    <3>1. PICK f \in Seed!Facts(room) : fact' = [fact EXCEPT ![room] = f]
      BY <2>1
    <3>2. Seed!Orphan(room) /\ Paged("read", Parent[room]) => <<"read", room>> \in pages
      BY <1>13, <2>1 DEF Paged
    <3>3. Says(f, room, pages)
      BY <1>1, <1>4, <3>2, FactsAreTrue
    <3>4. paged \subseteq pages
      BY <1>13, <2>1
    <3> QED
      BY <3>1, <3>3, <3>4
  <2>2. CASE /\ fact' \in {[fact EXCEPT ![room] = f] :
                            f \in IF room \in there THEN Seed!PagedFacts(room) ELSE {Seed!Unread}}
             /\ paged' = paged \cup {<<"read", room>>}
    <3>1. PICK f \in IF room \in there THEN Seed!PagedFacts(room) ELSE {Seed!Unread} :
            fact' = [fact EXCEPT ![room] = f]
      BY <2>2
    <3>2. <<"read", room>> \in pages /\ paged \subseteq pages
      BY <1>13, <2>2
    <3>3. Says(f, room, pages)
      BY <1>1, <3>1, <3>2, FactsOfAPage
    <3> QED
      BY <3>1, <3>2, <3>3
  <2> QED
    BY <1>12, <2>1, <2>2
<1>5. PICK f : fact' = [fact EXCEPT ![room] = f] /\ Says(f, room, pages)
  BY <1>2
<1>11. \A what, r : Paged(what, r) => Paged(what, r)'
  BY <1>2, <1>13 DEF Paged
<1>6. /\ fact'[room] = f
      /\ \A r \in Seed!Rooms \ {room} : fact'[r] = fact[r]
  BY <1>1, <1>5 DEF SeedInv, SeedShape
<1>7. SeedShape'
  BY <1>1, <1>3, <1>5 DEF SeedInv, SeedShape, Says
<1>8. Arrived'
  BY <1>1, <1>11 DEF SeedInv, Arrived
<1>9. \A r \in Seed!Rooms : Known(r)' => Known(r) \/ r = room
  <2>1. CASE step' = "read" /\ at' = at + 1
    <3>1. \A i \in 1..(at' - 1) : i \in 1..(at - 1) \/ i = at
      BY <1>1, <2>1
    <3> QED
      BY <1>1, <2>1, <3>1 DEF Known
  <2>2. CASE step' = "done" /\ at = Len(Plan)
    <3>1. \A r \in Seed!Rooms : \E i \in 1..Len(Plan) : Plan[i] = r
      BY DEF Seed!Rooms, Seed!ToSet, PlanConstants
    <3>2. \A i \in 1..Len(Plan) : i \in 1..(at - 1) \/ i = at
      BY <1>1, <2>2
    <3> QED
      BY <1>1, <3>1, <3>2 DEF Known
  <2> QED
    BY <1>3, <2>1, <2>2
<1>10. ReadTruly'
  <2>1. step' \notin {"create", "fill", "discuss"}
    BY <1>3
  <2>2. ASSUME NEW r \in Seed!Rooms
        PROVE  /\ fact'[r].found /\ ~fact'[r].unreadable =>
                    /\ r \in there' /\ fact'[r].messages <= content'[r]
                    /\ fact'[r].messages = content'[r] \/ Paged("read", r)'
                    /\ fact'[r].inTeam => (r \in Seed!TeamRooms => r \in inTeam')
               /\ r \notin Seed!TeamRooms => fact'[r].inTeam
               /\ Known(r)' /\ ~fact'[r].unreadable /\ ~fact'[r].found => r \notin there' \/ Paged("read", r)'
    <3>1. CASE r = room
      BY <1>1, <1>5, <1>6, <1>13, <3>1 DEF Says, Paged
    <3>2. CASE r # room
      BY <1>1, <1>6, <1>9, <1>11, <3>2 DEF SeedInv, ReadTruly, Readable
    <3> QED
      BY <3>1, <3>2
  <2> QED
    BY <2>1, <2>2 DEF ReadTruly, Readable
<1> QED
  BY <1>7, <1>8, <1>10 DEF SeedInv

LEMMA SeedAside ==
  ASSUME UNCHANGED seedVars, SeedInv
  PROVE  SeedInv'
<1>1. \A r : Known(r)' <=> Known(r)
  BY DEF Known, seedVars
<1>2. SeedShape' /\ Arrived'
  BY DEF SeedInv, SeedShape, Arrived, Paged, seedVars
<1>3. ReadTruly'
  BY <1>1 DEF SeedInv, ReadTruly, Readable, Paged, seedVars
<1> QED
  BY <1>2, <1>3 DEF SeedInv

LEMMA SeedStep == ASSUME PlanConstants, SeedInv, [Next]_vars PROVE SeedInv'
<1>1. CASE UNCHANGED seedVars
  BY <1>1, SeedAside
<1>2. CASE Seed!Next
  <2>1. CASE Working
    BY <2>1, WorkingKeeps
  <2>2. CASE Seed!Done
    BY <1>1, <2>2 DEF Seed!Done, Seed!vars, Seed!server, Seed!report, seedVars
  <2> QED
    BY <1>2, <2>1, <2>2, CreateWorks, FillWorks, FilledWorks, DiscussWorks, ReadbackKeeps DEF Seed!Next
<1> QED
  BY <1>1, <1>2 DEF Next, Workspaces, Accounting, Seeding, Searching, Looking, Setting, vars

LEMMA SeedInvSuffices == ASSUME PlanConstants, SeedInv PROVE SeedReportIsTrue
<1> SUFFICES ASSUME step = "done" PROVE Seed!SeedReportIsTrue
  BY DEF SeedReportIsTrue, Seed!SeedReportIsTrue
<1>1. (rid \ unowned) \subseteq there
  BY DEF SeedInv, Arrived
<1>2. \A r \in Seed!Rooms \ unowned : counted[r] <= content[r] - before[r] \/ <<"sent", r>> \in paged
  <2> SUFFICES ASSUME NEW r \in Seed!Rooms, r \notin unowned, <<"sent", r>> \notin paged
               PROVE counted[r] <= content[r] - before[r]
    OBVIOUS
  <2>1. /\ counted[r] + before[r] <= content[r]
        /\ counted[r] \in Nat /\ before[r] \in Nat /\ content[r] \in Nat
    BY DEF SeedInv, SeedShape, Arrived, Paged
  <2> QED
    BY <2>1
<1>3. \A r \in Seed!Rooms : Known(r)
  BY DEF Known
<1>4. \A r \in Seed!Rooms : content[r] \in Nat /\ fact[r].messages \in Nat /\ fact[r].unreadable \in BOOLEAN
  BY DEF SeedInv, SeedShape, FactRecord
<1>5. ASSUME Seed!Ok, Seed!Unreadable = {}, NEW r \in Seed!Rooms
      PROVE  r \in there /\ content[r] >= Want /\ (r \in Seed!TeamRooms => r \in inTeam)
  <2>1. fact[r].found /\ Readable(r) /\ ~(fact[r].messages < Want) /\ fact[r].inTeam
    BY <1>4, <1>5 DEF Seed!Ok, Seed!Unreadable, Seed!FaultyRooms, Readable
  <2> QED
    BY <1>4, <2>1 DEF SeedInv, ReadTruly, PlanConstants
<1>6. ASSUME NEW r \in Seed!FaultyRooms \ Seed!TeamRooms
      PROVE r \notin there \/ content[r] < Want \/ <<"read", r>> \in paged
  BY <1>3 DEF Seed!FaultyRooms, SeedInv, ReadTruly, Readable, Paged
<1> QED
  BY <1>1, <1>2, <1>5, <1>6 DEF Seed!SeedReportIsTrue

\* What a seed and its readback say is so, for any plan, whatever was refused or
\* lost and whatever was there before, save of a dm whose owner could not sign in
\* and where a page was an answer (seed.py: _seed_body, readback, verify).
THEOREM SeedsReportTruly == Spec => []SeedReportIsTrue
<1>1. Init => SeedInv
  BY HostConstants, SeedInit
<1>2. SeedInv /\ [Next]_vars => SeedInv'
  BY HostConstants, SeedStep
<1>3. SeedInv => SeedReportIsTrue
  BY HostConstants, SeedInvSuffices
<1> QED
  BY <1>1, <1>2, <1>3, PTL DEF Spec

-----------------------------------------------------------------------------
(* What the console shows of docker.                                       *)

Moments == [at : Nat, answers : BOOLEAN]
Answers == [moment : Nat, late : BOOLEAN]
Requests == [pc : {"idle", "look", "ask", "store"}, next : Nat, began : Nat, value : Answers]

ViewShape ==
  /\ clock \in Nat /\ past \in Seq(Moments) /\ past # << >>
  /\ \A i \in 1..Len(past) : past[i].at <= clock
  /\ settled \in 1..Len(past)
  /\ DOMAIN cache = View!Queries
  /\ \A q \in View!Queries : cache[q] # View!Unset => cache[q] \in [at : Nat, value : Answers]
  /\ tab \in [Tabs -> Requests]
  /\ \A t \in Tabs : tab[t].next \in 1..Len(Asks[t])

\* An answer with the time `since` that was taken before docker was asked: what it
\* says was true at that time or later, and either it is not from before the last
\* command that is done or it was kept after that.
Dated(since, value) ==
  /\ since <= clock /\ value.moment \in 1..Len(past)
  /\ value.moment < Len(past) => since <= past[value.moment + 1].at
  /\ value.late \/ value.moment >= settled

Dates ==
  /\ \A q \in View!Queries : cache[q] # View!Unset => Dated(cache[q].at, cache[q].value)
  /\ \A t \in Tabs : /\ tab[t].pc = "ask" => tab[t].began <= clock
                     /\ tab[t].pc = "store" => Dated(tab[t].began, tab[t].value)

ViewInv == ViewShape /\ Dates

LEMMA IdleRequest == View!Idle \in Requests /\ View!Idle.pc = "idle" /\ View!Idle.next = 1
  BY DEF View!Idle, View!Value, Requests, Answers

LEMMA AskedQueries ==
  ASSUME ViewConstants, ViewShape, NEW t \in Tabs
  PROVE  /\ View!Query(t) \in View!Queries /\ Len(Asks[t]) \in Nat
         /\ 1 \in 1..Len(Asks[t]) /\ tab[t] \in Requests /\ tab[t].next \in 1..Len(Asks[t])
<1>1. Asks[t] \in Seq(View!Queries) /\ Asks[t] # << >> /\ tab[t].next \in 1..Len(Asks[t]) /\ tab[t] \in Requests
  BY DEF ViewConstants, ViewShape
<1>2. Asks[t][tab[t].next] \in View!Queries
  BY <1>1
<1> QED
  BY <1>1, <1>2 DEF View!Query

LEMMA ViewInit == ASSUME ViewConstants, Init PROVE ViewInv
<1>1. PICK answers \in BOOLEAN : past = <<[at |-> 0, answers |-> answers]>>
  BY DEF Init, View!Init
<1>2. past \in Seq(Moments) /\ Len(past) = 1 /\ past[1].at = 0 /\ past # << >>
  BY <1>1 DEF Moments
<1>3. \A t \in Tabs : 1 \in 1..Len(Asks[t])
  BY DEF ViewConstants
<1>4. /\ clock = 0 /\ settled = 1 /\ cache = [q \in View!Queries |-> View!Unset]
      /\ tab = [t \in Tabs |-> View!Idle]
  BY DEF Init, View!Init
<1>5. ViewShape
  BY <1>2, <1>3, <1>4, IdleRequest DEF ViewShape
<1>6. Dates
  BY <1>4, IdleRequest DEF Dates
<1> QED
  BY <1>5, <1>6 DEF ViewInv

\* Nothing that was dated loses its date while docker and the commands stand still,
\* or when docker changes.
LEMMA StillDated ==
  ASSUME ViewShape, settled' = settled, NEW s \in Nat, NEW v \in Answers, Dated(s, v),
         \/ past' = past /\ clock' \in Nat /\ clock <= clock'
         \/ \E m \in Moments : m.at = clock /\ past' = Append(past, m) /\ clock' = clock
  PROVE  Dated(s, v)'
<1>1. clock \in Nat /\ past \in Seq(Moments) /\ Len(past) \in Nat /\ v.moment \in Nat /\ settled \in Nat
  BY DEF ViewShape, Answers
<1>2. CASE past' = past /\ clock' \in Nat /\ clock <= clock'
  BY <1>1, <1>2 DEF Dated
<1>3. ASSUME NEW m \in Moments, m.at = clock, past' = Append(past, m), clock' = clock
      PROVE  Dated(s, v)'
  <2>1. /\ Len(past') = Len(past) + 1 /\ past'[Len(past) + 1] = m
        /\ \A i \in 1..Len(past) : past'[i] = past[i]
    BY <1>1, <1>3
  <2>2. v.moment \in 1..Len(past')
    BY <1>1, <2>1 DEF Dated
  <2>3. ASSUME v.moment < Len(past') PROVE s <= past'[v.moment + 1].at
    <3>1. CASE v.moment = Len(past)
      BY <1>1, <1>3, <2>1, <3>1 DEF Dated
    <3>2. CASE v.moment < Len(past)
      <4>1. v.moment + 1 \in 1..Len(past)
        BY <1>1, <3>2 DEF Dated
      <4> QED
        BY <1>1, <2>1, <3>2, <4>1 DEF Dated
    <3> QED
      BY <1>1, <2>1, <2>3, <3>1, <3>2
  <2> QED
    BY <1>1, <1>3, <2>1, <2>2, <2>3 DEF Dated
<1> QED
  BY <1>2, <1>3

\* A request that takes a step while docker stands still.
Requesting(t) ==
  /\ UNCHANGED <<clock, past, settled>> /\ tab' \in [Tabs -> Requests]
  /\ \A u \in Tabs \ {t} : tab'[u] = tab[u]
  /\ tab'[t].next \in 1..Len(Asks[t])
  /\ tab'[t].pc = "ask" => tab'[t].began = clock
  /\ tab'[t].pc = "store" => Dated(tab'[t].began, tab'[t].value)
  /\ \/ cache' = cache
     \/ \E q \in View!Queries, s \in Nat, v \in Answers :
          Dated(s, v) /\ cache' = [cache EXCEPT ![q] = [at |-> s, value |-> v]]

LEMMA RequestingKeeps ==
  ASSUME ViewInv, NEW t \in Tabs, Requesting(t)
  PROVE  ViewInv'
<1>1. \A s \in Nat, v \in Answers : Dated(s, v) => Dated(s, v)'
  BY DEF Requesting, Dated
<1>2. \A q \in View!Queries : \/ cache'[q] = cache[q]
                              \/ \E s \in Nat, v \in Answers : Dated(s, v) /\ cache'[q] = [at |-> s, value |-> v]
  BY DEF Requesting, ViewInv, ViewShape
<1>3. DOMAIN cache' = View!Queries
  BY DEF Requesting, ViewInv, ViewShape
<1>4. \A q \in View!Queries : cache'[q] # View!Unset => 
        /\ cache'[q] \in [at : Nat, value : Answers]
        /\ Dated(cache'[q].at, cache'[q].value)
  <2> SUFFICES ASSUME NEW q \in View!Queries, cache'[q] # View!Unset
               PROVE  /\ cache'[q] \in [at : Nat, value : Answers]
                      /\ Dated(cache'[q].at, cache'[q].value)
    OBVIOUS
  <2>1. CASE cache'[q] = cache[q]
    BY <2>1 DEF ViewInv, ViewShape, Dates
  <2>2. ASSUME NEW s \in Nat, NEW v \in Answers, Dated(s, v), cache'[q] = [at |-> s, value |-> v]
        PROVE  /\ cache'[q] \in [at : Nat, value : Answers]
               /\ Dated(cache'[q].at, cache'[q].value)
    <3>1. cache'[q].at = s /\ cache'[q].value = v
      BY <2>2
    <3> QED
      BY <2>2, <3>1
  <2> QED
    BY <1>2, <2>1, <2>2
<1>5. ViewShape'
  BY <1>3, <1>4 DEF Requesting, ViewInv, ViewShape
<1>6. ASSUME NEW q \in View!Queries, cache'[q] # View!Unset PROVE Dated(cache[q].at, cache[q].value)'
  BY <1>4, <1>6 DEF Requesting, Dated
<1>7. ASSUME NEW u \in Tabs, tab'[u].pc = "store" PROVE Dated(tab[u].began, tab[u].value)'
  BY <1>7 DEF Requesting, Dated, ViewInv, Dates
<1>8. ASSUME NEW u \in Tabs, tab'[u].pc = "ask" PROVE tab'[u].began <= clock'
  BY <1>8 DEF Requesting, ViewInv, ViewShape, Dates
<1> QED
  BY <1>5, <1>6, <1>7, <1>8 DEF ViewInv, Dates

LEMMA GotRequest ==
  ASSUME ViewConstants, ViewShape, NEW t \in Tabs, NEW v, View!Got(t, v)
  PROVE  /\ tab' \in [Tabs -> Requests] /\ \A u \in Tabs \ {t} : tab'[u] = tab[u]
         /\ tab'[t].next \in 1..Len(Asks[t])
         /\ tab'[t].pc \in {"idle", "look"}
<1> DEFINE last == \/ tab[t].next = Len(Asks[t])
                   \/ View!Query(t) = "info" /\ ~past[v.moment].answers
           more == [View!Idle EXCEPT !.pc = "look", !.next = tab[t].next + 1]
<1>1. tab' = [tab EXCEPT ![t] = IF last THEN View!Idle ELSE more]
  BY DEF View!Got
<1>2. more \in Requests /\ more.pc = "look" /\ more.next = tab[t].next + 1
  <2>1. tab[t].next + 1 \in Nat
    BY AskedQueries
  <2>2. \A k \in Nat : LET m == [View!Idle EXCEPT !.pc = "look", !.next = k]
                      IN  m \in Requests /\ m.pc = "look" /\ m.next = k
    BY DEF View!Idle, View!Value, Requests, Answers
  <2> QED
    BY <2>1, <2>2
<1>3. ~last => tab[t].next + 1 \in 1..Len(Asks[t])
  BY AskedQueries
<1> HIDE DEF last, more
<1>4. tab'[t] = View!Idle \/ (tab'[t] = more /\ ~last)
  BY <1>1 DEF ViewShape
<1>5. tab' \in [Tabs -> Requests] /\ \A u \in Tabs \ {t} : tab'[u] = tab[u]
  BY <1>1, <1>2, IdleRequest DEF ViewShape
<1> QED
  BY <1>2, <1>3, <1>4, <1>5, IdleRequest, AskedQueries

LEMMA PollRequests == ASSUME ViewConstants, ViewInv, NEW t \in Tabs, View!Poll(t) PROVE Requesting(t)
<1>1. /\ tab' = [tab EXCEPT ![t].pc = "look"] /\ UNCHANGED <<clock, past, cache, settled>>
      /\ tab \in [Tabs -> Requests] /\ tab[t].next \in 1..Len(Asks[t])
  BY DEF View!Poll, ViewInv, ViewShape
<1>2. \A r \in Requests : LET m == [r EXCEPT !.pc = "look"]
             IN  m \in Requests /\ m.pc = "look" /\ m.next = r.next
  BY DEF Requests
<1>3. /\ tab'[t] = [tab[t] EXCEPT !.pc = "look"]
      /\ \A u \in Tabs \ {t} : tab'[u] = tab[u]
  BY <1>1
<1>4. tab'[t] \in Requests /\ tab'[t].pc = "look" /\ tab'[t].next = tab[t].next
  BY <1>1, <1>2, <1>3
<1> QED
  BY <1>1, <1>3, <1>4 DEF Requesting

LEMMA MissRequests == ASSUME ViewConstants, ViewInv, NEW t \in Tabs, View!Miss(t) PROVE Requesting(t)
<1>1. /\ tab' = [tab EXCEPT ![t].pc = "ask", ![t].began = clock] /\ UNCHANGED <<clock, past, cache, settled>>
      /\ tab \in [Tabs -> Requests] /\ tab[t].next \in 1..Len(Asks[t]) /\ clock \in Nat
  BY DEF View!Miss, ViewInv, ViewShape
<1>2. ASSUME NEW r \in Requests
      PROVE  LET m == [r EXCEPT !.pc = "ask", !.began = clock]
             IN  m \in Requests /\ m.pc = "ask" /\ m.next = r.next /\ m.began = clock
  BY <1>1 DEF Requests
<1>3. /\ tab'[t] = [tab[t] EXCEPT !.pc = "ask", !.began = clock]
      /\ \A u \in Tabs \ {t} : tab'[u] = tab[u]
  BY <1>1
<1>4. tab'[t] \in Requests /\ tab'[t].pc = "ask" /\ tab'[t].next = tab[t].next /\ tab'[t].began = clock
  <2>1. tab[t] \in Requests
    BY <1>1
  <2> QED
    BY <1>2, <1>3, <2>1
<1> QED
  BY <1>1, <1>3, <1>4 DEF Requesting

LEMMA AskRequests == ASSUME ViewConstants, ViewInv, NEW t \in Tabs, View!Ask(t) PROVE Requesting(t)
<1> DEFINE now == [moment |-> Len(past), late |-> FALSE]
<1>1. /\ tab' = [tab EXCEPT ![t].pc = "store", ![t].value = now] /\ UNCHANGED <<clock, past, cache, settled>>
      /\ tab \in [Tabs -> Requests] /\ tab[t].next \in 1..Len(Asks[t]) /\ tab[t].pc = "ask"
  BY DEF View!Ask, View!Value, ViewInv, ViewShape
<1>2. now \in Answers /\ now.moment = Len(past) /\ Len(past) \in Nat /\ Len(past) \in 1..Len(past)
      /\ settled \in 1..Len(past) /\ tab[t].began <= clock
  BY <1>1 DEF ViewInv, ViewShape, Dates, Answers
<1> HIDE DEF now
<1>3. ASSUME NEW r \in Requests
      PROVE  LET m == [r EXCEPT !.pc = "store", !.value = now]
             IN  m \in Requests /\ m.pc = "store" /\ m.next = r.next /\ m.began = r.began /\ m.value = now
  BY <1>2 DEF Requests
<1>4. /\ tab'[t] = [tab[t] EXCEPT !.pc = "store", !.value = now]
      /\ \A u \in Tabs \ {t} : tab'[u] = tab[u]
  BY <1>1
<1>5. /\ tab'[t] \in Requests /\ tab'[t].pc = "store" /\ tab'[t].next = tab[t].next
      /\ tab'[t].began = tab[t].began /\ tab'[t].value = now
  <2>1. tab[t] \in Requests
    BY <1>1
  <2> QED
    BY <1>3, <1>4, <2>1
<1>6. Dated(tab[t].began, now)
  BY <1>2 DEF Dated
<1> QED
  BY <1>1, <1>4, <1>5, <1>6 DEF Requesting

LEMMA StoreRequests == ASSUME ViewConstants, ViewInv, NEW t \in Tabs, View!Store(t) PROVE Requesting(t)
<1>1. /\ cache' = [cache EXCEPT ![View!Query(t)] = [at |-> tab[t].began, value |-> tab[t].value]]
      /\ tab[t].pc = "store" /\ View!Got(t, tab[t].value) /\ UNCHANGED <<clock, past, settled>>
  BY DEF View!Store
<1>2. /\ View!Query(t) \in View!Queries /\ Dated(tab[t].began, tab[t].value)
      /\ tab[t].began \in Nat /\ tab[t].value \in Answers
  BY <1>1, AskedQueries DEF ViewInv, Dates, Requests
<1> QED
  BY <1>1, <1>2, GotRequest DEF Requesting, ViewInv

LEMMA HitRequests == ASSUME ViewConstants, ViewInv, NEW t \in Tabs, View!Hit(t) PROVE Requesting(t)
  BY GotRequest DEF View!Hit, Requesting, ViewInv

LEMMA ChangesKeep ==
  ASSUME ViewInv, NEW answers \in BOOLEAN, View!Changes(answers)
  PROVE  ViewInv'
<1> DEFINE m == [at |-> clock, answers |-> answers]
<1>1. past' = Append(past, m) /\ UNCHANGED <<clock, cache, tab, settled>> /\ m.at = clock
  BY DEF View!Changes
<1>2. m \in Moments /\ past \in Seq(Moments) /\ Len(past) \in Nat
  BY DEF ViewInv, ViewShape, Moments
<1> HIDE DEF m
<1>3. \A s \in Nat, v \in Answers : Dated(s, v) => Dated(s, v)'
  BY <1>1, <1>2, StillDated DEF ViewInv
<1>4. ViewShape'
  <2>1. past' \in Seq(Moments) /\ Len(past') = Len(past) + 1 /\ past' # << >>
    BY <1>1, <1>2
  <2>2. \A i \in 1..Len(past') : past'[i].at <= clock
    <3>1. \A i \in 1..Len(past') : past'[i] = m \/ (i \in 1..Len(past) /\ past'[i] = past[i])
      BY <1>1, <1>2, <2>1
    <3>2. clock \in Nat
      BY DEF ViewInv, ViewShape
    <3>3. \A i \in 1..Len(past) : past[i].at <= clock
      BY DEF ViewInv, ViewShape
    <3>4. m.at <= clock
      BY <1>1, <3>2
    <3> QED
      BY <3>1, <3>3, <3>4
  <2>3. settled \in 1..Len(past')
    BY <1>2, <2>1 DEF ViewInv, ViewShape
  <2> QED
    BY <1>1, <2>1, <2>2, <2>3 DEF ViewInv, ViewShape
<1>5. ASSUME NEW q \in View!Queries, cache'[q] # View!Unset PROVE Dated(cache[q].at, cache[q].value)'
  <2>1. cache'[q] = cache[q] /\ cache[q].at \in Nat /\ cache[q].value \in Answers
    BY <1>1, <1>5 DEF ViewInv, ViewShape
  <2>2. Dated(cache[q].at, cache[q].value)
    BY <1>5, <2>1 DEF ViewInv, Dates
  <2>3. PICK s \in Nat, v \in Answers : s = cache[q].at /\ v = cache[q].value
    BY <2>1
  <2>4. Dated(s, v)'
    BY <1>3, <2>2, <2>3
  <2> QED
    BY <1>1, <2>3, <2>4 DEF Dated
<1>6. ASSUME NEW t \in Tabs, tab'[t].pc = "store" PROVE Dated(tab[t].began, tab[t].value)'
  <2>1. tab[t].began \in Nat /\ tab[t].value \in Answers
    BY DEF ViewInv, ViewShape, Requests
  <2>2. Dated(tab[t].began, tab[t].value)
    BY <1>1, <1>6 DEF ViewInv, Dates
  <2>3. PICK s \in Nat, v \in Answers : s = tab[t].began /\ v = tab[t].value
    BY <2>1
  <2>4. Dated(s, v)'
    BY <1>3, <2>2, <2>3
  <2> QED
    BY <1>1, <2>3, <2>4 DEF Dated
<1> QED
  BY <1>1, <1>4, <1>5, <1>6 DEF ViewInv, Dates

LEMMA TickKeeps == ASSUME ViewInv, View!Tick PROVE ViewInv'
<1>1. /\ clock' = clock + 1 /\ clock \in Nat /\ UNCHANGED <<past, tab, settled>>
      /\ cache' = [q \in View!Queries |-> IF View!Kept(q, clock + 1) THEN cache[q] ELSE View!Unset]
  BY DEF View!Tick, ViewInv, ViewShape
<1>2. \A q \in View!Queries : cache'[q] = cache[q] \/ cache'[q] = View!Unset
  BY <1>1
<1>3. ViewShape'
  <2>1. \A i \in 1..Len(past) : past[i].at \in Nat
    <3>1. \A i \in 1..Len(past) : past[i] \in Moments
      BY DEF ViewInv, ViewShape
    <3> QED
      BY <3>1 DEF Moments
  <2>2. \A i \in 1..Len(past) : past[i].at <= clock + 1
    BY <1>1, <2>1 DEF ViewInv, ViewShape
  <2> QED
    BY <1>1, <1>2, <2>2 DEF ViewInv, ViewShape
<1>4. \A s \in Nat, v \in Answers : Dated(s, v) => Dated(s, v)'
  BY <1>1 DEF Dated
<1>5. ASSUME NEW q \in View!Queries, cache'[q] # View!Unset PROVE Dated(cache[q].at, cache[q].value)'
  <2>1. cache'[q] = cache[q] /\ cache[q].at \in Nat /\ cache[q].value \in Answers
    BY <1>2, <1>5 DEF ViewInv, ViewShape
  <2>2. Dated(cache[q].at, cache[q].value)
    BY <1>5, <2>1 DEF ViewInv, Dates
  <2> QED
    BY <1>1, <2>1, <2>2 DEF Dated
<1>6. ASSUME NEW t \in Tabs
      PROVE  /\ tab'[t].pc = "store" => Dated(tab[t].began, tab[t].value)'
             /\ tab'[t].pc = "ask" => tab'[t].began <= clock'
  <2>1. tab[t].began \in Nat
    BY DEF ViewInv, ViewShape, Requests
  <2> QED
    BY <1>1, <2>1 DEF ViewInv, Dates, Dated
<1> QED
  BY <1>3, <1>5, <1>6 DEF ViewInv, Dates

LEMMA ReturnKeeps == ASSUME ViewInv, View!Return PROVE ViewInv'
<1>1. /\ settled' = Len(past) /\ UNCHANGED <<clock, past>> /\ cache' = [q \in View!Queries |-> View!Unset]
      /\ tab' = [t \in Tabs |-> [tab[t] EXCEPT !.value.late = @ \/ tab[t].pc = "store"]]
  BY DEF View!Return, View!Done
<1>2. Len(past) \in Nat /\ Len(past) \in 1..Len(past)
  BY DEF ViewInv, ViewShape
<1>3. ASSUME NEW r \in Requests
      PROVE  LET m == [r EXCEPT !.value.late = @ \/ r.pc = "store"]
             IN  /\ m \in Requests /\ m.pc = r.pc /\ m.next = r.next /\ m.began = r.began
                 /\ m.value.moment = r.value.moment /\ (r.pc = "store" => m.value.late)
  BY DEF Requests, Answers
<1>4. ASSUME NEW t \in Tabs
      PROVE  /\ tab'[t] \in Requests /\ tab'[t].pc = tab[t].pc /\ tab'[t].next = tab[t].next
             /\ tab'[t].began = tab[t].began /\ tab'[t].value.moment = tab[t].value.moment
             /\ (tab[t].pc = "store" => tab'[t].value.late)
  <2>1. tab[t] \in Requests /\ tab'[t] = [tab[t] EXCEPT !.value.late = @ \/ tab[t].pc = "store"]
    BY <1>1 DEF ViewInv, ViewShape
  <2> QED
    BY <1>3, <2>1
<1>5. tab' \in [Tabs -> Requests]
  BY <1>1, <1>4
<1>6. ViewShape'
  BY <1>1, <1>2, <1>4, <1>5 DEF ViewInv, ViewShape
<1>7. ASSUME NEW t \in Tabs
      PROVE  /\ tab'[t].pc = "store" => Dated(tab[t].began, tab[t].value)'
             /\ tab'[t].pc = "ask" => tab'[t].began <= clock'
  BY <1>1, <1>4 DEF ViewInv, Dates, Dated
<1> QED
  BY <1>1, <1>6, <1>7 DEF ViewInv, Dates

LEMMA ViewStep == ASSUME ViewConstants, ViewInv, [Next]_vars PROVE ViewInv'
<1>1. CASE UNCHANGED viewVars
  <2>1. \A s, v : Dated(s, v)' <=> Dated(s, v)
    BY <1>1 DEF Dated, viewVars
  <2>2. ViewShape'
    BY <1>1 DEF ViewInv, ViewShape, viewVars
  <2>3. Dates'
    BY <1>1 DEF ViewInv, Dates, Dated, viewVars
  <2> QED
    BY <2>2, <2>3 DEF ViewInv
<1>2. CASE View!Next
  <2>1. ASSUME NEW t \in Tabs, View!Poll(t) \/ View!Hit(t) \/ View!Miss(t) \/ View!Ask(t) \/ View!Store(t)
        PROVE  ViewInv'
    BY <2>1, PollRequests, HitRequests, MissRequests, AskRequests, StoreRequests, RequestingKeeps
  <2>2. CASE View!Act
    <3>1. UNCHANGED <<clock, past, cache, tab, settled>>
      BY <2>2 DEF View!Act
    <3>2. ViewShape'
      BY <3>1 DEF ViewInv, ViewShape
    <3>3. Dates'
      BY <3>1 DEF ViewInv, Dates, Dated
    <3> QED
      BY <3>2, <3>3 DEF ViewInv
  <2>3. CASE View!Change \/ View!DaemonStops \/ View!DaemonStarts
    BY <2>3, ChangesKeep DEF View!Change, View!DaemonStops, View!DaemonStarts
  <2> QED
    BY <1>2, <2>1, <2>2, <2>3, TickKeeps, ReturnKeeps DEF View!Next
<1> QED
  BY <1>1, <1>2 DEF Next, Workspaces, Accounting, Seeding, Searching, Looking, Setting, vars

\* List and panel agree: where the first instance has a container both look at it, and
\* where it has none the panel has found none at all.
LEMMA RowsAgree == ASSUME ViewConstants PROVE View!RowIsThePanels
<1> SUFFICES ASSUME NEW box \in View!Boxes,
                    View!rc_status_by_project(box) # "none" \/ View!rc_status(box) = "none"
             PROVE  View!list_repros(box) = View!detail(box)
  BY DEF View!RowIsThePanels
<1> DEFINE made_ == {i \in DOMAIN Instances : box[Instances[i]] # "none"}
           first == CHOOSE i \in made_ : \A j \in made_ : i <= j
<1>1. DOMAIN Instances = 1..Len(Instances) /\ Len(Instances) \in Nat /\ 1 \in DOMAIN Instances
  BY DEF ViewConstants
<1>2. View!rc_status(box) = IF made_ = {} THEN "none" ELSE box[Instances[first]]
  BY DEF View!rc_status
<1>3. CASE box[Instances[1]] # "none"
  <2>1. 1 \in made_ /\ \A j \in made_ : 1 <= j
    BY <1>1, <1>3
  <2>2. \A i \in made_ : (\A j \in made_ : i <= j) => i = 1
    BY <1>1, <2>1
  <2>3. first = 1
    BY <2>1, <2>2
  <2>4. View!rc_status(box) = View!rc_status_by_project(box)
    BY <1>2, <2>1, <2>3 DEF View!rc_status_by_project
  <2> QED
    BY <2>4 DEF View!list_repros, View!detail
<1>4. CASE box[Instances[1]] = "none"
  BY <1>4 DEF View!rc_status_by_project, View!list_repros, View!detail
<1> QED
  BY <1>3, <1>4

LEMMA ViewInvSuffices == ASSUME ViewConstants, ViewInv PROVE ViewsAreHonest
<1>1. ASSUME NEW q \in View!Queries, View!Fresh(q) PROVE View!Young(q) /\ View!AfterTheAction(q)
  <2>1. /\ cache[q] # View!Unset /\ clock - cache[q].at < View!Ttl(q)
    BY <1>1 DEF View!Fresh, View!Kept
  <2>2. /\ Dated(cache[q].at, cache[q].value) /\ cache[q].at \in Nat /\ cache[q].value.moment \in Nat
        /\ clock \in Nat /\ View!Ttl(q) \in Int /\ Len(past) \in Nat
    BY <2>1 DEF ViewInv, ViewShape, Dates, Answers, ViewConstants, View!Ttl
  <2>3. View!AfterTheAction(q)
    BY <2>2 DEF View!AfterTheAction, Dated
  <2>4. ASSUME cache[q].value.moment < Len(past)
        PROVE  past[cache[q].value.moment + 1].at + View!Ttl(q) > clock
    <3>1. cache[q].value.moment + 1 \in 1..Len(past)
      BY <2>2, <2>4
    <3>2. past[cache[q].value.moment + 1] \in Moments
      BY <3>1 DEF ViewInv, ViewShape
    <3>3. past[cache[q].value.moment + 1].at \in Nat
      BY <3>2 DEF Moments
    <3>4. cache[q].at <= past[cache[q].value.moment + 1].at
      BY <2>2, <2>4 DEF Dated
    <3> QED
      BY <2>1, <2>2, <3>3, <3>4
  <2> QED
    BY <2>3, <2>4 DEF View!Young
<1> QED
  BY <1>1, RowsAgree DEF ViewsAreHonest, View!ViewsAreHonest

\* The console shows nothing older than its cache may be, shows what it has done once
\* that is done, and its list agrees with its panel (runner.py: _cached_query,
\* _mutating; lifecycle.py: list_repros, detail), for any times to live, requests and
\* instances and any number of changes of docker.
THEOREM ViewsAreTrue == Spec => []ViewsAreHonest
<1>1. Init => ViewInv
  BY HostConstants, ViewInit
<1>2. ViewInv /\ [Next]_vars => ViewInv'
  BY HostConstants, ViewStep
<1>3. ViewInv => ViewsAreHonest
  BY HostConstants, ViewInvSuffices
<1> QED
  BY <1>1, <1>2, <1>3, PTL DEF Spec
=============================================================================
